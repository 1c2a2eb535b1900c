------------------------------ MODULE Drivers -------------------------------
(***************************************************************************)
(* The smaller drivers side by side, each under a name of its own: nothing *)
(* but these declarations and the properties relates them.  MCDrivers runs *)
(* one of them at a time, the proofs are about each alone.                 *)
(***************************************************************************)
EXTENDS ScullSingle

CONSTANTS Null,
          Files, Skels,                   \* UsbSkel
          Callers,                        \* ScullBlocks, Deferred, ScullPriv
          Mappers, Quanta, Qset, MaxPos,  \* ScullBlocks
          Readers, PageSize, NrTv, MaxIrq, \* Short
          MaxStudied, MaxCount,           \* ScullStudies
          Users, Cap, MaxSent,            \* Fifos
          Openers, Ports,                 \* TinyTty
          Disks, Sectors,                 \* Sbull
          Lines,                          \* Deferred
          Ttys                            \* ScullPriv

\* There are finitely many files, and kmalloc gives a null pointer only when it fails.
ASSUME FilesAssumption == IsFiniteSet(Files) /\ Null \notin Skels
ASSUME PortsAssumption == IsFiniteSet(Openers) /\ Null \notin Ports
\* "nobody" is nobody's name.
ASSUME DisksAssumption == IsFiniteSet(Disks) /\ "nobody" \notin Disks /\ Sectors \in Nat \ {0}
\* A page holds more than one record, each of two units.
ASSUME PageAssumption == PageSize \in Nat /\ PageSize % 2 = 0 /\ PageSize > 2
\* The array of times has room for one.
ASSUME TimesAssumption == NrTv \in Nat \ {0}
\* A quantum that is allocated has a size, and an item holds one at least.
ASSUME QuantaAssumption == Quanta \subseteq Nat \ {0} /\ Qset \in Nat \ {0} /\ MaxPos \in Nat
\* The bounds of the studied devices are numbers.
ASSUME StudiedAssumption == MaxStudied \in Nat /\ MaxCount \in Nat
\* A FIFO holds a byte at least.
ASSUME CapAssumption == Cap \in Nat \ {0}
\* A job prints a line at least.
ASSUME LinesAssumption == Lines \in Nat \ {0}

VARIABLES live, kref, intfdata, minor, bkl, hub, dev, at, f_dev, urb, buf, flight, memory, oops,
          driver, param, cache, quantum, size, list, vmas, b_pc, pos, geo, reg, pte, queued,
          plain, fault,
          mod, phase, step, todo, held, bad, undone,
          mode, latch, line, irqs, head, tail, page, tv, tv_head, tv_tail, count, pending,
          h_pc, bh_pc, saved, r_pc, took, sent, got, excuse,
          study, x_geo, x_param, csize, items, x_size, file, wrong, up,
          kind, opened, buff, mutex, cell, r_ptr, w_ptr, f_size, at_op, moved, written, taken, spoilt,
          table, made, driver_data, open_count, timer, firing, o_pc, o_tiny, accident,
          request_mode, bd_sem, dev_lock, users, media_change, b_timer, invalidating, data,
          content, d_pc, insane, uneven,
          way, c_pc, job, loops, job_owner, job_live, touched, cause,
          smp, tty, scull_c_list, scull_c_lock, p_pc, key, p_wronly, private_data, broken

usb_vars == <<live, kref, intfdata, minor, bkl, hub, dev, at, f_dev, urb, buf, flight, memory, oops>>
Usb == INSTANCE UsbSkel WITH None <- Null

blocks_vars == <<driver, param, cache, quantum, size, list, vmas, b_pc, pos, geo, reg, pte,
                 queued, plain, fault>>
Blocks == INSTANCE ScullBlocks WITH
  Procs <- Callers, Drivers <- {"c", "p", "v", "d"}, pc <- b_pc

mods_vars == <<mod, phase, step, todo, held, bad, undone>>
Mods == INSTANCE ModuleInit

short_vars == <<mode, latch, line, irqs, head, tail, page, tv, tv_head, tv_tail, count, pending,
                h_pc, bh_pc, saved, r_pc, took, sent, got, excuse>>
Irq == INSTANCE Short WITH Size <- PageSize

study_vars == <<study, x_geo, x_param, csize, items, x_size, file, wrong, up>>
Study == INSTANCE ScullStudies WITH
  MaxPos <- MaxStudied, geo <- x_geo, param <- x_param, size <- x_size

fifo_vars == <<kind, opened, buff, mutex, cell, r_ptr, w_ptr, f_size, at_op, moved, written,
               taken, spoilt>>
Fifo == INSTANCE Fifos WITH lock <- mutex, size <- f_size

tty_vars == <<table, made, driver_data, open_count, timer, firing, o_pc, o_tiny, accident>>
Tty == INSTANCE TinyTty WITH None <- Null, spoilt <- accident

disk_vars == <<request_mode, bd_sem, dev_lock, users, media_change, b_timer, invalidating, data,
               content, d_pc, insane, uneven>>
Disk == INSTANCE Sbull

deferred_vars == <<way, c_pc, job, loops, job_owner, job_live, touched, cause>>
Def == INSTANCE Deferred WITH All <- Null, owner <- job_owner, live <- job_live

priv_vars == <<smp, tty, scull_c_list, scull_c_lock, p_pc, key, p_wronly, private_data, broken>>
Priv == INSTANCE ScullPriv WITH Openers <- Callers, NoTty <- Null, wronly <- p_wronly

-----------------------------------------------------------------------------
\* UsbSkel: see Lifetimes there.
UsbLifetimes == Usb!Lifetimes

\* ScullBlocks: see WithinBlocks and MappedIsCurrent there.
BlocksWithin == Blocks!WithinBlocks
BlocksMapped == Blocks!MappedIsCurrent

\* ModuleInit: see Balanced and EntriesReady there.
ModsBalanced == Mods!Balanced
ModsReady    == Mods!EntriesReady

\* Short: see ReaderWoken and OnceInOrder there.
ShortWoken   == Irq!ReaderWoken
ShortInOrder == Irq!OnceInOrder

\* ScullStudies: see KeptAsWritten there.
StudiesKept == Study!KeptAsWritten

\* Fifos: see FifosKept there.
FifosHold == Fifo!FifosKept

\* TinyTty: see TimerWhileOpen there.
TtyTimer == Tty!TimerWhileOpen

\* Sbull: see MediaSound there.
DiskSound == Disk!MediaSound

\* Deferred: see GivenBackLeftAlone there.
DeferredSafe == Def!GivenBackLeftAlone

\* ScullPriv: see PrivateClones there.
PrivHolds == Priv!PrivateClones
=============================================================================
