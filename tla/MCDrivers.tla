----------------------------- MODULE MCDrivers ------------------------------
(***************************************************************************)
(* The smaller drivers, each model checked on its own: in every behaviour  *)
(* one of them runs, and the others keep one of their initial states.      *)
(***************************************************************************)
EXTENDS Drivers, TLC

CONSTANTS p1, p2, p3, p4, f1, f2, s1, s2, s3

VARIABLES running

Names == {"single", "usb", "blocks", "mods", "short", "study", "fifo", "tty", "disk", "deferred",
            "priv"}

\* A driver that does not run has one initial state, or we would check the product.
SumInit == /\ running \in Names
           /\ Init /\ Usb!Init /\ Tty!TtyInit
           /\ Blocks!Init         /\ (running = "blocks"   \/ (driver = "c" /\ param = 1))
           /\ Mods!Init           /\ (running = "mods"     \/ mod = "scull")
           /\ Irq!ShortInit       /\ (running = "short"    \/ mode = "direct")
           /\ Study!StudyInit     /\ (running = "study"    \/ (study = "scull" /\ x_geo = [q |-> 2, n |-> 1]))
           /\ Fifo!FifoInit       /\ (running = "fifo"     \/ kind = "fifo")
           /\ Disk!SbullInit      /\ (running = "disk"     \/ request_mode = "simple")
           /\ Def!DeferredInit    /\ (running = "deferred" \/ way = "jit")
           /\ Priv!PrivInit       /\ (running = "priv"     \/ (smp /\ tty = [p \in Callers |-> Null]))

Only(d) == /\ running = d /\ UNCHANGED running
           /\ IF d = "single"   THEN TRUE ELSE UNCHANGED vars
           /\ IF d = "usb"      THEN TRUE ELSE UNCHANGED usb_vars
           /\ IF d = "blocks"   THEN TRUE ELSE UNCHANGED blocks_vars
           /\ IF d = "mods"     THEN TRUE ELSE UNCHANGED mods_vars
           /\ IF d = "short"    THEN TRUE ELSE UNCHANGED short_vars
           /\ IF d = "study"    THEN TRUE ELSE UNCHANGED study_vars
           /\ IF d = "fifo"     THEN TRUE ELSE UNCHANGED fifo_vars
           /\ IF d = "tty"      THEN TRUE ELSE UNCHANGED tty_vars
           /\ IF d = "disk"     THEN TRUE ELSE UNCHANGED disk_vars
           /\ IF d = "deferred" THEN TRUE ELSE UNCHANGED deferred_vars
           /\ IF d = "priv"     THEN TRUE ELSE UNCHANGED priv_vars

SumNext == \/ Only("single")   /\ Next
           \/ Only("usb")      /\ Usb!Next
           \/ Only("blocks")   /\ Blocks!Next
           \/ Only("mods")     /\ Mods!Next
           \/ Only("short")    /\ Irq!ShortNext
           \/ Only("study")    /\ Study!StudyNext
           \/ Only("fifo")     /\ Fifo!FifoNext
           \/ Only("tty")      /\ Tty!TtyNext
           \/ Only("disk")     /\ Disk!SbullNext
           \/ Only("deferred") /\ Def!DeferredNext
           \/ Only("priv")     /\ Priv!PrivNext

SumSpec == SumInit /\ [][SumNext]_<<running, vars, usb_vars, blocks_vars, mods_vars, short_vars,
                                    study_vars, fifo_vars, tty_vars, disk_vars, deferred_vars,
                                    priv_vars>>

\* Where a driver's property claims nothing any more, it is not followed any further.
NotSpoilt == /\ plain /\ excuse \subseteq {"overlap", "lapped"} /\ spoilt \subseteq {"missed"}
             /\ accident = {} /\ ~uneven /\ wrong = {} /\ broken = {}

\* Bound: the second reader stays outside once a handler has run beside the bottom half;
\* and the last interrupt, which may lap the array of times, comes to a bottom half that
\* no handler has overlapped, and while one reader at most reads, without a sleep.
FewLate ==
  /\ "overlap" \in excuse => r_pc[p2] = "idle"
  /\ irqs = MaxIrq => /\ mode = "halves" /\ "overlap" \notin excuse
                      /\ r_pc[p1] \in {"idle", "ready", "copied"} /\ r_pc[p2] = "idle"
=============================================================================
