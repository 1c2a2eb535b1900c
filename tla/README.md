# TLA+ models of the Linux driver study repository

This directory holds a model, in TLA+, of the drivers in `src/`: the example
drivers of *Linux Device Drivers, 3rd edition* (`src/Book`) and the exercises
written after them (`src/exercise`, `src/old`, `src/ITOP-4412`).  TLC checks
small instances, TLAPS proves theorems for every value of the constants.

Run `tlc -config MCX_y.cfg MCX` for a run, `tlapm XProofs.tla` for the proofs.
`PROJECT.json` lists components, runs, mutants, findings, hazards and the source
lines each definition stands for.

## Inventory

The repository is a collection of kernel modules that share no code at run time
(except within `Book/scull`).  Each is driven by processes making system calls,
and some by interrupts, timers, tasklets and work queues.

| Component | State | Operations | What is hard |
|---|---|---|---|
| scull pipe, `Book/scull/pipe.c` | circular buffer (`buffer`, `buffersize`, `rp`, `wp`), counts of readers and writers, semaphore, two wait queues, fasync list | open, release, read, write (`scull_getwritespace`), poll, fasync, ioctl `SCULL_P_IOCTSIZE` | sleeping while conditions change, reset of a pipe in use, size changed by another device's ioctl |
| access-controlled scull, `Book/scull/access.c` | `scull_s_available`; count and owner of the uid and wuid devices; list of clones per tty | open and release of four devices | atomics taken back on failure, blocking open, list built under a spinlock, trim without the semaphore |
| bare scull, `Book/scull/main.c` | list of quantum sets, size, quantum, qset, semaphore; global `scull_quantum`, `scull_qset` | open (trim), read, write, llseek, ioctl, init, cleanup | quantum and qset read before the semaphore is taken, partial allocation, cleanup after a failed init |
| snull, `Book/snull/snull.c` | two interfaces: packet pool, receive list, status word, interrupt enable, transmit queue state | transmit, interrupt (regular and NAPI), poll, timeout, open, release | pool and queue state checked outside the lock, status word lost or overwritten, interrupts off with packets waiting |
| shortprint, `Book/shortprint/shortprint.c` | output ring, `shortp_output_active`, timer, work item, semaphore, lock | write, release, read, work function, interrupt, timeout | three contexts share the ring; timer armed in several places |
| short, `Book/short/short.c` | text ring, `tv_data` ring, counters | read, three kinds of interrupt handler, bottom halves, irq probing | two rings with no full test, a bottom half that runs with nothing to do |
| tiny_tty, `Book/tty/tiny_tty.c`, `tiny_serial.c` | table of ports, `open_count`, timer, semaphore | open, close, write, timer, ioctl, exit | timer that re-adds itself against `del_timer`, first-open race, count kept on failure |
| usb-skeleton, `Book/usb/usb-skeleton.c` | kref, interface data, urbs in flight | probe, open, release, read, write, callback, disconnect | last reference dropped by any of four parties |
| sbull, `Book/sbull/sbull.c` | users, media_change, timer, data | open, release, media_changed, revalidate, requests, ioctl | invalidate timer against open, partial transfers |
| scullc, scullp, scullv, sculld | as scull, with a cache, pages, vmalloc; `vmas`; deferred aio | as scull, mmap, nopage, aio | trim against mappings, asynchronous completion |
| lddbus, `Book/lddbus` | bus, drivers, devices | register, unregister, match | life time of device-model objects |
| misc-modules | one flag, one completion, a print buffer, ... | read, write, timers, tasklets, work queues | `sleepy`'s flag, `jiq`'s sleep |
| exercise drivers | rewrites of scull, pipe, cache and page devices, `jit`, a GPIO driver, short, silly, faulty | as the originals | semaphore released twice, wrong wrap test, sleep without a recheck |
| old drivers | `globalfifo`: array, length, mutex, two wait queues; `second`: timer and counter | open, read, write, poll, ioctl | state set to sleeping after the unlock |
| ITOP-4412 drivers | LEDs, keys, beeper, GPIO mappings | open, ioctl, write | pure register access |
| user programs, `Book/misc-progs` and tests | none | | only exercise the drivers |

What each component has to get right, and so what its module is to state:

- *scull pipe*: the semaphore is held by one process and always given back;
  the pointers stay in the buffer and a transfer never overtakes the other end;
  bytes come out in the order they went in; nobody sleeps through what it waits
  for; the buffer lives exactly as long as somebody has the pipe open.
- *bare scull*: a device is a file, whatever allocations and copies fail, and
  whatever the geometry it is given; no access goes past a quantum or an array, as
  long as no process changes the geometry while another one waits for the device.
- *access control*: exclusion by process or by user, counters that come back,
  waiters that are woken, one clone per terminal.
- *shortprint*: every byte is printed once, in order, to a printer that is ready
  for it; the output does not stall when interrupts get lost.
- *snull*: packets are conserved (each is in one pool, one queue or one caller),
  a stopped queue is started again, received packets do not get stuck.
- *short*: the text ring is read in order, interrupts are neither lost from the
  count nor reported twice.
- *tiny_tty*, *sbull*: a timer is pending only while it should be, and counts
  match the users.
- *usb-skeleton*: every URB and buffer is freed once, the device after its last
  user.
- *scullc and its kin*: as bare scull, and memory that is mapped is not freed.
- *module initialisation*: a failure at any step undoes exactly what was done.
- *globalfifo* and the exercises: as their originals.

## Modules

| Module | Code | Role |
|---|---|---|
| `PipeFifo` | what `pipe.c` promises | abstract: a bounded queue that opens may empty |
| `ScullPipe` | `Book/scull/pipe.c` | detailed; implements `PipeFifo` under the mapping `Fifo` |
| `ScullPipeProofs`, `ScullPipeFifoProofs` | | theorems about `ScullPipe`, and that it implements `PipeFifo` |
| `FlatFile` | what `main.c` promises | abstract: a file of bytes |
| `ScullMem`, `ScullMemProofs` | `Book/scull/main.c` | detailed; implements `FlatFile` under the mapping `File`; theorems about its arrays, and that it implements `FlatFile` |
| `ScullSingle` | `Book/scull/access.c` 49-94 | the device one process may open |
| `ScullUid`, `ScullUidProofs` | `Book/scull/access.c` 96-221 | the devices one user may open, and their theorems |
| `ScullPriv` | `Book/scull/access.c` 225-321 | one clone of the device for each terminal |
| `ShortPrint`, `ShortPrintProofs` | `Book/shortprint/shortprint.c`, output side | writers, work item, interrupt, timer and printer, and their theorems |
| `Snull`, `SnullProofs` | `Book/snull/snull.c` | two interfaces that feed each other, both receive modes, and their theorems |
| `UsbSkel` | `Book/usb/usb-skeleton.c` | references and URBs of a device pulled out while in use |
| `ScullBlocks` | `Book/scullc`, `scullp`, `scullv`, `sculld` | sizes of blocks, mappings, asynchronous calls |
| `ScullStudies` | `exercise/scull`, `scull_cache`, `scull_page` | the rewritten memory devices, as files |
| `Fifos` | `old/globalfifo`, `exercise/scullpip` | two FIFOs with their own ways to sleep |
| `Short` | `Book/short/short.c` | four interrupt handlers, two bottom halves, the ring and its readers |
| `TinyTty` | `Book/tty/tiny_tty.c` | opens, closes and the timer |
| `Sbull` | `Book/sbull/sbull.c` | the media change and the three request modes |
| `Deferred` | `Book/misc-modules/jiq.c`, `jit.c`, `exercise/jit/jit.c` | readers that sleep until a timer, tasklet or work has filled their page |
| `ModuleInit` | the init, exit, probe and remove functions of 45 modules | loading with a failure at each step, and unloading |
| `Drivers` | | `ScullSingle`, `ScullPriv` and the modules from `UsbSkel` to `ModuleInit`, instantiated beside each other, with their properties |
| `DriversProofs` | | theorems about `ScullSingle`, `UsbSkel`, `TinyTty`, `ScullPriv`, `Sbull`, `ScullBlocks` and `ScullStudies` |
| `SleepersProofs` | | theorems about `Deferred`, `Short` and `Fifos`, whose processes sleep until somebody has worked for them |
| `MCDrivers` | | runs the drivers of `Drivers`, one in each behaviour |
| other `MC*` | | values of the constants for TLC |

No two of these drivers call each other, except that the files of `Book/scull`
make one module (`ModuleInit` loads it as one) and that the access devices use
`ScullMem`'s reads and writes.  `Drivers` only gives each module its own
variables, and `MCDrivers` composes them by choice and not in parallel: `running` names the driver that runs, and the
variables of the others keep an initial value.

In every module `pc[p]` is the statement the process `p` is about to execute;
`"closed"` or `"user"` is outside the driver.  The names of variables and of most
operators are those of the source.  A definition whose name is another one's
with a suffix (`Grab_Always`, `Trim_KeepSize`) is a deliberate mistake in it;
PROJECT.json pairs each with the property it breaks.

### ScullPipe

State: the fields of `struct scull_pipe` (pointers as offsets from
`dev->buffer`; `alloc` is the length really allocated), the module parameter
`scull_p_buffer`, the two wait queues as the sets of processes queued and not
woken, and each process's open file and call in progress.  `down` and `up` are
actions.  Between them the code is split into the statements that somebody
outside the semaphore can tell apart: the wait conditions read `rp` and `wp`
without it, and `SCULL_P_IOCTSIZE` stores `scull_p_buffer` without it.

- open: `BeginOpen`, `OpenDown`, `OpenAlloc` or `OpenNoMem`, `OpenReset`
  (stores of buffersize, end, rp, wp and the counts, then `up`; the reader of a
  wait condition that runs in the middle sees either end of the action).
- release: `BeginRelease` (leaves the fasync list), `ReleaseDown`, `Release`.
- read: `ReadDown`, then `ReadEmpty` (up, EAGAIN), `ReadPrepare`, `ReadTest`,
  `ReadWoken` for `wait_event_interruptible`, or `ReadCopy`, `ReadAdvance`,
  `ReadWrap`, `ReadWake`.  write the same with `scull_getwritespace`.
- poll, `scull_p_fasync` and the ioctl: `Poll*`, `SetAsync`, `SetSize`.

Abstractions: the first test of `wait_event_interruptible`, before the process
queues itself, is left out (it can only save a sleep); `poll` has no timeout;
`scull_p_buffer` is positive; a copy to or from user space may fail at any time;
whether -ERESTARTSYS restarts the call is up to the process.

### ScullMem

State: `struct scull_dev` with the list as a sequence of items, an item as an
array of quanta and a quantum as an array of bytes; the two module parameters; and
the file position, mode and call of each process.  A critical section is one
action, since nothing outside the semaphore looks at the list; but `quantum` and
`qset` are read before the semaphore is taken, at `Begin`, and the action uses
those copies.  `ReadNothing`, `ReadBytes`, `WriteNoMem`, `WriteBytes`, `Llseek`,
`IoctlSet`, `Open` (with `Trim` for O_WRONLY) and `Release` are the operations.
An allocation that fails leaves the list as far as it was extended; a copy from
user space that fails leaves any prefix of its bytes in the quantum.  An access
that would leave an array, or a division by zero, sets `fault`, and the device
stops: what the kernel does next is undefined.  Each process has its own open
file; offsets above `MaxPos` are not used; integers are unbounded.

### ScullSingle, ScullUid and ScullPriv

`ScullSingle` is the counter: `OpenTest` is `atomic_dec_and_test`, `OpenBusy`
the `atomic_inc` of an open that fails, and other processes act in between.
`ScullUid` is both `sculluid` and `scullwuid`, told apart by `Waits`.  The
section under `scull_w_lock` is one action (`OpenGrab`, `OpenRefused`,
`Release`); the condition that `wait_event_interruptible` evaluates without the
lock is two reads (`WaitCount`, `WaitOwner`); the wake-up of the last release
comes in an action of its own, after the unlock.  The data underneath is
`ScullMem`'s: here a read or write only holds `dev->sem`, and the trim of an
open does not.  In `ScullPriv` a clone is known by its place in the list of
keys.  `OpenKey` is the second look at `current->signal->tty`; `OpenLookup` is the
search under the lock, and `OpenCreate` what follows a `kmalloc` that may have
slept, with the lock held, or with no lock at all on one processor.

### ShortPrint

A byte is the number, modulo `Numbers`, of its place in the stream, so that the
order of bytes is visible.  The writer's `shortp_out_space` is two reads of the
tail, `Compare` and `Contiguous`, between which the work function may run.  What
runs under `shortp_out_lock` is one action: `WriteStart`, `WorkEmpty`,
`WorkByte`, `TimeoutReset`, `TimeoutDropped`.  The interrupt and the timeout
test the active flag first and queue the work in a later action.  The printer
turns busy with each byte and ready again (`PrinterDone`), and its interrupt may
get lost.  The input side (time stamps for readers) is not modelled.

### Snull

A packet is a pair of its interface and a number.  The contexts are one
transmitter and one poll for each interface, with what each holds in `hand`; a
transmission runs through `snull_hw_tx` into the interrupt handler of the twin
and then its own.  A section under `priv->lock` is one action, but the handlers
are not: the status word they read is written by others without the lock.
`snull_tx_timeout` is the watchdog.  Addresses, headers and statistics are left
out.  `oops` stops a behaviour in which the kernel follows a null pointer or
frees an skb twice.

### UsbSkel and ScullBlocks

`UsbSkel` has a structure for every plug-in of the device, `live` until its
`kref` is 0.  The hub thread's probe and disconnect, and each file's open, write
and release, are split where they take or drop the big kernel lock or a
reference; URBs complete at any time, after a close too.

`ScullBlocks` keeps the size of each block and not its bytes.  One set of
operators takes the driver's allocator and geometry as state, and each driver
has its own actions (`scullc_write`, `scullp_write`, ...), which map to its own
source lines.  `vmas` is changed without the semaphore, `pte` is what a process
has mapped, and a deferred asynchronous call runs later.  Sizes are in pages.

### ModuleInit

A module is data: a sequence of steps (the resource a step obtains, what its
failure gives back, whether it is tested), what the exit function gives back,
and which entry point uses which resource.  The actions run any of the 45 such
definitions: load, with any step failing; use; unload.  `bad` collects what was
given back without being held.

### Short, ScullStudies, Fifos, TinyTty, Sbull, Deferred

These drivers were written as exercises or as examples, and in part break what
they are meant to keep.  Each module has a history variable that names the
accidents the code can meet (`excuse`, `wrong`, `spoilt`, `uneven`, `cause`;
in `ScullPriv`, `broken`), set by the action that meets one.  The property says what
holds as long as none has happened, and that those named are the only ones.
What each accident is, and where, is under *Findings*.

- `Short`: handler, bottom half and readers run on different processors, so an
  action is what one of them does between two accesses to shared state.  `mode`
  is the handler chosen at load time: `direct` prints itself, `shared` does for
  a shared line, `halves` leaves it to a tasklet or a work.
- `ScullStudies`: a call is one action, as all of it runs under the semaphore;
  allocations and user copies fail where they can.  `file` is what the writes
  should have left.
- `Fifos`: reads and writes mirror each other and share actions.  The steps of
  the sleep are the source's: unlock, set the state, schedule, lock again.
- `TinyTty`: the tty core keeps one `tty_struct` while a file is open, and calls
  `tiny_close` after an open that failed too; that is external.
- `Sbull`: the block layer takes `bd_sem` around open and release.  `Request`
  moves one bio in the way of its mode; `content` is what should be there.
- `Deferred`: a run of a work, tasklet or timer is one step, the wake-up at its
  end another, so that the reader may return in between.

## Runs

| Run | Shows | Bounds, and why they are enough |
|---|---|---|
| `pipe_wakeup` | no reader, writer or poller sleeps, unwoken, while what it waits for is there and nobody is about to wake it | three processes (two that compete for one wake-up, and the waker), a buffer that holds one byte, so that full and empty alternate |
| `pipe_fifo` | `ScullPipe` implements `PipeFifo` | two processes, two byte values, a ring of three with transfers of one and two, which wrap and are cut in every way |
| `pipe_files` | types, exclusion, pointers, life of the buffer | two processes, two sizes changed by ioctl at any time, every f_mode |
| `pipe_live` | the semaphore comes back and sleepers are woken, under fairness | two processes, one byte, blocking and non-blocking files |
| `mem_file` | `ScullMem` implements `FlatFile`; `ReadAllocatesNothing` | two processes, items of two quanta, offsets across the first item's end; fixed geometry |
| `mem_geometry` | `FlatFile` and no overrun with the geometry changed at any time | one process, quanta of 0, 1 and 2 bytes, arrays of 1 and 2; the system stops after a division by zero, so deadlock is not checked |
| `drivers` | fifteen properties of the modules that `MCDrivers` composes | see below; a behaviour is not followed past an accident (`NotSpoilt`), which the properties except, and after which they claim nothing |
| `uid_wait` | holders belong to the owner, no lost wake-up, waiters woken | a user, a second one after `su` to the first, and root with CAP_DAC_OVERRIDE, so that two may wait at once |
| `print` | order, no stall, wake-ups, no byte to a busy printer, every byte printed | a page of three bytes with writes of one and two that wrap; one writer, as `shortp_out_sem` lets one in at a time; the status bit ACK read as either value |
| `print_wake` | finding, see below | |
| `net` | packets are conserved, an interface that stays up hears, a stopped queue restarts | pools of one and of two packets, of which the first makes every transmit stop the queue; sn0 is asked for two transmits and sn1 for one; sn1 may be closed and opened; one late poll (`Cpus`); the system may end, so deadlock is not checked |
| `blocks_order` | finding, see below | one process, order 1 |

`Numbers`, `MaxPos` and the sets of sizes and lengths are the only bounds of the
runs of scull and shortprint.  Those of `drivers`:

- `ScullSingle`: four processes, so that several failing opens overlap.
- `ScullPriv`: two processes and two terminals, each process with a terminal that
  changes at any time; with one and with several processors.
- `UsbSkel`: two files, a device plugged in three times.
- `ScullBlocks`: two processes, of which one maps; quanta of one and two, so that
  both an order of zero and one are there; positions across the end of an item.
- `ModuleInit`: every step fails or not, any number of loads.
- `Short`: a page of three records, read by one or two units (half a record) at a
  time; two readers; an array of two times, and three interrupts, so that a handler
  may lap the array.  `FewLate` bounds what two readers then do: the third interrupt comes
  to a bottom half only, before a handler has overlapped one, and while the second
  reader is outside and the first does not sleep; and the second reader stays outside once
  a handler has overlapped.  What a handler does to sleepers and to a running bottom
  half, the first two interrupts do, and the theorems have no such bound.
- `ScullStudies`: positions 0 to 3 with calls of up to three bytes, two values;
  every geometry of quanta of one and two and arrays of one and two.
- `Fifos`: a buffer of two bytes, three bytes in all, so that it fills and wraps;
  three processes, the least in which one wakes a second that meets a third.
- `TinyTty`: three files, two structures.
- `Sbull`: two processes; three sectors, requests of one or two segments, the
  first of 1 to `Sectors`, the second of 0 to `Sectors` sectors, even and uneven.
- `Deferred`: two readers, two lines to a page.

### Fairness

Only what the kernel gives.  A process in the kernel that is not asleep runs:
`WF(Step(p))` in ScullPipe, `WF(Inside(p))` in ScullUid and ShortPrint; users
are never obliged to make a call, nor signals to come.  In ShortPrint the
workqueue thread, the interrupt handler and the timer function are fair too, a
pending timer fires and a busy printer gets ready.  A printer that is ready does
not show ACK at every timeout (`SF(TimeoutDropped)`), without which the driver
could take it for busy for ever.  No interrupt is promised.
The semaphore is not assumed to be fair to the process that waits for it, and no
liveness property needs that.

The modules that `MCDrivers` composes, `Snull` and `ScullMem` are checked for
safety only: no fairness is assumed there, and where one of them promises a
wake-up, the property says that somebody is about to give it.

### Findings

With a run that shows them:

- `print_wake`: the work function that empties the page computes the free space as
  0 modulo `PAGE_SIZE` and wakes nobody; a writer that has compared the old tail
  goes to sleep and nothing wakes it (`shortprint.c:346`).
- `blocks_order`: scullp, scullv and sculld allocate a quantum by the order of its
  item, which `follow` leaves zero, and cut the write by the device's order
  (`scullp/main.c:246`).

The rest was met while modelling; the model has the behaviour, and stating what
the code or its comment promises as an invariant gives the trace.

*scull.*  An open resets `rp` and `wp` and wakes nobody: a writer asleep for space
sleeps on in an empty pipe (`pipe.c:80`).  `dev->end` is not the end of the block
after `scull_p_buffer` has changed (`pipe.c:79`).  `scull_write` copies `qset`
before it waits for the semaphore, and may allocate an array of a length that is
not `dev->qset` any more (`main.c:344`), which a later write overruns.  A quantum of zero reaches a division
(`main.c:446`).  `llseek` reads the size without the semaphore (`main.c:546`).  An
open of scullsingle may return -EBUSY, "already open", while nobody has it open
(`access.c:56`).  `scull_trim` runs without the semaphore in `access.c:121` and
`293`.  In scullpriv the terminal may be gone between its test and its use
(`access.c:276`), and on one processor a second open of a terminal makes a second
clone while the first sleeps in `kmalloc` (`access.c:257`).

*shortprint.*  `shortp_timeout` adds a timer that `shortp_do_write` has armed while
it waited for the lock (`shortprint.c:392`).

*scullc and its kin.*  Two mappings may lose one increment of `vmas`, which no lock
protects (`scullp/mmap.c:37`), so that a trim frees what is mapped: the run has one
mapper, and the count is then right.

*snull.*  The queue may be found stopped, and the packet's successor null, after
the unlock, of a packet that is somebody else's by then (`snull.c:159`).  An
interface that is closed while packets wait has its receive interrupts off, and
stays deaf when it is opened again; so `NeverDeaf` is about those that stay up.
A poll that completes just before an interrupt enables what the handler disabled
(`snull.c:320`).  A status bit is lost when the handler's clearing and the other
CPU's setting meet, and the timeout overwrites the word (`snull.c:544`); the
interrupt of a transmission may then free an skb a second time.  A queue that
the watchdog restarts over an empty pool makes `snull_get_tx_buffer` follow a
null pointer (`snull.c:140`).

*usb-skeleton.*  The error path of the write follows `urb`, which is null when
there was no memory for it, and frees the buffer by `usb_buffer_free` and then by
`kfree` (`usb-skeleton.c:203`); the model stops there, with the reason in `oops`.

*Loading and unloading* (`Unbalanced`, `Early` in `ModuleInit`).  Not given back,
or given back without being held: scull's access devices, which are deleted though
they may never have been added (`main.c:680`); sculld's driver and devices, whose
failures are ignored; shortprint's work queue, unchecked and then destroyed;
skull's ports and mapping; tiny_tty's driver, without `put_tty_driver`; sbull's
major number, under another name, and data, freed twice; lddbus's bus; the GPIO
exercise's interrupt, freed though not had; the number region of scullpip; the
memory region of exercise/short with I/O memory, whose loading always fails; all of
exercise/silly when its cdev fails; globalfifo's region, with `ret` uninitialised; beep's pins, freed
twice, and its region; class_probe's structure, node and pins; led_gpl2's region.
Open too early, or closed too late: scullc's and scull_cache's devices before
their cache; shortprint's before its pages and work queue; silly's before its mapping; exercise/
silly's and exercise/short's, whose mapping and structure are not tested; class's driver, whose class
is not; class_probe's device, left open when its structure and pins are gone; scull's `/proc` files, removed after the
devices they show; each of snull's interfaces, which uses the other.

*short.*  The head may overrun a tail that no reader moves ("overrun",
`short.c:402`); two readers copy from the same tail ("twice", `short.c:286`); a
handler that runs beside the bottom half has it queued once more, and its
do-while then prints the whole array of times ("overlap", `short.c:407`).  Nor has
the array of times a test for full: a handler that comes before `NR_TIMEVAL` earlier
times are printed stores over the oldest ("lapped", `short.c:416`), and `tv_head`
then meets `tv_tail` with times still to print.
`sprintf` puts its final zero one byte past the page after the last record.
`do_short_write` keeps its buffer when the copy from user space fails.

*exercise/scull, scull_cache, scull_page.*  All but scull_cache test
`f_flags & O_ACCMODE == O_WRONLY`, which is never true: an open never truncates.
The ioctls of exercise/scull are in no `file_operations`.  scull_cache keeps its
semaphore when memory is short, moves the pointer to the array by `quan_pos`,
fills the same quantum twice when a write passes its end, shows what a cache object held
before, and after an ioctl that raises the quantum writes past the object; its
trim follows `next` of an item without data.  scull_page clips with a negative shift,
loses the second item, and reads an item that has no array.

*globalfifo.*  A write between the reader's unlock and its new state is missed
("missed", `globalfifo.c:56`).  *scullpip.*  The semaphore is given up twice
after the first open ("two inside", `scullpipe.c:77`), the writer never wraps
("past the end", `scullpipe.c:210`), and closing an empty device frees the buffer
others have open ("freed", `scullpipe.c:87`).

*tiny_tty.*  The accidents are: two first opens that each make a structure ("two
ports", `tiny_tty.c:101`); an open that fails for want of memory and leaves a count and no timer
("no timer", `128`); a close while an open of another process has cleared
`driver_data` ("wrong close"); a last close that finds the timer's function running, which then
adds the timer again ("still firing", `160`), or adds one that is pending ("added
twice"); an ioctl that finds no `driver_data` ("null pointer"); and the wait queue of TIOCMIWAIT, which nobody
initialised ("wild queue").  RTS is set from the bit of DTR (`tiny_tty.c:344`).

*sbull.*  `sbull_xfer_bio` moves `bio_cur_sectors` for every segment, so that a
bio of uneven segments loses data in two of the three modes.

*jiq, jit.*  A signal ends the read while the timer or tasklet goes on, which then
prints to a page that was given back (`jit.c:189`); so does a second reader of
jiq, as all share one `jiq_data`.  The last wake-up of jit may find its wait
queue freed.  A reader of jiq_tasklet, jiq_timer or exercise/jit's work queue
queues the job before it is on the wait queue, may miss the wake-up
(`jiq.c:227`), and then sleeps until a signal.

## Proofs

Checked by TLAPS for every value of the constants that the modules' ASSUMEs
allow; where a theorem assumes more, its statement and the text below say so.
The assumptions: finitely many processes or files where something counts them
(`ProcsAssumption`, `FilesAssumption`, `PortsAssumption`, `DisksAssumption`), and
a null pointer or "nobody" that is no one's name; sizes, lengths and
modes that the code's types allow (`SizesAssumption`, `CountsAssumption`,
`ModesAssumption`, `FlagsAssumption`, `GeometryAssumption`, `PoolAssumption`,
`LockupsAssumption`, `LinesAssumption`; those of
`ScullPipe` and `ShortPrint` are positive where the source divides by them);
`QuantaAssumption` and `CapAssumption`, that a block of scullc's kin and a FIFO
have a size; `PageAssumption` and `TimesAssumption`, that short's page holds whole records
and more than one, as any `PAGE_SIZE` does, and its array one time; and
`StudiedAssumption`, that two bounds of the model are numbers.

Every proof has the same outline: an inductive invariant that holds initially
(`...InitInv`), that each step keeps (one lemma for each action, or for each kind
of action), and that implies the property.

*The pipe.*

- `ScullPipeProofs`, types and pointers.  The inductive invariant is
  `IInv == TypeOK /\ MutualExclusion /\ PtrInv`.  `MutualExclusion` (at most one
  process is past `down`, and the semaphore is 0 exactly then) is inductive with
  the types.  `PointersInBuffer`, which the runs check, is not: a reader's copy
  is inside the buffer only because the `count` it has just computed is, and that
  because `rp` and `wp` are below `buffersize` when the semaphore is free and
  nobody else moves them.  `PtrInv` says so: `rp` and `wp` reach
  `buffersize` only while one process is about to wrap them, and a count in
  progress fits between the pointer and the end.  It follows:
  `TypeCorrect`, `SemaphoreExcludes`, `PointersCorrect`, for any processes, sizes
  and lengths, with the size changed by ioctl at any time.
- `ScullPipeProofs`, wake-ups.  `Aside` says what no step of a process does to
  another: move it, or put it on a queue.  `NoLostReaderWakeup` is not inductive:
  between the advance of `wp` and the wake-up stands the wrap of the pointer.
  `ReaderInv` says of a sleeping reader that the pipe is empty, or a process is at
  one of the two; and that a reader about to advance has found data, as otherwise
  its advance would turn an empty pipe into a full one without a writer.
  `WriterInv` is its twin for `spacefree`.  `ReadersAwakened` and
  `WritersAwakened` follow.
- `ScullPipeProofs`, life of the buffer.  `LifeInv` adds that `nreaders` and
  `nwriters` are the cardinalities of the sets of files open for each, that an
  open past its allocation has a buffer, and that while there is a buffer somebody
  is left who will free it.  `BufferLives` follows.
- `ScullPipeFifoProofs`: `PipeIsFifo`, the refinement `FifoSpec`.  The queue of
  `PipeFifo` is the bytes between the pointers, read round the ring.  `PipeInv`
  joins the invariants above and `FifoInv`, which says that a reader has copied
  what stands at `rp`, and that a buffer nobody uses is empty.  Then each step is
  a step of the queue or changes nothing of it: a write's copy appends
  when `wp` moves, a read takes when `rp` moves, a wrap moves a pointer from the
  end of the ring to its start and no byte, an open's reset empties the queue.
  The arithmetic is in a few lemmas on `%` and on what a ring holds after its
  ends move.  The theorem assumes `FixedSize`, one value of `scull_p_buffer`: with
  two, `dev->end` need not be the end of the block (see the findings), and what a
  reader finds beyond it nobody wrote.

*The memory devices.*

- `ScullMemProofs`.  `scull_follow`, the copies and `scull_trim` trust
  `dev->quantum` and `dev->qset`; that no step leaves an array (`MemNoOverrun`)
  therefore needs that every array in the list has the length these fields say
  (`MemArraysAreCurrent`), and that the copies of a call that waits are
  still theirs.  `MemInv` is that, with the fact that
  the list reaches `dev->size`, from which `MemReadAllocatesNothing` follows:
  a reader that `scull_follow` serves never goes beyond the list.  The lemmas
  before it are the arithmetic of `/` and `%` by an item and a quantum.  The
  theorems assume `Undisturbed`: one process, which may set any geometry at any
  time, or any number with one geometry.  It cannot be left out.  With two
  processes and a geometry that changes, TLC finds `NoOverrun` violated: a writer
  copies the old quantum before `down` (`main.c:344`), another process sets
  `scull_quantum` and truncates, which takes the new value over; the writer then allocates a
  block of the old length in a device of the new one, and the next write leaves it.
- `ScullMemProofs`, the refinement.  `MemIsAFile` is `Spec => FileSpec`, under the same
  assumption.  The content of the file is read through the list: the byte at an offset is
  that of its quantum, and 0 where there is none.  `FileInv` adds to `MemInv` what
  the mapping reads of a process: a file that is not yet open is at its start, and a read or a
  write that waits for the device is about a byte at least.  A write's copy then changes the bytes of the file between two
  offsets, and no other: an offset has one item, one quantum and one place in it.
  That an allocation, or half a one, changes no byte is that a quantum
  comes zeroed, as bytes nobody wrote are.  Every other step leaves
  the list, or is a seek, a read or a trim of the file.
- `DriversProofs`, `ScullStudies`.  `StGood` holds until something has gone wrong: each
  quantum in the list has the bytes its device allocates, and the list holds the file.  In
  exercise/scull and scull_page that is said of every position, as a new quantum is
  zeroed.  scull_cache's is not, so that it is said below the size only, and there
  besides that each byte is in a quantum and inside the cache's object: a write that
  leaves a hole has gone wrong.  A position has one place (`StPlace`, `StSpan`), by the four
  geometries of the model; the positions and the lengths of calls are any
  (`StudiedAssumption`).
- `DriversProofs`, `ScullBlocks`.  Until somebody has changed the quantum,
  there is one size (`BlkUniform`): the parameter's, the device's, that of every
  block in the list and that of the copies in calls and in deferred
  asynchronous calls; `BlocksSpecWithin` is then the division of an offset.  For
  `BlocksSpecMapped`, `BlkCounts` says that `vmas` counts the mapping, so that a
  trim is refused while there is one, and `BlkPages` that a page, once found, stays
  where it is (a write only adds).  It assumes `OneMapper`, as `vmas++` is outside
  the semaphore and two that map at once may lose one (see the findings).

*Access control.*

- `DriversProofs`, `ScullSingle`.  The counter is 1 less the number of processes
  that have decremented it and not given back; this is inductive by the theorems
  on cardinalities, and gives `OneAtATime` and `ComesBack`.
- `ScullUidProofs`.  `scull_w_count` is the number of holders.  `NoLostWakeup`
  needs, beyond that, what a waiter has seen between queueing itself and going to
  sleep: that the device was taken, and that nobody has woken it since.
  `OnlyOwners` and `NoWakeupLost` hold for `sculluid` and `scullwuid`.
- `DriversProofs`, `ScullPriv`.  Until something in `broken` has happened, a key
  is in the list once, whoever holds the lock has searched a list that nobody
  else extends, and the clone that a process has is the one of the key it looked
  up.  `PrivSpecHolds` follows.

*Devices with timers, interrupts and other parties.*

- `ShortPrintProofs`, the output goes on.  The inductive invariant is
  `IInv == TypeOK /\ OneWriter /\ NeverStalls`.  `NeverStalls` is inductive with
  the types alone: whatever ends one source of runs has just begun another (the
  timer's expiry its handler, the run's start the worker), and only a run that
  finds `head = tail` makes the output inactive.  That a pointer stays in the page
  is the modulo of `incr_out_bp` with a space that may be any integer.
  `PrintTypeCorrect`, `OutputGoesOn` and `WritersTakeTurns` hold for any
  processes, page, lengths and readings of the printer's ACK line.
- `ShortPrintProofs`, the order.  A writer computes its space from two reads of
  the tail, without the lock under which the work item moves it.  `RingInv` says
  why that is safe: the tail moves towards the head only, so that a writer that saw
  it at or below the head stays right (`LookInv`), and one that saw it above finds no
  space at worst; space once computed stays there (`FitInv`).  `BytesInOrder` is
  then arithmetic of the ring, which `%` never takes round more than once (`RingLap`,
  `NumberLap`).  `SleepersHaveNoRoom` needs besides that a writer with a stale view
  has been queued since before the tail wrapped, so that a run that left more than
  `SP_MIN_SPACE` bytes has taken it off the queue (`LapInv`).  `StrobesReady` is an
  action property and follows from `StrobeInv`.
- `SnullProofs`.  `HearInv` joins `NeverDeaf` to the types it needs and to the fact
  that an interface that is not taken down is up: that is why `netif_rx_schedule`
  schedules the poll whenever interrupts are turned off.  `NotDeaf` holds for any
  number of polls between `netif_rx_complete` and `snull_rx_ints`.  `PacketInv`
  says that each packet that was allocated is at one position of one pool, one
  receive list or one hand (`Once`), and that a pool has its own packets only; every step that
  moves one takes the head of a list and makes it the head of another
  (`MoveKeeps`), which is all `SpecConserved` needs.  `QueueInv` is about the
  stopped queue, whose decision is taken after the unlock.  `Served` names who will wake it once there
  is a packet in the pool: the context that put back the first of the packets
  there and has not yet tested for it, or the watchdog (the property is about
  `lockup` 0, as with any other value the driver drops interrupts on purpose);
  `Serves` says that the watchdog is on its way to its wake-up, and that nobody
  asks for a buffer of a stopped interface.  `SpecQueueRestarts` follows.
- `DriversProofs`, `UsbSkel`.  `UsbCount`: a reference for each file that has the
  device and one for the hub thread, so that `kref` is 0 exactly when a structure
  is not `live`.  That the `kref_get` of an open finds it alive is the big kernel
  lock (`UsbLock`): while an open is between its two steps, the disconnection is
  not past the clearing of the interface's data.  `UsbBuffers` counts the
  buffers in URBs and in hands.
- `DriversProofs`, `TinyTty` and `Sbull`.  `TtyInv` holds until the first
  accident: `open_count` is the number of files past the count, the timer of a
  port is pending or its function runs exactly while that is not 0.  `DiskInv`
  says the same of `users`, and that the invalidation is only there while nobody is past the
  deletion of the timer, which is why the timer function finds no user.
- `SleepersProofs`, `Deferred`.  While a reader of jit sleeps, its own job is
  pending, and the job's page is there until a signal (`DefOwn`); the job that the
  readers of jiq share has one reader until a signal or a second one (`DefAlone`),
  and who sleeps on jiq_wq was on the queue before the job was (`DefFirst`).
- `SleepersProofs`, `Short`.  While a reader is asleep the page is empty, or a wake-up is
  still to come, in the handler or in a bottom half (`ShortWake`); a record that
  was printed fits in front of the tail (`ShortFits`), and what a reader copied
  lies between the tail and the head (`ShortCopied`).  All this is lost when the
  ring overruns, or when two readers take one record (`ShortClean` excludes both).
  `ShortSpecInOrder` is three invariants more.  `ShortPageInv`, without condition: the page
  is cut in whole records, and what the handler or bottom half has printed but not counted
  stands at the head.  `ShortBytesInv`, while `ShortClean`: what was read, with what is
  between tail and head, is the records sent.  `ShortTimesInv`, until a handler meets the
  bottom half or laps the array: the times between `tv_tail` and `tv_head` are those of
  the interrupts that are not yet told, the oldest first, and a bottom half is pending or running while
  there are any.  The number of a time is the number of times sent before it, a
  cardinality, so that no induction is needed.
- `SleepersProofs`, `Fifos`.  Until one of the accidents (but for a missed
  wake-up, which spoils no byte), one process at most is inside, `buff` is
  there while it has copied, and the bytes lie in one piece from `r_ptr` on
  (`FfPlace`): globalfifo moves them to the front, and scullpip's buffer is full for good
  when `w_ptr` has reached the end.  So a read takes the front of what was written, and a
  write's bytes follow the last (`FfMoved`, `FfSpanSplit`).  A sleeper has
  nothing to do, or a process at the other end is about to wake it (`FfSleep`); the gap
  between unlock and new state is the reader's of globalfifo alone
  (`FfGap`).  `FifosSpecHold` says besides that globalfifo has no accident but the
  missed wake-up (`FfNoAccident`).

Only model-checked:

- everything under fairness, as liveness and ENABLED are outside the prover's reach
  (`SemReleased`, `SleepersWoken` and the like);
- `ModsBalanced` and `ModsReady`: `ModuleInit` has no parameters, so
  that the run visits every state there is;
- the findings, which are counterexamples.

`AwakenedBySpace` of ShortPrint is false.  The types of ShortPrint are only proved:
no run states them, nor `MemArraysAreCurrent`.

## Plan

What this project would do next, most useful first.

1. Let processes of `ScullMem` share an open file.
2. The input side of shortprint, whose ring is that of `Short`.
3. Liveness of `Short`'s readers and of the FIFOs, under the fairness of the
   pipe.

## Not modelled

- Output of `/proc` and `seq_file`, which formats what others keep; parameters.
- `misc-progs` and the other user programs.
- The input side of shortprint; `sleepy`, `complete`, `seq`, `old/second`'s timer:
  a few lines each that share one flag or counter.
- Port, register and GPIO access (`src/ITOP-4412`, `src/gpio`, `raspberry_gpio`'s
  calls, `simple`, `skull`, `silly`, `faulty`, and short's reads of a port): a call
  moves bytes and keeps no state; loading and unloading of them are in
  `ModuleInit`.  short's probing for an interrupt line runs once at loading.
- `tiny_serial`'s calls, which the serial core serialises, and the registration of
  lddbus's devices, which the driver core keeps.
- `key_driver.c`, which does not compile, and `hello_device.c` and
  `key_device.c`, which only register a device; `kdataalign`, `kdatasize`.
- poll and fasync of globalfifo and scullpip.
