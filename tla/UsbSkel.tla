------------------------------- MODULE UsbSkel ------------------------------
(***************************************************************************)
(* Book/usb/usb-skeleton.c: a USB device that is plugged in and pulled out *)
(* while processes have it open.  The struct usb_skel of each plug-in is   *)
(* shared by the hub thread, which probes and disconnects, and the open    *)
(* files; kref says who is last.  chrdev_open holds the big kernel lock    *)
(* around skel_open, and skel_disconnect takes it.                         *)
(***************************************************************************)
EXTENDS Naturals, FiniteSets

CONSTANTS Files,  \* open files, each with one user
          Skels,  \* addresses kmalloc gives to a struct usb_skel
          None    \* the null pointer

VARIABLES live,       \* those that are allocated
          kref,       \* kref[d]: a reference count
          intfdata,   \* the interface's data pointer
          minor,      \* is the minor number registered?
          bkl,        \* is the big kernel lock held?
          hub, dev,   \* where the hub thread is, and the usb_skel it is at
          at, f_dev,  \* the same of each file; f_dev is its private_data
          urb, buf,   \* of the write of a file: "none" or "held"
          flight,     \* urbs that were submitted, and their buffers, in the core
          memory,     \* buffers that have been allocated and not freed
          oops

device == <<live, kref>>
write  == <<urb, buf, flight, memory>>
vars   == <<device, intfdata, minor, bkl, hub, dev, at, f_dev, write, oops>>

Init == /\ live = {} /\ kref = [d \in Skels |-> 0]
        /\ intfdata = None /\ minor = FALSE /\ bkl = FALSE
        /\ hub = "unplugged" /\ dev = None
        /\ at = [f \in Files |-> "closed"] /\ f_dev = [f \in Files |-> None]
        /\ urb = [f \in Files |-> "none"] /\ buf = [f \in Files |-> "none"]
        /\ flight = 0 /\ memory = 0 /\ oops = "none"

\* kref_put, with skel_delete as its last act.
skel_delete(d) == live' = live \ {d}
kref_put(d) == /\ kref' = [kref EXCEPT ![d] = @ - 1]
               /\ IF kref[d] = 1 THEN skel_delete(d) ELSE UNCHANGED live

Hub(from, to)    == hub = from /\ hub' = to
File(f, from, to) == at[f] = from /\ at' = [at EXCEPT ![f] = to]

-----------------------------------------------------------------------------
(* skel_probe *)

ProbeAlloc ==
  /\ Hub("unplugged", "p_set")
  /\ \E d \in Skels \ live :
       dev' = d /\ live' = live \cup {d} /\ kref' = [kref EXCEPT ![d] = 1]
  /\ UNCHANGED <<intfdata, minor, bkl, at, f_dev, write, oops>>

\* No memory for bulk_in_buffer, or an endpoint is missing.
ProbeError ==
  /\ Hub("p_set", "p_put")
  /\ UNCHANGED <<device, intfdata, minor, bkl, dev, at, f_dev, write, oops>>

ProbeSet ==
  /\ Hub("p_set", "p_register") /\ intfdata' = dev
  /\ UNCHANGED <<device, minor, bkl, dev, at, f_dev, write, oops>>

ProbeRegister ==
  /\ \/ Hub("p_register", "plugged") /\ minor' = TRUE /\ dev' = None /\ UNCHANGED intfdata
     \/ Hub("p_register", "p_put") /\ intfdata' = None /\ UNCHANGED <<minor, dev>>
  /\ UNCHANGED <<device, bkl, at, f_dev, write, oops>>

\* The kref_put at the end of a failed probe, and of skel_disconnect.
HubPut ==
  /\ Hub("p_put", "unplugged") /\ kref_put(dev) /\ dev' = None
  /\ UNCHANGED <<intfdata, minor, bkl, at, f_dev, write, oops>>

-----------------------------------------------------------------------------
(* skel_disconnect *)

\* Mutant of DisconnectBegin: the lock is not taken.
DisconnectBegin_NoLock ==
  /\ Hub("plugged", "d_clear") /\ dev' = intfdata
  /\ UNCHANGED <<device, intfdata, minor, bkl, at, f_dev, write, oops>>
DisconnectBegin ==
  /\ Hub("plugged", "d_clear") /\ ~bkl /\ bkl' = TRUE /\ dev' = intfdata
  /\ UNCHANGED <<device, intfdata, minor, at, f_dev, write, oops>>

DisconnectClear ==
  /\ Hub("d_clear", "d_minor") /\ intfdata' = None
  /\ UNCHANGED <<device, minor, bkl, dev, at, f_dev, write, oops>>

DisconnectMinor ==
  /\ Hub("d_minor", "p_put") /\ minor' = FALSE /\ bkl' = FALSE
  /\ UNCHANGED <<device, intfdata, dev, at, f_dev, write, oops>>

-----------------------------------------------------------------------------
(* skel_open and skel_release *)

OpenFind(f) ==
  /\ minor /\ ~bkl /\ bkl' = TRUE /\ File(f, "closed", "o_data")
  /\ UNCHANGED <<device, intfdata, minor, hub, dev, f_dev, write, oops>>

OpenData(f) ==
  /\ \/ /\ intfdata # None /\ File(f, "o_data", "o_get")
        /\ f_dev' = [f_dev EXCEPT ![f] = intfdata] /\ UNCHANGED bkl
     \/ /\ intfdata = None /\ File(f, "o_data", "closed")   \* -ENODEV
        /\ bkl' = FALSE /\ UNCHANGED f_dev
  /\ UNCHANGED <<device, intfdata, minor, hub, dev, write, oops>>

OpenGet(f) ==
  /\ File(f, "o_get", "open") /\ bkl' = FALSE
  /\ kref' = [kref EXCEPT ![f_dev[f]] = @ + 1]
  /\ UNCHANGED <<live, intfdata, minor, hub, dev, f_dev, write, oops>>

skel_release(f) ==
  /\ File(f, "open", "closed")
  /\ kref_put(f_dev[f]) /\ f_dev' = [f_dev EXCEPT ![f] = None]
  /\ UNCHANGED <<intfdata, minor, bkl, hub, dev, write, oops>>

-----------------------------------------------------------------------------
(* skel_read and skel_write *)

\* usb_bulk_msg sleeps, for ten seconds at most; then the copy from bulk_in_buffer.
skel_read(f) ==
  /\ File(f, "open", "r_copy") \/ File(f, "r_copy", "open")
  /\ UNCHANGED <<device, intfdata, minor, bkl, hub, dev, f_dev, write, oops>>

\* usb_alloc_urb.  If it fails, the error path reads urb->transfer_dma.
WriteUrb(f) ==
  /\ \/ File(f, "open", "w_buf") /\ urb' = [urb EXCEPT ![f] = "held"] /\ UNCHANGED oops
     \/ File(f, "open", "w_buf") /\ oops' = "null urb" /\ UNCHANGED urb
  /\ UNCHANGED <<device, intfdata, minor, bkl, hub, dev, f_dev, buf, flight, memory>>

\* usb_buffer_alloc
WriteBuf(f) ==
  /\ \/ /\ File(f, "w_buf", "w_submit")
        /\ buf' = [buf EXCEPT ![f] = "held"] /\ memory' = memory + 1
     \/ File(f, "w_buf", "w_error") /\ UNCHANGED <<buf, memory>>
  /\ UNCHANGED <<device, intfdata, minor, bkl, hub, dev, f_dev, urb, flight, oops>>

\* copy_from_user and usb_submit_urb, which fails when the device has gone; then
\* the write's own reference to the urb goes.
WriteSubmit(f) ==
  /\ \/ /\ File(f, "w_submit", "open") /\ flight' = flight + 1
        /\ urb' = [urb EXCEPT ![f] = "none"] /\ buf' = [buf EXCEPT ![f] = "none"]
     \/ File(f, "w_submit", "w_error") /\ UNCHANGED <<urb, buf, flight>>
  /\ UNCHANGED <<device, intfdata, minor, bkl, hub, dev, f_dev, memory, oops>>

\* error: usb_buffer_free, usb_free_urb and then kfree of the same buffer.
WriteError(f) ==
  /\ File(f, "w_error", "open")
  /\ urb' = [urb EXCEPT ![f] = "none"] /\ buf' = [buf EXCEPT ![f] = "none"]
  /\ memory' = IF buf[f] = "held" THEN memory - 1 ELSE memory
  /\ oops' = IF buf[f] = "held" THEN "buffer freed twice" ELSE oops
  /\ UNCHANGED <<device, intfdata, minor, bkl, hub, dev, f_dev, flight>>

\* Runs once for each urb, also when the file is closed and the device is gone.
skel_write_bulk_callback ==
  /\ flight > 0 /\ flight' = flight - 1 /\ memory' = memory - 1
  /\ UNCHANGED <<device, intfdata, minor, bkl, hub, dev, at, f_dev, urb, buf, oops>>

Fault == oops # "none" /\ UNCHANGED vars

Next ==
  \/ /\ oops = "none"
     /\ \/ ProbeAlloc \/ ProbeError \/ ProbeSet \/ ProbeRegister
        \/ HubPut \/ DisconnectBegin \/ DisconnectClear \/ DisconnectMinor
        \/ skel_write_bulk_callback
        \/ \E f \in Files : \/ OpenFind(f) \/ OpenData(f) \/ OpenGet(f) \/ skel_release(f)
                            \/ skel_read(f)
                            \/ flight < Cardinality(Files) /\ WriteUrb(f)
                            \/ WriteBuf(f) \/ WriteSubmit(f) \/ WriteError(f)
  \/ Fault

Spec == Init /\ [][Next]_vars

-----------------------------------------------------------------------------
(* Properties *)

\* Who may still follow a pointer to the device structure.
Refers(d) == intfdata = d \/ dev = d \/ \E f \in Files : f_dev[f] = d

\* A device structure lives exactly as long as the interface, the hub thread or an
\* open file can reach it: it is not deleted under a skel_open that races with
\* skel_disconnect, and whoever is last deletes it.  A buffer of skel_write lives
\* until its callback has run, and is not lost on any path.
Lifetimes ==
  /\ \A d \in Skels : d \in live <=> Refers(d)
  /\ memory = flight + Cardinality({f \in Files : buf[f] = "held"})
=============================================================================
