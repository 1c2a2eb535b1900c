------------------------------ MODULE TinyTty -------------------------------
(***************************************************************************)
(* tiny_tty (Book/tty/tiny_tty.c): one port, opened and closed by several  *)
(* processes, and the timer that runs while it is open.  The tty core      *)
(* (external) keeps one tty_struct while any of them is there, calls       *)
(* tiny_close for each, and for an open that failed too; it does not keep  *)
(* the calls apart.  What tiny->sem protects is one step.  History: spoilt *)
(* says which accident has happened, and nothing is claimed after it.      *)
(***************************************************************************)
EXTENDS Integers, FiniteSets

CONSTANTS Openers,   \* processes, each with one file
          Ports,     \* addresses kmalloc gives to a tiny_serial
          None       \* the null pointer

VARIABLES table,                \* tiny_table[index]
          made,                 \* those that are allocated
          driver_data,          \* of the tty_struct
          open_count, timer,    \* of each tiny_serial: "none", "off", "pending"
          firing,               \* those whose timer function runs
          o_pc, o_tiny, spoilt

tty_vars == <<table, made, driver_data, open_count, timer, firing, o_pc, o_tiny, spoilt>>

TtyInit ==
  /\ table = None /\ made = {} /\ driver_data = None
  /\ open_count = [t \in Ports |-> 0] /\ timer = [t \in Ports |-> "none"] /\ firing = {}
  /\ o_pc = [o \in Openers |-> "closed"] /\ o_tiny = [o \in Openers |-> None]
  /\ spoilt = {}

To(o, from, to) == o_pc[o] = from /\ o_pc' = [o_pc EXCEPT ![o] = to]
Accident(what, happens) == spoilt' = IF happens THEN spoilt \cup {what} ELSE spoilt

\* add_timer is a BUG on a timer that is pending.
add_timer(t) ==
  /\ timer' = [timer EXCEPT ![t] = "pending"]
  /\ Accident("added twice", timer[t] = "pending")

-----------------------------------------------------------------------------
OpenNull(o) ==
  /\ To(o, "closed", "find") /\ driver_data' = None
  /\ UNCHANGED <<table, made, open_count, timer, firing, o_tiny, spoilt>>

OpenFind(o) ==
  /\ To(o, "find", IF table = None THEN "create" ELSE "enter")
  /\ o_tiny' = [o_tiny EXCEPT ![o] = table]
  /\ UNCHANGED <<table, made, driver_data, open_count, timer, firing, spoilt>>

OpenCreate(o) ==
  /\ \/ \E t \in Ports \ made :
          /\ To(o, "create", "enter")
          /\ table' = t /\ made' = made \cup {t} /\ o_tiny' = [o_tiny EXCEPT ![o] = t]
          /\ Accident("two ports", table # None)
     \/ /\ To(o, "create", "open")        \* -ENOMEM: the core closes what it has not opened
        /\ UNCHANGED <<table, made, o_tiny, spoilt>>
  /\ UNCHANGED <<driver_data, open_count, timer, firing>>

OpenEnter(o) ==
  LET t == o_tiny[o]
  IN  /\ o_pc[o] = "enter"
      /\ driver_data' = t /\ open_count' = [open_count EXCEPT ![t] = @ + 1]
      /\ \/ /\ To(o, "enter", "open")
            /\ IF open_count[t] = 0 THEN add_timer(t) ELSE UNCHANGED <<timer, spoilt>>
         \/ /\ open_count[t] = 0 /\ timer[t] = "none"
            /\ To(o, "enter", "open")     \* -ENOMEM with the count raised
            /\ Accident("no timer", TRUE) /\ UNCHANGED timer
      /\ UNCHANGED <<table, made, firing, o_tiny>>

-----------------------------------------------------------------------------
\* tiny_close finds the port by the tty, which a concurrent open may have cleared.
Close(o) ==
  /\ To(o, "open", IF driver_data = None THEN "closed" ELSE "closing")
  /\ o_tiny' = [o_tiny EXCEPT ![o] = driver_data]
  /\ Accident("wrong close", driver_data # o_tiny[o])
  /\ UNCHANGED <<table, made, driver_data, open_count, timer, firing>>

\* A mutant of do_close: the timer stops when one user is left.
do_close_Early(o) ==
  LET t == o_tiny[o]
  IN  /\ To(o, "closing", "closed")
      /\ o_tiny' = [o_tiny EXCEPT ![o] = None]
      /\ IF open_count[t] = 0 THEN UNCHANGED <<open_count, timer, spoilt>>
         ELSE /\ open_count' = [open_count EXCEPT ![t] = @ - 1]
              /\ IF open_count[t] > 2 THEN UNCHANGED <<timer, spoilt>>
                 ELSE /\ timer' = [timer EXCEPT ![t] = IF @ = "none" THEN "none" ELSE "off"]
                      /\ Accident("still firing", t \in firing \/ timer[t] = "none")
      /\ UNCHANGED <<table, made, driver_data, firing>>

do_close(o) ==
  LET t == o_tiny[o]
  IN  /\ To(o, "closing", "closed")
      /\ o_tiny' = [o_tiny EXCEPT ![o] = None]
      /\ IF open_count[t] = 0 THEN UNCHANGED <<open_count, timer, spoilt>>
         ELSE /\ open_count' = [open_count EXCEPT ![t] = @ - 1]
              /\ IF open_count[t] > 1 THEN UNCHANGED <<timer, spoilt>>
                 ELSE \* del_timer does not wait for the function
                      /\ timer' = [timer EXCEPT ![t] = IF @ = "none" THEN "none" ELSE "off"]
                      /\ Accident("still firing", t \in firing \/ timer[t] = "none")
      /\ UNCHANGED <<table, made, driver_data, firing>>

-----------------------------------------------------------------------------
(* tiny_timer *)

Fire(t) ==
  /\ timer[t] = "pending" /\ timer' = [timer EXCEPT ![t] = "off"] /\ firing' = firing \cup {t}
  /\ UNCHANGED <<table, made, driver_data, open_count, o_pc, o_tiny, spoilt>>

Resubmit(t) ==
  /\ t \in firing /\ firing' = firing \ {t}
  /\ add_timer(t)
  /\ UNCHANGED <<table, made, driver_data, open_count, o_pc, o_tiny>>

-----------------------------------------------------------------------------
\* tiny_write, tiny_write_room: they take the semaphore and change nothing.
Write(o) == o_pc[o] = "open" /\ UNCHANGED tty_vars

\* tiocmget, tiocmset and the ioctls follow driver_data without a test; TIOCMIWAIT
\* sleeps on a queue that was never initialised.
Modem(o) ==
  /\ o_pc[o] = "open" /\ o_tiny[o] # None /\ Accident("null pointer", driver_data = None)
  /\ UNCHANGED <<table, made, driver_data, open_count, timer, firing, o_pc, o_tiny>>
Miwait(o) ==
  /\ o_pc[o] = "open" /\ o_tiny[o] # None /\ Accident("wild queue", TRUE)
  /\ UNCHANGED <<table, made, driver_data, open_count, timer, firing, o_pc, o_tiny>>

TtyNext ==
  \/ \E o \in Openers : \/ OpenNull(o) \/ OpenFind(o) \/ OpenCreate(o) \/ OpenEnter(o)
                        \/ Close(o) \/ do_close(o) \/ Write(o) \/ Modem(o) \/ Miwait(o)
  \/ \E t \in Ports : Fire(t) \/ Resubmit(t)

-----------------------------------------------------------------------------
(* Until one of the accidents: the count is the number of files that are   *)
(* open, and the timer, which uses the tty, is pending or running exactly  *)
(* while there is one; so it is never added twice, and never runs for a    *)
(* tty that is gone (tiny_tty.c:63-88, 118-137, 145-164).                  *)
TimerWhileOpen ==
  spoilt = {} => \A t \in made :
    /\ t = table
    /\ open_count[t] = Cardinality({o \in Openers : o_pc[o] \in {"open", "closing"} /\ o_tiny[o] = t})
    /\ (timer[t] = "pending" \/ t \in firing) <=> open_count[t] > 0
    /\ ~ (timer[t] = "pending" /\ t \in firing)
=============================================================================
