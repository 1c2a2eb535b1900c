------------------------------ MODULE Deferred ------------------------------
(***************************************************************************)
(* Processes that sleep until deferred work has filled their page:         *)
(*   jiq_wq, jiq_tasklet, jiq_timer  Book/misc-modules/jiq.c, one jiq_data *)
(*                                   for all readers                       *)
(*   jit     the timer and the tasklet of Book/misc-modules/jit.c, which   *)
(*           print into the page of the caller                             *)
(*   x_jit   the same of exercise/jit/jit.c, into a buffer of their own    *)
(*   x_work  its work queue                                                *)
(* A job is a work, tasklet or timer; a run of it is one step, its last    *)
(* wake-up another.                                                        *)
(***************************************************************************)
EXTENDS Integers

CONSTANTS Callers,   \* reading processes
          Lines,     \* JIT_ASYNC_LOOPS, or the lines that fit below LIMIT
          All        \* the job that the readers of jiq share

VARIABLES way,
          c_pc,       \* where each reader is
          job,        \* each job: "idle", "queued", "waking" after its last line, or both
          loops,      \* lines it has left to print
          owner,      \* whose page it prints to
          live,       \* the data of each job: allocated?
          touched,    \* history: memory used after it was given back
          cause       \* history: what may lead to that

deferred_vars == <<way, c_pc, job, loops, owner, live, touched, cause>>

Jobs == Callers \cup {All}
Jiq  == way \in {"jiq_wq", "jiq_tasklet", "jiq_timer"}
JobOf(c) == IF Jiq THEN All ELSE c

DeferredInit ==
  /\ way \in {"jiq_wq", "jiq_tasklet", "jiq_timer", "jit", "x_jit", "x_work"}
  /\ c_pc = [c \in Callers |-> "outside"]
  /\ job = [j \in Jobs |-> "idle"] /\ loops = [j \in Jobs |-> 0] /\ owner = [j \in Jobs |-> All]
  /\ live = (IF Jiq THEN {All} ELSE {})
  /\ touched = {} /\ cause = {}

Calls(c) == c_pc[c] \notin {"outside", "gone"}
Moves(c, from, to) == c_pc[c] = from /\ c_pc' = [c_pc EXCEPT ![c] = to]
If(what, happens) == IF happens THEN {what} ELSE {}

-----------------------------------------------------------------------------
(* The reader *)

\* jiq_data is set for this reader, whoever uses it; jit allocates its own (what
\* a signal left behind has run its course by then).
Prepare(c) ==
  LET j == JobOf(c)
  IN  /\ ~Calls(c) /\ c_pc' = [c_pc EXCEPT ![c] = "ready"] /\ (Jiq \/ job[j] = "idle")
      /\ loops' = [loops EXCEPT ![j] = IF way = "jiq_timer" THEN Lines - 1 ELSE Lines]
      /\ owner' = [owner EXCEPT ![j] = c] /\ live' = live \cup {j}
      /\ cause' = cause \cup If("second reader", Jiq /\ \E d \in Callers \ {c} : Calls(d))
      /\ UNCHANGED <<way, job, touched>>

\* Only jiq_wq is on the wait queue, and no longer running, when the job is queued.
PreparesFirst_No == FALSE
PreparesFirst == way = "jiq_wq"

Queue(c) ==
  /\ Moves(c, "ready", IF PreparesFirst THEN "asleep" ELSE "armed")
  /\ job' = [job EXCEPT ![JobOf(c)] = IF @ = "waking" THEN "both" ELSE "queued"]
  /\ UNCHANGED <<way, loops, owner, live, touched, cause>>

\* interruptible_sleep_on and prepare_to_wait test nothing; wait_event tests the loops.
Sleep(c) ==
  /\ Moves(c, "armed", IF way \in {"jit", "x_jit"} /\ loops[c] = 0 THEN "woken" ELSE "asleep")
  /\ UNCHANGED <<way, job, loops, owner, live, touched, cause>>

\* A signal: jit returns and leaves data and job, even one that is done; jiq and x_work go on.
Signal(c) ==
  /\ \/ Moves(c, "asleep", IF way \in {"jit", "x_jit"} THEN "gone" ELSE "woken")
     \/ way \in {"jit", "x_jit"} /\ Moves(c, "woken", "gone")
  /\ cause' = cause \cup If("signal", way # "x_work")
  /\ UNCHANGED <<way, job, loops, owner, live, touched>>

\* del_timer_sync, cancel_delayed_work_sync and destroy_workqueue end the job first.
Finish(c) ==
  LET j == JobOf(c)
  IN  /\ Moves(c, "woken", "outside")
      /\ IF way \in {"jiq_timer", "x_work"} THEN job[j] \notin {"waking", "both"} /\ job' = [job EXCEPT ![j] = "idle"]
         ELSE UNCHANGED job
      /\ live' = IF Jiq THEN live ELSE live \ {j}
      /\ UNCHANGED <<way, loops, owner, touched, cause>>

-----------------------------------------------------------------------------
(* The job *)

\* The page belongs to the caller of a proc read, except that exercise/jit allocates it.
Prints(j) == touched' = touched \cup If("page", way \in {"jit", "jiq_wq", "jiq_tasklet", "jiq_timer"}
                                                  /\ ~Calls(owner[j]))
                                \cup If("data", j \notin live)

\* jit_timer_fn, jit_tasklet_fn, jit_workqueue_fn: one line, and again.
Run(j) ==
  /\ ~Jiq /\ job[j] = "queued" /\ Prints(j)
  /\ loops' = [loops EXCEPT ![j] = @ - 1]
  /\ job' = [job EXCEPT ![j] = IF loops[j] = 1 THEN "waking" ELSE "queued"]
  /\ UNCHANGED <<way, c_pc, owner, live, cause>>

\* jiq_print: once the page is full it only wakes; the timer prints once and wakes.
JiqRun ==
  /\ Jiq /\ job[All] = "queued"
  /\ IF loops[All] = 0 THEN UNCHANGED <<loops, touched>>
     ELSE Prints(All) /\ loops' = [loops EXCEPT ![All] = @ - 1]
  /\ job' = [job EXCEPT ![All] = IF loops[All] = 0 \/ way = "jiq_timer" THEN "waking" ELSE "queued"]
  /\ UNCHANGED <<way, c_pc, owner, live, cause>>

Wakes(j) ==
  /\ job[j] \in {"waking", "both"}
  /\ job' = [job EXCEPT ![j] = IF @ = "both" THEN "queued" ELSE "idle"]
  /\ touched' = touched \cup If("data", j \notin live)
  /\ c_pc' = [c \in Callers |-> IF c_pc[c] = "asleep" /\ JobOf(c) = j THEN "woken" ELSE c_pc[c]]
  /\ UNCHANGED <<way, loops, owner, live, cause>>

DeferredNext ==
  \/ \E c \in Callers : Prepare(c) \/ Queue(c) \/ Sleep(c) \/ Signal(c) \/ Finish(c)
  \/ JiqRun \/ \E j \in Jobs : Run(j) \/ Wakes(j)

-----------------------------------------------------------------------------
(* Deferred work leaves alone what has been given back unless a signal or  *)
(* a second reader of jiq came between, but for one case: jit's wake-up of *)
(* a reader that has seen the last loop, returned and freed the queue      *)
(* (jit.c:151, 192).  A reader that sleeps has its job before it unless it *)
(* queued the job before it was on the wait queue: jiq_wq never does.      *)
GivenBackLeftAlone ==
  /\ touched # {} => \/ cause # {} /\ way # "x_work"
                     \/ touched = {"data"} /\ way \in {"jit", "x_jit"}
  /\ touched # {} /\ way = "x_jit" => touched = {"data"}
  /\ \A c \in Callers : c_pc[c] = "asleep" =>
       job[JobOf(c)] # "idle" \/ way \in {"jiq_tasklet", "jiq_timer", "x_work"}
=============================================================================
