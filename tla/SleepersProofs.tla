---------------------------- MODULE SleepersProofs ---------------------------
(***************************************************************************)
(* Proofs about the drivers whose readers and writers sleep until a timer, *)
(* a work, an interrupt handler or another process has done something for  *)
(* them, each driver alone.                                                *)
(***************************************************************************)
EXTENDS Drivers, Sequences, FiniteSetTheorems, SequenceTheorems, TLAPS

-----------------------------------------------------------------------------
(* Deferred: the jobs that belong to one caller each, and the job that the *)
(* readers of jiq share                                                    *)

DefPc == {"outside", "ready", "armed", "asleep", "woken", "gone"}

DefTypeOK ==
  /\ way \in {"jiq_wq", "jiq_tasklet", "jiq_timer", "jit", "x_jit", "x_work"}
  /\ c_pc \in [Callers -> DefPc]
  /\ job \in [Def!Jobs -> {"idle", "queued", "waking", "both"}]
  /\ loops \in [Def!Jobs -> Int] /\ job_owner \in [Def!Jobs -> Def!Jobs]
  /\ touched \subseteq {"page", "data"}

\* A job of a caller's own is queued while it has lines to print and waking after
\* the last; one that the caller has not started does not run.
DefOwnAt(c) ==
  /\ c_pc[c] = "ready" => job[c] = "idle" /\ loops[c] = Lines
  /\ c_pc[c] = "armed" => job[c] = "queued" \/ loops[c] = 0
  /\ job[c] = "queued" => loops[c] >= 1
  /\ job[c] = "waking" => loops[c] = 0
  /\ job[c] # "both"
  /\ Def!Calls(c) => job_owner[c] = c

\* jit and exercise/jit: the sleeper's job will wake it.
DefJitAt(c) == c_pc[c] = "asleep" => job[c] # "idle"

\* jit, until a signal: while lines are printed their reader waits.
DefPageAt(c) == job[c] = "queued" => c_pc[c] \in {"armed", "asleep"}

\* The work queue of exercise/jit: the job never outlives the call.
DefWorkAt(c) == /\ job[c] # "idle" => Def!Calls(c)
                /\ Def!Calls(c) => c \in job_live

DefOwn ==
  ~Def!Jiq =>
    /\ \A j \in Def!Jobs : j \notin Callers => job[j] = "idle"
    /\ \A c \in Callers : DefOwnAt(c)
    /\ way \in {"jit", "x_jit"} => \A c \in Callers : DefJitAt(c)
    /\ way = "jit" /\ cause = {} => "page" \notin touched /\ \A c \in Callers : DefPageAt(c)
    /\ way = "x_jit" => "page" \notin touched
    /\ way = "x_work" => touched = {} /\ \A c \in Callers : DefWorkAt(c)

\* The job of jiq, until a signal or a second reader: there is one reader, and it
\* waits while the job is queued.
DefAlone ==
  /\ touched = {}
  /\ job[Null] # "both"
  /\ \A c \in Callers : Def!Calls(c) => job_owner[Null] = c
  /\ job[Null] # "idle" => job_owner[Null] \in Callers /\ c_pc[job_owner[Null]] \in {"armed", "asleep"}

\* jiq_wq: who sleeps was on the queue before the job was.
DefFirst(c) == /\ c_pc[c] # "armed"
               /\ c_pc[c] = "asleep" => job[Null] # "idle"

DefShared ==
  Def!Jiq =>
    /\ job_live = {Null} /\ "data" \notin touched
    /\ \A j \in Def!Jobs \ {Null} : job[j] = "idle"
    /\ way = "jiq_wq" => \A c \in Callers : DefFirst(c)
    /\ cause = {} => DefAlone

DefInv == DefTypeOK /\ DefOwn /\ DefShared

LEMMA DefInitInv == Def!DeferredInit => DefInv
<1> SUFFICES ASSUME Def!DeferredInit PROVE DefInv
  OBVIOUS
<1>1. DefTypeOK
  BY DEF Def!DeferredInit, DefTypeOK, DefPc, Def!Jobs
<1>2. DefOwn
  <2>1. \A c \in Callers : c \in Def!Jobs /\ ~Def!Calls(c) /\ job[c] = "idle"
                           /\ c_pc[c] = "outside" /\ touched = {}
    BY DEF Def!DeferredInit, Def!Jobs, Def!Calls
  <2>2. \A c \in Callers : DefOwnAt(c) /\ DefJitAt(c) /\ DefPageAt(c) /\ DefWorkAt(c)
    BY <2>1 DEF DefOwnAt, DefJitAt, DefPageAt, DefWorkAt
  <2>3. /\ \A j \in Def!Jobs : job[j] = "idle"
        /\ touched = {}
    BY DEF Def!DeferredInit
  <2>4. QED
    BY <2>2, <2>3 DEF DefOwn
<1>3. DefShared
  BY DEF Def!DeferredInit, DefShared, DefFirst, DefAlone, Def!Jobs, Def!Calls, Def!Jiq
<1>4. QED
  BY <1>1, <1>2, <1>3 DEF DefInv

\* Every step keeps the types.
LEMMA DefTypeKept == DefTypeOK /\ Def!DeferredNext => DefTypeOK'
<1> SUFFICES ASSUME DefTypeOK, Def!DeferredNext PROVE DefTypeOK'
  OBVIOUS
<1> Null \in Def!Jobs /\ Lines \in Int /\ \A c \in Callers : c \in Def!Jobs /\ Def!JobOf(c) \in Def!Jobs
  BY LinesAssumption DEF Def!Jobs, Def!JobOf
<1> USE DEF DefTypeOK, DefPc
<1>1. ASSUME NEW c \in Callers, Def!Prepare(c) PROVE DefTypeOK'
  <2>1. loops' \in [Def!Jobs -> Int] /\ job_owner' \in [Def!Jobs -> Def!Jobs]
    <3>1. loops' = [loops EXCEPT ![Def!JobOf(c)] = IF way = "jiq_timer" THEN Lines - 1 ELSE Lines]
      BY <1>1 DEF Def!Prepare
    <3>2. job_owner' = [job_owner EXCEPT ![Def!JobOf(c)] = c]
      BY <1>1 DEF Def!Prepare
    <3>3. QED
      BY <3>1, <3>2
  <2>2. c_pc' \in [Callers -> DefPc] /\ UNCHANGED <<way, job, touched>>
    BY <1>1 DEF Def!Prepare
  <2>3. QED
    BY <2>1, <2>2
<1>2. ASSUME NEW c \in Callers, Def!Queue(c) PROVE DefTypeOK'
  BY <1>2 DEF Def!Queue, Def!Moves
<1>3. ASSUME NEW c \in Callers, Def!Sleep(c) PROVE DefTypeOK'
  BY <1>3 DEF Def!Sleep, Def!Moves
<1>4. ASSUME NEW c \in Callers, Def!Signal(c) PROVE DefTypeOK'
  BY <1>4 DEF Def!Signal, Def!Moves
<1>5. ASSUME NEW c \in Callers, Def!Finish(c) PROVE DefTypeOK'
  BY <1>5 DEF Def!Finish, Def!Moves
<1>6. CASE Def!JiqRun
  <2>1. job' \in [Def!Jobs -> {"idle", "queued", "waking", "both"}] /\ UNCHANGED <<way, c_pc, job_owner>>
    BY <1>6 DEF Def!JiqRun
  <2>2. loops' \in [Def!Jobs -> Int]
    <3>1. loops' = loops \/ loops' = [loops EXCEPT ![Null] = loops[Null] - 1]
      BY <1>6 DEF Def!JiqRun
    <3>2. loops[Null] - 1 \in Int
      OBVIOUS
    <3>3. QED
      BY <3>1, <3>2
  <2>3. touched' \subseteq {"page", "data"}
    <3>1. \/ touched' = touched
          \/ \E p, q \in BOOLEAN : touched' = touched \cup Def!If("page", p) \cup Def!If("data", q)
      BY <1>6 DEF Def!JiqRun, Def!Prints
    <3>2. \A p, q \in BOOLEAN : Def!If("page", p) \subseteq {"page"} /\ Def!If("data", q) \subseteq {"data"}
      BY DEF Def!If
    <3>3. QED
      BY <3>1, <3>2
  <2>4. QED
    BY <2>1, <2>2, <2>3
<1>7. ASSUME NEW j \in Def!Jobs, Def!Run(j) PROVE DefTypeOK'
  BY <1>7 DEF Def!Run, Def!Prints, Def!If
<1>8. ASSUME NEW j \in Def!Jobs, Def!Wakes(j) PROVE DefTypeOK'
  BY <1>8 DEF Def!Wakes, Def!If
<1>9. QED
  BY <1>1, <1>2, <1>3, <1>4, <1>5, <1>6, <1>7, <1>8 DEF Def!DeferredNext

\* What a step on a job of one's own leaves alone.
DefOthers(c) == /\ UNCHANGED way
                /\ \A d \in Def!Jobs \ {c} : /\ job'[d] = job[d] /\ loops'[d] = loops[d]
                                             /\ job_owner'[d] = job_owner[d]
                                             /\ d \in job_live' <=> d \in job_live
                /\ \A d \in Callers : d # c => c_pc'[d] = c_pc[d]

\* It is enough to look at that job.
LEMMA DefOwnKept ==
  ASSUME DefOwn, ~Def!Jiq, NEW c \in Callers, DefOthers(c),
         DefOwnAt(c)',
         way \in {"jit", "x_jit"} => DefJitAt(c)',
         cause' = {} => cause = {},
         way = "jit" /\ cause' = {} => "page" \notin touched' /\ DefPageAt(c)',
         way = "x_jit" => "page" \notin touched',
         way = "x_work" => touched' = {} /\ DefWorkAt(c)'
  PROVE  DefOwn'
<1>1. \A j \in Def!Jobs : j \notin Callers => job'[j] = "idle"
  BY DEF DefOwn, DefOthers
<1>2. ASSUME NEW d \in Callers, d # c
      PROVE  /\ DefOwnAt(d)' <=> DefOwnAt(d)
             /\ DefJitAt(d)' <=> DefJitAt(d)
             /\ DefPageAt(d)' <=> DefPageAt(d)
             /\ DefWorkAt(d)' <=> DefWorkAt(d)
  <2>1. /\ job'[d] = job[d] /\ loops'[d] = loops[d] /\ job_owner'[d] = job_owner[d]
        /\ d \in job_live' <=> d \in job_live
        /\ c_pc'[d] = c_pc[d]
    BY <1>2 DEF DefOthers, Def!Jobs
  <2>2. DefOwnAt(d)' <=> DefOwnAt(d)
    BY <2>1 DEF DefOwnAt, Def!Calls
  <2>3. (DefJitAt(d)' <=> DefJitAt(d)) /\ (DefPageAt(d)' <=> DefPageAt(d))
    BY <2>1 DEF DefJitAt, DefPageAt
  <2>4. DefWorkAt(d)' <=> DefWorkAt(d)
    BY <2>1 DEF DefWorkAt, Def!Calls
  <2>5. QED
    BY <2>2, <2>3, <2>4
<1>3. \A d \in Callers : DefOwnAt(d)'
  <2>1. \A d \in Callers : DefOwnAt(d)
    BY DEF DefOwn
  <2>2. QED
    BY <1>2, <2>1
<1>4. way \in {"jit", "x_jit"} => \A d \in Callers : DefJitAt(d)'
  BY <1>2 DEF DefOwn
<1>5. way = "jit" /\ cause' = {} => \A d \in Callers : DefPageAt(d)'
  BY <1>2 DEF DefOwn
<1>6. way = "x_work" => \A d \in Callers : DefWorkAt(d)'
  BY <1>2 DEF DefOwn
<1>7. way' = way
  BY DEF DefOthers
<1>8. Def!Jobs' = Def!Jobs
  BY DEF Def!Jobs
<1>9. QED
  BY <1>1, <1>3, <1>4, <1>5, <1>6, <1>7, <1>8 DEF DefOwn

DefAt(c) == /\ DefOwnAt(c)
            /\ way \in {"jit", "x_jit"} => DefJitAt(c)
            /\ way = "jit" /\ cause = {} => "page" \notin touched /\ DefPageAt(c)
            /\ way = "x_jit" => "page" \notin touched
            /\ way = "x_work" => touched = {} /\ DefWorkAt(c)

LEMMA DefOwnReaderKeeps ==
  ASSUME DefTypeOK, DefOwn, ~Def!Jiq, NEW c \in Callers,
         Def!Prepare(c) \/ Def!Queue(c) \/ Def!Sleep(c) \/ Def!Signal(c) \/ Def!Finish(c)
  PROVE  DefOwn'
<1> Lines \in Int /\ Lines >= 1 /\ Def!JobOf(c) = c /\ c \in Def!Jobs /\ way \in {"jit", "x_jit", "x_work"}
  BY LinesAssumption DEF Def!JobOf, Def!Jobs, Def!Jiq, DefTypeOK
<1> /\ c_pc \in [Callers -> DefPc] /\ job \in [Def!Jobs -> {"idle", "queued", "waking", "both"}]
    /\ loops \in [Def!Jobs -> Int] /\ job_owner \in [Def!Jobs -> Def!Jobs]
  BY DEF DefTypeOK
<1>1. DefAt(c)
  BY DEF DefOwn, DefAt
<1> USE DEF DefAt, DefOwnAt, DefJitAt, DefPageAt, DefWorkAt, Def!Calls, Def!Moves, DefOthers
<1>2. CASE Def!Prepare(c)
  <2>1. /\ UNCHANGED <<way, job, touched>> /\ c_pc' = [c_pc EXCEPT ![c] = "ready"]
        /\ ~Def!Calls(c) /\ job[c] = "idle"
        /\ loops' = [loops EXCEPT ![c] = Lines] /\ job_owner' = [job_owner EXCEPT ![c] = c]
        /\ job_live' = job_live \cup {c} /\ cause' = cause
    BY <1>2 DEF Def!Prepare, Def!If, Def!Jiq
  <2>2. DefAt(c)'
    BY <1>1, <2>1
  <2>3. DefOthers(c)
    BY <2>1
  <2>4. QED
    BY <2>1, <2>2, <2>3, DefOwnKept
<1>3. CASE Def!Queue(c)
  <2>1. /\ UNCHANGED <<way, loops, job_owner, job_live, touched, cause>>
        /\ c_pc[c] = "ready" /\ c_pc' = [c_pc EXCEPT ![c] = "armed"]
        /\ job' = [job EXCEPT ![c] = "queued"]
    BY <1>1, <1>3 DEF Def!Queue, Def!PreparesFirst
  <2>2. DefAt(c)'
    BY <1>1, <2>1
  <2>3. DefOthers(c)
    BY <2>1
  <2>4. QED
    BY <2>1, <2>2, <2>3, DefOwnKept
<1>4. CASE Def!Sleep(c)
  <2>1. /\ UNCHANGED <<way, job, loops, job_owner, job_live, touched, cause>> /\ c_pc[c] = "armed"
        /\ c_pc' = [c_pc EXCEPT ![c] = IF way \in {"jit", "x_jit"} /\ loops[c] = 0 THEN "woken" ELSE "asleep"]
    BY <1>4 DEF Def!Sleep
  <2>2. DefAt(c)'
    BY <1>1, <2>1
  <2>3. DefOthers(c)
    BY <2>1
  <2>4. QED
    BY <2>1, <2>2, <2>3, DefOwnKept
<1>5. CASE Def!Signal(c)
  <2>1. /\ UNCHANGED <<way, job, loops, job_owner, job_live, touched>> /\ c_pc[c] \in {"asleep", "woken"}
        /\ c_pc' = [c_pc EXCEPT ![c] = IF way \in {"jit", "x_jit"} THEN "gone" ELSE "woken"]
        /\ IF way = "x_work" THEN cause' = cause ELSE cause' # {}
        /\ cause' = {} => cause = {}
    BY <1>5 DEF Def!Signal, Def!If
  <2>2. DefAt(c)'
    BY <1>1, <2>1
  <2>3. DefOthers(c)
    BY <2>1
  <2>4. QED
    BY <2>1, <2>2, <2>3, DefOwnKept
<1>6. CASE Def!Finish(c)
  <2>1. /\ UNCHANGED <<way, loops, job_owner, touched, cause>> /\ c_pc[c] = "woken"
        /\ c_pc' = [c_pc EXCEPT ![c] = "outside"] /\ job_live' = job_live \ {c}
        /\ IF way = "x_work" THEN job' = [job EXCEPT ![c] = "idle"] ELSE job' = job
    BY <1>6 DEF Def!Finish
  <2>2. DefAt(c)'
    BY <1>1, <2>1
  <2>3. DefOthers(c)
    BY <2>1
  <2>4. QED
    BY <2>1, <2>2, <2>3, DefOwnKept
<1>7. QED
  BY <1>2, <1>3, <1>4, <1>5, <1>6

LEMMA DefOwnJobKeeps ==
  ASSUME DefTypeOK, DefOwn, ~Def!Jiq, NEW c \in Def!Jobs, Def!Run(c) \/ Def!Wakes(c)
  PROVE  DefOwn'
<1>1. c \in Callers /\ way \in {"jit", "x_jit", "x_work"} /\ \A d \in Callers : Def!JobOf(d) = d
  BY DEF DefOwn, Def!Run, Def!Wakes, Def!JobOf, Def!Jiq, DefTypeOK
<1> /\ c_pc \in [Callers -> DefPc] /\ job \in [Def!Jobs -> {"idle", "queued", "waking", "both"}]
    /\ loops \in [Def!Jobs -> Int] /\ job_owner \in [Def!Jobs -> Def!Jobs]
  BY DEF DefTypeOK
<1>2. DefAt(c)
  BY <1>1 DEF DefOwn, DefAt
<1> USE DEF DefAt, DefOwnAt, DefJitAt, DefPageAt, DefWorkAt, Def!Calls, DefOthers
<1>3. CASE Def!Run(c)
  <2>1. /\ UNCHANGED <<way, c_pc, job_owner, job_live, cause>> /\ job[c] = "queued"
        /\ loops' = [loops EXCEPT ![c] = loops[c] - 1]
        /\ job' = [job EXCEPT ![c] = IF loops[c] = 1 THEN "waking" ELSE "queued"]
    BY <1>3 DEF Def!Run
  <2>2. /\ way = "x_work" => touched' = {}
        /\ way = "x_jit" => "page" \notin touched'
        /\ way = "jit" /\ cause = {} => "page" \notin touched'
    BY <1>1, <1>2, <1>3, <2>1 DEF Def!Run, Def!Prints, Def!If, DefPc
  <2>3. DefAt(c)'
    BY <1>1, <1>2, <2>1, <2>2
  <2>4. DefOthers(c)
    BY <2>1
  <2>5. QED
    BY <1>1, <2>1, <2>3, <2>4, DefOwnKept
<1>4. CASE Def!Wakes(c)
  <2>1. /\ UNCHANGED <<way, loops, job_owner, job_live, cause>> /\ job[c] = "waking"
        /\ job' = [job EXCEPT ![c] = "idle"]
        /\ \A d \in Callers : c_pc'[d] = IF c_pc[d] = "asleep" /\ d = c THEN "woken" ELSE c_pc[d]
    BY <1>1, <1>2, <1>4 DEF Def!Wakes
  <2>2. /\ way = "x_work" => touched' = {}
        /\ way = "x_jit" => "page" \notin touched'
        /\ way = "jit" /\ cause = {} => "page" \notin touched'
    BY <1>1, <1>2, <1>4, <2>1 DEF Def!Wakes, Def!If
  <2>3. DefAt(c)'
    BY <1>1, <1>2, <2>1, <2>2
  <2>4. DefOthers(c)
    BY <2>1
  <2>5. QED
    BY <1>1, <2>1, <2>3, <2>4, DefOwnKept
<1>5. QED
  BY <1>3, <1>4

LEMMA DefSharedReaderKeeps ==
  ASSUME DefTypeOK, DefShared, Def!Jiq, NEW c \in Callers,
         Def!Prepare(c) \/ Def!Queue(c) \/ Def!Sleep(c) \/ Def!Signal(c) \/ Def!Finish(c)
  PROVE  DefShared'
<1> way \in {"jiq_wq", "jiq_tasklet", "jiq_timer"} /\ Null \in Def!Jobs /\ \A d \in Callers : Def!JobOf(d) = Null
  BY DEF Def!JobOf, Def!Jobs, Def!Jiq
<1> /\ c_pc \in [Callers -> DefPc] /\ job \in [Def!Jobs -> {"idle", "queued", "waking", "both"}]
    /\ loops \in [Def!Jobs -> Int] /\ job_owner \in [Def!Jobs -> Def!Jobs]
  BY DEF DefTypeOK
<1>1. /\ job_live = {Null} /\ "data" \notin touched
      /\ \A j \in Def!Jobs \ {Null} : job[j] = "idle"
      /\ way = "jiq_wq" => \A d \in Callers : DefFirst(d)
      /\ cause = {} => DefAlone
  BY DEF DefShared
<1>2. /\ UNCHANGED <<way, touched>> /\ job_live' = {Null}
      /\ cause' = {} => cause = {}
      /\ \A j \in Def!Jobs \ {Null} : job'[j] = "idle"
      /\ \A d \in Callers \ {c} : c_pc'[d] = c_pc[d]
  BY <1>1 DEF Def!Prepare, Def!Queue, Def!Sleep, Def!Signal, Def!Finish, Def!Moves, Def!Jiq
<1>3. way = "jiq_wq" => \A d \in Callers : DefFirst(d)'
  <2> USE DEF DefFirst
  <2>1. CASE Def!Prepare(c)
    BY <1>1, <1>2, <2>1 DEF Def!Prepare
  <2>2. CASE Def!Queue(c)
    <3>1. /\ c_pc[c] = "ready" /\ c_pc' = [c_pc EXCEPT ![c] = IF way = "jiq_wq" THEN "asleep" ELSE "armed"]
          /\ job' = [job EXCEPT ![Null] = IF @ = "waking" THEN "both" ELSE "queued"]
      BY <2>2 DEF Def!Queue, Def!Moves, Def!PreparesFirst
    <3>2. job'[Null] # "idle"
      BY <3>1
    <3>3. QED
      BY <1>1, <3>1, <3>2
  <2>3. CASE Def!Sleep(c)
    BY <1>1, <2>3 DEF Def!Sleep, Def!Moves
  <2>4. CASE Def!Signal(c)
    BY <1>1, <1>2, <2>4 DEF Def!Signal, Def!Moves
  <2>5. CASE Def!Finish(c)
    BY <1>1, <1>2, <2>5 DEF Def!Finish, Def!Moves
  <2>6. QED
    BY <2>1, <2>2, <2>3, <2>4, <2>5
<1>4. ASSUME cause' = {} PROVE DefAlone'
  <2>1. DefAlone /\ touched' = {}
    BY <1>1, <1>2, <1>4 DEF DefAlone
  <2> USE DEF DefAlone, Def!Calls
  <2>2. CASE Def!Prepare(c)
    <3>1. /\ c_pc' = [c_pc EXCEPT ![c] = "ready"] /\ job_owner' = [job_owner EXCEPT ![Null] = c]
          /\ job' = job /\ ~Def!Calls(c) /\ \A d \in Callers \ {c} : ~Def!Calls(d)
      BY <1>4, <2>2 DEF Def!Prepare, Def!If, Def!Jiq
    <3>2. job[Null] = "idle"
      BY <2>1, <3>1
    <3>3. QED
      BY <2>1, <3>1, <3>2
  <2>3. CASE Def!Queue(c)
    <3>1. /\ c_pc[c] = "ready" /\ c_pc' = [c_pc EXCEPT ![c] = IF way = "jiq_wq" THEN "asleep" ELSE "armed"]
          /\ job_owner' = job_owner /\ job' = [job EXCEPT ![Null] = IF @ = "waking" THEN "both" ELSE "queued"]
      BY <2>3 DEF Def!Queue, Def!Moves, Def!PreparesFirst
    <3>2. job_owner[Null] = c /\ job[Null] = "idle"
      BY <2>1, <3>1
    <3>3. QED
      BY <2>1, <3>1, <3>2
  <2>4. CASE Def!Sleep(c)
    <3>1. /\ c_pc[c] = "armed" /\ c_pc' = [c_pc EXCEPT ![c] = "asleep"] /\ UNCHANGED <<job, job_owner>>
      BY <2>4 DEF Def!Sleep, Def!Moves
    <3>2. QED
      BY <2>1, <3>1
  <2>5. CASE Def!Signal(c)
    BY <1>4, <2>5 DEF Def!Signal, Def!If
  <2>6. CASE Def!Finish(c)
    <3>1. /\ c_pc[c] = "woken" /\ c_pc' = [c_pc EXCEPT ![c] = "outside"] /\ job_owner' = job_owner
          /\ job' = job \/ job' = [job EXCEPT ![Null] = "idle"]
      BY <2>6 DEF Def!Finish, Def!Moves
    <3>2. job_owner[Null] = c /\ job[Null] = "idle"
      BY <2>1, <3>1
    <3>3. QED
      BY <2>1, <3>1, <3>2
  <2>7. QED
    BY <2>2, <2>3, <2>4, <2>5, <2>6
<1>5. QED
  BY <1>2, <1>3, <1>4 DEF DefShared, Def!Jiq

LEMMA DefSharedJobKeeps ==
  ASSUME DefTypeOK, DefShared, Def!Jiq, Def!JiqRun \/ \E j \in Def!Jobs : Def!Wakes(j)
  PROVE  DefShared'
<1> way \in {"jiq_wq", "jiq_tasklet", "jiq_timer"} /\ Null \in Def!Jobs /\ \A d \in Callers : Def!JobOf(d) = Null
  BY DEF Def!JobOf, Def!Jobs, Def!Jiq
<1> /\ c_pc \in [Callers -> DefPc] /\ job \in [Def!Jobs -> {"idle", "queued", "waking", "both"}]
    /\ loops \in [Def!Jobs -> Int] /\ job_owner \in [Def!Jobs -> Def!Jobs]
  BY DEF DefTypeOK
<1>1. /\ job_live = {Null} /\ "data" \notin touched
      /\ \A j \in Def!Jobs \ {Null} : job[j] = "idle"
      /\ way = "jiq_wq" => \A d \in Callers : DefFirst(d)
      /\ cause = {} => DefAlone
  BY DEF DefShared
<1>2. CASE Def!JiqRun
  <2>1. /\ UNCHANGED <<way, c_pc, job_owner, job_live, cause>> /\ job[Null] = "queued"
        /\ job'[Null] \in {"queued", "waking"}
    BY <1>2 DEF Def!JiqRun
  <2>2. "data" \notin touched'
    BY <1>1, <1>2 DEF Def!JiqRun, Def!Prints, Def!If
  <2>3. ASSUME cause = {} PROVE touched' = {}
    <3>1. Def!Calls(job_owner[Null]) /\ touched = {}
      BY <1>1, <2>1, <2>3 DEF DefAlone, Def!Calls
    <3>2. QED
      BY <1>1, <1>2, <3>1 DEF Def!JiqRun, Def!Prints, Def!If
  <2>4. cause = {} => DefAlone'
    BY <1>1, <2>1, <2>3 DEF DefAlone, Def!Calls
  <2>5. \A j \in Def!Jobs \ {Null} : job'[j] = "idle"
    BY <1>1, <1>2 DEF Def!JiqRun
  <2>6. way = "jiq_wq" => \A d \in Callers : DefFirst(d)'
    BY <1>1, <2>1 DEF DefFirst
  <2>7. QED
    BY <1>1, <2>1, <2>2, <2>4, <2>5, <2>6 DEF DefShared, Def!Jiq
<1>3. ASSUME NEW j \in Def!Jobs, Def!Wakes(j) PROVE DefShared'
  <2>1. /\ UNCHANGED <<way, job_owner, job_live, cause>> /\ job[j] \in {"waking", "both"}
        /\ job' = [job EXCEPT ![j] = IF @ = "both" THEN "queued" ELSE "idle"]
        /\ \A d \in Callers : c_pc'[d] = IF c_pc[d] = "asleep" /\ Null = j THEN "woken" ELSE c_pc[d]
    BY <1>3 DEF Def!Wakes
  <2>2. j = Null
    BY <1>1, <2>1
  <2>3. touched' = touched /\ \A d \in Callers : c_pc'[d] # "asleep"
    BY <1>1, <1>3, <2>1, <2>2 DEF Def!Wakes, Def!If
  <2>4. cause = {} => DefAlone'
    BY <1>1, <2>1, <2>2, <2>3 DEF DefAlone, Def!Calls
  <2>5. way = "jiq_wq" => \A d \in Callers : DefFirst(d)'
    BY <1>1, <2>1, <2>3 DEF DefFirst
  <2>6. \A i \in Def!Jobs \ {Null} : job'[i] = "idle"
    BY <1>1, <2>1, <2>2
  <2>7. QED
    BY <1>1, <2>1, <2>3, <2>4, <2>5, <2>6 DEF DefShared, Def!Jiq
<1>4. QED
  BY <1>2, <1>3

LEMMA DefStepInv == DefInv /\ [Def!DeferredNext]_Def!deferred_vars => DefInv'
<1> SUFFICES ASSUME DefInv, [Def!DeferredNext]_Def!deferred_vars PROVE DefInv'
  OBVIOUS
<1>1. DefTypeOK /\ DefOwn /\ DefShared
  BY DEF DefInv
<1>2. CASE UNCHANGED Def!deferred_vars
  <2>1. UNCHANGED <<way, c_pc, job, loops, job_owner, job_live, touched, cause>>
    BY <1>2 DEF Def!deferred_vars
  <2>2. DefTypeOK'
    BY <1>1, <2>1 DEF DefTypeOK, Def!Jobs
  <2>3. DefOwn'
    BY <1>1, <2>1 DEF DefOwn, DefOwnAt, DefJitAt, DefPageAt, DefWorkAt, Def!Jiq, Def!Calls, Def!Jobs
  <2>4. DefShared'
    BY <1>1, <2>1 DEF DefShared, DefFirst, DefAlone, Def!Jiq, Def!Calls, Def!Jobs
  <2>5. QED
    BY <2>2, <2>3, <2>4 DEF DefInv
<1>3. CASE Def!DeferredNext
  <2>1. DefTypeOK' /\ way' = way
    BY <1>1, <1>3, DefTypeKept DEF Def!DeferredNext, Def!Prepare, Def!Queue, Def!Sleep, Def!Signal, Def!Finish,
       Def!JiqRun, Def!Run, Def!Wakes
  <2>2. CASE Def!Jiq
    <3>1. DefShared'
      BY <1>1, <1>3, <2>2, DefSharedReaderKeeps, DefSharedJobKeeps DEF Def!DeferredNext, Def!Run
    <3>2. DefOwn'
      BY <2>1, <2>2 DEF DefOwn, Def!Jiq
    <3>3. QED
      BY <2>1, <3>1, <3>2 DEF DefInv
  <2>3. CASE ~Def!Jiq
    <3>1. DefOwn'
      BY <1>1, <1>3, <2>3, DefOwnReaderKeeps, DefOwnJobKeeps DEF Def!DeferredNext, Def!JiqRun
    <3>2. DefShared'
      BY <2>1, <2>3 DEF DefShared, Def!Jiq
    <3>3. QED
      BY <2>1, <3>1, <3>2 DEF DefInv
  <2>4. QED
    BY <2>2, <2>3
<1>4. QED
  BY <1>2, <1>3

\* Any number of readers, each with as many lines to print: the work queue never
\* touches what was given back, the shared job of jiq only after a signal or a second
\* reader, a jit job without a signal only at its last wake-up; and jit and jiq_wq
\* leave no sleeper without a job that will wake it.
THEOREM DeferredSpecSafe == Def!DeferredInit /\ [][Def!DeferredNext]_Def!deferred_vars => []DeferredSafe
<1>1. DefInv => DeferredSafe
  <2> SUFFICES ASSUME DefInv PROVE Def!GivenBackLeftAlone
    BY DEF DeferredSafe
  <2>1. DefTypeOK /\ DefOwn /\ DefShared
    BY DEF DefInv
  <2>2. touched # {} => \/ cause # {} /\ way # "x_work"
                        \/ touched = {"data"} /\ way \in {"jit", "x_jit"}
    BY <2>1 DEF DefTypeOK, DefOwn, DefShared, DefAlone, Def!Jiq
  <2>3. touched # {} /\ way = "x_jit" => touched = {"data"}
    BY <2>1 DEF DefTypeOK, DefOwn, Def!Jiq
  <2>4. \A c \in Callers : c_pc[c] = "asleep" =>
           job[Def!JobOf(c)] # "idle" \/ way \in {"jiq_tasklet", "jiq_timer", "x_work"}
    BY <2>1 DEF DefTypeOK, DefOwn, DefJitAt, DefShared, DefFirst, Def!Jiq, Def!JobOf
  <2>5. QED
    BY <2>2, <2>3, <2>4 DEF Def!GivenBackLeftAlone
<1>2. QED
  BY <1>1, DefInitInv, DefStepInv, PTL

-----------------------------------------------------------------------------
(* Short, while no record overruns the tail and no two readers share one   *)

ShortClean == excuse \cap {"overrun", "twice"} = {}

ShortTypeOK ==
  /\ head \in 0..PageSize - 1 /\ tail \in 0..PageSize - 1 /\ head % 2 = 0
  /\ r_pc \in [Readers -> {"idle", "ready", "empty", "queued", "roused", "asleep", "finish", "copied"}]
  /\ DOMAIN took = Readers

\* Either the handler prints or the bottom half does, whoever was installed.
ShortSplit ==
  /\ h_pc \in {"print", "advance", "wake"} => ~Irq!Split
  /\ h_pc \in {"store", "incr_tv", "schedule", "count"} \/ pending \/ bh_pc # "idle" => Irq!Split

\* A record that was printed fits in front of the tail.
ShortFits == h_pc = "advance" \/ bh_pc \in {"bh_advance", "advance"} => Irq!Unread + 2 < PageSize

\* What one reader has copied lies between the tail and the head.
ShortCopied ==
  /\ \A r, q \in Readers : r_pc[r] = "copied" /\ r_pc[q] = "copied" => r = q
  /\ \A r \in Readers : r_pc[r] = "copied" =>
       /\ Len(took[r]) \in Nat
       /\ Len(took[r]) <= Irq!Unread /\ tail + Len(took[r]) <= PageSize

ShortWake == head = tail \/ h_pc = "wake" \/ bh_pc # "idle" \/ \A r \in Readers : r_pc[r] # "asleep"

ShortGood == ShortTypeOK /\ ShortSplit /\ ShortFits /\ ShortCopied /\ ShortWake
ShortInv == ShortClean => ShortGood

\* The arithmetic of the page: the records that are not read yet.
LEMMA ShortUnread ==
  ASSUME head \in 0..PageSize - 1, tail \in 0..PageSize - 1
  PROVE  /\ Irq!Unread \in Nat
         /\ head = tail => Irq!Unread = 0
         /\ tail <= head => Irq!Unread = head - tail
         /\ head < tail => Irq!Unread = PageSize - tail + head
BY PageAssumption DEF Irq!Unread

LEMMA ShortAdvances ==
  ASSUME head \in 0..PageSize - 1, tail \in 0..PageSize - 1, head % 2 = 0,
         Irq!Unread + 2 < PageSize, head' = Irq!short_incr_bp(head, 2), tail' = tail
  PROVE  head' \in 0..PageSize - 1 /\ head' % 2 = 0 /\ Irq!Unread' = Irq!Unread + 2
<1>1. PageSize \in Nat /\ PageSize % 2 = 0 /\ PageSize > 2 /\ head \in Nat
  BY PageAssumption
<1>2. head + 2 <= PageSize
  BY <1>1
<1>3. head' \in 0..PageSize - 1 /\ head' % 2 = 0
  BY <1>1, <1>2 DEF Irq!short_incr_bp
<1>4. Irq!Unread' = Irq!Unread + 2
  BY <1>1, <1>2 DEF Irq!short_incr_bp, Irq!Unread
<1>5. QED
  BY <1>3, <1>4

LEMMA ShortConsumes ==
  ASSUME head \in 0..PageSize - 1, tail \in 0..PageSize - 1, NEW k \in Nat,
         k <= Irq!Unread, tail + k <= PageSize,
         tail' = Irq!short_incr_bp(tail, k), head' = head
  PROVE  /\ tail' \in 0..PageSize - 1 /\ Irq!Unread' = Irq!Unread - k
         /\ head = tail => tail' = tail
BY PageAssumption DEF Irq!short_incr_bp, Irq!Unread

LEMMA ShortInitInv == Irq!ShortInit => ShortInv
<1> SUFFICES ASSUME Irq!ShortInit PROVE ShortGood
  BY DEF ShortInv
<1>1. head = 0 /\ tail = 0 /\ h_pc = "idle" /\ bh_pc = "idle" /\ ~pending
      /\ r_pc = [r \in Readers |-> "idle"] /\ DOMAIN took = Readers
  BY DEF Irq!ShortInit
<1>2. ShortTypeOK
  BY <1>1, PageAssumption DEF ShortTypeOK
<1>3. ShortSplit /\ ShortFits /\ ShortCopied /\ ShortWake
  BY <1>1 DEF ShortSplit, ShortFits, ShortCopied, ShortWake
<1>4. QED
  BY <1>2, <1>3 DEF ShortGood

\* Steps of the handler and the bottom half that leave the page's indices and the
\* readers alone.
LEMMA ShortQuietKeeps ==
  ASSUME ShortGood, UNCHANGED <<mode, head, tail, r_pc, took>>,
         ShortSplit', ShortFits', ShortWake'
  PROVE  ShortGood'
BY DEF ShortGood, ShortTypeOK, ShortCopied, Irq!Unread

LEMMA ShortPutKeeps ==
  ASSUME ShortGood, Irq!HandlerPrint \/ Irq!BhPrint, ShortClean'
  PROVE  ShortGood'
<1>1. /\ UNCHANGED <<mode, head, tail, r_pc, took, pending>>
      /\ Irq!Unread + 2 < PageSize
  <2>1. UNCHANGED <<mode, head, tail, r_pc, took, pending>>
    BY DEF Irq!HandlerPrint, Irq!BhPrint, Irq!reader_vars, Irq!tv_vars
  <2>2. ~ (Irq!Unread + 2 >= PageSize)
    BY DEF ShortClean, Irq!HandlerPrint, Irq!BhPrint, Irq!PutRecord, Irq!Spoil
  <2>3. Irq!Unread \in Nat /\ PageSize \in Nat
    BY ShortUnread, PageAssumption DEF ShortGood, ShortTypeOK
  <2>4. QED
    BY <2>1, <2>2, <2>3
<1>2. \/ h_pc = "print" /\ h_pc' = "advance" /\ UNCHANGED bh_pc
      \/ bh_pc # "idle" /\ bh_pc' # "idle" /\ UNCHANGED h_pc
  BY DEF Irq!HandlerPrint, Irq!BhPrint, Irq!Handler, Irq!Bh, Irq!handler_vars, Irq!bh_vars
<1>3. ShortSplit' /\ ShortFits' /\ ShortWake'
  BY <1>1, <1>2 DEF ShortGood, ShortSplit, ShortFits, ShortWake, Irq!Split, Irq!Unread
<1>4. QED
  BY <1>1, <1>3, ShortQuietKeeps

LEMMA ShortAdvanceKeeps ==
  ASSUME ShortGood, Irq!HandlerAdvance \/ Irq!BhAdvance \/ Irq!BhLoop
  PROVE  ShortGood'
<1>1. /\ UNCHANGED <<mode, tail, r_pc, took, pending>>
      /\ head' = Irq!short_incr_bp(head, 2)
  BY DEF Irq!HandlerAdvance, Irq!BhAdvance, Irq!BhLoop, Irq!Advance, Irq!reader_vars, Irq!tv_vars
<1>2. \/ h_pc = "advance" /\ h_pc' = "wake" /\ UNCHANGED bh_pc
      \/ bh_pc \in {"bh_advance", "advance"} /\ bh_pc' \in {"value", "wake"} /\ UNCHANGED h_pc
  BY DEF Irq!HandlerAdvance, Irq!BhAdvance, Irq!BhLoop, Irq!Handler, Irq!Bh, Irq!handler_vars, Irq!bh_vars
<1>3. Irq!Unread + 2 < PageSize /\ head \in 0..PageSize - 1 /\ tail \in 0..PageSize - 1 /\ head % 2 = 0
  BY <1>2 DEF ShortGood, ShortTypeOK, ShortFits
<1>4. head' \in 0..PageSize - 1 /\ head' % 2 = 0 /\ Irq!Unread' = Irq!Unread + 2 /\ Irq!Unread \in Nat
  BY <1>1, <1>3, ShortAdvances, ShortUnread
<1>5. ShortTypeOK'
  BY <1>1, <1>4 DEF ShortGood, ShortTypeOK
<1>6. ShortSplit' /\ ShortWake'
  BY <1>1, <1>2 DEF ShortGood, ShortSplit, ShortWake, Irq!Split
<1>7. ShortFits'
  BY <1>1, <1>2 DEF ShortGood, ShortSplit, ShortFits
<1>8. ShortCopied'
  BY <1>1, <1>4 DEF ShortGood, ShortCopied
<1>9. QED
  BY <1>5, <1>6, <1>7, <1>8 DEF ShortGood

LEMMA ShortWakeUpKeeps ==
  ASSUME ShortGood, Irq!HandlerWake \/ Irq!BhWake
  PROVE  ShortGood'
<1>1. /\ UNCHANGED <<mode, head, tail, took, pending>> /\ Irq!WakeUp
  BY DEF Irq!HandlerWake, Irq!BhWake, Irq!page_vars, Irq!tv_vars
<1>2. \/ h_pc = "wake" /\ h_pc' = "idle" /\ UNCHANGED bh_pc
      \/ bh_pc = "wake" /\ bh_pc' = "idle" /\ UNCHANGED h_pc
  BY DEF Irq!HandlerWake, Irq!BhWake, Irq!Handler, Irq!Bh, Irq!handler_vars, Irq!bh_vars
<1>3. /\ r_pc' \in [Readers -> {"idle", "ready", "empty", "queued", "roused", "asleep", "finish", "copied"}]
      /\ \A r \in Readers : r_pc'[r] # "asleep" /\ (r_pc'[r] = "copied" => r_pc[r] = "copied")
  BY <1>1 DEF Irq!WakeUp, ShortGood, ShortTypeOK
<1>4. ShortTypeOK' /\ ShortWake'
  BY <1>1, <1>3 DEF ShortGood, ShortTypeOK, ShortWake
<1>5. ShortSplit' /\ ShortFits'
  BY <1>1, <1>2 DEF ShortGood, ShortSplit, ShortFits, Irq!Split, Irq!Unread
<1>6. ShortCopied'
  BY <1>1, <1>3 DEF ShortGood, ShortCopied, Irq!Unread
<1>7. QED
  BY <1>4, <1>5, <1>6 DEF ShortGood

\* The rest of the two: the port, the array of times, the counter.
LEMMA ShortRestKeeps ==
  ASSUME ShortGood,
         \/ Irq!Write \/ Irq!Interrupt \/ Irq!NotMine \/ Irq!NotTheirs
         \/ Irq!Store \/ Irq!IncrTv \/ Irq!Schedule \/ Irq!Count \/ Irq!BhSave \/ Irq!BhReset
  PROVE  ShortGood'
<1>1. UNCHANGED <<mode, head, tail, r_pc, took>>
  BY DEF Irq!Write, Irq!Interrupt, Irq!NotMine, Irq!NotTheirs, Irq!Store, Irq!IncrTv, Irq!Schedule,
     Irq!Count, Irq!BhSave, Irq!BhReset, Irq!page_vars, Irq!reader_vars
<1>2. ShortSplit /\ ShortFits /\ ShortWake
  BY DEF ShortGood
<1> USE DEF ShortSplit, ShortFits, ShortWake, Irq!Split, Irq!Unread, Irq!Handler, Irq!Bh,
            Irq!tv_vars, Irq!bh_vars, Irq!handler_vars
<1>3. CASE Irq!Write \/ Irq!NotMine
  <2>1. UNCHANGED <<h_pc, bh_pc, pending>>
    BY <1>3 DEF Irq!Write, Irq!NotMine
  <2>2. QED
    BY <1>1, <1>2, <2>1, ShortQuietKeeps
<1>4. CASE Irq!Interrupt
  <2>1. ShortSplit' /\ ShortFits' /\ ShortWake'
    BY <1>1, <1>2, <1>4 DEF Irq!Interrupt
  <2>2. QED
    BY <1>1, <2>1, ShortQuietKeeps
<1>5. CASE Irq!NotTheirs
  <2>1. ShortSplit' /\ ShortFits' /\ ShortWake'
    BY <1>1, <1>2, <1>5 DEF Irq!NotTheirs
  <2>2. QED
    BY <1>1, <2>1, ShortQuietKeeps
<1>6. CASE Irq!Store \/ Irq!IncrTv \/ Irq!Schedule \/ Irq!Count
  <2>1. /\ h_pc \in {"store", "incr_tv", "schedule", "count"}
        /\ h_pc' \in {"incr_tv", "schedule", "count", "idle"} /\ UNCHANGED bh_pc
    BY <1>6 DEF Irq!Store, Irq!IncrTv, Irq!Schedule, Irq!Count
  <2>2. ShortSplit' /\ ShortFits' /\ ShortWake'
    BY <1>1, <1>2, <2>1
  <2>3. QED
    BY <1>1, <2>2, ShortQuietKeeps
<1>7. CASE Irq!BhSave \/ Irq!BhReset
  <2>1. /\ pending \/ bh_pc # "idle"
        /\ bh_pc' \in {"reset", "bh_after"} /\ UNCHANGED h_pc
    BY <1>7 DEF Irq!BhSave, Irq!BhReset
  <2>2. ShortSplit' /\ ShortFits' /\ ShortWake'
    BY <1>1, <1>2, <2>1
  <2>3. QED
    BY <1>1, <2>2, ShortQuietKeeps
<1>8. QED
  BY <1>3, <1>4, <1>5, <1>6, <1>7

LEMMA ShortReaderKeeps ==
  ASSUME ShortGood, NEW r \in Readers,
         Irq!Test(r) \/ Irq!prepare_to_wait(r) \/ Irq!Retest(r) \/ Irq!Again(r) \/ Irq!CopyFault(r)
  PROVE  ShortGood'
<1>1. UNCHANGED <<mode, head, tail, took, pending, h_pc, bh_pc>>
  BY DEF Irq!Test, Irq!prepare_to_wait, Irq!Retest, Irq!Again, Irq!CopyFault, Irq!outside, Irq!page_vars,
         Irq!tv_vars, Irq!handler_vars, Irq!bh_vars
<1>2. /\ r_pc' \in [Readers -> {"idle", "ready", "empty", "queued", "roused", "asleep", "finish", "copied"}]
      /\ r_pc'[r] # "copied" /\ (r_pc'[r] = "asleep" => head = tail)
      /\ \A q \in Readers \ {r} : r_pc'[q] = r_pc[q]
  BY DEF Irq!Test, Irq!prepare_to_wait, Irq!Retest, Irq!Again, Irq!CopyFault, Irq!Goto, ShortGood, ShortTypeOK
<1>3. ShortTypeOK'
  BY <1>1, <1>2 DEF ShortGood, ShortTypeOK
<1>4. ShortSplit' /\ ShortFits' /\ ShortWake'
  BY <1>1, <1>2 DEF ShortGood, ShortSplit, ShortFits, ShortWake, Irq!Split, Irq!Unread
<1>5. ShortCopied'
  BY <1>1, <1>2 DEF ShortGood, ShortCopied, Irq!Unread
<1>6. QED
  BY <1>3, <1>4, <1>5 DEF ShortGood

LEMMA ShortCopyKeeps ==
  ASSUME ShortGood, NEW r \in Readers, Irq!Copy(r), ShortClean'
  PROVE  ShortGood'
<1> DEFINE count0 == IF head - tail < 0 THEN PageSize - tail ELSE head - tail
<1>0. PICK n \in 1..2 :
        /\ Irq!Goto(r, "ready", "copied")
        /\ took' = [took EXCEPT ![r] = [i \in 1..(IF count0 < n THEN count0 ELSE n) |-> page[tail + i - 1]]]
        /\ Irq!Spoil("twice", \E q \in Readers \ {r} : r_pc[q] = "copied")
        /\ UNCHANGED <<Irq!outside, Irq!page_vars, got>>
  BY DEF Irq!Copy
<1> DEFINE k == IF count0 < n THEN count0 ELSE n
<1>1. /\ Irq!Goto(r, "ready", "copied")
      /\ took' = [took EXCEPT ![r] = [i \in 1..k |-> page[tail + i - 1]]]
      /\ Irq!Spoil("twice", \E q \in Readers \ {r} : r_pc[q] = "copied")
      /\ UNCHANGED <<Irq!outside, Irq!page_vars, got>>
  BY <1>0
<1>2. UNCHANGED <<mode, head, tail, pending, h_pc, bh_pc>>
  BY <1>1 DEF Irq!outside, Irq!page_vars, Irq!tv_vars, Irq!handler_vars, Irq!bh_vars
<1>3. \A q \in Readers \ {r} : r_pc[q] # "copied"
  BY <1>1 DEF Irq!Spoil, ShortClean
<1>4. k \in Nat /\ k <= Irq!Unread /\ tail + k <= PageSize
  BY ShortUnread, PageAssumption DEF ShortGood, ShortTypeOK
<1> HIDE DEF k
<1>5. DOMAIN took' = Readers /\ Len(took'[r]) = k
  <2>1. took'[r] = [i \in 1..k |-> page[tail + i - 1]] /\ DOMAIN took' = Readers
    BY <1>1 DEF ShortGood, ShortTypeOK
  <2>2. Len([i \in 1..k |-> page[tail + i - 1]]) = k
    BY <1>4
  <2>3. QED
    BY <2>1, <2>2
<1>6. /\ r_pc' \in [Readers -> {"idle", "ready", "empty", "queued", "roused", "asleep", "finish", "copied"}]
      /\ r_pc'[r] = "copied" /\ \A q \in Readers \ {r} : r_pc'[q] = r_pc[q]
  BY <1>1 DEF Irq!Goto, ShortGood, ShortTypeOK
<1>7. ShortTypeOK'
  BY <1>2, <1>5, <1>6 DEF ShortGood, ShortTypeOK
<1>8. ShortSplit' /\ ShortFits' /\ ShortWake'
  BY <1>2, <1>6 DEF ShortGood, ShortSplit, ShortFits, ShortWake, Irq!Split, Irq!Unread
<1>9. ShortCopied'
  <2>1. Irq!Unread' = Irq!Unread
    BY <1>2 DEF Irq!Unread
  <2>2. \A q \in Readers : r_pc'[q] = "copied" => q = r
    BY <1>3, <1>6
  <2>3. QED
    BY <1>2, <1>4, <1>5, <2>1, <2>2 DEF ShortCopied
<1>10. QED
  BY <1>7, <1>8, <1>9 DEF ShortGood

LEMMA ShortConsumeKeeps ==
  ASSUME ShortGood, NEW r \in Readers, Irq!Consume(r)
  PROVE  ShortGood'
<1>1. /\ UNCHANGED <<mode, head, pending, h_pc, bh_pc>> /\ r_pc[r] = "copied"
      /\ r_pc' = [r_pc EXCEPT ![r] = "idle"] /\ took' = [took EXCEPT ![r] = <<>>]
      /\ tail' = Irq!short_incr_bp(tail, Len(took[r]))
  BY DEF Irq!Consume, Irq!Goto, Irq!outside, Irq!tv_vars, Irq!handler_vars, Irq!bh_vars
<1>2. /\ Len(took[r]) \in Nat /\ Len(took[r]) <= Irq!Unread /\ tail + Len(took[r]) <= PageSize
      /\ \A q \in Readers : r_pc'[q] # "copied"
  BY <1>1 DEF ShortGood, ShortTypeOK, ShortCopied
<1>3. /\ tail' \in 0..PageSize - 1 /\ Irq!Unread' = Irq!Unread - Len(took[r])
      /\ head = tail => tail' = tail
  BY <1>1, <1>2, ShortConsumes DEF ShortGood, ShortTypeOK
<1>4. ShortTypeOK'
  BY <1>1, <1>3 DEF ShortGood, ShortTypeOK
<1>5. ShortSplit'
  BY <1>1 DEF ShortGood, ShortSplit, Irq!Split
<1>6. ShortFits'
  <2>1. Irq!Unread \in Nat /\ PageSize \in Nat
    BY ShortUnread, PageAssumption DEF ShortGood, ShortTypeOK
  <2>2. PICK u \in Nat, k \in Nat : u = Irq!Unread /\ k = Len(took[r]) /\ Irq!Unread' = u - k
    BY <1>2, <1>3, <2>1
  <2>3. u + 2 < PageSize => u - k + 2 < PageSize
    BY <2>1
  <2>4. QED
    BY <1>1, <2>2, <2>3 DEF ShortGood, ShortFits
<1>7. ShortWake'
  BY <1>1, <1>3 DEF ShortGood, ShortTypeOK, ShortWake
<1>8. ShortCopied'
  BY <1>2 DEF ShortCopied
<1>9. QED
  BY <1>4, <1>5, <1>6, <1>7, <1>8 DEF ShortGood

LEMMA ShortExcuses == [Irq!ShortNext]_Irq!short_vars => excuse \subseteq excuse'
BY DEF Irq!ShortNext, Irq!Write, Irq!Interrupt, Irq!NotMine, Irq!NotTheirs, Irq!HandlerPrint,
   Irq!HandlerAdvance, Irq!HandlerWake, Irq!Store, Irq!IncrTv, Irq!Schedule, Irq!Count, Irq!BhSave,
   Irq!BhReset, Irq!BhPrint, Irq!BhAdvance, Irq!BhLoop, Irq!BhWake, Irq!Test, Irq!prepare_to_wait,
   Irq!Retest, Irq!Again, Irq!Copy, Irq!CopyFault, Irq!Consume, Irq!PutRecord, Irq!Advance, Irq!Spoil,
   Irq!short_vars

LEMMA ShortStepInv == ShortInv /\ [Irq!ShortNext]_Irq!short_vars => ShortInv'
<1> SUFFICES ASSUME ShortInv, [Irq!ShortNext]_Irq!short_vars, ShortClean' PROVE ShortGood'
  BY DEF ShortInv
<1>1. ShortClean
  BY ShortExcuses DEF ShortClean
<1>2. ShortGood
  BY <1>1 DEF ShortInv
<1>3. CASE UNCHANGED Irq!short_vars
  <2>1. UNCHANGED <<mode, head, tail, r_pc, took, pending, h_pc, bh_pc>>
    BY <1>3 DEF Irq!short_vars, Irq!page_vars, Irq!reader_vars, Irq!tv_vars, Irq!handler_vars, Irq!bh_vars
  <2>2. ShortSplit' /\ ShortFits' /\ ShortWake'
    BY <1>2, <2>1 DEF ShortGood, ShortSplit, ShortFits, ShortWake, Irq!Split, Irq!Unread
  <2>3. QED
    BY <1>2, <2>1, <2>2, ShortQuietKeeps
<1>4. CASE Irq!ShortNext
  BY <1>2, <1>4, ShortPutKeeps, ShortAdvanceKeeps, ShortWakeUpKeeps, ShortRestKeeps, ShortReaderKeeps,
     ShortCopyKeeps, ShortConsumeKeeps DEF Irq!ShortNext
<1>5. QED
  BY <1>3, <1>4

\* Whatever the size of the page and the number of readers, and in each of the three
\* ways to handle the interrupt: nobody sleeps beside records without a wake-up to come.
THEOREM ShortSpecWoken == Irq!ShortInit /\ [][Irq!ShortNext]_Irq!short_vars => []ShortWoken
<1>1. ShortInv => ShortWoken
  BY DEF ShortInv, ShortClean, ShortGood, ShortWake, ShortWoken, Irq!ReaderWoken
<1>2. QED
  BY <1>1, ShortInitInv, ShortStepInv, PTL

-----------------------------------------------------------------------------
(* Short, what is in the page and in the array of times *)

ShortRec == {"time", "after"} \X Nat

\* The times among the first k records of s.
ShortTimesIn(s, k) == Cardinality({i \in 1..k : s[i][1] = "time"})

LEMMA ShortCardinality == \A S : Irq!Cardinality(S) = Cardinality(S)
BY DEF Irq!Cardinality, Cardinality

LEMMA ShortTimesTo == \A k : Irq!TimesTo(k) = ShortTimesIn(sent, k)
<1> SUFFICES ASSUME NEW k PROVE Irq!TimesTo(k) = ShortTimesIn(sent, k)
  OBVIOUS
<1>1. {i \in 1..k : Irq!IsTime(i)} = {i \in 1..k : sent[i][1] = "time"}
  BY DEF Irq!IsTime
<1>2. QED
  BY <1>1, ShortCardinality DEF Irq!TimesTo, ShortTimesIn

LEMMA ShortTimesBound ==
  ASSUME NEW s, NEW k \in Nat, NEW m \in Nat, k <= m
  PROVE  ShortTimesIn(s, k) \in Nat /\ ShortTimesIn(s, k) <= ShortTimesIn(s, m)
<1> DEFINE A == {i \in 1..k : s[i][1] = "time"}
           B == {i \in 1..m : s[i][1] = "time"}
<1>1. IsFiniteSet(1..m)
  BY FS_Interval
<1>2. IsFiniteSet(B)
  BY <1>1, FS_Subset
<1>3. A \subseteq B
  OBVIOUS
<1>4. IsFiniteSet(A) /\ Cardinality(A) <= Cardinality(B)
  BY <1>2, <1>3, FS_Subset
<1>5. Cardinality(A) \in Nat
  BY <1>4, FS_CardinalityType
<1>6. QED
  BY <1>4, <1>5 DEF ShortTimesIn

LEMMA ShortTimesAppend ==
  ASSUME NEW s \in Seq(ShortRec), NEW rec \in ShortRec
  PROVE  /\ \A k \in 0..Len(s) : ShortTimesIn(Append(s, rec), k) = ShortTimesIn(s, k)
         /\ ShortTimesIn(Append(s, rec), Len(s) + 1) =
              ShortTimesIn(s, Len(s)) + (IF rec[1] = "time" THEN 1 ELSE 0)
<1> DEFINE t == Append(s, rec)
           l == Len(s)
<1>1. l \in Nat /\ t[l + 1] = rec /\ \A i \in 1..l : t[i] = s[i]
  OBVIOUS
<1> HIDE DEF t, l
<1>2. ASSUME NEW k \in 0..l PROVE ShortTimesIn(t, k) = ShortTimesIn(s, k)
  <2>1. {i \in 1..k : t[i][1] = "time"} = {i \in 1..k : s[i][1] = "time"}
    BY <1>1
  <2>2. QED
    BY <2>1 DEF ShortTimesIn
<1>3. ShortTimesIn(t, l + 1) = ShortTimesIn(s, l) + (IF rec[1] = "time" THEN 1 ELSE 0)
  <2> DEFINE A == {i \in 1..l : t[i][1] = "time"}
             B == {i \in 1..l + 1 : t[i][1] = "time"}
  <2>1. Cardinality(A) = ShortTimesIn(s, l) /\ Cardinality(A) \in Nat
    <3>1. ShortTimesIn(t, l) = ShortTimesIn(s, l) /\ ShortTimesIn(t, l) \in Nat
      BY <1>1, <1>2, ShortTimesBound
    <3>2. QED
      BY <3>1 DEF ShortTimesIn
  <2>2. IsFiniteSet(A)
    <3>1. IsFiniteSet(1..l)
      BY <1>1, FS_Interval
    <3>2. QED
      BY <3>1, FS_Subset
  <2>3. CASE rec[1] = "time"
    <3>1. B = A \cup {l + 1} /\ l + 1 \notin A
      BY <1>1, <2>3
    <3>2. Cardinality(B) = Cardinality(A) + 1
      BY <2>2, <3>1, FS_AddElement
    <3>3. QED
      BY <2>1, <2>3, <3>2 DEF ShortTimesIn
  <2>4. CASE rec[1] # "time"
    <3>1. B = A
      BY <1>1, <2>4
    <3>2. ShortTimesIn(t, l + 1) = Cardinality(A)
      BY <3>1 DEF ShortTimesIn
    <3>3. QED
      BY <2>1, <2>4, <3>2
  <2>5. QED
    BY <2>3, <2>4
<1>4. QED
  BY <1>2, <1>3 DEF t, l

\* The arithmetic of the array of times.
LEMMA ShortMod ==
  ASSUME NEW n \in Nat \ {0}, NEW i \in Nat
  PROVE  i \div n \in Nat /\ i % n \in 0..n - 1 /\ i = (i \div n) * n + (i % n)
OBVIOUS

LEMMA ShortModIs ==
  ASSUME NEW n \in Nat \ {0}, NEW d \in Nat, NEW r \in 0..n - 1
  PROVE  (d * n + r) % n = r
<1>1. d * n \in Nat
  OBVIOUS
<1> DEFINE x == d * n + r
           e == x \div n
           q == x % n
<1>0. x \in Nat
  BY <1>1
<1> HIDE DEF x
<1>2. x \in Nat /\ e \in Nat /\ q \in 0..n - 1 /\ x = e * n + q
  BY <1>0, ShortMod
<1> HIDE DEF e, q
<1>3. d * n + r = e * n + q
  BY <1>2 DEF x
<1>4. d = e
  <2>1. CASE d < e
    <3>1. (d + 1) * n <= e * n /\ (d + 1) * n = d * n + n /\ e * n \in Nat
      BY <1>2, <2>1
    <3>2. QED
      BY <1>1, <1>2, <1>3, <3>1
  <2>2. CASE e < d
    <3>1. (e + 1) * n <= d * n /\ (e + 1) * n = e * n + n /\ e * n \in Nat
      BY <1>2, <2>2
    <3>2. QED
      BY <1>1, <1>2, <1>3, <3>1
  <2>3. QED
    BY <1>2, <2>1, <2>2
<1>5. QED
  BY <1>1, <1>2, <1>3, <1>4 DEF q, x

LEMMA ShortModNext ==
  ASSUME NEW n \in Nat \ {0}, NEW i \in Nat
  PROVE  (i + 1) % n = IF i % n = n - 1 THEN 0 ELSE (i % n) + 1
<1> DEFINE d == i \div n
           r == i % n
<1>0. d \in Nat /\ r \in 0..n - 1 /\ i = d * n + r
  BY ShortMod
<1> HIDE DEF d, r
<1>1. d \in Nat /\ r \in 0..n - 1 /\ i = d * n + r /\ d * n \in Nat
  BY <1>0
<1>2. CASE r = n - 1
  <2>1. i + 1 = (d + 1) * n + 0
    BY <1>1, <1>2
  <2>2. (i + 1) % n = 0
    BY <1>1, <2>1, ShortModIs
  <2>3. QED
    BY <1>2, <2>2 DEF r
<1>3. CASE r # n - 1
  <2>1. i + 1 = d * n + (r + 1) /\ r + 1 \in 0..n - 1
    BY <1>1, <1>3
  <2>2. (i + 1) % n = r + 1
    BY <1>1, <2>1, ShortModIs
  <2>3. QED
    BY <1>3, <2>2 DEF r
<1>4. QED
  BY <1>2, <1>3

LEMMA ShortModAround ==
  ASSUME NEW n \in Nat \ {0}, NEW i \in Nat
  PROVE  (i + n) % n = i % n
<1> DEFINE d == i \div n
           r == i % n
<1>0. d \in Nat /\ r \in 0..n - 1 /\ i = d * n + r
  BY ShortMod
<1> HIDE DEF d, r
<1>1. d \in Nat /\ r \in 0..n - 1 /\ i = d * n + r /\ d * n \in Nat
  BY <1>0
<1>2. i + n = (d + 1) * n + r
  BY <1>1
<1>3. (i + n) % n = r
  BY <1>1, <1>2, ShortModIs
<1>4. QED
  BY <1>3 DEF r

LEMMA ShortModSame ==
  ASSUME NEW n \in Nat \ {0}, NEW i \in Nat, NEW j \in Nat, i <= j, j - i < n, i % n = j % n
  PROVE  i = j
<1> DEFINE d == i \div n
           e == j \div n
           r == i % n
<1>5. d \in Nat /\ r \in 0..n - 1 /\ i = d * n + r
  BY ShortMod
<1>6. e \in Nat /\ j = e * n + r
  BY ShortMod
<1> HIDE DEF d, e, r
<1>1. d \in Nat /\ e \in Nat /\ r \in 0..n - 1 /\ i = d * n + r /\ j = e * n + r
      /\ d * n \in Nat /\ e * n \in Nat
  BY <1>5, <1>6
<1>2. CASE d < e
  <2>1. (d + 1) * n <= e * n /\ (d + 1) * n = d * n + n
    BY <1>1, <1>2
  <2>2. QED
    BY <1>1, <2>1
<1>3. CASE e < d
  <2>1. (e + 1) * n <= d * n /\ (e + 1) * n = e * n + n
    BY <1>1, <1>3
  <2>2. QED
    BY <1>1, <2>1
<1>4. QED
  BY <1>1, <1>2, <1>3

\* The record that is printed next, before the head moves over it.
ShortPlaced(rec) == page[head] = Append(rec, 0) /\ page[head + 1] = Append(rec, 1)

ShortPageType ==
  /\ head \in 0..PageSize - 1 /\ head % 2 = 0 /\ DOMAIN page = 0..PageSize - 1
  /\ sent \in Seq(ShortRec) /\ irqs \in Nat /\ saved \in Nat /\ count \in Nat

ShortTvType == /\ tv \in [0..NrTv - 1 -> Nat]
               /\ tv_head \in 0..NrTv - 1 /\ tv_tail \in 0..NrTv - 1

ShortPrinted ==
  /\ h_pc = "advance" => ShortPlaced(<<"time", irqs>>)
  /\ bh_pc = "bh_advance" => ShortPlaced(<<"after", saved>>)
  /\ bh_pc = "advance" => \E n \in Nat : ShortPlaced(<<"time", n>>)

ShortPageInv == ShortPageType /\ ShortTvType /\ ShortSplit /\ ShortPrinted

\* What neither the handler nor the bottom half has touched.
ShortAlone == UNCHANGED <<mode, tv, tv_head, tv_tail, count, pending, head, page, h_pc, irqs,
                          bh_pc, saved, sent>>

LEMMA ShortFront ==
  ASSUME NEW S, NEW s \in Seq(S), NEW e \in S
  PROVE  SubSeq(Append(s, e), 1, Len(s)) = s /\ Append(s, e) \in Seq(S)
OBVIOUS

LEMMA ShortRecord ==
  ASSUME NEW rec \in ShortRec
  PROVE  SubSeq(Append(rec, 0), 1, 2) = rec
<1> DEFINE X == {"time", "after"} \cup Nat
<1>0. rec = <<rec[1], rec[2]>> /\ rec[1] \in X /\ rec[2] \in X /\ 0 \in X
  BY DEF ShortRec
<1> HIDE DEF X
<1>3. ASSUME NEW a \in X, NEW b \in X PROVE <<a, b>> \in Seq(X) /\ Len(<<a, b>>) = 2
  OBVIOUS
<1>1. rec \in Seq(X) /\ Len(rec) = 2
  <2>1. PICK a \in X, b \in X : rec = <<a, b>>
    BY <1>0
  <2>2. QED
    BY <1>3, <2>1
<1>2. QED
  BY <1>0, <1>1, ShortFront

LEMMA ShortHead ==
  ASSUME head \in 0..PageSize - 1, head % 2 = 0
  PROVE  /\ head + 1 \in 0..PageSize - 1 /\ head + 2 <= PageSize
         /\ head' = Irq!short_incr_bp(head, 2) => head' \in 0..PageSize - 1 /\ head' % 2 = 0
<1>1. PageSize \in Nat /\ PageSize % 2 = 0 /\ PageSize > 2 /\ head \in Nat
  BY PageAssumption
<1>2. head + 2 <= PageSize
  BY <1>1
<1>3. QED
  BY <1>1, <1>2 DEF Irq!short_incr_bp

LEMMA ShortPut ==
  ASSUME ShortPageType, NEW rec, Irq!PutRecord(rec)
  PROVE  /\ DOMAIN page' = 0..PageSize - 1
         /\ page'[head] = Append(rec, 0) /\ page'[head + 1] = Append(rec, 1)
         /\ \A u \in 0..PageSize - 1 : u \notin head..head + 2 => page'[u] = page[u]
<1>1. head \in 0..PageSize - 1 /\ head + 1 \in 0..PageSize - 1 /\ head # head + 1
  BY ShortHead, PageAssumption DEF ShortPageType
<1>2. page' = [u \in 0..PageSize - 1 |->
         IF u = head THEN Append(rec, 0) ELSE IF u = head + 1 THEN Append(rec, 1)
         ELSE IF u = head + 2 THEN Irq!Nul ELSE page[u]]
  BY DEF Irq!PutRecord
<1>3. PageSize \in Nat /\ head \in head..head + 2 /\ head + 1 \in head..head + 2 /\ head + 2 \in head..head + 2
  BY <1>1, PageAssumption
<1>4. QED
  BY <1>1, <1>2, <1>3

\* The head moves over the record rec.
LEMMA ShortSent ==
  ASSUME ShortPageType, NEW rec \in ShortRec, ShortPlaced(rec), Irq!Advance
  PROVE  /\ sent' = Append(sent, rec) /\ sent' \in Seq(ShortRec)
         /\ head' = Irq!short_incr_bp(head, 2) /\ UNCHANGED <<tail, page, excuse>>
<1>1. SubSeq(page[head], 1, 2) = rec
  BY ShortRecord DEF ShortPlaced
<1>2. sent' = Append(sent, rec)
  BY <1>1 DEF Irq!Advance
<1>3. sent' \in Seq(ShortRec)
  BY <1>2, ShortFront DEF ShortPageType
<1>4. QED
  BY <1>2, <1>3 DEF Irq!Advance

LEMMA ShortPageInit == Irq!ShortInit => ShortPageInv
<1> SUFFICES ASSUME Irq!ShortInit PROVE ShortPageInv
  OBVIOUS
<1>1. ShortPageType
  BY PageAssumption DEF Irq!ShortInit, ShortPageType, ShortRec
<1>2. ShortTvType
  BY TimesAssumption DEF Irq!ShortInit, ShortTvType
<1>3. ShortSplit /\ ShortPrinted
  BY DEF Irq!ShortInit, ShortSplit, ShortPrinted
<1>4. QED
  BY <1>1, <1>2, <1>3 DEF ShortPageInv

LEMMA ShortAloneKeeps ==
  ASSUME ShortAlone
  PROVE  ShortPageInv => ShortPageInv'
BY DEF ShortAlone, ShortPageInv, ShortPageType, ShortTvType, ShortSplit, ShortPrinted, ShortPlaced,
   Irq!Split

LEMMA ShortReaderAlone ==
  ASSUME NEW r \in Readers,
         \/ Irq!Test(r) \/ Irq!prepare_to_wait(r) \/ Irq!Retest(r) \/ Irq!Again(r)
         \/ Irq!Copy(r) \/ Irq!CopyFault(r) \/ Irq!Consume(r)
  PROVE  ShortAlone
BY DEF Irq!Test, Irq!prepare_to_wait, Irq!Retest, Irq!Again, Irq!Copy, Irq!CopyFault, Irq!Consume,
   Irq!outside, Irq!page_vars, Irq!tv_vars, Irq!handler_vars, Irq!bh_vars, ShortAlone

LEMMA ShortPortAlone ==
  ASSUME Irq!Write \/ Irq!NotMine
  PROVE  ShortAlone
BY DEF Irq!Write, Irq!NotMine, Irq!page_vars, Irq!tv_vars, Irq!handler_vars, Irq!bh_vars, ShortAlone

LEMMA ShortHandlerPage ==
  ASSUME ShortPageInv,
         \/ Irq!Interrupt \/ Irq!NotTheirs \/ Irq!HandlerPrint \/ Irq!HandlerAdvance \/ Irq!HandlerWake
  PROVE  ShortPageInv'
<1>0. ShortPageType /\ ShortTvType /\ ShortSplit /\ ShortPrinted
  BY DEF ShortPageInv
<1>1. UNCHANGED <<mode, tv, tv_head, tv_tail, count, pending, bh_pc, saved>>
  BY DEF Irq!Interrupt, Irq!NotTheirs, Irq!HandlerPrint, Irq!HandlerAdvance, Irq!HandlerWake,
         Irq!tv_vars, Irq!bh_vars
<1>2. ShortTvType'
  BY <1>0, <1>1 DEF ShortTvType
<1>3. CASE Irq!Interrupt \/ Irq!NotTheirs
  <2>1. /\ UNCHANGED <<head, page, sent>> /\ irqs' = irqs + 1
        /\ h_pc = "idle" /\ h_pc' = IF Irq!Split THEN "store" ELSE "print"
    BY <1>3 DEF Irq!Interrupt, Irq!NotTheirs, Irq!page_vars, Irq!Handler, Irq!Split
  <2>2. ShortPageType'
    BY <1>0, <1>1, <2>1 DEF ShortPageType
  <2>3. ShortSplit' /\ ShortPrinted'
    BY <1>0, <1>1, <2>1 DEF ShortSplit, ShortPrinted, ShortPlaced, Irq!Split
  <2>4. QED
    BY <1>2, <2>2, <2>3 DEF ShortPageInv
<1>4. CASE Irq!HandlerPrint
  <2>1. /\ UNCHANGED <<head, irqs, sent>> /\ h_pc = "print" /\ h_pc' = "advance"
        /\ Irq!PutRecord(<<"time", irqs>>)
    BY <1>4 DEF Irq!HandlerPrint, Irq!Handler
  <2>2. DOMAIN page' = 0..PageSize - 1 /\ ShortPlaced(<<"time", irqs>>)'
    BY <1>0, <2>1, ShortPut DEF ShortPlaced
  <2>3. ShortPageType'
    BY <1>0, <1>1, <2>1, <2>2 DEF ShortPageType
  <2>4. ShortSplit' /\ ShortPrinted'
    BY <1>0, <1>1, <2>1, <2>2 DEF ShortSplit, ShortPrinted, Irq!Split
  <2>5. QED
    BY <1>2, <2>3, <2>4 DEF ShortPageInv
<1>5. CASE Irq!HandlerAdvance
  <2>1. /\ UNCHANGED irqs /\ h_pc = "advance" /\ h_pc' = "wake" /\ Irq!Advance
    BY <1>5 DEF Irq!HandlerAdvance, Irq!Handler
  <2>2. <<"time", irqs>> \in ShortRec /\ ShortPlaced(<<"time", irqs>>)
    BY <1>0, <2>1 DEF ShortRec, ShortPageType, ShortPrinted
  <2>3. sent' \in Seq(ShortRec) /\ head' = Irq!short_incr_bp(head, 2) /\ UNCHANGED page
    BY <1>0, <2>1, <2>2, ShortSent
  <2>4. ShortPageType'
    BY <1>0, <1>1, <2>1, <2>3, ShortHead DEF ShortPageType
  <2>5. ShortSplit' /\ ShortPrinted'
    BY <1>0, <1>1, <2>1 DEF ShortSplit, ShortPrinted, Irq!Split
  <2>6. QED
    BY <1>2, <2>4, <2>5 DEF ShortPageInv
<1>6. CASE Irq!HandlerWake
  <2>1. UNCHANGED <<head, page, sent, irqs>> /\ h_pc = "wake" /\ h_pc' = "idle"
    BY <1>6 DEF Irq!HandlerWake, Irq!page_vars, Irq!Handler
  <2>2. ShortPageType' /\ ShortSplit' /\ ShortPrinted'
    BY <1>0, <1>1, <2>1 DEF ShortPageType, ShortSplit, ShortPrinted, ShortPlaced, Irq!Split
  <2>3. QED
    BY <1>2, <2>2 DEF ShortPageInv
<1>7. QED
  BY <1>3, <1>4, <1>5, <1>6

LEMMA ShortIncrTv ==
  ASSUME NEW i \in 0..NrTv - 1
  PROVE  Irq!short_incr_tv(i) \in 0..NrTv - 1
BY TimesAssumption DEF Irq!short_incr_tv

LEMMA ShortTopPage ==
  ASSUME ShortPageInv, Irq!Store \/ Irq!IncrTv \/ Irq!Schedule \/ Irq!Count
  PROVE  ShortPageInv'
<1>0. ShortPageType /\ ShortTvType /\ ShortSplit /\ ShortPrinted
  BY DEF ShortPageInv
<1>1. /\ UNCHANGED <<mode, tv_tail, head, page, sent, irqs, bh_pc, saved>>
      /\ h_pc \in {"store", "incr_tv", "schedule", "count"}
      /\ h_pc' \in {"incr_tv", "schedule", "count", "idle"} /\ count' \in Nat
  BY <1>0 DEF Irq!Store, Irq!IncrTv, Irq!Schedule, Irq!Count, Irq!page_vars, Irq!bh_vars, Irq!Handler,
              ShortPageType
<1>2. ShortTvType'
  <2>1. tv' = tv \/ tv' = [tv EXCEPT ![tv_head] = irqs]
    BY DEF Irq!Store, Irq!IncrTv, Irq!Schedule, Irq!Count
  <2>2. tv_head' = tv_head \/ tv_head' = Irq!short_incr_tv(tv_head)
    BY DEF Irq!Store, Irq!IncrTv, Irq!Schedule, Irq!Count
  <2>3. tv_head' \in 0..NrTv - 1
    BY <1>0, <2>2, ShortIncrTv DEF ShortTvType
  <2>4. tv' \in [0..NrTv - 1 -> Nat]
    BY <1>0, <2>1 DEF ShortTvType, ShortPageType
  <2>5. QED
    BY <1>0, <1>1, <2>3, <2>4 DEF ShortTvType
<1>3. ShortPageType'
  BY <1>0, <1>1 DEF ShortPageType
<1>4. ShortSplit' /\ ShortPrinted'
  BY <1>0, <1>1 DEF ShortSplit, ShortPrinted, ShortPlaced, Irq!Split
<1>5. QED
  BY <1>2, <1>3, <1>4 DEF ShortPageInv

LEMMA ShortBottomPage ==
  ASSUME ShortPageInv,
         \/ Irq!BhSave \/ Irq!BhReset \/ Irq!BhPrint \/ Irq!BhAdvance \/ Irq!BhLoop \/ Irq!BhWake
  PROVE  ShortPageInv'
<1>0. ShortPageType /\ ShortTvType /\ ShortSplit /\ ShortPrinted
  BY DEF ShortPageInv
<1>1. UNCHANGED <<mode, tv, tv_head, h_pc, irqs>> /\ Irq!Split
  BY <1>0 DEF Irq!BhSave, Irq!BhReset, Irq!BhPrint, Irq!BhAdvance, Irq!BhLoop, Irq!BhWake,
         Irq!tv_vars, Irq!handler_vars, Irq!Bh, ShortSplit
<1>2. h_pc \notin {"print", "advance", "wake"}
  BY <1>0, <1>1 DEF ShortSplit
<1>3. ShortSplit'
  BY <1>1, <1>2 DEF ShortSplit, Irq!Split
<1>4. CASE Irq!BhSave \/ Irq!BhReset \/ Irq!BhWake
  <2>1. /\ UNCHANGED <<tv_tail, head, page, sent>> /\ saved' \in Nat /\ count' \in Nat
        /\ bh_pc' \in {"reset", "bh_after", "idle"}
    BY <1>0, <1>4 DEF Irq!BhSave, Irq!BhReset, Irq!BhWake, Irq!tv_vars, Irq!page_vars, Irq!Bh, ShortPageType
  <2>2. ShortPageType' /\ ShortTvType' /\ ShortPrinted'
    BY <1>0, <1>1, <1>2, <2>1 DEF ShortPageType, ShortTvType, ShortPrinted
  <2>3. QED
    BY <1>3, <2>2 DEF ShortPageInv
<1>5. CASE Irq!BhPrint
  <2>1. UNCHANGED <<tv_tail, head, sent, saved, count>>
    BY <1>5 DEF Irq!BhPrint, Irq!tv_vars
  <2>2. CASE Irq!Bh("bh_after", "bh_advance") /\ Irq!PutRecord(<<"after", saved>>)
    <3>1. DOMAIN page' = 0..PageSize - 1 /\ ShortPlaced(<<"after", saved>>)'
      BY <1>0, <2>1, <2>2, ShortPut DEF ShortPlaced
    <3>2. ShortPageType' /\ ShortTvType' /\ ShortPrinted'
      BY <1>0, <1>1, <1>2, <2>1, <2>2, <3>1 DEF ShortPageType, ShortTvType, ShortPrinted, Irq!Bh
    <3>3. QED
      BY <1>3, <3>2 DEF ShortPageInv
  <2>3. CASE Irq!Bh("value", "advance") /\ Irq!PutRecord(<<"time", tv[tv_tail]>>)
    <3>1. tv[tv_tail] \in Nat /\ UNCHANGED tv
      BY <1>0, <1>1 DEF ShortTvType
    <3>2. DOMAIN page' = 0..PageSize - 1 /\ ShortPlaced(<<"time", tv[tv_tail]>>)'
      BY <1>0, <1>1, <2>1, <2>3, ShortPut DEF ShortPlaced
    <3>3. ShortPageType' /\ ShortTvType'
      BY <1>0, <1>1, <2>1, <3>2 DEF ShortPageType, ShortTvType
    <3>4. (tv[tv_tail])' \in Nat
      BY <1>1, <2>1, <3>1
    <3>5. ShortPrinted'
      BY <1>1, <1>2, <2>3, <3>2, <3>4 DEF ShortPrinted, Irq!Bh
    <3>6. QED
      BY <1>3, <3>3, <3>5 DEF ShortPageInv
  <2>4. QED
    BY <1>5, <2>2, <2>3 DEF Irq!BhPrint
<1>6. CASE Irq!BhAdvance \/ Irq!BhLoop
  <2>1. PICK rec \in ShortRec : ShortPlaced(rec)
    <3>1. CASE bh_pc = "bh_advance"
      BY <1>0, <3>1 DEF ShortPrinted, ShortRec, ShortPageType
    <3>2. CASE bh_pc = "advance"
      BY <1>0, <3>2 DEF ShortPrinted, ShortRec
    <3>3. QED
      BY <1>6, <3>1, <3>2 DEF Irq!BhAdvance, Irq!BhLoop, Irq!Bh
  <2>2. Irq!Advance /\ UNCHANGED <<count, saved>> /\ bh_pc' \in {"value", "wake"}
    BY <1>6 DEF Irq!BhAdvance, Irq!BhLoop, Irq!Bh, Irq!tv_vars
  <2>3. sent' \in Seq(ShortRec) /\ head' = Irq!short_incr_bp(head, 2) /\ UNCHANGED page
    BY <1>0, <2>1, <2>2, ShortSent
  <2>4. ShortPageType'
    BY <1>0, <1>1, <2>2, <2>3, ShortHead DEF ShortPageType
  <2>5. tv_tail' = tv_tail \/ tv_tail' = Irq!short_incr_tv(tv_tail)
    BY <1>6 DEF Irq!BhAdvance, Irq!BhLoop, Irq!tv_vars
  <2>6. ShortTvType'
    BY <1>0, <1>1, <2>5, ShortIncrTv DEF ShortTvType
  <2>7. ShortPrinted'
    BY <1>1, <1>2, <2>2 DEF ShortPrinted
  <2>8. QED
    BY <1>3, <2>4, <2>6, <2>7 DEF ShortPageInv
<1>7. QED
  BY <1>4, <1>5, <1>6

LEMMA ShortPageStep == ShortPageInv /\ [Irq!ShortNext]_Irq!short_vars => ShortPageInv'
<1> SUFFICES ASSUME ShortPageInv, [Irq!ShortNext]_Irq!short_vars PROVE ShortPageInv'
  OBVIOUS
<1>1. CASE UNCHANGED Irq!short_vars
  <2>1. ShortAlone
    BY <1>1 DEF Irq!short_vars, Irq!page_vars, Irq!tv_vars, Irq!handler_vars, Irq!bh_vars, ShortAlone
  <2>2. QED
    BY <2>1, ShortAloneKeeps
<1>2. CASE Irq!ShortNext
  BY <1>2, ShortAloneKeeps, ShortReaderAlone, ShortPortAlone, ShortHandlerPage, ShortTopPage,
     ShortBottomPage DEF Irq!ShortNext
<1>3. QED
  BY <1>1, <1>2

-----------------------------------------------------------------------------
(* Short, while no handler ran beside the bottom half or lapped it: the   *)
(* array of times holds those that are not printed, in order.              *)

ShortTimesClean == excuse \cap {"overlap", "lapped"} = {}

ShortTold   == ShortTimesIn(sent, Len(sent))                              \* times printed
ShortStored == IF h_pc = "store" THEN irqs - 1 ELSE irqs                  \* in tv up to now
ShortMoved  == IF h_pc \in {"store", "incr_tv"} THEN irqs - 1 ELSE irqs   \* behind tv_head

ShortSoFar == \A k \in 1..Len(sent) : sent[k][1] = "time" => sent[k][2] = ShortTimesIn(sent, k)

ShortDirect == ~Irq!Split => ShortTold = IF h_pc \in {"print", "advance"} THEN irqs - 1 ELSE irqs

ShortRing ==
  Irq!Split => /\ ShortMoved \in Nat /\ ShortTold <= ShortMoved /\ ShortStored <= ShortTold + NrTv
               /\ tv_tail = ShortTold % NrTv /\ tv_head = ShortMoved % NrTv
               /\ \A i \in 1..ShortStored : ShortTold < i => tv[(i - 1) % NrTv] = i

\* The bottom half has times to print when it is due, and none when it has ended.
ShortTurn ==
  Irq!Split => /\ bh_pc = "idle" /\ (pending \/ h_pc = "schedule") => ShortTold < ShortMoved
               /\ bh_pc = "idle" /\ ~pending /\ h_pc # "schedule" => ShortTold = ShortMoved
               /\ bh_pc # "idle" => ~pending /\ h_pc # "schedule"
               /\ bh_pc \notin {"idle", "wake"} => ShortTold < ShortMoved
               /\ bh_pc = "wake" => ShortTold = ShortMoved
               /\ bh_pc = "advance" => ShortPlaced(<<"time", ShortTold + 1>>)

ShortTimesGood == ShortSoFar /\ ShortDirect /\ ShortRing /\ ShortTurn
ShortTimesInv  == ShortTimesClean => ShortTimesGood

LEMMA ShortToldIs ==
  ShortPageInv => /\ ShortTold \in Nat /\ Len(sent) \in Nat /\ irqs \in Nat
                  /\ \A k \in 1..Len(sent) : ShortTimesIn(sent, k) <= ShortTold
<1> SUFFICES ASSUME ShortPageInv
             PROVE  /\ ShortTold \in Nat /\ Len(sent) \in Nat /\ irqs \in Nat
                    /\ \A k \in 1..Len(sent) : ShortTimesIn(sent, k) <= ShortTold
  OBVIOUS
<1>1. Len(sent) \in Nat /\ irqs \in Nat
  BY DEF ShortPageInv, ShortPageType
<1>2. \A k \in 1..Len(sent) : ShortTimesIn(sent, k) <= ShortTold
  BY <1>1, ShortTimesBound DEF ShortTold
<1>3. ShortTold \in Nat
  BY <1>1, ShortTimesBound DEF ShortTold
<1>4. QED
  BY <1>1, <1>2, <1>3

LEMMA ShortInOrderStill ==
  ASSUME ShortPageInv, ShortSoFar, NEW rec \in ShortRec, sent' = Append(sent, rec),
         rec[1] = "time" => rec[2] = ShortTold + 1
  PROVE  ShortSoFar' /\ ShortTold' = ShortTold + (IF rec[1] = "time" THEN 1 ELSE 0)
<1> DEFINE l == Len(sent)
           t == Append(sent, rec)
<1>1. sent \in Seq(ShortRec) /\ l \in Nat /\ ShortTold \in Nat
  BY ShortToldIs DEF ShortPageInv, ShortPageType
<1>2. Len(t) = l + 1 /\ t[l + 1] = rec /\ \A k \in 1..l : t[k] = sent[k]
  BY <1>1
<1>3. /\ \A k \in 0..l : ShortTimesIn(t, k) = ShortTimesIn(sent, k)
      /\ ShortTimesIn(t, l + 1) = ShortTold + (IF rec[1] = "time" THEN 1 ELSE 0)
  BY <1>1, ShortTimesAppend DEF ShortTold
<1> HIDE DEF t, l
<1>4. ShortTold' = ShortTold + (IF rec[1] = "time" THEN 1 ELSE 0)
  BY <1>2, <1>3 DEF ShortTold, t
<1>5. ASSUME NEW k \in 1..l + 1, t[k][1] = "time" PROVE t[k][2] = ShortTimesIn(t, k)
  <2>1. CASE k \in 1..l
    <3>1. t[k] = sent[k] /\ ShortTimesIn(t, k) = ShortTimesIn(sent, k)
      BY <1>1, <1>2, <1>3, <2>1
    <3>2. QED
      BY <1>5, <2>1, <3>1 DEF ShortSoFar, l
  <2>2. CASE k = l + 1
    BY <1>1, <1>2, <1>3, <1>5, <2>2
  <2>3. QED
    BY <1>1, <2>1, <2>2
<1>6. QED
  BY <1>2, <1>4, <1>5 DEF ShortSoFar, t

LEMMA ShortTimesInit == Irq!ShortInit => ShortTimesInv
<1> SUFFICES ASSUME Irq!ShortInit PROVE ShortTimesGood
  BY DEF ShortTimesInv
<1>1. sent = <<>> /\ irqs = 0 /\ h_pc = "idle" /\ bh_pc = "idle" /\ ~pending /\ tv_head = 0 /\ tv_tail = 0
  BY DEF Irq!ShortInit
<1>2. ShortTold = 0 /\ ShortMoved = 0 /\ ShortStored = 0
  <2>1. {i \in 1..0 : sent[i][1] = "time"} = {}
    OBVIOUS
  <2>2. QED
    BY <1>1, <2>1, FS_EmptySet DEF ShortTold, ShortTimesIn, ShortMoved, ShortStored
<1>3. 0 % NrTv = 0
  <2>1. 0 * NrTv + 0 = 0
    BY TimesAssumption
  <2>2. (0 * NrTv + 0) % NrTv = 0
    BY TimesAssumption, ShortModIs
  <2>3. QED
    BY <2>1, <2>2
<1>4. ShortSoFar /\ ShortDirect
  BY <1>1, <1>2 DEF ShortSoFar, ShortDirect
<1>5. ShortRing
  BY <1>1, <1>2, <1>3, TimesAssumption DEF ShortRing
<1>6. ShortTurn
  BY <1>1, <1>2 DEF ShortTurn
<1>7. QED
  BY <1>4, <1>5, <1>6 DEF ShortTimesGood

LEMMA ShortAloneTimes ==
  ASSUME ShortAlone
  PROVE  ShortTimesGood => ShortTimesGood'
<1>1. UNCHANGED <<ShortTold, ShortStored, ShortMoved>> /\ (Irq!Split' = Irq!Split)
  BY DEF ShortAlone, ShortTold, ShortStored, ShortMoved, Irq!Split
<1>2. ShortSoFar => ShortSoFar'
  BY DEF ShortAlone, ShortSoFar
<1>3. ShortDirect => ShortDirect'
  BY <1>1 DEF ShortAlone, ShortDirect
<1>4. ShortRing => ShortRing'
  BY <1>1 DEF ShortAlone, ShortRing
<1>5. ShortTurn => ShortTurn'
  BY <1>1 DEF ShortAlone, ShortTurn, ShortPlaced
<1>6. QED
  BY <1>2, <1>3, <1>4, <1>5 DEF ShortTimesGood

LEMMA ShortHandlerTimes ==
  ASSUME ShortPageInv, ShortTimesGood,
         \/ Irq!Interrupt \/ Irq!NotTheirs \/ Irq!HandlerPrint \/ Irq!HandlerAdvance \/ Irq!HandlerWake
  PROVE  ShortTimesGood'
<1>0. ShortSoFar /\ ShortDirect /\ ShortRing /\ ShortTurn /\ ShortSplit /\ ShortPrinted
      /\ ShortTold \in Nat /\ irqs \in Nat
  BY ShortToldIs DEF ShortTimesGood, ShortPageInv
<1>1. UNCHANGED <<mode, tv, tv_head, tv_tail, pending, bh_pc>> /\ (Irq!Split' = Irq!Split)
  BY DEF Irq!Interrupt, Irq!NotTheirs, Irq!HandlerPrint, Irq!HandlerAdvance, Irq!HandlerWake,
         Irq!tv_vars, Irq!bh_vars, Irq!Split
<1>2. CASE Irq!Interrupt \/ Irq!NotTheirs
  <2>1. /\ UNCHANGED <<head, page, sent>> /\ irqs' = irqs + 1
        /\ h_pc = "idle" /\ h_pc' = IF Irq!Split THEN "store" ELSE "print"
    BY <1>2 DEF Irq!Interrupt, Irq!NotTheirs, Irq!page_vars, Irq!Handler, Irq!Split
  <2>2. ShortTold' = ShortTold /\ ShortSoFar'
    BY <1>0, <2>1 DEF ShortTold, ShortSoFar
  <2>3. ShortDirect'
    BY <1>0, <1>1, <2>1, <2>2 DEF ShortDirect
  <2>4. Irq!Split => ShortMoved' = ShortMoved /\ ShortStored' = ShortStored
    BY <1>0, <2>1 DEF ShortMoved, ShortStored
  <2>5. ShortRing'
    BY <1>0, <1>1, <2>2, <2>4 DEF ShortRing
  <2>6. ShortTurn'
    BY <1>0, <1>1, <2>1, <2>2, <2>4 DEF ShortTurn, ShortPlaced
  <2>7. QED
    BY <2>2, <2>3, <2>5, <2>6 DEF ShortTimesGood
<1>3. ASSUME Irq!HandlerPrint \/ Irq!HandlerAdvance \/ Irq!HandlerWake
      PROVE  ~Irq!Split /\ ShortRing' /\ ShortTurn' /\ irqs' = irqs
  <2>1. ~Irq!Split /\ irqs' = irqs
    BY <1>0, <1>3 DEF Irq!HandlerPrint, Irq!HandlerAdvance, Irq!HandlerWake, Irq!Handler, ShortSplit
  <2>2. QED
    BY <1>1, <2>1 DEF ShortRing, ShortTurn
<1>4. CASE Irq!HandlerPrint \/ Irq!HandlerWake
  <2>1. /\ UNCHANGED sent
        /\ h_pc \in {"print", "advance"} <=> h_pc' \in {"print", "advance"}
    BY <1>4 DEF Irq!HandlerPrint, Irq!HandlerWake, Irq!Handler
  <2>2. ShortTold' = ShortTold /\ ShortSoFar'
    BY <1>0, <2>1 DEF ShortTold, ShortSoFar
  <2>3. ShortDirect'
    BY <1>0, <1>1, <1>3, <1>4, <2>1, <2>2 DEF ShortDirect
  <2>4. QED
    BY <1>3, <1>4, <2>2, <2>3 DEF ShortTimesGood
<1>5. CASE Irq!HandlerAdvance
  <2>1. h_pc = "advance" /\ h_pc' = "wake" /\ Irq!Advance
    BY <1>5 DEF Irq!HandlerAdvance, Irq!Handler
  <2> DEFINE rec == <<"time", irqs>>
  <2>2. rec \in ShortRec /\ ShortPlaced(rec)
    BY <1>0, <2>1 DEF ShortRec, ShortPrinted
  <2>3. sent' = Append(sent, rec)
    BY <2>1, <2>2, ShortSent DEF ShortPageInv
  <2>4. irqs = ShortTold + 1
    BY <1>0, <1>3, <1>5, <2>1 DEF ShortDirect
  <2>5. ShortSoFar' /\ ShortTold' = ShortTold + 1
    <3>1. rec[1] = "time" /\ rec[2] = ShortTold + 1
      BY <2>4
    <3> HIDE DEF rec
    <3>2. QED
      BY <1>0, <2>2, <2>3, <3>1, ShortInOrderStill
  <2>6. ShortDirect'
    BY <1>0, <1>3, <1>5, <2>1, <2>4, <2>5 DEF ShortDirect
  <2>7. QED
    BY <1>3, <1>5, <2>5, <2>6 DEF ShortTimesGood
<1>6. QED
  BY <1>2, <1>4, <1>5

\* A full array keeps out nothing, but what it loses was not printed yet.
LEMMA ShortRoom ==
  ASSUME ShortPageInv, ShortTimesGood, Irq!Store, ShortTimesClean'
  PROVE  ShortMoved < ShortTold + NrTv
<1>0. ShortSoFar /\ ShortRing /\ ShortTold \in Nat /\ irqs \in Nat /\ NrTv \in Nat \ {0}
  BY ShortToldIs, TimesAssumption DEF ShortTimesGood
<1>1. h_pc = "store" /\ Irq!Split
  BY DEF Irq!Store, Irq!Handler, ShortPageInv, ShortSplit
<1>2. ShortMoved \in Nat /\ ShortMoved = ShortStored /\ ShortMoved <= ShortTold + NrTv
  BY <1>0, <1>1 DEF ShortRing, ShortMoved, ShortStored
<1>3. SUFFICES ASSUME ShortMoved = ShortTold + NrTv PROVE FALSE
  BY <1>0, <1>2
<1>4. tv[tv_head] = ShortTold + 1
  <2>1. tv_head = ShortTold % NrTv
    BY <1>0, <1>1, <1>3, ShortModAround DEF ShortRing
  <2>2. ShortTold + 1 \in 1..ShortStored /\ (ShortTold + 1) - 1 = ShortTold
    BY <1>0, <1>2, <1>3
  <2>3. tv[((ShortTold + 1) - 1) % NrTv] = ShortTold + 1
    BY <1>0, <1>1, <2>2 DEF ShortRing
  <2>4. QED
    BY <2>1, <2>2, <2>3
<1>5. \A i \in 1..Len(sent) : sent[i] # <<"time", tv[tv_head]>>
  <2> SUFFICES ASSUME NEW i \in 1..Len(sent), sent[i] = <<"time", tv[tv_head]>> PROVE FALSE
    OBVIOUS
  <2>1. sent[i][1] = "time" /\ sent[i][2] = ShortTold + 1
    BY <1>4
  <2>2. sent[i][2] = ShortTimesIn(sent, i) /\ ShortTimesIn(sent, i) <= ShortTold
    BY <1>0, <2>1, ShortToldIs DEF ShortSoFar
  <2>3. QED
    BY <1>0, <2>1, <2>2
<1>6. tv[tv_head] # 0
  BY <1>0, <1>4
<1>7. QED
  BY <1>5, <1>6 DEF Irq!Store, Irq!Spoil, ShortTimesClean

LEMMA ShortTopTimes ==
  ASSUME ShortPageInv, ShortTimesGood, Irq!Store \/ Irq!IncrTv \/ Irq!Schedule \/ Irq!Count,
         ShortTimesClean'
  PROVE  ShortTimesGood'
<1>0. /\ ShortSoFar /\ ShortDirect /\ ShortRing /\ ShortTurn /\ ShortPageType /\ ShortTvType
      /\ ShortTold \in Nat /\ irqs \in Nat /\ NrTv \in Nat \ {0}
  BY ShortToldIs, TimesAssumption DEF ShortTimesGood, ShortPageInv
<1>1. UNCHANGED <<mode, tv_tail, head, page, sent, irqs, bh_pc>> /\ Irq!Split /\ Irq!Split'
  BY DEF Irq!Store, Irq!IncrTv, Irq!Schedule, Irq!Count, Irq!page_vars, Irq!bh_vars, Irq!Handler,
         ShortPageInv, ShortSplit, Irq!Split
<1>2. ShortTold' = ShortTold /\ ShortSoFar' /\ ShortDirect'
  BY <1>0, <1>1 DEF ShortTold, ShortSoFar, ShortDirect
<1>3. ShortMoved \in Nat /\ ShortTold <= ShortMoved /\ ShortStored <= ShortTold + NrTv
      /\ tv_tail = ShortTold % NrTv /\ tv_head = ShortMoved % NrTv
      /\ \A i \in 1..ShortStored : ShortTold < i => tv[(i - 1) % NrTv] = i
  BY <1>0, <1>1 DEF ShortRing
<1>4. CASE Irq!Store
  <2>1. /\ UNCHANGED <<tv_head, pending>> /\ h_pc = "store" /\ h_pc' = "incr_tv"
        /\ tv' = [tv EXCEPT ![tv_head] = irqs]
    BY <1>4 DEF Irq!Store, Irq!Handler
  <2>2. /\ ShortMoved' = ShortMoved /\ ShortMoved = irqs - 1 /\ ShortStored = irqs - 1
        /\ ShortStored' = irqs
    BY <1>1, <2>1 DEF ShortMoved, ShortStored
  <2>3. ShortMoved < ShortTold + NrTv
    BY <1>4, ShortRoom
  <2>4. ShortStored' <= ShortTold + NrTv
    BY <1>0, <2>2, <2>3
  <2>5. ASSUME NEW i \in 1..irqs, ShortTold < i PROVE tv'[(i - 1) % NrTv] = i
    <3>1. (i - 1) % NrTv \in 0..NrTv - 1 /\ i - 1 \in Nat /\ irqs - 1 \in Nat
      BY <1>0, ShortMod
    <3>2. CASE i = irqs
      BY <1>0, <1>3, <2>1, <2>2, <3>2 DEF ShortTvType
    <3>3. CASE i # irqs
      <4>1. i - 1 <= irqs - 1 /\ (irqs - 1) - (i - 1) < NrTv /\ i - 1 # irqs - 1 /\ i \in 1..ShortStored
        BY <1>0, <2>2, <2>3, <2>5, <3>3
      <4>2. (i - 1) % NrTv # (irqs - 1) % NrTv
        BY <1>0, <3>1, <4>1, ShortModSame
      <4>3. (i - 1) % NrTv # tv_head
        BY <1>3, <2>2, <4>2
      <4>4. tv[(i - 1) % NrTv] = i
        BY <1>3, <2>5, <4>1
      <4>5. QED
        BY <1>0, <2>1, <3>1, <4>3, <4>4 DEF ShortTvType
    <3>4. QED
      BY <3>2, <3>3
  <2>6. ShortRing'
    BY <1>1, <1>2, <1>3, <2>1, <2>2, <2>4, <2>5 DEF ShortRing
  <2>7. ShortTurn'
    BY <1>0, <1>1, <1>2, <2>1, <2>2 DEF ShortTurn, ShortPlaced
  <2>8. QED
    BY <1>2, <2>6, <2>7 DEF ShortTimesGood
<1>5. CASE Irq!IncrTv
  <2>1. /\ UNCHANGED <<tv, pending>> /\ h_pc = "incr_tv" /\ h_pc' = "schedule"
        /\ tv_head' = Irq!short_incr_tv(tv_head) /\ bh_pc = "idle"
    BY <1>5 DEF Irq!IncrTv, Irq!Handler, Irq!Spoil, ShortTimesClean
  <2>2. /\ ShortMoved = irqs - 1 /\ ShortMoved' = ShortMoved + 1
        /\ ShortStored = irqs /\ ShortStored' = irqs
    BY <1>0, <1>1, <2>1 DEF ShortMoved, ShortStored
  <2>3. tv_head' = (ShortMoved + 1) % NrTv
    <3>1. (ShortMoved + 1) % NrTv = IF ShortMoved % NrTv = NrTv - 1 THEN 0 ELSE (ShortMoved % NrTv) + 1
      BY <1>0, <1>3, ShortModNext
    <3>2. QED
      BY <1>3, <2>1, <3>1 DEF Irq!short_incr_tv
  <2>4. ShortRing'
    BY <1>0, <1>1, <1>2, <1>3, <2>1, <2>2, <2>3 DEF ShortRing
  <2>5. ShortTurn'
    BY <1>0, <1>1, <1>2, <1>3, <2>1, <2>2 DEF ShortTurn
  <2>6. QED
    BY <1>2, <2>4, <2>5 DEF ShortTimesGood
<1>6. CASE Irq!Schedule \/ Irq!Count
  <2>1. UNCHANGED <<tv, tv_head>> /\ h_pc \in {"schedule", "count"} /\ h_pc' \in {"count", "idle"}
    BY <1>6 DEF Irq!Schedule, Irq!Count, Irq!Handler
  <2>2. ShortMoved' = ShortMoved /\ ShortStored' = ShortStored
    BY <1>1, <2>1 DEF ShortMoved, ShortStored
  <2>3. ShortRing'
    BY <1>1, <1>2, <1>3, <2>1, <2>2 DEF ShortRing
  <2>4. \/ h_pc = "schedule" /\ pending' /\ bh_pc = "idle"
        \/ h_pc = "count" /\ pending' = pending
    BY <1>6 DEF Irq!Schedule, Irq!Count, Irq!Handler, Irq!Spoil, ShortTimesClean
  <2>5. ShortTurn'
    BY <1>0, <1>1, <1>2, <2>1, <2>2, <2>4 DEF ShortTurn, ShortPlaced
  <2>6. QED
    BY <1>2, <2>3, <2>5 DEF ShortTimesGood
<1>7. QED
  BY <1>4, <1>5, <1>6

LEMMA ShortBottomTimes ==
  ASSUME ShortPageInv, ShortTimesGood, ShortTimesClean',
         \/ Irq!BhSave \/ Irq!BhReset \/ Irq!BhPrint \/ Irq!BhAdvance \/ Irq!BhLoop \/ Irq!BhWake
  PROVE  ShortTimesGood'
<1>0. /\ ShortSoFar /\ ShortDirect /\ ShortRing /\ ShortTurn /\ ShortPageType /\ ShortTvType /\ ShortPrinted
      /\ ShortTold \in Nat /\ irqs \in Nat /\ NrTv \in Nat \ {0}
  BY ShortToldIs, TimesAssumption DEF ShortTimesGood, ShortPageInv
<1>1. UNCHANGED <<mode, tv, tv_head, h_pc, irqs>> /\ Irq!Split /\ Irq!Split'
  BY DEF Irq!BhSave, Irq!BhReset, Irq!BhPrint, Irq!BhAdvance, Irq!BhLoop, Irq!BhWake,
         Irq!tv_vars, Irq!handler_vars, Irq!Bh, ShortPageInv, ShortSplit, Irq!Split
<1>2. ShortMoved' = ShortMoved /\ ShortStored' = ShortStored /\ ShortDirect'
  BY <1>1 DEF ShortMoved, ShortStored, ShortDirect
<1>3. ShortMoved \in Nat /\ ShortTold <= ShortMoved /\ ShortStored <= ShortTold + NrTv
      /\ tv_tail = ShortTold % NrTv /\ tv_head = ShortMoved % NrTv
      /\ \A i \in 1..ShortStored : ShortTold < i => tv[(i - 1) % NrTv] = i
  BY <1>0, <1>1 DEF ShortRing
<1>4. ASSUME UNCHANGED <<sent, tv_tail>>
      PROVE  ShortTold' = ShortTold /\ ShortSoFar' /\ ShortRing'
  <2>1. ShortTold' = ShortTold /\ ShortSoFar'
    BY <1>0, <1>4 DEF ShortTold, ShortSoFar
  <2>2. QED
    BY <1>1, <1>2, <1>3, <1>4, <2>1 DEF ShortRing
<1>5. CASE Irq!BhSave
  <2>1. /\ UNCHANGED <<sent, tv_tail>> /\ h_pc # "schedule" /\ ~pending' /\ pending
        /\ bh_pc = "idle" /\ bh_pc' = "reset"
    BY <1>5 DEF Irq!BhSave, Irq!Bh, Irq!Spoil, ShortTimesClean
  <2>2. ShortTurn'
    BY <1>0, <1>1, <1>2, <1>4, <2>1 DEF ShortTurn
  <2>3. QED
    BY <1>2, <1>4, <2>1, <2>2 DEF ShortTimesGood
<1>6. CASE Irq!BhReset \/ Irq!BhWake
  <2>1. /\ UNCHANGED <<sent, tv_tail, pending>>
        /\ \/ bh_pc = "reset" /\ bh_pc' = "bh_after"
           \/ bh_pc = "wake" /\ bh_pc' = "idle"
    BY <1>6 DEF Irq!BhReset, Irq!BhWake, Irq!Bh, Irq!tv_vars, Irq!page_vars
  <2>2. ShortTurn'
    BY <1>0, <1>1, <1>2, <1>4, <2>1 DEF ShortTurn
  <2>3. QED
    BY <1>2, <1>4, <2>1, <2>2 DEF ShortTimesGood
<1>7. CASE Irq!BhPrint
  <2>1. UNCHANGED <<sent, tv_tail, pending, head>>
    BY <1>7 DEF Irq!BhPrint, Irq!tv_vars
  <2>2. CASE Irq!Bh("bh_after", "bh_advance")
    <3>1. ShortTurn'
      BY <1>0, <1>1, <1>2, <1>4, <2>1, <2>2 DEF ShortTurn, Irq!Bh
    <3>2. QED
      BY <1>2, <1>4, <2>1, <3>1 DEF ShortTimesGood
  <2>3. CASE Irq!Bh("value", "advance") /\ Irq!PutRecord(<<"time", tv[tv_tail]>>)
    <3>1. ShortTold < ShortMoved
      BY <1>0, <1>1, <2>3 DEF ShortTurn, Irq!Bh
    <3>2. tv[tv_tail] = ShortTold + 1
      <4>1. ShortMoved <= ShortStored
        BY <1>0, <1>3 DEF ShortMoved, ShortStored
      <4>2. ShortTold + 1 \in 1..ShortStored /\ (ShortTold + 1) - 1 = ShortTold /\ ShortTold < ShortTold + 1
        BY <1>0, <1>3, <3>1, <4>1 DEF ShortStored
      <4>3. tv[((ShortTold + 1) - 1) % NrTv] = ShortTold + 1
        BY <1>3, <4>2
      <4>4. QED
        BY <1>3, <4>2, <4>3
    <3>3. page'[head] = Append(<<"time", ShortTold + 1>>, 0) /\ page'[head + 1] = Append(<<"time", ShortTold + 1>>, 1)
      BY <1>0, <2>3, <3>2, ShortPut
    <3>4. ShortPlaced(<<"time", ShortTold + 1>>)'
      BY <1>4, <2>1, <3>3 DEF ShortPlaced
    <3>5. ShortTurn'
      BY <1>0, <1>1, <1>2, <1>4, <2>1, <2>3, <3>1, <3>4 DEF ShortTurn, Irq!Bh
    <3>6. QED
      BY <1>2, <1>4, <2>1, <3>5 DEF ShortTimesGood
  <2>4. QED
    BY <1>7, <2>2, <2>3 DEF Irq!BhPrint
<1>8. CASE Irq!BhAdvance
  <2>1. bh_pc = "bh_advance" /\ bh_pc' = "value" /\ Irq!Advance /\ UNCHANGED <<tv_tail, pending>>
    BY <1>8 DEF Irq!BhAdvance, Irq!Bh, Irq!tv_vars
  <2> DEFINE rec == <<"after", saved>>
  <2>2. rec \in ShortRec /\ ShortPlaced(rec) /\ rec[1] # "time"
    BY <1>0, <2>1 DEF ShortPrinted, ShortPageType, ShortRec
  <2> HIDE DEF rec
  <2>3. sent' = Append(sent, rec)
    BY <1>0, <2>1, <2>2, ShortSent
  <2>4. ShortSoFar' /\ ShortTold' = ShortTold
    <3>1. ShortSoFar' /\ ShortTold' = ShortTold + (IF rec[1] = "time" THEN 1 ELSE 0)
      BY <1>0, <2>2, <2>3, ShortInOrderStill
    <3>2. QED
      BY <1>0, <2>2, <3>1
  <2>5. ShortRing'
    BY <1>1, <1>2, <1>3, <2>1, <2>4 DEF ShortRing
  <2>6. ShortTurn'
    BY <1>0, <1>1, <1>2, <2>1, <2>4 DEF ShortTurn
  <2>7. QED
    BY <1>2, <2>4, <2>5, <2>6 DEF ShortTimesGood
<1>9. CASE Irq!BhLoop
  <2>1. /\ bh_pc = "advance" /\ Irq!Advance /\ UNCHANGED pending
        /\ bh_pc' = IF Irq!short_incr_tv(tv_tail) = tv_head THEN "wake" ELSE "value"
        /\ tv_tail' = Irq!short_incr_tv(tv_tail)
    BY <1>9 DEF Irq!BhLoop, Irq!Bh
  <2> DEFINE rec == <<"time", ShortTold + 1>>
  <2>2. rec \in ShortRec /\ ShortPlaced(rec) /\ rec[1] = "time" /\ rec[2] = ShortTold + 1
    BY <1>0, <1>1, <2>1 DEF ShortTurn, ShortRec
  <2> HIDE DEF rec
  <2>3. sent' = Append(sent, rec)
    BY <1>0, <2>1, <2>2, ShortSent
  <2>4. ShortSoFar' /\ ShortTold' = ShortTold + 1
    <3>1. ShortSoFar' /\ ShortTold' = ShortTold + (IF rec[1] = "time" THEN 1 ELSE 0)
      BY <1>0, <2>2, <2>3, ShortInOrderStill
    <3>2. QED
      BY <2>2, <3>1
  <2>5. tv_tail' = (ShortTold + 1) % NrTv
    <3>1. (ShortTold + 1) % NrTv = IF ShortTold % NrTv = NrTv - 1 THEN 0 ELSE (ShortTold % NrTv) + 1
      BY <1>0, ShortModNext
    <3>2. QED
      BY <1>3, <2>1, <3>1 DEF Irq!short_incr_tv
  <2>6. ShortTold < ShortMoved /\ ShortMoved <= ShortStored /\ ShortStored \in Int
    BY <1>0, <1>1, <1>3, <2>1 DEF ShortTurn, ShortMoved, ShortStored
  <2>7. tv_tail' = tv_head <=> ShortTold + 1 = ShortMoved
    <3>1. ShortTold + 1 \in Nat /\ ShortTold + 1 <= ShortMoved /\ ShortMoved - (ShortTold + 1) < NrTv
      BY <1>0, <1>3, <2>6
    <3>2. QED
      BY <1>0, <1>3, <2>5, <3>1, ShortModSame
  <2>8. ShortRing'
    <3>1. ShortTold' <= ShortMoved /\ ShortStored <= ShortTold' + NrTv
          /\ \A i \in 1..ShortStored : ShortTold' < i => ShortTold < i
      BY <1>0, <1>3, <2>4, <2>6
    <3>2. QED
      BY <1>1, <1>2, <1>3, <2>4, <2>5, <3>1 DEF ShortRing
  <2>9. ShortTurn'
    <3>1. bh_pc' = IF ShortTold + 1 = ShortMoved THEN "wake" ELSE "value"
      BY <2>1, <2>7
    <3>2. ShortTold' <= ShortMoved
      BY <1>0, <1>3, <2>4, <2>6
    <3>3. ShortTold + 1 # ShortMoved => ShortTold' < ShortMoved
      BY <1>0, <1>3, <2>4, <2>6
    <3>4. QED
      BY <1>0, <1>1, <1>2, <2>1, <2>4, <3>1, <3>3 DEF ShortTurn
  <2>10. QED
    BY <1>2, <2>4, <2>8, <2>9 DEF ShortTimesGood
<1>10. QED
  BY <1>5, <1>6, <1>7, <1>8, <1>9

LEMMA ShortTimesStep ==
  ShortPageInv /\ ShortTimesInv /\ [Irq!ShortNext]_Irq!short_vars => ShortTimesInv'
<1> SUFFICES ASSUME ShortPageInv, ShortTimesInv, [Irq!ShortNext]_Irq!short_vars, ShortTimesClean'
             PROVE  ShortTimesGood'
  BY DEF ShortTimesInv
<1>1. ShortTimesGood
  BY ShortExcuses DEF ShortTimesInv, ShortTimesClean
<1>2. CASE UNCHANGED Irq!short_vars
  <2>1. ShortAlone
    BY <1>2 DEF Irq!short_vars, Irq!page_vars, Irq!tv_vars, Irq!handler_vars, Irq!bh_vars, ShortAlone
  <2>2. QED
    BY <1>1, <2>1, ShortAloneTimes
<1>3. CASE Irq!ShortNext
  BY <1>1, <1>3, ShortAloneTimes, ShortReaderAlone, ShortPortAlone, ShortHandlerTimes, ShortTopTimes,
     ShortBottomTimes DEF Irq!ShortNext
<1>4. QED
  BY <1>2, <1>3

-----------------------------------------------------------------------------
(* Short, while no record overruns the tail and no two readers share one:  *)
(* the readers have the units of the records printed, and the page has the *)
(* rest.                                                                   *)

ShortCell == {Irq!Nul} \cup {Append(rec, b) : rec \in ShortRec, b \in 0..1}

\* Where the i-th unit from t on lies, and the i-th unit of the records s.
ShortAt(t, i)   == IF t + i - 1 >= PageSize THEN t + i - 1 - PageSize ELSE t + i - 1
ShortUnit(s, i) == Append(s[(i + 1) \div 2], (i + 1) % 2)

ShortUnitType == /\ page \in [0..PageSize - 1 -> ShortCell]
                 /\ got \in Seq(ShortCell) /\ took \in [Readers -> Seq(ShortCell)]

ShortUnits ==
  /\ Len(got) + Irq!Unread = 2 * Len(sent)
  /\ \A i \in 1..Len(got) : got[i] = ShortUnit(sent, i)
  /\ \A i \in 1..Irq!Unread : page[ShortAt(tail, i)] = ShortUnit(sent, Len(got) + i)

ShortTook == \A r \in Readers : r_pc[r] = "copied" =>
               \A i \in 1..Len(took[r]) : took[r][i] = page[tail + i - 1]

ShortBytes    == ShortUnitType /\ ShortUnits /\ ShortTook
ShortBytesInv == ShortClean => ShortBytes

LEMMA ShortUnitStill ==
  ASSUME NEW s \in Seq(ShortRec), NEW rec \in ShortRec
  PROVE  /\ \A i \in 1..2 * Len(s) : ShortUnit(Append(s, rec), i) = ShortUnit(s, i)
         /\ ShortUnit(Append(s, rec), 2 * Len(s) + 1) = Append(rec, 0)
         /\ ShortUnit(Append(s, rec), 2 * Len(s) + 2) = Append(rec, 1)
<1> DEFINE l == Len(s)
           t == Append(s, rec)
<1>1. l \in Nat /\ t[l + 1] = rec /\ \A k \in 1..l : t[k] = s[k]
  OBVIOUS
<1> HIDE DEF l, t
<1>2. ASSUME NEW i \in 1..2 * l PROVE ShortUnit(t, i) = ShortUnit(s, i)
  <2>1. (i + 1) \div 2 \in 1..l
    BY <1>1
  <2>2. t[(i + 1) \div 2] = s[(i + 1) \div 2]
    BY <1>1, <2>1
  <2>3. QED
    BY <2>2 DEF ShortUnit
<1>3. ShortUnit(t, 2 * l + 1) = Append(rec, 0)
  <2>1. (2 * l + 1 + 1) \div 2 = l + 1 /\ (2 * l + 1 + 1) % 2 = 0
    BY <1>1
  <2>2. QED
    BY <1>1, <2>1 DEF ShortUnit
<1>4. ShortUnit(t, 2 * l + 2) = Append(rec, 1)
  <2>1. (2 * l + 2 + 1) \div 2 = l + 1 /\ (2 * l + 2 + 1) % 2 = 1
    BY <1>1
  <2>2. QED
    BY <1>1, <2>1 DEF ShortUnit
<1>5. QED
  BY <1>2, <1>3, <1>4 DEF l, t

\* The units that wait are in the page, and not where the next record goes.
LEMMA ShortWaiting ==
  ASSUME head \in 0..PageSize - 1, tail \in 0..PageSize - 1
  PROVE  /\ Irq!Unread \in Nat /\ Irq!Unread < PageSize
         /\ \A i \in 1..Irq!Unread :
              /\ ShortAt(tail, i) \in 0..PageSize - 1
              /\ Irq!Unread + 2 < PageSize => ShortAt(tail, i) \notin head..head + 2
<1>1. PageSize \in Nat /\ head \in Nat /\ tail \in Nat /\ head < PageSize /\ tail < PageSize
  BY PageAssumption
<1>2. Irq!Unread = IF head >= tail THEN head - tail ELSE PageSize - tail + head
  BY DEF Irq!Unread
<1>3. PICK u \in Nat : u = Irq!Unread
  BY ShortUnread
<1>4. u = IF head >= tail THEN head - tail ELSE PageSize - tail + head
  BY <1>2, <1>3
<1>5. u < PageSize
  BY <1>1, <1>4
<1>6. ASSUME NEW i \in 1..u
      PROVE  /\ ShortAt(tail, i) \in 0..PageSize - 1
             /\ u + 2 < PageSize => ShortAt(tail, i) \notin head..head + 2
  BY <1>1, <1>4 DEF ShortAt
<1>7. QED
  BY <1>3, <1>5, <1>6

LEMMA ShortBytesInit == Irq!ShortInit => ShortBytes
<1> SUFFICES ASSUME Irq!ShortInit PROVE ShortBytes
  OBVIOUS
<1>1. head = 0 /\ tail = 0 /\ sent = <<>> /\ got = <<>> /\ took = [r \in Readers |-> <<>>]
      /\ page = [u \in 0..PageSize - 1 |-> Irq!Nul] /\ r_pc = [r \in Readers |-> "idle"]
  BY DEF Irq!ShortInit
<1>2. Irq!Nul \in ShortCell
  BY DEF ShortCell
<1> HIDE DEF ShortCell
<1>3. ShortUnitType
  BY <1>1, <1>2 DEF ShortUnitType
<1>4. Irq!Unread = 0
  BY <1>1 DEF Irq!Unread
<1>5. ShortUnits /\ ShortTook
  BY <1>1, <1>4 DEF ShortUnits, ShortTook
<1>6. QED
  BY <1>3, <1>5 DEF ShortBytes

LEMMA ShortBytesSame ==
  ASSUME ShortBytes, UNCHANGED <<head, tail, page, sent, got, took>>,
         \A r \in Readers : r_pc'[r] = "copied" => r_pc[r] = "copied"
  PROVE  ShortBytes'
<1>1. Irq!Unread' = Irq!Unread
  BY DEF Irq!Unread
<1>2. ShortUnitType'
  BY DEF ShortBytes, ShortUnitType
<1>3. ShortUnits'
  BY <1>1 DEF ShortBytes, ShortUnits, ShortAt, ShortUnit
<1>4. ShortTook'
  BY DEF ShortBytes, ShortTook
<1>5. QED
  BY <1>2, <1>3, <1>4 DEF ShortBytes

LEMMA ShortPutBytes ==
  ASSUME ShortPageInv, ShortGood, ShortBytes, Irq!HandlerPrint \/ Irq!BhPrint, ShortClean'
  PROVE  ShortBytes'
<1>1. UNCHANGED <<head, tail, sent, got, took, r_pc>>
  BY DEF Irq!HandlerPrint, Irq!BhPrint, Irq!reader_vars
<1>2. PICK rec \in ShortRec : Irq!PutRecord(rec)
  <2>1. <<"time", irqs>> \in ShortRec /\ <<"after", saved>> \in ShortRec
        /\ <<"time", tv[tv_tail]>> \in ShortRec
    BY DEF ShortPageInv, ShortPageType, ShortTvType, ShortRec
  <2>2. QED
    BY <2>1 DEF Irq!HandlerPrint, Irq!BhPrint
<1>3. head \in 0..PageSize - 1 /\ tail \in 0..PageSize - 1 /\ PageSize \in Nat
  BY PageAssumption DEF ShortGood, ShortTypeOK
<1>4. Irq!Unread \in Nat /\ Irq!Unread + 2 < PageSize /\ Irq!Unread' = Irq!Unread
  <2>1. Irq!Unread \in Nat
    BY <1>3, ShortWaiting
  <2>2. ~(Irq!Unread + 2 >= PageSize)
    BY <1>2 DEF ShortClean, Irq!PutRecord, Irq!Spoil
  <2>3. Irq!Unread' = Irq!Unread
    BY <1>1 DEF Irq!Unread
  <2>4. QED
    BY <1>3, <2>1, <2>2, <2>3
<1>5. \A i \in 1..Irq!Unread : /\ ShortAt(tail, i) \in 0..PageSize - 1
                               /\ page'[ShortAt(tail, i)] = page[ShortAt(tail, i)]
  BY <1>2, <1>3, <1>4, ShortPut, ShortWaiting DEF ShortPageInv
<1>6. ShortUnitType'
  <2>1. page' = [u \in 0..PageSize - 1 |->
          IF u = head THEN Append(rec, 0) ELSE IF u = head + 1 THEN Append(rec, 1)
          ELSE IF u = head + 2 THEN Irq!Nul ELSE page[u]]
    BY <1>2 DEF Irq!PutRecord
  <2>2. Append(rec, 0) \in ShortCell /\ Append(rec, 1) \in ShortCell /\ Irq!Nul \in ShortCell
    BY DEF ShortCell
  <2> DEFINE a == Append(rec, 0)
             b == Append(rec, 1)
  <2> HIDE DEF a, b
  <2>3. a \in ShortCell /\ b \in ShortCell
    BY <2>2 DEF a, b
  <2>4. page' = [u \in 0..PageSize - 1 |->
          IF u = head THEN a ELSE IF u = head + 1 THEN b
          ELSE IF u = head + 2 THEN Irq!Nul ELSE page[u]]
    BY <2>1 DEF a, b
  <2>5. page' \in [0..PageSize - 1 -> ShortCell]
    BY <2>2, <2>3, <2>4 DEF ShortBytes, ShortUnitType
  <2>6. QED
    BY <1>1, <2>5 DEF ShortBytes, ShortUnitType
<1>7. ShortUnits'
  BY <1>1, <1>4, <1>5 DEF ShortBytes, ShortUnits
<1>8. ShortTook'
  <2> SUFFICES ASSUME NEW r \in Readers, r_pc[r] = "copied", NEW i \in 1..Len(took[r])
               PROVE  took[r][i] = page'[tail + i - 1]
    BY <1>1 DEF ShortTook
  <2>1. Len(took[r]) \in Nat /\ Len(took[r]) <= Irq!Unread /\ tail + Len(took[r]) <= PageSize
    BY DEF ShortGood, ShortCopied
  <2>2. i \in 1..Irq!Unread /\ ShortAt(tail, i) = tail + i - 1
    BY <1>3, <1>4, <2>1 DEF ShortAt
  <2>3. page'[tail + i - 1] = page[tail + i - 1]
    BY <1>5, <2>2
  <2>4. QED
    BY <2>3 DEF ShortBytes, ShortTook
<1>9. QED
  BY <1>6, <1>7, <1>8 DEF ShortBytes

LEMMA ShortAdvanceBytes ==
  ASSUME ShortPageInv, ShortGood, ShortBytes, Irq!HandlerAdvance \/ Irq!BhAdvance \/ Irq!BhLoop
  PROVE  ShortBytes'
<1>1. UNCHANGED <<got, took, r_pc>> /\ Irq!Advance
  BY DEF Irq!HandlerAdvance, Irq!BhAdvance, Irq!BhLoop, Irq!reader_vars
<1>2. h_pc = "advance" \/ bh_pc \in {"bh_advance", "advance"}
  BY DEF Irq!HandlerAdvance, Irq!BhAdvance, Irq!BhLoop, Irq!Handler, Irq!Bh
<1>3. PICK rec \in ShortRec : ShortPlaced(rec)
  BY <1>2 DEF ShortPageInv, ShortPageType, ShortPrinted, ShortRec
<1>4. /\ sent' = Append(sent, rec) /\ head' = Irq!short_incr_bp(head, 2)
      /\ UNCHANGED <<tail, page>> /\ sent \in Seq(ShortRec)
  BY <1>1, <1>3, ShortSent DEF ShortPageInv, ShortPageType
<1>5. /\ head \in 0..PageSize - 1 /\ tail \in 0..PageSize - 1 /\ PageSize \in Nat /\ head % 2 = 0
      /\ Irq!Unread \in Nat /\ Irq!Unread + 2 < PageSize
  BY <1>2, PageAssumption, ShortUnread DEF ShortGood, ShortTypeOK, ShortFits
<1>6. Irq!Unread' = Irq!Unread + 2 /\ head + 1 \in 0..PageSize - 1
  BY <1>4, <1>5, ShortAdvances, ShortHead
<1>7. ShortAt(tail, Irq!Unread + 1) = head /\ ShortAt(tail, Irq!Unread + 2) = head + 1
  <2>1. PICK u \in Nat : u = Irq!Unread
    BY <1>5
  <2>2. u = IF head >= tail THEN head - tail ELSE PageSize - tail + head
    BY <2>1 DEF Irq!Unread
  <2>3. ShortAt(tail, u + 1) = head /\ ShortAt(tail, u + 2) = head + 1
    BY <1>5, <1>6, <2>2 DEF ShortAt
  <2>4. QED
    BY <2>1, <2>3
<1>8. Len(got) \in Nat /\ Len(sent) \in Nat /\ Len(sent') = Len(sent) + 1
      /\ Len(got) + Irq!Unread = 2 * Len(sent)
  BY <1>4 DEF ShortBytes, ShortUnitType, ShortUnits
<1>9. /\ \A i \in 1..2 * Len(sent) : ShortUnit(sent', i) = ShortUnit(sent, i)
      /\ ShortUnit(sent', 2 * Len(sent) + 1) = Append(rec, 0)
      /\ ShortUnit(sent', 2 * Len(sent) + 2) = Append(rec, 1)
  BY <1>4, ShortUnitStill
<1>10. ShortUnits'
  <2>1. Len(got') + Irq!Unread' = 2 * Len(sent')
    BY <1>1, <1>5, <1>6, <1>8
  <2>2. \A i \in 1..Len(got') : got'[i] = ShortUnit(sent', i)
    <3>1. \A i \in 1..Len(got) : i \in 1..2 * Len(sent)
      BY <1>5, <1>8
    <3>2. QED
      BY <1>1, <1>9, <3>1 DEF ShortBytes, ShortUnits
  <2>3. ASSUME NEW i \in 1..Irq!Unread + 2
        PROVE  page[ShortAt(tail, i)] = ShortUnit(sent', Len(got) + i)
    <3>1. CASE i \in 1..Irq!Unread
      <4>1. Len(got) + i \in 1..2 * Len(sent)
        BY <1>5, <1>8, <3>1
      <4>2. QED
        BY <1>9, <3>1, <4>1 DEF ShortBytes, ShortUnits
    <3>2. CASE i = Irq!Unread + 1
      <4>1. Len(got) + i = 2 * Len(sent) + 1
        BY <1>5, <1>8, <3>2
      <4>2. QED
        BY <1>3, <1>7, <1>9, <3>2, <4>1 DEF ShortPlaced
    <3>3. CASE i = Irq!Unread + 2
      <4>1. Len(got) + i = 2 * Len(sent) + 2
        BY <1>5, <1>8, <3>3
      <4>2. QED
        BY <1>3, <1>7, <1>9, <3>3, <4>1 DEF ShortPlaced
    <3>4. QED
      BY <1>5, <3>1, <3>2, <3>3
  <2>4. QED
    BY <1>1, <1>4, <1>6, <2>1, <2>2, <2>3 DEF ShortUnits
<1>11. ShortUnitType' /\ ShortTook'
  BY <1>1, <1>4 DEF ShortBytes, ShortUnitType, ShortTook
<1>12. QED
  BY <1>10, <1>11 DEF ShortBytes

LEMMA ShortCopyBytes ==
  ASSUME ShortGood, ShortGood', ShortBytes, NEW r \in Readers, Irq!Copy(r), ShortClean'
  PROVE  ShortBytes'
<1> DEFINE count0 == IF head - tail < 0 THEN PageSize - tail ELSE head - tail
<1>0. PICK n \in 1..2 :
        /\ Irq!Goto(r, "ready", "copied")
        /\ took' = [took EXCEPT ![r] = [i \in 1..(IF count0 < n THEN count0 ELSE n) |-> page[tail + i - 1]]]
        /\ UNCHANGED <<Irq!outside, Irq!page_vars, got>>
  BY DEF Irq!Copy
<1> DEFINE k == IF count0 < n THEN count0 ELSE n
           s == [i \in 1..k |-> page[tail + i - 1]]
<1>1. /\ r_pc' = [r_pc EXCEPT ![r] = "copied"] /\ took' = [took EXCEPT ![r] = s]
      /\ UNCHANGED <<head, tail, page, sent, got>>
  BY <1>0 DEF Irq!Goto, Irq!outside, Irq!page_vars
<1>2. head \in 0..PageSize - 1 /\ tail \in 0..PageSize - 1 /\ PageSize \in Nat
  BY PageAssumption DEF ShortGood, ShortTypeOK
<1>3. k \in Nat /\ tail + k <= PageSize
  BY <1>2
<1>4. s \in Seq(ShortCell) /\ Len(s) = k
  <2> HIDE DEF k
  <2>1. \A i \in 1..k : tail + i - 1 \in 0..PageSize - 1
    BY <1>2, <1>3
  <2>2. s \in [1..k -> ShortCell]
    BY <2>1 DEF ShortBytes, ShortUnitType
  <2>3. QED
    BY <1>3, <2>2
<1>5. took' \in [Readers -> Seq(ShortCell)] /\ took'[r] = s
      /\ \A q \in Readers \ {r} : took'[q] = took[q]
  BY <1>1, <1>4 DEF ShortBytes, ShortUnitType
<1>6. ShortUnitType'
  BY <1>1, <1>5 DEF ShortBytes, ShortUnitType
<1>7. Irq!Unread' = Irq!Unread
  BY <1>1 DEF Irq!Unread
<1>8. ShortUnits'
  BY <1>1, <1>7 DEF ShortBytes, ShortUnits
<1>9. ShortTook'
  <2>1. \A q \in Readers : r_pc'[q] = "copied" => q = r
    BY <1>1 DEF ShortGood, ShortTypeOK, ShortCopied
  <2>2. \A i \in 1..Len(s) : s[i] = page[tail + i - 1]
    <3> HIDE DEF k
    <3>1. QED
      BY <1>4
  <2>3. QED
    BY <1>1, <1>5, <2>1, <2>2 DEF ShortTook
<1>10. QED
  BY <1>6, <1>8, <1>9 DEF ShortBytes

LEMMA ShortJoin ==
  ASSUME NEW S, NEW s \in Seq(S), NEW t \in Seq(S)
  PROVE  /\ s \o t \in Seq(S) /\ Len(s \o t) = Len(s) + Len(t)
         /\ \A i \in 1..Len(s) : (s \o t)[i] = s[i]
         /\ \A i \in 1..Len(t) : (s \o t)[Len(s) + i] = t[i]
OBVIOUS

LEMMA ShortConsumeBytes ==
  ASSUME ShortGood, ShortBytes, NEW r \in Readers, Irq!Consume(r)
  PROVE  ShortBytes'
<1> DEFINE k == Len(took[r])
<1>1. /\ r_pc[r] = "copied" /\ r_pc' = [r_pc EXCEPT ![r] = "idle"]
      /\ took' = [took EXCEPT ![r] = <<>>] /\ got' = got \o took[r]
      /\ tail' = Irq!short_incr_bp(tail, k) /\ UNCHANGED <<head, page, sent>>
  BY DEF Irq!Consume, Irq!Goto, Irq!outside
<1>2. k \in Nat /\ k <= Irq!Unread /\ tail + k <= PageSize
  BY <1>1 DEF ShortGood, ShortCopied
<1>3. /\ head \in 0..PageSize - 1 /\ tail \in 0..PageSize - 1 /\ PageSize \in Nat
      /\ Irq!Unread \in Nat /\ Irq!Unread < PageSize
  BY PageAssumption, ShortWaiting DEF ShortGood, ShortTypeOK
<1> HIDE DEF k
<1>4. Irq!Unread' = Irq!Unread - k /\ tail' \in 0..PageSize - 1
  BY <1>1, <1>2, <1>3, ShortConsumes
<1>5. ASSUME NEW i \in 1..Irq!Unread - k
      PROVE  k + i \in 1..Irq!Unread /\ ShortAt(tail', i) = ShortAt(tail, k + i)
  <2>1. PICK u \in Nat : u = Irq!Unread
    BY <1>3
  <2>2. i \in 1..u - k /\ k <= u /\ u < PageSize
    BY <1>2, <1>3, <2>1
  <2>3. tail' = IF tail + k >= PageSize THEN 0 ELSE tail + k
    BY <1>1 DEF Irq!short_incr_bp
  <2>4. k + i \in 1..u /\ ShortAt(tail', i) = ShortAt(tail, k + i)
    BY <1>2, <1>3, <2>2, <2>3 DEF ShortAt
  <2>5. QED
    BY <2>1, <2>4
<1>6. took[r] \in Seq(ShortCell) /\ got \in Seq(ShortCell)
  BY DEF ShortBytes, ShortUnitType
<1>7. /\ got' \in Seq(ShortCell) /\ Len(got') = Len(got) + k
      /\ \A i \in 1..Len(got) : got'[i] = got[i]
      /\ \A i \in 1..k : got'[Len(got) + i] = took[r][i]
  BY <1>1, <1>6, ShortJoin DEF k
<1>8. Len(got) \in Nat /\ Len(got) + Irq!Unread = 2 * Len(sent)
  BY <1>6 DEF ShortBytes, ShortUnits
<1>9. ASSUME NEW i \in 1..k PROVE took[r][i] = ShortUnit(sent, Len(got) + i)
  <2>1. i \in 1..Irq!Unread /\ ShortAt(tail, i) = tail + i - 1
    BY <1>2, <1>3 DEF ShortAt
  <2>2. took[r][i] = page[tail + i - 1]
    BY <1>1 DEF ShortBytes, ShortTook, k
  <2>3. QED
    BY <2>1, <2>2 DEF ShortBytes, ShortUnits
<1>10. ShortUnits'
  <2>1. Len(got') + Irq!Unread' = 2 * Len(sent')
    BY <1>1, <1>2, <1>3, <1>4, <1>7, <1>8
  <2>2. ASSUME NEW j \in 1..Len(got') PROVE got'[j] = ShortUnit(sent, j)
    <3>1. CASE j \in 1..Len(got)
      BY <1>7, <3>1 DEF ShortBytes, ShortUnits
    <3>2. CASE j \notin 1..Len(got)
      <4>1. PICK i \in 1..k : j = Len(got) + i
        <5>1. j - Len(got) \in 1..k /\ j = Len(got) + (j - Len(got))
          BY <1>2, <1>7, <1>8, <3>2
        <5>2. QED
          BY <5>1
      <4>2. QED
        BY <1>7, <1>9, <4>1
    <3>3. QED
      BY <3>1, <3>2
  <2>3. ASSUME NEW i \in 1..Irq!Unread - k
        PROVE  page[ShortAt(tail', i)] = ShortUnit(sent, Len(got') + i)
    <3>1. page[ShortAt(tail', i)] = ShortUnit(sent, Len(got) + (k + i))
      BY <1>5 DEF ShortBytes, ShortUnits
    <3>2. Len(got) + (k + i) = Len(got') + i
      BY <1>2, <1>3, <1>7, <1>8
    <3>3. QED
      BY <3>1, <3>2
  <2>4. QED
    BY <1>1, <1>4, <2>1, <2>2, <2>3 DEF ShortUnits
<1>11. ShortUnitType'
  <2>1. <<>> \in Seq(ShortCell)
    OBVIOUS
  <2>2. QED
    BY <1>1, <1>7, <2>1 DEF ShortBytes, ShortUnitType
<1>12. ShortTook'
  BY <1>1 DEF ShortGood, ShortTypeOK, ShortCopied, ShortTook
<1>13. QED
  BY <1>10, <1>11, <1>12 DEF ShortBytes

LEMMA ShortBytesStep ==
  ShortPageInv /\ ShortInv /\ ShortInv' /\ ShortBytesInv /\ [Irq!ShortNext]_Irq!short_vars => ShortBytesInv'
<1> SUFFICES ASSUME ShortPageInv, ShortInv, ShortInv', ShortBytesInv, [Irq!ShortNext]_Irq!short_vars,
                    ShortClean'
             PROVE  ShortBytes'
  BY DEF ShortBytesInv
<1>1. ShortGood /\ ShortGood' /\ ShortBytes
  BY ShortExcuses DEF ShortInv, ShortBytesInv, ShortClean
<1>2. CASE UNCHANGED Irq!short_vars
  <2>1. UNCHANGED <<head, tail, page, sent, got, took, r_pc>>
    BY <1>2 DEF Irq!short_vars, Irq!page_vars, Irq!reader_vars
  <2>2. QED
    BY <1>1, <2>1, ShortBytesSame
<1>3. CASE Irq!Write \/ Irq!Interrupt \/ Irq!NotMine \/ Irq!NotTheirs
           \/ Irq!Store \/ Irq!IncrTv \/ Irq!Schedule \/ Irq!Count \/ Irq!BhSave \/ Irq!BhReset
  <2>1. UNCHANGED <<head, tail, page, sent, got, took, r_pc>>
    BY <1>3 DEF Irq!Write, Irq!Interrupt, Irq!NotMine, Irq!NotTheirs, Irq!Store, Irq!IncrTv, Irq!Schedule,
       Irq!Count, Irq!BhSave, Irq!BhReset, Irq!page_vars, Irq!reader_vars
  <2>2. QED
    BY <1>1, <2>1, ShortBytesSame
<1>4. CASE Irq!HandlerWake \/ Irq!BhWake
  <2>1. UNCHANGED <<head, tail, page, sent, got, took>> /\ Irq!WakeUp
    BY <1>4 DEF Irq!HandlerWake, Irq!BhWake, Irq!page_vars
  <2>2. \A q \in Readers : r_pc'[q] = "copied" => r_pc[q] = "copied"
    BY <2>1 DEF Irq!WakeUp
  <2>3. QED
    BY <1>1, <2>1, <2>2, ShortBytesSame
<1>5. ASSUME NEW r \in Readers,
             Irq!Test(r) \/ Irq!prepare_to_wait(r) \/ Irq!Retest(r) \/ Irq!Again(r) \/ Irq!CopyFault(r)
      PROVE  ShortBytes'
  <2>1. UNCHANGED <<head, tail, page, sent, got, took>>
    BY <1>5 DEF Irq!Test, Irq!prepare_to_wait, Irq!Retest, Irq!Again, Irq!CopyFault, Irq!outside, Irq!page_vars
  <2>2. \A q \in Readers : r_pc'[q] = "copied" => r_pc[q] = "copied"
    BY <1>1, <1>5 DEF Irq!Test, Irq!prepare_to_wait, Irq!Retest, Irq!Again, Irq!CopyFault, Irq!Goto,
       ShortGood, ShortTypeOK
  <2>3. QED
    BY <1>1, <2>1, <2>2, ShortBytesSame
<1>6. CASE Irq!ShortNext
  BY <1>1, <1>3, <1>4, <1>5, <1>6, ShortPutBytes, ShortAdvanceBytes, ShortCopyBytes, ShortConsumeBytes
     DEF Irq!ShortNext
<1>7. QED
  BY <1>2, <1>6

\* What the readers have and what the page has for them are the records.
LEMMA ShortRecordsKept ==
  ASSUME ShortPageInv, ShortGood, ShortBytes
  PROVE  got \o Irq!Remaining = Irq!Units(sent)
<1> DEFINE u == Irq!Unread
           l == Len(sent)
           s == Irq!Remaining
<1>1. /\ head \in 0..PageSize - 1 /\ tail \in 0..PageSize - 1 /\ PageSize \in Nat \ {0}
      /\ u \in Nat /\ u < PageSize /\ l \in Nat /\ got \in Seq(ShortCell)
      /\ Len(got) + u = 2 * l
  BY PageAssumption, ShortWaiting
     DEF ShortGood, ShortTypeOK, ShortPageInv, ShortPageType, ShortBytes, ShortUnits, ShortUnitType
<1>2. s = [i \in 1..u |-> page[(tail + i - 1) % PageSize]]
  BY DEF Irq!Remaining
<1> HIDE DEF s
<1>3. ASSUME NEW i \in 1..u
      PROVE  /\ (tail + i - 1) % PageSize = ShortAt(tail, i)
             /\ ShortAt(tail, i) \in 0..PageSize - 1
             /\ page[ShortAt(tail, i)] = ShortUnit(sent, Len(got) + i)
             /\ page[ShortAt(tail, i)] \in ShortCell
  <2>1. ShortAt(tail, i) \in 0..PageSize - 1
    BY <1>1, ShortWaiting
  <2>2. \/ tail + i - 1 = 0 * PageSize + ShortAt(tail, i)
        \/ tail + i - 1 = 1 * PageSize + ShortAt(tail, i)
    BY <1>1 DEF ShortAt
  <2>3. (tail + i - 1) % PageSize = ShortAt(tail, i)
    <3>1. /\ (0 * PageSize + ShortAt(tail, i)) % PageSize = ShortAt(tail, i)
          /\ (1 * PageSize + ShortAt(tail, i)) % PageSize = ShortAt(tail, i)
      BY <1>1, <2>1, ShortModIs
    <3>2. QED
      BY <2>2, <3>1
  <2>4. QED
    BY <2>1, <2>3 DEF ShortBytes, ShortUnits, ShortUnitType
<1>4. /\ s \in Seq(ShortCell) /\ Len(s) = u
      /\ \A i \in 1..u : s[i] = ShortUnit(sent, Len(got) + i)
  <2> HIDE DEF u
  <2>1. s \in [1..u -> ShortCell] /\ \A i \in 1..u : s[i] = ShortUnit(sent, Len(got) + i)
    BY <1>2, <1>3
  <2>2. QED
    BY <1>1, <2>1
<1> DEFINE t == got \o s
<1> HIDE DEF u
<1>5. /\ t \in Seq(ShortCell) /\ Len(t) = Len(got) + u
      /\ \A i \in 1..Len(got) : t[i] = got[i]
      /\ \A i \in 1..u : t[Len(got) + i] = s[i]
  <2>1. got \in Seq(ShortCell) /\ s \in Seq(ShortCell) /\ Len(s) = u
    BY <1>1, <1>4
  <2>2. /\ t \in Seq(ShortCell) /\ Len(t) = Len(got) + Len(s)
        /\ \A i \in 1..Len(got) : t[i] = got[i]
        /\ \A i \in 1..Len(s) : t[Len(got) + i] = s[i]
    <3>1. ASSUME NEW a \in Seq(ShortCell), NEW b \in Seq(ShortCell)
          PROVE  /\ a \o b \in Seq(ShortCell) /\ Len(a \o b) = Len(a) + Len(b)
                 /\ \A i \in 1..Len(a) : (a \o b)[i] = a[i]
                 /\ \A i \in 1..Len(b) : (a \o b)[Len(a) + i] = b[i]
      OBVIOUS
    <3>2. QED
      BY <2>1, <3>1
  <2>3. QED
    BY <2>1, <2>2
<1> HIDE DEF t
<1>6. Len(got) \in Nat
  BY <1>1
<1>7. ASSUME NEW j \in 1..2 * l PROVE t[j] = ShortUnit(sent, j)
  <2>1. CASE j \in 1..Len(got)
    BY <1>5, <2>1 DEF ShortBytes, ShortUnits
  <2>2. CASE j \notin 1..Len(got)
    <3>1. j - Len(got) \in 1..u /\ Len(got) + (j - Len(got)) = j
      BY <1>1, <1>6, <2>2
    <3>2. PICK i \in 1..u : Len(got) + i = j
      BY <3>1
    <3>3. QED
      BY <1>4, <1>5, <3>2
  <2>3. QED
    BY <2>1, <2>2
<1>8. t = [j \in 1..2 * l |-> ShortUnit(sent, j)]
  <2>1. DOMAIN t = 1..2 * l
    BY <1>1, <1>5
  <2>2. t = [j \in DOMAIN t |-> t[j]]
    BY <1>5
  <2>3. QED
    BY <1>7, <2>1, <2>2
<1>9. Irq!Units(sent) = [j \in 1..2 * l |-> ShortUnit(sent, j)]
  BY DEF Irq!Units, ShortUnit
<1>10. QED
  BY <1>8, <1>9 DEF t, s

\* Whatever the sizes of the page and of the array of times, the readers and the way to
\* handle the interrupt: records are read as they were printed, unless the ring overran or
\* two readers took one record; and each interrupt is told once and in order, none is
\* left untold when nobody works on them, unless a handler met the bottom half or lapped it.
THEOREM ShortSpecInOrder == Irq!ShortInit /\ [][Irq!ShortNext]_Irq!short_vars => []ShortInOrder
<1>1. Irq!ShortInit => ShortPageInv /\ ShortInv /\ ShortTimesInv /\ ShortBytesInv
  BY ShortPageInit, ShortInitInv, ShortTimesInit, ShortBytesInit DEF ShortBytesInv
<1>2. ShortPageInv /\ ShortInv /\ ShortTimesInv /\ ShortBytesInv /\ [Irq!ShortNext]_Irq!short_vars
        => (ShortPageInv /\ ShortInv /\ ShortTimesInv /\ ShortBytesInv)'
  BY ShortPageStep, ShortStepInv, ShortTimesStep, ShortBytesStep
<1>3. ShortPageInv /\ ShortInv /\ ShortTimesInv /\ ShortBytesInv => ShortInOrder
  <2> SUFFICES ASSUME ShortPageInv, ShortInv, ShortTimesInv, ShortBytesInv PROVE ShortInOrder
    OBVIOUS
  <2>1. ShortClean => got \o Irq!Remaining = Irq!Units(sent)
    BY ShortRecordsKept DEF ShortInv, ShortBytesInv
  <2>2. ASSUME ShortTimesClean
        PROVE  /\ \A k \in 1..Len(sent) : Irq!IsTime(k) => sent[k][2] = Irq!TimesTo(k)
               /\ h_pc = "idle" /\ bh_pc = "idle" /\ ~pending => Irq!TimesTo(Len(sent)) = irqs
    <3>1. ShortSoFar /\ ShortDirect /\ ShortTurn
      BY <2>2 DEF ShortTimesInv, ShortTimesGood
    <3>2. \A k \in 1..Len(sent) : Irq!IsTime(k) => sent[k][2] = Irq!TimesTo(k)
      BY <3>1, ShortTimesTo DEF ShortSoFar, Irq!IsTime
    <3>3. h_pc = "idle" /\ bh_pc = "idle" /\ ~pending => ShortTold = irqs
      BY <3>1 DEF ShortDirect, ShortTurn, ShortMoved
    <3>4. QED
      BY <3>2, <3>3, ShortTimesTo DEF ShortTold
  <2>3. QED
    BY <2>1, <2>2 DEF ShortInOrder, Irq!OnceInOrder, ShortClean, ShortTimesClean
<1>4. QED
  BY <1>1, <1>2, <1>3, PTL

-----------------------------------------------------------------------------
(* Fifos: the bytes of both devices lie in one piece from r_ptr on, as     *)
(* long as nothing but a missed wake-up has happened; and a sleeper has a  *)
(* reason to sleep.                                                        *)

FfClean == spoilt \subseteq {"missed"}

FfOp == {"-", "r", "w"}
FfPc == {"idle", "in", "copied", "unlocked", "asleep", "event", "relock", "wake"}

FfTypeOK ==
  /\ kind \in {"fifo", "pipe"} /\ buff \in BOOLEAN /\ mutex \in Nat
  /\ cell \in [0 .. Cap - 1 -> Int]
  /\ f_size \in Nat /\ r_ptr \in 0 .. Cap - 1 /\ w_ptr \in Nat
  /\ at_op \in [Users -> FfOp \X FfPc]
  /\ moved \in [Users -> Seq(Int)]
  /\ written \in Seq(Int) /\ taken \in Seq(Int)

\* Mutual exclusion; the count of the mutex says who is inside.
FfIn(u) == at_op[u][2] \in {"in", "copied"}

FfLock == /\ \A u, v \in Users : FfIn(u) /\ FfIn(v) => u = v
          /\ kind = "fifo" => mutex = IF \E u \in Users : FfIn(u) THEN 0 ELSE 1

\* n bytes of c from place r on.
FfSpan(c, r, n) == [i \in 1 .. n |-> c[r + i - 1]]

\* The bytes that count do not wrap; a pipe that was filled to the end and emptied
\* takes no more.
FfPlace ==
  /\ r_ptr + f_size <= Cap
  /\ kind = "fifo" => r_ptr = 0 /\ buff
  /\ kind = "pipe" => r_ptr + f_size = w_ptr \/ (f_size = 0 /\ w_ptr = Cap)
  /\ ~buff => f_size = 0

\* What the process inside has copied is at the front, or follows the last byte.
FfMoved(u) ==
  at_op[u][2] = "copied" =>
    /\ Len(moved[u]) >= 1 /\ buff
    /\ at_op[u][1] = "r" =>
         Len(moved[u]) <= f_size /\ moved[u] = FfSpan(cell, r_ptr, Len(moved[u]))
    /\ at_op[u][1] = "w" =>
         /\ r_ptr + f_size + Len(moved[u]) <= Cap
         /\ kind = "pipe" => w_ptr = r_ptr + f_size
         /\ moved[u] = FfSpan(cell, r_ptr + f_size, Len(moved[u]))

FfKept == taken \o FfSpan(cell, r_ptr, f_size) = written

FfData == FfPlace /\ FfKept /\ \A u \in Users : FfMoved(u)

\* A sleeper has nothing to do, or its wake-up is on the way, or it missed one, which
\* a writer of globalfifo never does.
FfWaker(op)    == \E q \in Users : at_op[q] = <<Fifo!Other(op), "wake">>
FfExcused(op)  == spoilt # {} /\ ~(kind = "fifo" /\ op = "w")
FfSleep(u, op) == at_op[u] = <<op, "asleep">> => Fifo!Blocked(op) \/ FfWaker(op) \/ FfExcused(op)

\* Only the reader of globalfifo is between its unlock and its new state.
FfGap(u) == at_op[u][2] = "unlocked" =>
              /\ kind = "fifo" /\ at_op[u][1] = "r"
              /\ spoilt = {} => Fifo!Blocked("r")

FfRest == \A u \in Users : FfGap(u) /\ \A op \in {"r", "w"} : FfSleep(u, op)

FfGood == FfTypeOK /\ FfLock /\ FfData /\ FfRest
FfInv  == kind \in {"fifo", "pipe"} /\ (kind = "fifo" => FfClean) /\ (FfClean => FfGood)

-----------------------------------------------------------------------------
\* Spans of cells.
LEMMA FfSpanSeq ==
  ASSUME NEW c \in [0 .. Cap - 1 -> Int], NEW r \in Nat, NEW n \in Nat, r + n <= Cap
  PROVE  FfSpan(c, r, n) \in Seq(Int) /\ Len(FfSpan(c, r, n)) = n
<1>1. FfSpan(c, r, n) \in [1 .. n -> Int]
  BY CapAssumption DEF FfSpan
<1>2. QED
  BY <1>1

LEMMA FfSpanJoined ==
  ASSUME NEW c \in [0 .. Cap - 1 -> Int], NEW r \in Nat, NEW k \in Nat, NEW m \in Nat,
         r + k + m <= Cap
  PROVE  FfSpan(c, r, k) \o FfSpan(c, r + k, m) = FfSpan(c, r, k + m)
<1>0. r + k \in Nat /\ r + k <= Cap /\ k + m \in Nat
  BY CapAssumption
<1>1. /\ FfSpan(c, r, k) \in Seq(Int) /\ Len(FfSpan(c, r, k)) = k
      /\ FfSpan(c, r + k, m) \in Seq(Int) /\ Len(FfSpan(c, r + k, m)) = m
  <2>1. FfSpan(c, r, k) \in Seq(Int) /\ Len(FfSpan(c, r, k)) = k
    BY <1>0, FfSpanSeq
  <2>2. FfSpan(c, r + k, m) \in Seq(Int) /\ Len(FfSpan(c, r + k, m)) = m
    <3> DEFINE z == r + k
    <3>1. z \in Nat /\ z + m <= Cap
      BY <1>0
    <3> HIDE DEF z
    <3>2. FfSpan(c, z, m) \in Seq(Int) /\ Len(FfSpan(c, z, m)) = m
      BY <3>1, FfSpanSeq
    <3>3. QED
      BY <3>2 DEF z
  <2>3. QED
    BY <2>1, <2>2
<1> DEFINE s == FfSpan(c, r, k)
           t == FfSpan(c, r + k, m)
           st == s \o t
<1>2. st \in Seq(Int) /\ Len(st) = k + m
  <2>1. s \in Seq(Int) /\ t \in Seq(Int) /\ Len(s) = k /\ Len(t) = m
    BY <1>1
  <2> HIDE DEF s, t
  <2>2. QED
    BY <2>1, ConcatProperties
<1>3. ASSUME NEW i \in 1 .. k + m PROVE st[i] = c[r + i - 1]
  <2>1. CASE i <= k
    <3>1. i \in 1 .. k
      BY <2>1
    <3>2. s \in Seq(Int) /\ t \in Seq(Int) /\ Len(s) = k /\ Len(t) = m
      BY <1>1
    <3>3. st[i] = s[i]
      <4> HIDE DEF s, t
      <4>1. QED
        BY <2>1, <3>2, ConcatProperties
    <3>4. s[i] = c[r + i - 1]
      BY <3>1 DEF FfSpan
    <3>5. QED
      BY <3>3, <3>4
  <2>2. CASE i > k
    <3>1. i - k \in 1 .. m
      BY <2>2
    <3>2. s \in Seq(Int) /\ t \in Seq(Int) /\ Len(s) = k /\ Len(t) = m
      BY <1>1
    <3>3. st[i] = t[i - k]
      <4> HIDE DEF s, t
      <4>1. QED
        BY <2>2, <3>2, ConcatProperties
    <3>4. t[i - k] = c[r + k + (i - k) - 1]
      BY <3>1 DEF FfSpan
    <3>5. r + k + (i - k) - 1 = r + i - 1
      BY <2>2
    <3>6. QED
      BY <3>3, <3>4, <3>5
  <2>3. i \in Int
    OBVIOUS
  <2>4. i <= k \/ i > k
    BY <2>3
  <2>5. QED
    BY <2>1, <2>2, <2>4
<1>4. DOMAIN st = 1 .. k + m /\ st = [i \in DOMAIN st |-> st[i]]
  <2> HIDE DEF st
  <2>1. QED
    BY <1>2
<1>5. QED
  BY <1>3, <1>4 DEF FfSpan

FfFits(c, r, k, m, z, n) ==
  /\ c \in [0 .. Cap - 1 -> Int] /\ r \in Nat /\ k \in Nat /\ m \in Nat
  /\ z = r + k /\ n = k + m /\ r + n <= Cap

FfSplits(c, r, k, m, z, n) == FfSpan(c, r, k) \o FfSpan(c, z, m) = FfSpan(c, r, n)

LEMMA FfSpanSplit == \A c, r, k, m, z, n : FfFits(c, r, k, m, z, n) => FfSplits(c, r, k, m, z, n)
<1> SUFFICES ASSUME NEW c, NEW r, NEW k, NEW m, NEW z, NEW n, FfFits(c, r, k, m, z, n)
             PROVE  FfSplits(c, r, k, m, z, n)
  OBVIOUS
<1>1. /\ c \in [0 .. Cap - 1 -> Int] /\ r \in Nat /\ k \in Nat /\ m \in Nat
      /\ z = r + k /\ n = k + m /\ r + n <= Cap
  BY DEF FfFits
<1>2. r + k + m <= Cap
  BY <1>1, CapAssumption
<1>3. FfSpan(c, r, k) \o FfSpan(c, r + k, m) = FfSpan(c, r, k + m)
  BY <1>1, <1>2, FfSpanJoined
<1>4. QED
  BY <1>1, <1>3 DEF FfSplits

LEMMA FfAssociative ==
  ASSUME NEW a \in Seq(Int), NEW b \in Seq(Int), NEW c \in Seq(Int)
  PROVE  (a \o b) \o c = a \o (b \o c)
BY ConcatAssociative

LEMMA FfSpanEmpty == \A c, r : FfSpan(c, r, 0) = <<>>
BY DEF FfSpan

\* The ring's own words for a span that does not wrap.
LEMMA FfFront ==
  ASSUME r_ptr \in 0 .. Cap - 1, NEW n \in Nat, r_ptr + n <= Cap
  PROVE  Fifo!Front(n) = FfSpan(cell, r_ptr, n)
<1>1. ASSUME NEW i \in 1 .. n PROVE (r_ptr + i - 1) % Cap = r_ptr + i - 1
  BY CapAssumption
<1>2. QED
  BY <1>1 DEF Fifo!Front, FfSpan

LEMMA FfInside == \A u \in Users : u \in Fifo!Inside <=> FfIn(u)
BY DEF Fifo!Inside, FfIn

-----------------------------------------------------------------------------
\* Steps that leave the bytes alone.
LEMMA FfDataKept ==
  ASSUME FfData, UNCHANGED <<kind, buff, Fifo!store_vars, moved, written, taken>>,
         \A u \in Users : at_op'[u][2] = "copied" => at_op'[u] = at_op[u]
  PROVE  FfData'
<1>1. UNCHANGED <<cell, r_ptr, w_ptr, f_size>>
  BY DEF Fifo!store_vars
<1>2. FfPlace' /\ FfKept'
  BY <1>1 DEF FfData, FfPlace, FfKept
<1>3. \A u \in Users : FfMoved(u)'
  BY <1>1 DEF FfData, FfMoved
<1>4. QED
  BY <1>2, <1>3 DEF FfData

\* The lock: a process that comes in, goes out, or neither.
FfOthersStay(u) == \A v \in Users \ {u} : FfIn(v)' <=> FfIn(v)

LEMMA FfComesIn ==
  ASSUME FfLock, mutex \in Nat, NEW u \in Users, Fifo!Lock(u), FfClean', UNCHANGED kind,
         FfOthersStay(u), FfIn(u)'
  PROVE  FfLock' /\ mutex' \in Nat
<1>1. \A v \in Users \ {u} : ~FfIn(v)
  BY FfInside DEF Fifo!Lock, FfClean, Fifo!Because
<1>2. mutex > 0 /\ mutex' = mutex - 1
  BY DEF Fifo!Lock
<1>3. \A v \in Users : FfIn(v)' => v = u
  BY <1>1 DEF FfOthersStay
<1>4. kind = "fifo" => mutex = 1
  BY <1>2 DEF FfLock
<1>5. QED
  BY <1>2, <1>3, <1>4 DEF FfLock

LEMMA FfGoesOut ==
  ASSUME FfLock, mutex \in Nat, NEW u \in Users, mutex' = mutex + 1, UNCHANGED kind,
         FfOthersStay(u), FfIn(u), ~FfIn(u)'
  PROVE  FfLock' /\ mutex' \in Nat
<1>1. \A v \in Users : ~FfIn(v)'
  BY DEF FfLock, FfOthersStay
<1>2. kind = "fifo" => mutex = 0
  BY DEF FfLock
<1>3. QED
  BY <1>1, <1>2 DEF FfLock

LEMMA FfStays ==
  ASSUME FfLock, UNCHANGED <<kind, mutex>>, \A v \in Users : FfIn(v)' <=> FfIn(v)
  PROVE  FfLock'
BY DEF FfLock

\* One process moves on; nobody loses the reason to sleep.
LEMMA FfMoves ==
  ASSUME at_op \in [Users -> FfOp \X FfPc], NEW u \in Users, NEW x \in FfOp \X FfPc,
         at_op' = [at_op EXCEPT ![u] = x]
  PROVE  /\ at_op' \in [Users -> FfOp \X FfPc] /\ at_op'[u] = x
         /\ \A v \in Users \ {u} : at_op'[v] = at_op[v]
OBVIOUS

LEMMA FfRestKept ==
  ASSUME FfRest, NEW u \in Users, at_op[u][2] # "wake", FfGap(u)',
         \A op \in {"r", "w"} : FfSleep(u, op)',
         \A v \in Users \ {u} : at_op'[v] = at_op[v],
         UNCHANGED <<kind, f_size>>, spoilt \subseteq spoilt'
  PROVE  FfRest'
<1>1. ASSUME NEW op, FfWaker(op) PROVE FfWaker(op)'
  <2>1. PICK q \in Users : at_op[q] = <<Fifo!Other(op), "wake">>
    BY <1>1 DEF FfWaker
  <2>2. at_op'[q] = at_op[q]
    BY <2>1
  <2>3. QED
    BY <2>1, <2>2 DEF FfWaker, Fifo!Other
<1>2. \A op : Fifo!Blocked(op)' <=> Fifo!Blocked(op)
  BY DEF Fifo!Blocked
<1>3. \A op : FfExcused(op) => FfExcused(op)'
  BY DEF FfExcused
<1>4. ASSUME NEW v \in Users, v # u PROVE FfGap(v)' /\ \A op \in {"r", "w"} : FfSleep(v, op)'
  <2>1. at_op'[v] = at_op[v] /\ FfGap(v) /\ \A op \in {"r", "w"} : FfSleep(v, op)
    BY <1>4 DEF FfRest
  <2>2. FfGap(v)'
    BY <1>2, <2>1 DEF FfGap
  <2>3. ASSUME NEW op \in {"r", "w"} PROVE FfSleep(v, op)'
    BY <1>1, <1>2, <1>3, <2>1 DEF FfSleep
  <2>4. QED
    BY <2>2, <2>3
<1>5. QED
  BY <1>4 DEF FfRest

\* A step that moves one process and no byte.
FfAlone(u, x) ==
  /\ u \in Users /\ x \in FfOp \X FfPc /\ at_op' = [at_op EXCEPT ![u] = x]
  /\ UNCHANGED <<kind, buff, Fifo!store_vars, moved, written, taken>>
  /\ spoilt \subseteq spoilt'
  /\ at_op[u][2] # "wake" /\ x[2] # "copied"

LEMMA FfAloneKeeps ==
  ASSUME FfGood, NEW u, NEW x, FfAlone(u, x), FfLock', mutex' \in Nat, FfGap(u)',
         \A op \in {"r", "w"} : FfSleep(u, op)'
  PROVE  FfGood'
<1>1. UNCHANGED <<cell, r_ptr, w_ptr, f_size, kind, buff, moved, written, taken>>
  BY DEF FfAlone, Fifo!store_vars
<1>2. /\ at_op' \in [Users -> FfOp \X FfPc] /\ at_op'[u] = x
      /\ \A v \in Users \ {u} : at_op'[v] = at_op[v]
  <2>1. at_op \in [Users -> FfOp \X FfPc]
    BY DEF FfGood, FfTypeOK
  <2>2. QED
    BY <2>1, FfMoves DEF FfAlone
<1>3. FfTypeOK'
  BY <1>1, <1>2 DEF FfGood, FfTypeOK
<1>4. FfData'
  <2>1. \A v \in Users : at_op'[v][2] = "copied" => at_op'[v] = at_op[v]
    BY <1>2 DEF FfAlone
  <2>2. QED
    BY <2>1, FfDataKept DEF FfGood, FfAlone
<1>5. FfRest'
  BY <1>1, <1>2, FfRestKept DEF FfGood, FfAlone
<1>6. QED
  BY <1>3, <1>4, <1>5 DEF FfGood

LEMMA FfOpen ==
  ASSUME FfGood, FfClean', NEW u \in Users, Fifo!Open(u)
  PROVE  FfGood'
<1>1. UNCHANGED <<kind, at_op, moved, written, taken, cell, f_size>>
  BY DEF Fifo!Open, FfGood, FfData, FfPlace, Fifo!store_vars
<1>2. \A op : (Fifo!Blocked(op)' <=> Fifo!Blocked(op)) /\ (FfWaker(op) => FfWaker(op)')
  BY <1>1 DEF Fifo!Blocked, FfWaker, Fifo!Other
<1>3. spoilt \subseteq spoilt'
  BY DEF Fifo!Open, Fifo!Because
<1>4. FfRest'
  <2>1. \A v \in Users : FfGap(v)'
    BY <1>1, <1>2, <1>3 DEF FfGood, FfRest, FfGap
  <2>2. \A v \in Users, op \in {"r", "w"} : FfSleep(v, op)'
    BY <1>1, <1>2, <1>3 DEF FfGood, FfRest, FfSleep, FfExcused
  <2>3. QED
    BY <2>1, <2>2 DEF FfRest
<1>5. mutex' \in Nat
  <2>1. Fifo!ExtraUp => mutex' = mutex + 1 \/ mutex' = mutex + 0
    <3> DEFINE few == mutex + Cardinality(Fifo!Inside) < Cardinality(Users)
    <3>1. CASE few
      BY <3>1 DEF Fifo!ExtraUp, Fifo!Unlock
    <3>2. CASE ~few
      BY <3>2 DEF Fifo!ExtraUp, Fifo!Unlock
    <3>3. QED
      BY <3>1, <3>2
  <2>2. mutex' = mutex \/ Fifo!ExtraUp
    BY DEF Fifo!Open
  <2>3. QED
    BY <2>1, <2>2 DEF FfGood, FfTypeOK
<1>6. CASE buff' = buff /\ UNCHANGED <<mutex, r_ptr, w_ptr>>
  <2>1. FfTypeOK' /\ FfLock'
    BY <1>1, <1>6 DEF FfGood, FfTypeOK, FfLock, FfIn
  <2>2. FfData'
    <3>1. UNCHANGED Fifo!store_vars
      BY <1>1, <1>6 DEF Fifo!store_vars
    <3>2. QED
      BY <1>1, <1>6, <3>1, FfDataKept DEF FfGood
  <2>3. QED
    BY <1>4, <2>1, <2>2 DEF FfGood
<1>7. CASE /\ kind = "pipe" /\ ~buff /\ buff' /\ r_ptr' = 0 /\ w_ptr' = 0
           /\ Fifo!Inside = {}
  <2>1. \A v \in Users : ~FfIn(v) /\ ~FfIn(v)'
    BY <1>1, <1>7, FfInside DEF FfIn
  <2>2. f_size = 0
    BY <1>7 DEF FfGood, FfData, FfPlace
  <2>3. FfTypeOK'
    BY <1>1, <1>5, <1>7, CapAssumption DEF FfGood, FfTypeOK
  <2>4. FfLock'
    BY <1>1, <1>7, <2>1 DEF FfLock
  <2>5. FfPlace'
    BY <1>1, <1>7, <2>2, CapAssumption DEF FfPlace
  <2>6. FfKept'
    <3>1. taken \o FfSpan(cell, r_ptr, 0) = written
      BY <2>2 DEF FfGood, FfData, FfKept
    <3>2. FfSpan(cell, r_ptr, 0) = <<>> /\ FfSpan(cell', r_ptr', 0) = <<>>
      BY FfSpanEmpty
    <3>3. QED
      BY <1>1, <2>2, <3>1, <3>2 DEF FfKept
  <2>7. \A v \in Users : FfMoved(v)'
    BY <2>1 DEF FfMoved, FfIn
  <2>8. QED
    BY <1>4, <2>3, <2>4, <2>5, <2>6, <2>7 DEF FfGood, FfData
<1>8. QED
  <2>1. CASE kind = "fifo"
    BY <1>6, <2>1 DEF Fifo!Open, Fifo!store_vars
  <2>2. CASE kind # "fifo"
    <3>1. kind = "pipe" /\ Fifo!Inside = {}
      <4>1. Fifo!Because("two inside", Fifo!Inside # {}) \subseteq {"missed"}
        BY <2>2 DEF Fifo!Open, FfClean
      <4>2. Fifo!Inside = {}
        BY <4>1 DEF Fifo!Because
      <4>3. QED
        BY <2>2, <4>2 DEF FfGood, FfTypeOK
    <3>2. \/ buff' = buff /\ UNCHANGED <<mutex, r_ptr, w_ptr>>
          \/ ~buff /\ buff' /\ r_ptr' = 0 /\ w_ptr' = 0
      <4>1. \/ buff' = TRUE /\ IF buff THEN UNCHANGED <<mutex, Fifo!store_vars>>
                              ELSE r_ptr' = 0 /\ w_ptr' = 0
            \/ UNCHANGED <<buff, mutex, Fifo!store_vars>>
        BY <2>2 DEF Fifo!Open
      <4>2. buff \in BOOLEAN
        BY DEF FfGood, FfTypeOK
      <4>3. QED
        BY <4>1, <4>2 DEF Fifo!store_vars
    <3>3. QED
      BY <1>6, <1>7, <3>1, <3>2
  <2>3. QED
    BY <2>1, <2>2

LEMMA FfRelease ==
  ASSUME FfGood, FfClean', NEW u \in Users, Fifo!Release(u)
  PROVE  FfGood'
<1>1. UNCHANGED <<kind, at_op, moved, written, taken, cell, r_ptr, w_ptr, f_size, mutex>>
  BY DEF Fifo!Release, Fifo!store_vars
<1>2. \A op : (Fifo!Blocked(op)' <=> Fifo!Blocked(op)) /\ (FfWaker(op) => FfWaker(op)')
  BY <1>1 DEF Fifo!Blocked, FfWaker, Fifo!Other
<1>3. spoilt \subseteq spoilt'
  BY DEF Fifo!Release, Fifo!Because
<1>4. FfRest'
  <2>1. \A v \in Users : FfGap(v)'
    BY <1>1, <1>2, <1>3 DEF FfGood, FfRest, FfGap
  <2>2. \A v \in Users, op \in {"r", "w"} : FfSleep(v, op)'
    BY <1>1, <1>2, <1>3 DEF FfGood, FfRest, FfSleep, FfExcused
  <2>3. QED
    BY <2>1, <2>2 DEF FfRest
<1>5. FfTypeOK' /\ FfLock'
  <2>1. buff' = buff \/ buff' \in BOOLEAN
    BY DEF Fifo!Release
  <2>2. QED
    BY <1>1, <2>1 DEF FfGood, FfTypeOK, FfLock, FfIn
<1>6. FfPlace'
  <2>1. (kind = "fifo" => buff' = buff) /\ (~buff' => ~buff \/ f_size = 0)
    BY DEF Fifo!Release
  <2>2. QED
    BY <1>1, <2>1 DEF FfGood, FfData, FfPlace
<1>7. FfKept' /\ \A v \in Users : FfMoved(v)'
  <2>1. buff' = buff \/ \A v \in Users : ~FfIn(v)
    <3>1. CASE kind = "fifo"
      BY <3>1 DEF Fifo!Release
    <3>2. CASE kind # "fifo"
      <4>1. Fifo!Because("two inside", Fifo!Inside # {}) \subseteq {"missed"}
        BY <3>2 DEF Fifo!Release, FfClean
      <4>2. Fifo!Inside = {}
        BY <4>1 DEF Fifo!Because
      <4>3. QED
        BY <4>2, FfInside
    <3>3. QED
      BY <3>1, <3>2
  <2>2. QED
    BY <1>1, <2>1 DEF FfGood, FfData, FfKept, FfMoved, FfIn
<1>8. QED
  BY <1>4, <1>5, <1>6, <1>7 DEF FfGood, FfData

\* Steps of a process that is in the driver, and copies nothing.
LEMMA FfEnters ==
  ASSUME FfGood, FfClean', NEW u \in Users, Fifo!Lock(u), NEW op \in {"r", "w"},
         at_op[u][2] \in {"idle", "relock"}, at_op' = [at_op EXCEPT ![u] = <<op, "in">>],
         UNCHANGED <<kind, buff, Fifo!store_vars, moved, written, taken>>
  PROVE  FfGood'
<1> DEFINE x == <<op, "in">>
<1>1. x \in FfOp \X FfPc /\ x[2] = "in"
  BY DEF FfOp, FfPc
<1>2. spoilt \subseteq spoilt'
  BY DEF Fifo!Lock
<1>3. FfAlone(u, x)
  BY <1>1, <1>2 DEF FfAlone
<1>4. at_op'[u] = x /\ \A v \in Users \ {u} : at_op'[v] = at_op[v]
  BY <1>1, FfMoves DEF FfGood, FfTypeOK
<1>5. FfLock' /\ mutex' \in Nat
  <2>1. FfOthersStay(u) /\ FfIn(u)'
    BY <1>1, <1>4 DEF FfOthersStay, FfIn
  <2>2. QED
    BY <2>1, FfComesIn DEF FfGood, FfTypeOK
<1>6. FfGap(u)' /\ \A o \in {"r", "w"} : FfSleep(u, o)'
  BY <1>1, <1>4 DEF FfGap, FfSleep
<1>7. QED
  BY <1>3, <1>5, <1>6, FfAloneKeeps

LEMMA FfLeaves ==
  ASSUME FfGood, NEW u \in Users, NEW x \in FfOp \X FfPc,
         FfIn(u), Fifo!Unlock(1), at_op' = [at_op EXCEPT ![u] = x],
         x[2] \notin {"in", "copied"}, FfGap(u)', \A o \in {"r", "w"} : FfSleep(u, o)',
         UNCHANGED <<kind, buff, Fifo!store_vars, moved, written, taken, spoilt>>
  PROVE  FfGood'
<1>1. FfAlone(u, x)
  BY DEF FfAlone, FfIn
<1>2. at_op'[u] = x /\ \A v \in Users \ {u} : at_op'[v] = at_op[v]
  BY FfMoves DEF FfGood, FfTypeOK
<1>3. FfLock' /\ mutex' \in Nat
  <2>1. FfOthersStay(u) /\ ~FfIn(u)'
    BY <1>2 DEF FfOthersStay, FfIn
  <2>2. QED
    BY <2>1, FfGoesOut DEF FfGood, FfTypeOK, Fifo!Unlock
<1>4. QED
  BY <1>1, <1>3, FfAloneKeeps

LEMMA FfOutside ==
  ASSUME FfGood, NEW u \in Users, NEW x \in FfOp \X FfPc,
         ~FfIn(u), at_op[u][2] # "wake", at_op' = [at_op EXCEPT ![u] = x],
         x[2] \notin {"in", "copied"}, FfGap(u)', \A o \in {"r", "w"} : FfSleep(u, o)',
         UNCHANGED <<kind, buff, mutex, Fifo!store_vars, moved, written, taken, spoilt>>
  PROVE  FfGood'
<1>1. FfAlone(u, x)
  BY DEF FfAlone
<1>2. at_op'[u] = x /\ \A v \in Users \ {u} : at_op'[v] = at_op[v]
  BY FfMoves DEF FfGood, FfTypeOK
<1>3. FfLock' /\ mutex' \in Nat
  <2>1. \A v \in Users : FfIn(v)' <=> FfIn(v)
    BY <1>2 DEF FfIn
  <2>2. QED
    BY <2>1, FfStays DEF FfGood, FfTypeOK
<1>4. QED
  BY <1>1, <1>3, FfAloneKeeps

LEMMA FfIdle ==
  ASSUME FfGood, NEW u \in Users, NEW x \in FfOp \X FfPc, at_op' = [at_op EXCEPT ![u] = x],
         x[2] \notin {"asleep", "unlocked"}
  PROVE  FfGap(u)' /\ \A o \in {"r", "w"} : FfSleep(u, o)'
<1>1. at_op'[u] = x
  BY DEF FfGood, FfTypeOK
<1>2. QED
  BY <1>1 DEF FfGap, FfSleep

LEMMA FfStart ==
  ASSUME FfGood, FfClean', NEW u \in Users, NEW op \in {"r", "w"},
         Fifo!Start(u, op) \/ Fifo!Relock(u, op)
  PROVE  FfGood'
<1>1. /\ Fifo!Lock(u) /\ at_op[u][2] \in {"idle", "relock"}
      /\ at_op' = [at_op EXCEPT ![u] = <<op, "in">>]
      /\ UNCHANGED <<kind, buff, Fifo!store_vars, moved, written, taken>>
  BY DEF Fifo!Start, Fifo!Relock, Fifo!Step, Fifo!Idle
<1>2. QED
  BY <1>1, FfEnters

LEMMA FfGivesUp ==
  ASSUME FfGood, NEW u \in Users, NEW op \in {"r", "w"},
         Fifo!NonBlock(u, op) \/ Fifo!Fault(u, op)
  PROVE  FfGood'
<1> DEFINE x == <<"-", "idle">>
<1>1. /\ FfIn(u) /\ Fifo!Unlock(1) /\ at_op' = [at_op EXCEPT ![u] = x]
      /\ UNCHANGED <<kind, buff, Fifo!store_vars, moved, written, taken, spoilt>>
  BY DEF Fifo!NonBlock, Fifo!Fault, Fifo!Leave, Fifo!Idle, FfIn
<1>2. x \in FfOp \X FfPc /\ x[2] = "idle"
  BY DEF FfOp, FfPc
<1>3. FfGap(u)' /\ \A o \in {"r", "w"} : FfSleep(u, o)'
  <2> HIDE DEF x
  <2>1. QED
    BY <1>1, <1>2, FfIdle
<1>4. QED
  <2> HIDE DEF x
  <2>1. QED
    BY <1>1, <1>2, <1>3, FfLeaves

LEMMA FfSleeps ==
  ASSUME FfGood, NEW u \in Users, NEW op \in {"r", "w"}, Fifo!Sleep(u, op)
  PROVE  FfGood'
<1> DEFINE x == <<op, IF kind = "pipe" THEN "event" ELSE IF op = "r" THEN "unlocked" ELSE "asleep">>
<1>1. /\ FfIn(u) /\ Fifo!Unlock(1) /\ at_op' = [at_op EXCEPT ![u] = x] /\ Fifo!Blocked(op)
      /\ UNCHANGED <<kind, buff, Fifo!store_vars, moved, written, taken, spoilt>>
  BY DEF Fifo!Sleep, Fifo!Step, FfIn
<1>2. /\ x \in FfOp \X FfPc /\ x[1] = op /\ x[2] \in {"event", "unlocked", "asleep"}
      /\ x[2] = "unlocked" => kind = "fifo" /\ op = "r"
  BY DEF FfOp, FfPc, FfGood, FfTypeOK
<1>3. Fifo!Blocked(op)' /\ kind' = kind
  BY <1>1 DEF Fifo!Blocked, Fifo!store_vars
<1>4. at_op'[u] = x
  BY <1>1 DEF FfGood, FfTypeOK
<1>5. FfGap(u)' /\ \A o \in {"r", "w"} : FfSleep(u, o)'
  <2> HIDE DEF x
  <2>1. FfGap(u)'
    BY <1>2, <1>3, <1>4 DEF FfGap
  <2>2. ASSUME NEW o \in {"r", "w"} PROVE FfSleep(u, o)'
    <3>1. x = <<o, "asleep">> => o = op
      BY <1>2
    <3>2. QED
      BY <1>3, <1>4, <3>1 DEF FfSleep
  <2>3. QED
    BY <2>1, <2>2
<1>6. QED
  <2> HIDE DEF x
  <2>1. QED
    BY <1>1, <1>2, <1>5, FfLeaves

LEMMA FfSetState ==
  ASSUME FfGood, NEW u \in Users, NEW op \in {"r", "w"}, Fifo!SetState(u, op)
  PROVE  FfGood'
<1> DEFINE x == <<op, "asleep">>
<1>1. /\ at_op[u] = <<op, "unlocked">> /\ at_op' = [at_op EXCEPT ![u] = x]
      /\ UNCHANGED <<kind, buff, mutex, Fifo!store_vars, moved, written, taken, spoilt>>
  BY DEF Fifo!SetState, Fifo!Step
<1>2. x \in FfOp \X FfPc /\ x[2] = "asleep" /\ x[1] = op
  BY DEF FfOp, FfPc
<1>3. kind = "fifo" /\ op = "r" /\ (spoilt = {} => Fifo!Blocked("r"))
  BY <1>1 DEF FfGood, FfRest, FfGap
<1>4. at_op'[u] = x
  BY <1>1, <1>2 DEF FfGood, FfTypeOK
<1>5. FfGap(u)' /\ \A o \in {"r", "w"} : FfSleep(u, o)'
  <2>1. FfGap(u)'
    BY <1>4 DEF FfGap
  <2>2. ASSUME NEW o \in {"r", "w"} PROVE FfSleep(u, o)'
    <3>1. CASE o = "r"
      <4>1. Fifo!Blocked("r")' \/ FfExcused("r")'
        BY <1>1, <1>3 DEF Fifo!Blocked, Fifo!store_vars, FfExcused
      <4>2. QED
        BY <3>1, <4>1 DEF FfSleep
    <3>2. CASE o # "r"
      BY <1>3, <1>4, <3>2 DEF FfSleep
    <3>3. QED
      BY <3>1, <3>2
  <2>3. QED
    BY <2>1, <2>2
<1>6. ~FfIn(u) /\ at_op[u][2] # "wake"
  BY <1>1 DEF FfIn
<1>7. QED
  <2> HIDE DEF x
  <2>1. QED
    BY <1>1, <1>2, <1>5, <1>6, FfOutside

LEMMA FfEvent ==
  ASSUME FfGood, NEW u \in Users, NEW op \in {"r", "w"}, Fifo!Event(u, op)
  PROVE  FfGood'
<1> DEFINE x == <<op, IF Fifo!Blocked(op) THEN "asleep" ELSE "relock">>
<1>1. /\ at_op[u] = <<op, "event">> /\ at_op' = [at_op EXCEPT ![u] = x]
      /\ UNCHANGED <<kind, buff, mutex, Fifo!store_vars, moved, written, taken, spoilt>>
  BY DEF Fifo!Event, Fifo!Step
<1>2. /\ x \in FfOp \X FfPc /\ x[1] = op /\ x[2] \in {"asleep", "relock"}
      /\ x[2] = "asleep" => Fifo!Blocked(op)
  BY DEF FfOp, FfPc
<1>3. at_op'[u] = x
  BY <1>1, <1>2 DEF FfGood, FfTypeOK
<1>4. FfGap(u)' /\ \A o \in {"r", "w"} : FfSleep(u, o)'
  <2> HIDE DEF x
  <2>1. FfGap(u)'
    BY <1>2, <1>3 DEF FfGap
  <2>2. ASSUME NEW o \in {"r", "w"} PROVE FfSleep(u, o)'
    <3>1. x = <<o, "asleep">> => o = op /\ Fifo!Blocked(op)
      BY <1>2
    <3>2. Fifo!Blocked(op)' <=> Fifo!Blocked(op)
      BY <1>1 DEF Fifo!Blocked, Fifo!store_vars
    <3>3. QED
      BY <1>3, <3>1, <3>2 DEF FfSleep
  <2>3. QED
    BY <2>1, <2>2
<1>5. ~FfIn(u) /\ at_op[u][2] # "wake"
  BY <1>1 DEF FfIn
<1>6. QED
  <2> HIDE DEF x
  <2>1. QED
    BY <1>1, <1>2, <1>4, <1>5, FfOutside

LEMMA FfSignal ==
  ASSUME FfGood, NEW u \in Users, NEW op \in {"r", "w"}, Fifo!Signal(u, op)
  PROVE  FfGood'
<1> DEFINE x == <<"-", "idle">>
<1>1. /\ at_op[u] = <<op, "asleep">> /\ at_op' = [at_op EXCEPT ![u] = x]
      /\ UNCHANGED <<kind, buff, mutex, Fifo!store_vars, moved, written, taken, spoilt>>
  BY DEF Fifo!Signal, Fifo!Leave, Fifo!Idle
<1>2. x \in FfOp \X FfPc /\ x[2] = "idle"
  BY DEF FfOp, FfPc
<1>3. ~FfIn(u) /\ at_op[u][2] # "wake"
  BY <1>1 DEF FfIn
<1>4. QED
  <2> HIDE DEF x
  <2>1. QED
    BY <1>1, <1>2, <1>3, FfIdle, FfOutside

-----------------------------------------------------------------------------
\* Steps of the one inside, and of the one that wakes.
LEMMA FfOnly ==
  ASSUME FfGood, NEW u \in Users, FfIn(u), NEW v \in Users, v # u
  PROVE  ~FfIn(v) /\ at_op[v][2] # "copied"
BY DEF FfGood, FfLock, FfIn

LEMMA FfCopyOut ==
  ASSUME FfGood, FfClean', NEW u \in Users, Fifo!CopyOut(u)
  PROVE  FfGood'
<1> DEFINE x == <<"r", "copied">>
<1>1. /\ at_op[u] = <<"r", "in">> /\ at_op' = [at_op EXCEPT ![u] = x]
      /\ UNCHANGED <<kind, buff, mutex, Fifo!store_vars, written, taken>>
      /\ spoilt \subseteq spoilt' /\ buff
  BY DEF Fifo!CopyOut, Fifo!Step, Fifo!Because, FfClean
<1>2. x \in FfOp \X FfPc /\ x[1] = "r" /\ x[2] = "copied"
  BY DEF FfOp, FfPc
<1>3. at_op'[u] = x /\ at_op' \in [Users -> FfOp \X FfPc]
      /\ \A v \in Users \ {u} : at_op'[v] = at_op[v]
  <2> HIDE DEF x
  <2>1. QED
    BY <1>1, <1>2, FfMoves DEF FfGood, FfTypeOK
<1> HIDE DEF x
<1>4. PICK n \in 1 .. f_size : moved' = [moved EXCEPT ![u] = Fifo!Front(n)]
  BY DEF Fifo!CopyOut
<1>5. UNCHANGED <<cell, r_ptr, w_ptr, f_size>>
  BY <1>1 DEF Fifo!store_vars
<1>6. /\ f_size \in Nat /\ r_ptr \in 0 .. Cap - 1 /\ r_ptr + f_size <= Cap
      /\ cell \in [0 .. Cap - 1 -> Int] /\ moved \in [Users -> Seq(Int)]
  BY DEF FfGood, FfTypeOK, FfData, FfPlace
<1>7. n \in Nat /\ n >= 1 /\ n <= f_size /\ r_ptr + n <= Cap /\ r_ptr \in Nat
  BY <1>6, CapAssumption
<1>8. /\ Fifo!Front(n) = FfSpan(cell, r_ptr, n)
      /\ FfSpan(cell, r_ptr, n) \in Seq(Int) /\ Len(FfSpan(cell, r_ptr, n)) = n
  BY <1>6, <1>7, FfFront, FfSpanSeq
<1>9. moved'[u] = FfSpan(cell, r_ptr, n) /\ moved' \in [Users -> Seq(Int)]
  BY <1>4, <1>6, <1>8
<1>10. FfTypeOK'
  BY <1>1, <1>3, <1>5, <1>9 DEF FfGood, FfTypeOK
<1>11. FfIn(u) /\ FfIn(u)'
  BY <1>1, <1>2, <1>3 DEF FfIn
<1>12. FfLock'
  <2>1. \A v \in Users : FfIn(v)' <=> FfIn(v)
    BY <1>3, <1>11 DEF FfIn
  <2>2. QED
    BY <1>1, <2>1, FfStays DEF FfGood
<1>13. FfData'
  <2>1. FfPlace' /\ FfKept'
    BY <1>1, <1>5 DEF FfGood, FfData, FfPlace, FfKept
  <2>2. FfMoved(u)'
    BY <1>1, <1>2, <1>3, <1>5, <1>7, <1>8, <1>9 DEF FfMoved
  <2>3. ASSUME NEW v \in Users, v # u PROVE FfMoved(v)'
    BY <1>3, <1>11, <2>3, FfOnly DEF FfMoved
  <2>4. QED
    BY <2>1, <2>2, <2>3 DEF FfData
<1>14. FfRest'
  <2>1. FfGap(u)' /\ \A o \in {"r", "w"} : FfSleep(u, o)'
    BY <1>1, <1>2, FfIdle
  <2>2. at_op[u][2] # "wake"
    BY <1>1
  <2>3. QED
    BY <1>1, <1>3, <1>5, <2>1, <2>2, FfRestKept DEF FfGood
<1>15. QED
  BY <1>10, <1>12, <1>13, <1>14 DEF FfGood

\* Where the write puts its bytes: behind the last one, while nothing is spoilt.
LEMMA FfCopyIn ==
  ASSUME FfGood, FfClean', NEW u \in Users, Fifo!CopyIn(u)
  PROVE  FfGood'
<1> DEFINE x == <<"w", "copied">>
<1>1. /\ at_op[u] = <<"w", "in">> /\ at_op' = [at_op EXCEPT ![u] = x]
      /\ UNCHANGED <<kind, buff, mutex, r_ptr, w_ptr, f_size, written, taken>>
      /\ spoilt \subseteq spoilt' /\ buff
  <2>1. /\ UNCHANGED <<kind, buff, mutex, r_ptr, w_ptr, f_size, written, taken>>
        /\ spoilt \subseteq spoilt' /\ Fifo!Because("freed", ~buff) \subseteq {"missed"}
    BY DEF Fifo!CopyIn, FfClean
  <2>2. buff
    BY <2>1 DEF Fifo!Because
  <2>3. QED
    BY <2>1, <2>2 DEF Fifo!CopyIn, Fifo!Step
<1>2. x \in FfOp \X FfPc /\ x[1] = "w" /\ x[2] = "copied"
  BY DEF FfOp, FfPc
<1>3. at_op'[u] = x /\ at_op' \in [Users -> FfOp \X FfPc]
      /\ \A v \in Users \ {u} : at_op'[v] = at_op[v]
  <2> HIDE DEF x
  <2>1. QED
    BY <1>1, <1>2, FfMoves DEF FfGood, FfTypeOK
<1> HIDE DEF x
<1> DEFINE from == IF kind = "pipe" THEN w_ptr ELSE f_size
           new(n) == [i \in 1 .. n |-> Len(written) + i]
<1>4. PICK n \in 1 .. Cap - f_size :
        /\ moved' = [moved EXCEPT ![u] = new(n)]
        /\ cell' = [c \in 0 .. Cap - 1 |-> IF c \in from .. from + n - 1
                                           THEN new(n)[c - from + 1] ELSE cell[c]]
        /\ spoilt' = spoilt \cup Fifo!Because("freed", ~buff)
                            \cup Fifo!Because("past the end", from + n > Cap)
  BY DEF Fifo!CopyIn
<1>5. /\ f_size \in Nat /\ r_ptr \in 0 .. Cap - 1 /\ r_ptr + f_size <= Cap /\ w_ptr \in Nat
      /\ cell \in [0 .. Cap - 1 -> Int] /\ moved \in [Users -> Seq(Int)]
      /\ written \in Seq(Int)
  BY DEF FfGood, FfTypeOK, FfData, FfPlace
<1>6. n \in Nat /\ n >= 1 /\ f_size + n <= Cap /\ r_ptr \in Nat
  BY <1>5, CapAssumption
<1>7. ~(from + n > Cap)
  <2>1. Fifo!Because("past the end", from + n > Cap) \subseteq {"missed"}
    BY <1>4 DEF FfClean
  <2>2. QED
    BY <2>1 DEF Fifo!Because
<1>8. from = r_ptr + f_size /\ (kind = "pipe" => w_ptr = from)
  <2>1. CASE kind = "pipe"
    <3>1. w_ptr + n <= Cap
      BY <1>5, <1>6, <1>7, <2>1, CapAssumption
    <3>2. w_ptr # Cap
      BY <1>5, <1>6, <3>1, CapAssumption
    <3>3. QED
      BY <2>1, <3>2 DEF FfGood, FfData, FfPlace
  <2>2. CASE kind # "pipe"
    <3>1. r_ptr = 0
      BY <2>2 DEF FfGood, FfTypeOK, FfData, FfPlace
    <3>2. QED
      BY <1>5, <2>2, <3>1
  <2>3. QED
    BY <2>1, <2>2
<1> HIDE DEF from
<1>9. from \in Nat /\ from + n <= Cap /\ r_ptr + f_size + n <= Cap
  BY <1>5, <1>6, <1>7, <1>8, CapAssumption
<1>10. /\ \A i \in 1 .. n : new(n)[i] = Len(written) + i
       /\ new(n) \in Seq(Int) /\ Len(new(n)) = n
  <2>1. Len(written) \in Nat
    BY <1>5
  <2>2. new(n) \in [1 .. n -> Int]
    BY <2>1
  <2>3. QED
    BY <1>6, <2>2
<1> HIDE DEF new
<1>11. cell' \in [0 .. Cap - 1 -> Int]
  <2>1. ASSUME NEW c \in 0 .. Cap - 1, c \in from .. from + n - 1
        PROVE  new(n)[c - from + 1] \in Int
    <3>1. c - from + 1 \in 1 .. n
      BY <1>6, <1>9, <2>1
    <3>2. QED
      BY <1>10, <3>1, ElementOfSeq
  <2>2. \A c \in 0 .. Cap - 1 : (IF c \in from .. from + n - 1 THEN new(n)[c - from + 1] ELSE cell[c]) \in Int
    BY <1>5, <2>1
  <2>3. QED
    BY <1>4, <2>2
<1>12. moved'[u] = new(n) /\ moved' \in [Users -> Seq(Int)]
  BY <1>4, <1>5, <1>10
<1>13. FfSpan(cell', r_ptr, f_size) = FfSpan(cell, r_ptr, f_size)
  <2>1. ASSUME NEW i \in 1 .. f_size PROVE cell'[r_ptr + i - 1] = cell[r_ptr + i - 1]
    <3>1. r_ptr + i - 1 \in 0 .. Cap - 1 /\ r_ptr + i - 1 \notin from .. from + n - 1
      BY <1>5, <1>6, <1>8, <1>9, CapAssumption
    <3>2. QED
      BY <1>4, <3>1
  <2>2. QED
    BY <2>1 DEF FfSpan
<1>14. FfSpan(cell', from, n) = new(n)
  <2>1. ASSUME NEW i \in 1 .. n PROVE cell'[from + i - 1] = new(n)[i]
    <3> DEFINE j == from + i - 1
    <3>1. j \in 0 .. Cap - 1 /\ j \in from .. from + n - 1 /\ j - from + 1 = i
      BY <1>6, <1>9, CapAssumption
    <3> HIDE DEF j
    <3>2. cell'[j] = new(n)[j - from + 1]
      BY <1>4, <3>1
    <3>3. QED
      BY <3>1, <3>2 DEF j
  <2>2. DOMAIN new(n) = 1 .. n /\ new(n) = [i \in DOMAIN new(n) |-> new(n)[i]]
    BY <1>10
  <2>3. QED
    BY <2>1, <2>2 DEF FfSpan
<1>15. FfTypeOK'
  BY <1>1, <1>3, <1>11, <1>12 DEF FfGood, FfTypeOK
<1>16. FfIn(u) /\ FfIn(u)'
  BY <1>1, <1>2, <1>3 DEF FfIn
<1>17. FfLock'
  <2>1. \A v \in Users : FfIn(v)' <=> FfIn(v)
    BY <1>3, <1>16 DEF FfIn
  <2>2. QED
    BY <1>1, <2>1, FfStays DEF FfGood
<1>18. FfData'
  <2>1. FfPlace' /\ FfKept'
    BY <1>1, <1>13 DEF FfGood, FfData, FfPlace, FfKept
  <2>2. FfMoved(u)'
    <3>1. moved'[u] = FfSpan(cell', r_ptr + f_size, n) /\ Len(moved'[u]) = n
      BY <1>8, <1>10, <1>12, <1>14
    <3>2. QED
      BY <1>1, <1>2, <1>3, <1>6, <1>8, <1>9, <3>1 DEF FfMoved
  <2>3. ASSUME NEW v \in Users, v # u PROVE FfMoved(v)'
    BY <1>3, <1>16, <2>3, FfOnly DEF FfMoved
  <2>4. QED
    BY <2>1, <2>2, <2>3 DEF FfData
<1>19. FfRest'
  <2>1. FfGap(u)' /\ \A o \in {"r", "w"} : FfSleep(u, o)'
    BY <1>1, <1>2, FfIdle
  <2>2. at_op[u][2] # "wake"
    BY <1>1
  <2>3. QED
    BY <1>1, <1>3, <2>1, <2>2, FfRestKept DEF FfGood
<1>20. QED
  BY <1>15, <1>17, <1>18, <1>19 DEF FfGood

\* Who sleeps after a wake-up, and who is left to wake.
LEMMA FfWakened ==
  ASSUME NEW ats, NEW op \in {"r", "w"}, NEW v \in Users
  PROVE  /\ ats[v] # <<op, "asleep">> => Fifo!Wakened(ats, op)[v] = ats[v]
         /\ ats[v] = <<op, "asleep">> =>
              Fifo!Wakened(ats, op)[v] = <<op, IF kind = "fifo" THEN "relock" ELSE "event">>
         /\ Fifo!Wakened(ats, op)[v] # <<op, "asleep">>
BY DEF Fifo!Wakened

LEMMA FfWakenedType ==
  ASSUME NEW ats \in [Users -> FfOp \X FfPc], NEW op \in {"r", "w"}
  PROVE  Fifo!Wakened(ats, op) \in [Users -> FfOp \X FfPc]
<1>1. \A v \in Users :
        (IF ats[v] # <<op, "asleep">> THEN ats[v]
         ELSE <<op, IF kind = "fifo" THEN "relock" ELSE "event">>) \in FfOp \X FfPc
  BY DEF FfOp, FfPc
<1>2. QED
  BY <1>1 DEF Fifo!Wakened

\* After u has left op's work: nobody sleeps at the other end but on the way to a
\* wake-up, and a sleeper at u's own end has not found less to do than before.
LEMMA FfRestAfter ==
  ASSUME FfRest, NEW u \in Users, NEW op \in {"r", "w"}, at_op[u][1] = op,
         UNCHANGED kind, spoilt \subseteq spoilt',
         \A v \in Users \ {u} :
            at_op'[v] = at_op[v] \/ (at_op[v][2] = "asleep" /\ at_op'[v][2] \in {"relock", "event"}),
         at_op'[u][2] \in {"idle", "wake"},
         \A v \in Users : at_op'[v] = <<Fifo!Other(op), "asleep">> => FfWaker(Fifo!Other(op))',
         Fifo!Blocked(op) => Fifo!Blocked(op)',
         \A v \in Users : at_op[v][2] = "unlocked" =>
            (spoilt' = {} => spoilt = {} /\ (Fifo!Blocked("r") => Fifo!Blocked("r")'))
  PROVE  FfRest'
<1>1. Fifo!Other(op) \in {"r", "w"} /\ Fifo!Other(op) # op
      /\ \A o \in {"r", "w"} : o = op \/ o = Fifo!Other(op)
  BY DEF Fifo!Other
<1>2. ASSUME NEW v \in Users PROVE FfGap(v)'
  <2>1. CASE at_op'[v][2] = "unlocked"
    <3>1. v # u /\ at_op'[v] = at_op[v]
      BY <2>1
    <3>2. QED
      BY <2>1, <3>1 DEF FfRest, FfGap
  <2>2. QED
    BY <2>1 DEF FfGap
<1>3. ASSUME NEW v \in Users, at_op'[v] = <<op, "asleep">>
      PROVE  Fifo!Blocked(op)' \/ FfWaker(op)' \/ FfExcused(op)'
  <2>1. v # u /\ at_op[v] = <<op, "asleep">>
    BY <1>3
  <2>2. Fifo!Blocked(op) \/ FfWaker(op) \/ FfExcused(op)
    BY <2>1 DEF FfRest, FfSleep
  <2>3. ASSUME FfWaker(op) PROVE FfWaker(op)'
    <3>1. PICK q \in Users : at_op[q] = <<Fifo!Other(op), "wake">>
      BY <2>3 DEF FfWaker
    <3>2. q # u
      BY <1>1, <3>1
    <3>3. at_op'[q] = at_op[q]
      BY <3>1, <3>2
    <3>4. QED
      BY <3>1, <3>3 DEF FfWaker, Fifo!Other
  <2>4. FfExcused(op) => FfExcused(op)'
    BY DEF FfExcused
  <2>5. QED
    BY <2>2, <2>3, <2>4
<1>4. ASSUME NEW v \in Users, NEW o \in {"r", "w"} PROVE FfSleep(v, o)'
  <2>1. CASE o = op
    BY <1>3, <2>1 DEF FfSleep
  <2>2. CASE o = Fifo!Other(op)
    BY <2>2 DEF FfSleep
  <2>3. QED
    BY <1>1, <2>1, <2>2
<1>5. QED
  BY <1>2, <1>4 DEF FfRest

LEMMA FfWake ==
  ASSUME FfGood, NEW u \in Users, NEW op \in {"r", "w"}, Fifo!Wake(u, op)
  PROVE  FfGood'
<1> DEFINE x == <<"-", "idle">>
           o == Fifo!Other(op)
           mid == [at_op EXCEPT ![u] = x]
<1>1. /\ at_op[u] = <<op, "wake">> /\ at_op' = Fifo!Wakened(mid, o)
      /\ UNCHANGED <<kind, buff, mutex, Fifo!store_vars, moved, written, taken, spoilt>>
  BY DEF Fifo!Wake, Fifo!Idle
<1>2. x \in FfOp \X FfPc /\ x[2] = "idle" /\ o \in {"r", "w"}
  BY DEF FfOp, FfPc, Fifo!Other
<1> HIDE DEF x
<1>3. mid \in [Users -> FfOp \X FfPc] /\ mid[u] = x /\ \A v \in Users \ {u} : mid[v] = at_op[v]
  BY <1>2 DEF FfGood, FfTypeOK
<1> HIDE DEF mid, o
<1>4. at_op' \in [Users -> FfOp \X FfPc]
  BY <1>1, <1>2, <1>3, FfWakenedType
<1>5. /\ at_op'[u] = x
      /\ \A v \in Users \ {u} :
            at_op'[v] = at_op[v] \/ (at_op[v][2] = "asleep" /\ at_op'[v][2] \in {"relock", "event"})
      /\ \A v \in Users : at_op'[v] # <<o, "asleep">>
  BY <1>1, <1>2, <1>3, FfWakened
<1>6. UNCHANGED <<cell, r_ptr, w_ptr, f_size>>
  BY <1>1 DEF Fifo!store_vars
<1>7. FfTypeOK'
  BY <1>1, <1>4, <1>6 DEF FfGood, FfTypeOK
<1>8. \A v \in Users : FfIn(v)' <=> FfIn(v)
  BY <1>1, <1>2, <1>5 DEF FfIn
<1>9. FfLock'
  BY <1>1, <1>8, FfStays DEF FfGood
<1>10. FfData'
  <2>1. \A v \in Users : at_op'[v][2] = "copied" => at_op'[v] = at_op[v]
    BY <1>2, <1>5
  <2>2. QED
    BY <1>1, <2>1, FfDataKept DEF FfGood
<1>11. FfRest'
  <2>1. \A p : Fifo!Blocked(p) => Fifo!Blocked(p)'
    BY <1>6 DEF Fifo!Blocked
  <2>2. at_op[u][1] = op /\ at_op'[u][2] \in {"idle", "wake"}
    BY <1>1, <1>2, <1>5
  <2>3. FfRest /\ kind' = kind /\ spoilt' = spoilt
    BY <1>1 DEF FfGood
  <2>4. \A v \in Users : at_op'[v] # <<Fifo!Other(op), "asleep">>
    BY <1>5 DEF o
  <2>5. QED
    BY <1>5, <2>1, <2>2, <2>3, <2>4, FfRestAfter
<1>12. QED
  BY <1>7, <1>9, <1>10, <1>11 DEF FfGood

\* What Done does to where the processes are.
LEMMA FfDoneAt ==
  ASSUME FfGood, NEW u \in Users, NEW op \in {"r", "w"}, Fifo!Done(u, op)
  PROVE  /\ at_op' \in [Users -> FfOp \X FfPc]
         /\ at_op'[u][2] \in {"idle", "wake"}
         /\ \A v \in Users \ {u} :
              at_op'[v] = at_op[v] \/ (at_op[v][2] = "asleep" /\ at_op'[v][2] \in {"relock", "event"})
         /\ \A v \in Users : at_op'[v] = <<Fifo!Other(op), "asleep">> => FfWaker(Fifo!Other(op))'
<1> DEFINE x == IF kind = "fifo" THEN <<"-", "idle">> ELSE <<op, "wake">>
           o == Fifo!Other(op)
           mid == [at_op EXCEPT ![u] = x]
<1>1. at_op' = IF kind = "fifo" THEN Fifo!Wakened(mid, o) ELSE mid
  BY DEF Fifo!Done, Fifo!Idle
<1>2. /\ x \in FfOp \X FfPc /\ x[2] \in {"idle", "wake"} /\ o \in {"r", "w"}
      /\ kind # "fifo" => x = <<op, "wake">>
  BY DEF FfOp, FfPc, Fifo!Other
<1> HIDE DEF x
<1>3. mid \in [Users -> FfOp \X FfPc] /\ mid[u] = x /\ \A v \in Users \ {u} : mid[v] = at_op[v]
  BY <1>2 DEF FfGood, FfTypeOK
<1> HIDE DEF mid, o
<1>4. CASE kind = "fifo"
  <2>1. at_op' = Fifo!Wakened(mid, o)
    BY <1>1, <1>4
  <2>2. at_op' \in [Users -> FfOp \X FfPc]
    BY <1>2, <1>3, <2>1, FfWakenedType
  <2>3. /\ at_op'[u] = x
        /\ \A v \in Users \ {u} :
             at_op'[v] = at_op[v] \/ (at_op[v][2] = "asleep" /\ at_op'[v][2] \in {"relock", "event"})
        /\ \A v \in Users : at_op'[v] # <<o, "asleep">>
    BY <1>2, <1>3, <2>1, FfWakened
  <2>4. QED
    BY <1>2, <2>2, <2>3 DEF o
<1>5. CASE kind # "fifo"
  <2>1. at_op' = mid
    BY <1>1, <1>5
  <2>2. at_op'[u] = <<Fifo!Other(o), "wake">>
    BY <1>2, <1>3, <1>5, <2>1 DEF o, Fifo!Other
  <2>3. FfWaker(o)'
    BY <2>2 DEF FfWaker, Fifo!Other
  <2>4. QED
    BY <1>2, <1>3, <2>1, <2>3 DEF o
<1>6. QED
  BY <1>4, <1>5

\* The bytes of a read leave at the front.
LEMMA FfDoneRead ==
  ASSUME FfGood, NEW u \in Users, Fifo!Done(u, "r")
  PROVE  /\ Len(moved[u]) \in Nat /\ Len(moved[u]) >= 1 /\ f_size' = f_size - Len(moved[u])
         /\ f_size' \in Nat /\ r_ptr' \in 0 .. Cap - 1 /\ cell' \in [0 .. Cap - 1 -> Int]
         /\ taken' \in Seq(Int) /\ FfPlace' /\ FfKept' /\ UNCHANGED <<w_ptr, written>>
<1> DEFINE k == Len(moved[u])
           m == f_size - k
<1>1. /\ at_op[u] = <<"r", "copied">>
      /\ f_size' = f_size - k /\ taken' = taken \o moved[u]
      /\ r_ptr' = IF kind = "pipe" THEN (r_ptr + k) % Cap ELSE r_ptr
      /\ cell' = IF kind = "pipe" THEN cell
                 ELSE [c \in 0 .. Cap - 1 |-> IF c + k < Cap THEN cell[c + k] ELSE 0]
      /\ UNCHANGED <<w_ptr, written, kind, buff>>
  BY DEF Fifo!Done
<1>2. /\ f_size \in Nat /\ r_ptr \in 0 .. Cap - 1 /\ r_ptr + f_size <= Cap /\ w_ptr \in Nat
      /\ cell \in [0 .. Cap - 1 -> Int] /\ moved \in [Users -> Seq(Int)]
      /\ written \in Seq(Int) /\ taken \in Seq(Int) /\ kind \in {"fifo", "pipe"}
  BY DEF FfGood, FfTypeOK, FfData, FfPlace
<1>3. k \in Nat /\ k >= 1 /\ k <= f_size /\ moved[u] = FfSpan(cell, r_ptr, k) /\ moved[u] \in Seq(Int)
  <2>1. moved[u] \in Seq(Int)
    BY <1>2
  <2>2. at_op[u][1] = "r" /\ at_op[u][2] = "copied" /\ FfMoved(u)
    BY <1>1 DEF FfGood, FfData
  <2>3. QED
    BY <2>1, <2>2 DEF FfMoved
<1>4. (kind = "fifo" => r_ptr = 0) /\ (kind = "pipe" => r_ptr + f_size = w_ptr)
  <2>1. f_size # 0
    BY <1>2, <1>3
  <2>2. QED
    BY <2>1 DEF FfGood, FfData, FfPlace
<1>b. buff /\ buff'
  BY <1>1 DEF FfGood, FfData, FfMoved
<1>5. taken \o FfSpan(cell, r_ptr, f_size) = written
  BY DEF FfGood, FfData, FfKept
<1> HIDE DEF k
<1>6. m \in Nat /\ k + m = f_size /\ r_ptr \in Nat /\ r_ptr + k \in Nat /\ r_ptr + k + m <= Cap
  BY <1>2, <1>3, CapAssumption
<1> HIDE DEF m
<1> DEFINE z == r_ptr + k
<1>z. z \in Nat /\ z = r_ptr + k /\ f_size = k + m /\ k \in Nat
  BY <1>3, <1>6
<1> HIDE DEF z
<1>7. taken' \in Seq(Int) /\ taken' = taken \o FfSpan(cell, r_ptr, k)
  BY <1>1, <1>2, <1>3, ConcatProperties
<1>8. taken' \o FfSpan(cell, z, m) = written
  <2>1. FfSpan(cell, r_ptr, k) \o FfSpan(cell, z, m) = FfSpan(cell, r_ptr, f_size)
    <3>1. /\ cell \in [0 .. Cap - 1 -> Int] /\ r_ptr \in Nat /\ k \in Nat /\ m \in Nat
          /\ z = r_ptr + k /\ f_size = k + m /\ r_ptr + f_size <= Cap
      BY <1>2, <1>3, <1>6, <1>z
    <3>2. FfFits(cell, r_ptr, k, m, z, f_size)
      BY <3>1 DEF FfFits
    <3>3. FfSplits(cell, r_ptr, k, m, z, f_size)
      BY <3>2, FfSpanSplit, Zenon
    <3>4. QED
      BY <3>3 DEF FfSplits
  <2>2. FfSpan(cell, r_ptr, k) \in Seq(Int)
    BY <1>3
  <2>3. FfSpan(cell, z, m) \in Seq(Int)
    <3>1. z + m <= Cap
      BY <1>6, <1>z
    <3>2. QED
      BY <1>2, <1>6, <1>z, <3>1, FfSpanSeq
  <2> DEFINE a == FfSpan(cell, r_ptr, k)
             b == FfSpan(cell, z, m)
             d == FfSpan(cell, r_ptr, f_size)
  <2>4. a \in Seq(Int) /\ b \in Seq(Int) /\ a \o b = d /\ taken \o d = written
    BY <1>5, <2>1, <2>2, <2>3
  <2>5. taken' = taken \o a
    BY <1>7
  <2> HIDE DEF a, b, d
  <2>6. (taken \o a) \o b = written
    <3>1. (taken \o a) \o b = taken \o (a \o b)
      BY <1>2, <2>4, FfAssociative, Zenon
    <3>2. QED
      BY <2>4, <3>1
  <2>7. taken' \o b = written
    BY <2>5, <2>6
  <2>8. QED
    BY <2>7 DEF b
<1>9. f_size' = m
  BY <1>1 DEF m
<1>10. CASE kind = "pipe"
  <2>1. cell' = cell /\ kind' = "pipe" /\ w_ptr' = w_ptr /\ w_ptr = r_ptr + f_size
    BY <1>1, <1>4, <1>10
  <2>w. w_ptr' = r_ptr + f_size
    BY <2>1
  <2>2. CASE r_ptr + k < Cap
    <3>1. r_ptr' = r_ptr + k
      <4>1. (r_ptr + k) % Cap = r_ptr + k
        BY <1>6, <2>2, CapAssumption
      <4>2. QED
        BY <1>1, <1>10, <4>1
    <3>2. FfPlace'
      <4>1. r_ptr' + f_size' <= Cap /\ r_ptr' + f_size' = w_ptr'
        BY <1>6, <1>9, <1>z, <2>w, <3>1, CapAssumption
      <4>2. QED
        BY <1>b, <2>1, <4>1 DEF FfPlace
    <3>3. FfKept'
      BY <1>1, <1>8, <1>9, <1>z, <2>1, <3>1 DEF FfKept
    <3>4. r_ptr' \in 0 .. Cap - 1
      BY <1>6, <2>2, <3>1, CapAssumption
    <3>5. QED
      BY <1>1, <1>2, <1>3, <1>6, <1>7, <1>9, <2>1, <3>2, <3>3, <3>4 DEF k
  <2>3. CASE ~(r_ptr + k < Cap)
    <3>1. r_ptr + k = Cap /\ m = 0
      BY <1>6, <2>3, CapAssumption
    <3>2. r_ptr' = 0
      <4>1. Cap % Cap = 0
        BY CapAssumption
      <4>2. QED
        BY <1>1, <1>10, <3>1, <4>1
    <3>3. w_ptr' = Cap
      BY <1>6, <1>z, <2>w, <3>1
    <3>4. FfPlace'
      <4>1. r_ptr' + f_size' <= Cap /\ f_size' = 0
        BY <1>9, <3>1, <3>2, CapAssumption
      <4>2. QED
        BY <2>1, <3>3, <4>1 DEF FfPlace
    <3>5. FfKept'
      <4>1. FfSpan(cell', r_ptr', f_size') = <<>> /\ FfSpan(cell, z, m) = <<>>
        BY <1>9, <3>1, FfSpanEmpty
      <4>2. QED
        BY <1>1, <1>8, <4>1 DEF FfKept
    <3>6. r_ptr' \in 0 .. Cap - 1
      BY <3>2, CapAssumption
    <3>7. QED
      BY <1>1, <1>2, <1>3, <1>6, <1>7, <1>9, <2>1, <3>4, <3>5, <3>6 DEF k
  <2>4. QED
    BY <2>2, <2>3
<1>11. CASE kind = "fifo"
  <2>1. r_ptr = 0 /\ r_ptr' = 0 /\ kind' = "fifo"
    BY <1>1, <1>4, <1>11
  <2>2. cell' = [c \in 0 .. Cap - 1 |-> IF c + k < Cap THEN cell[c + k] ELSE 0]
    BY <1>1, <1>11
  <2>3. cell' \in [0 .. Cap - 1 -> Int]
    <3>1. ASSUME NEW c \in 0 .. Cap - 1, c + k < Cap PROVE cell[c + k] \in Int
      <4>1. c + k \in 0 .. Cap - 1
        BY <1>3, <3>1, CapAssumption
      <4>2. QED
        BY <1>2, <4>1
    <3>2. \A c \in 0 .. Cap - 1 : (IF c + k < Cap THEN cell[c + k] ELSE 0) \in Int
      BY <3>1
    <3>3. QED
      BY <2>2, <3>2
  <2>4. FfSpan(cell', r_ptr', m) = FfSpan(cell, z, m)
    <3>1. ASSUME NEW i \in 1 .. m PROVE cell'[r_ptr' + i - 1] = cell[z + i - 1]
      <4> DEFINE j == i - 1
      <4>1. /\ j \in 0 .. Cap - 1 /\ j + k < Cap /\ j = r_ptr' + i - 1 /\ j + k = z + i - 1
        BY <1>3, <1>6, <1>z, <2>1, CapAssumption
      <4> HIDE DEF j
      <4>2. cell'[j] = cell[j + k]
        BY <2>2, <4>1
      <4>3. QED
        BY <4>1, <4>2
    <3>2. QED
      BY <3>1 DEF FfSpan
  <2>5. FfKept'
    BY <1>1, <1>8, <1>9, <2>4 DEF FfKept
  <2>6. FfPlace'
    <3>1. r_ptr' + f_size' <= Cap
      BY <1>6, <1>9, <2>1, CapAssumption
    <3>2. QED
      BY <1>b, <2>1, <3>1 DEF FfPlace
  <2>7. r_ptr' \in 0 .. Cap - 1
    BY <2>1, CapAssumption
  <2>8. QED
    BY <1>1, <1>2, <1>3, <1>6, <1>7, <1>9, <2>3, <2>5, <2>6, <2>7 DEF k
<1>12. QED
  BY <1>2, <1>10, <1>11

\* The bytes of a write follow the last.
LEMMA FfDoneWrite ==
  ASSUME FfGood, NEW u \in Users, Fifo!Done(u, "w")
  PROVE  /\ Len(moved[u]) \in Nat /\ Len(moved[u]) >= 1 /\ f_size + Len(moved[u]) <= Cap
         /\ f_size' = f_size + Len(moved[u])
         /\ f_size' \in Nat /\ w_ptr' \in Nat /\ written' \in Seq(Int)
         /\ FfPlace' /\ FfKept' /\ UNCHANGED <<r_ptr, cell, taken>>
<1> DEFINE k == Len(moved[u])
<1>1. /\ at_op[u] = <<"w", "copied">>
      /\ f_size' = f_size + k /\ written' = written \o moved[u]
      /\ w_ptr' = IF kind = "pipe" THEN w_ptr + k ELSE w_ptr
      /\ UNCHANGED <<r_ptr, cell, taken, kind, buff>>
  BY DEF Fifo!Done
<1>2. /\ f_size \in Nat /\ r_ptr \in 0 .. Cap - 1 /\ r_ptr + f_size <= Cap /\ w_ptr \in Nat
      /\ cell \in [0 .. Cap - 1 -> Int] /\ moved \in [Users -> Seq(Int)]
      /\ written \in Seq(Int) /\ taken \in Seq(Int) /\ kind \in {"fifo", "pipe"}
  BY DEF FfGood, FfTypeOK, FfData, FfPlace
<1>3. /\ k \in Nat /\ k >= 1 /\ r_ptr + f_size + k <= Cap /\ moved[u] \in Seq(Int)
      /\ kind = "pipe" => w_ptr = r_ptr + f_size
      /\ moved[u] = FfSpan(cell, r_ptr + f_size, k)
  <2>1. moved[u] \in Seq(Int)
    BY <1>2
  <2>2. at_op[u][1] = "w" /\ at_op[u][2] = "copied" /\ FfMoved(u)
    BY <1>1 DEF FfGood, FfData
  <2>3. QED
    BY <2>1, <2>2 DEF FfMoved
<1>b. buff /\ buff'
  BY <1>1 DEF FfGood, FfData, FfMoved
<1> HIDE DEF k
<1> DEFINE z == r_ptr + f_size
           n == f_size + k
<1>4. r_ptr \in Nat /\ z = r_ptr + f_size /\ z \in Nat /\ n = f_size + k /\ r_ptr + n <= Cap
  BY <1>2, <1>3, CapAssumption
<1> HIDE DEF z, n
<1>5. FfKept'
  <2> DEFINE a == FfSpan(cell, r_ptr, f_size)
             b == FfSpan(cell, z, k)
             d == FfSpan(cell, r_ptr, n)
  <2>1. a \o b = d
    <3>1. /\ cell \in [0 .. Cap - 1 -> Int] /\ r_ptr \in Nat /\ f_size \in Nat /\ k \in Nat
          /\ z = r_ptr + f_size /\ n = f_size + k /\ r_ptr + n <= Cap
      BY <1>2, <1>3, <1>4
    <3>2. FfFits(cell, r_ptr, f_size, k, z, n)
      BY <3>1 DEF FfFits
    <3>3. FfSplits(cell, r_ptr, f_size, k, z, n)
      BY <3>2, FfSpanSplit, Zenon
    <3>4. QED
      BY <3>3 DEF FfSplits
  <2>2. a \in Seq(Int)
    BY <1>2, <1>4, FfSpanSeq
  <2>3. taken \o a = written /\ b = moved[u] /\ f_size' = n
    BY <1>1, <1>3, <1>4 DEF FfGood, FfData, FfKept
  <2> DEFINE e == taken \o d
  <2>4. b \in Seq(Int)
    BY <1>3, <2>3
  <2>5. e = taken' \o FfSpan(cell', r_ptr', f_size')
    BY <1>1, <2>3
  <2> HIDE DEF a, b, d
  <2>6. (taken \o a) \o b = e
    <3>1. (taken \o a) \o b = taken \o (a \o b)
      BY <1>2, <2>2, <2>4, FfAssociative, Zenon
    <3>2. QED
      BY <2>1, <3>1
  <2> HIDE DEF e
  <2>7. written' = e
    BY <1>1, <2>3, <2>6
  <2>8. QED
    BY <2>5, <2>7 DEF FfKept
<1>6. FfPlace'
  <2>1. kind = "fifo" => r_ptr = 0
    BY DEF FfGood, FfData, FfPlace
  <2>2. r_ptr' + f_size' <= Cap /\ (kind = "pipe" => r_ptr' + f_size' = w_ptr')
    BY <1>1, <1>2, <1>3, CapAssumption
  <2>3. QED
    BY <1>1, <1>b, <2>1, <2>2 DEF FfPlace
<1>7. written' \in Seq(Int)
  BY <1>1, <1>2, <1>3, ConcatProperties
<1>8. f_size + k <= Cap /\ f_size + k \in Nat /\ w_ptr' \in Nat
  BY <1>1, <1>2, <1>3, <1>4, CapAssumption
<1>9. QED
  BY <1>1, <1>3, <1>5, <1>6, <1>7, <1>8 DEF k

LEMMA FfDone ==
  ASSUME FfGood, NEW u \in Users, NEW op \in {"r", "w"}, Fifo!Done(u, op)
  PROVE  FfGood'
<1>1. /\ at_op[u] = <<op, "copied">> /\ mutex' = mutex + 1 /\ UNCHANGED <<kind, buff>>
      /\ moved' = [moved EXCEPT ![u] = <<>>] /\ spoilt \subseteq spoilt'
      /\ (kind = "fifo" /\ \E q \in Users : at_op[q] = <<Fifo!Other(op), "unlocked">>) =>
            spoilt' # {}
  BY DEF Fifo!Done, Fifo!Unlock, Fifo!Because
<1>2. /\ at_op' \in [Users -> FfOp \X FfPc]
      /\ at_op'[u][2] \in {"idle", "wake"}
      /\ \A v \in Users \ {u} :
           at_op'[v] = at_op[v] \/ (at_op[v][2] = "asleep" /\ at_op'[v][2] \in {"relock", "event"})
      /\ \A v \in Users : at_op'[v] = <<Fifo!Other(op), "asleep">> => FfWaker(Fifo!Other(op))'
  BY FfDoneAt
<1>3. /\ f_size' \in Nat /\ r_ptr' \in 0 .. Cap - 1 /\ cell' \in [0 .. Cap - 1 -> Int]
      /\ w_ptr' \in Nat /\ taken' \in Seq(Int) /\ written' \in Seq(Int)
      /\ FfPlace' /\ FfKept'
  <2>1. CASE op = "r"
    BY <2>1, FfDoneRead DEF FfGood, FfTypeOK
  <2>2. CASE op = "w"
    BY <2>2, FfDoneWrite DEF FfGood, FfTypeOK
  <2>3. QED
    BY <2>1, <2>2
<1>4. FfIn(u) /\ ~FfIn(u)' /\ FfOthersStay(u)
  BY <1>1, <1>2 DEF FfIn, FfOthersStay
<1>5. FfLock' /\ mutex' \in Nat
  BY <1>1, <1>4, FfGoesOut DEF FfGood, FfTypeOK
<1>6. moved' \in [Users -> Seq(Int)]
  <2>1. <<>> \in Seq(Int)
    OBVIOUS
  <2>2. QED
    BY <1>1, <2>1 DEF FfGood, FfTypeOK
<1>7. FfTypeOK'
  BY <1>1, <1>2, <1>3, <1>5, <1>6 DEF FfGood, FfTypeOK
<1>8. \A v \in Users : FfMoved(v)'
  <2>1. \A v \in Users : at_op'[v][2] # "copied"
    BY <1>2, <1>4, FfOnly
  <2>2. QED
    BY <2>1 DEF FfMoved
<1>9. FfRest'
  <2>1. ~Fifo!Blocked(op)
    <3>1. CASE op = "r"
      <4>1. f_size # 0
        <5>1. Len(moved[u]) \in Nat /\ Len(moved[u]) >= 1 /\ f_size' = f_size - Len(moved[u])
              /\ f_size' \in Nat /\ f_size \in Nat
          BY <3>1, FfDoneRead DEF FfGood, FfTypeOK
        <5>2. QED
          BY <5>1
      <4>2. QED
        BY <3>1, <4>1 DEF Fifo!Blocked
    <3>2. CASE op = "w"
      <4>1. f_size # Cap
        <5>1. Len(moved[u]) \in Nat /\ Len(moved[u]) >= 1 /\ f_size + Len(moved[u]) <= Cap
              /\ f_size \in Nat
          BY <3>2, FfDoneWrite DEF FfGood, FfTypeOK
        <5>2. QED
          BY <5>1, CapAssumption
      <4>2. QED
        BY <3>2, <4>1 DEF Fifo!Blocked
    <3>3. QED
      BY <3>1, <3>2
  <2>2. ASSUME NEW v \in Users, at_op[v][2] = "unlocked", spoilt' = {}
        PROVE  spoilt = {} /\ (Fifo!Blocked("r") => Fifo!Blocked("r")')
    <3>1. /\ kind = "fifo" /\ at_op[v][1] = "r" /\ spoilt = {}
          /\ at_op[v] = <<"r", "unlocked">>
      <4>1. kind = "fifo" /\ at_op[v][1] = "r"
        BY <2>2 DEF FfGood, FfRest, FfGap
      <4>2. at_op[v] \in FfOp \X FfPc
        BY DEF FfGood, FfTypeOK
      <4>3. QED
        BY <1>1, <2>2, <4>1, <4>2
    <3>2. Fifo!Other(op) # "r"
      BY <1>1, <2>2, <3>1
    <3>3. op = "r"
      BY <3>2 DEF Fifo!Other
    <3>4. QED
      BY <2>1, <3>1, <3>3
  <2>3. at_op[u][1] = op /\ FfRest
    BY <1>1 DEF FfGood
  <2>4. QED
    BY <1>1, <1>2, <2>1, <2>2, <2>3, FfRestAfter
<1>10. QED
  BY <1>3, <1>5, <1>7, <1>8, <1>9 DEF FfGood, FfData

LEMMA FfClear ==
  ASSUME FfGood, NEW u \in Users, Fifo!Clear(u)
  PROVE  FfGood'
<1> DEFINE x == <<"r", "wake">>
<1>1. /\ kind = "fifo" /\ at_op[u] = <<"-", "idle">> /\ mutex > 0
      /\ cell' = [c \in 0 .. Cap - 1 |-> 0] /\ f_size' = 0 /\ taken' = written
      /\ at_op' = [at_op EXCEPT ![u] = x]
      /\ UNCHANGED <<kind, buff, mutex, r_ptr, w_ptr, moved, written, spoilt>>
  BY DEF Fifo!Clear, Fifo!Idle
<1>2. x \in FfOp \X FfPc /\ x[2] = "wake"
  BY DEF FfOp, FfPc
<1>3. at_op'[u] = x /\ at_op' \in [Users -> FfOp \X FfPc]
      /\ \A v \in Users \ {u} : at_op'[v] = at_op[v]
  <2> HIDE DEF x
  <2>1. QED
    BY <1>1, <1>2, FfMoves DEF FfGood, FfTypeOK
<1>4. r_ptr = 0 /\ buff
  BY <1>1 DEF FfGood, FfData, FfPlace
<1>5. FfTypeOK'
  BY <1>1, <1>3 DEF FfGood, FfTypeOK
<1>6. \A v \in Users : ~FfIn(v)
  BY <1>1 DEF FfGood, FfTypeOK, FfLock
<1>7. \A v \in Users : ~FfIn(v)'
  BY <1>2, <1>3, <1>6 DEF FfIn
<1>8. FfLock'
  BY <1>1, <1>6, <1>7 DEF FfGood, FfLock
<1>9. FfData'
  <2>1. FfPlace'
    BY <1>1, <1>4, CapAssumption DEF FfPlace
  <2>2. FfKept'
    <3>1. FfSpan(cell', r_ptr', f_size') = <<>>
      BY <1>1, FfSpanEmpty
    <3>2. taken' \o <<>> = taken'
      BY <1>5, ConcatEmptySeq DEF FfTypeOK
    <3>3. QED
      BY <1>1, <3>1, <3>2 DEF FfKept
  <2>3. \A v \in Users : FfMoved(v)'
    BY <1>7 DEF FfMoved, FfIn
  <2>4. QED
    BY <2>1, <2>2, <2>3 DEF FfData
<1>10. FfRest'
  <2>1. Fifo!Blocked("r")'
    BY <1>1 DEF Fifo!Blocked
  <2>2. FfWaker("w")'
    BY <1>3 DEF FfWaker, Fifo!Other
  <2>3. \A v \in Users, op \in {"r", "w"} : FfSleep(v, op)'
    BY <2>1, <2>2 DEF FfSleep
  <2>4. ASSUME NEW v \in Users PROVE FfGap(v)'
    <3>1. CASE v = u
      BY <1>2, <1>3, <3>1 DEF FfGap
    <3>2. CASE v # u
      <4>1. at_op'[v] = at_op[v] /\ FfGap(v)
        BY <1>3, <3>2 DEF FfGood, FfRest
      <4>2. QED
        BY <1>1, <2>1, <4>1 DEF FfGap
    <3>3. QED
      BY <3>1, <3>2
  <2>5. QED
    BY <2>3, <2>4 DEF FfRest
<1>11. QED
  BY <1>5, <1>8, <1>9, <1>10 DEF FfGood

-----------------------------------------------------------------------------
\* What has been spoilt stays spoilt, and globalfifo spoils nothing else.
LEMMA FfSpoils ==
  ASSUME Fifo!FifoNext
  PROVE  spoilt \subseteq spoilt' /\ kind' = kind
<1> PICK u \in Users :
      \/ Fifo!Open(u) \/ Fifo!Release(u) \/ Fifo!CopyOut(u) \/ Fifo!CopyIn(u) \/ Fifo!Clear(u)
      \/ \E op \in {"r", "w"} :
           \/ Fifo!Start(u, op) \/ Fifo!NonBlock(u, op) \/ Fifo!Sleep(u, op) \/ Fifo!SetState(u, op)
           \/ Fifo!Event(u, op) \/ Fifo!Signal(u, op) \/ Fifo!Relock(u, op) \/ Fifo!Fault(u, op)
           \/ Fifo!Done(u, op) \/ Fifo!Wake(u, op)
  BY DEF Fifo!FifoNext
<1>1. CASE Fifo!Open(u) \/ Fifo!Release(u)
  BY <1>1 DEF Fifo!Open, Fifo!Release
<1>2. CASE Fifo!CopyOut(u)
  BY <1>2 DEF Fifo!CopyOut
<1>3. CASE Fifo!CopyIn(u)
  BY <1>3 DEF Fifo!CopyIn
<1>4. CASE Fifo!Clear(u)
  BY <1>4 DEF Fifo!Clear
<1>5. ASSUME NEW op \in {"r", "w"},
             \/ Fifo!Start(u, op) \/ Fifo!NonBlock(u, op) \/ Fifo!Sleep(u, op) \/ Fifo!SetState(u, op)
             \/ Fifo!Event(u, op) \/ Fifo!Signal(u, op) \/ Fifo!Relock(u, op) \/ Fifo!Fault(u, op)
             \/ Fifo!Done(u, op) \/ Fifo!Wake(u, op)
      PROVE  spoilt \subseteq spoilt' /\ kind' = kind
  <2>1. CASE Fifo!Start(u, op) \/ Fifo!Relock(u, op)
    BY <2>1 DEF Fifo!Start, Fifo!Relock, Fifo!Lock
  <2>2. CASE Fifo!NonBlock(u, op) \/ Fifo!Sleep(u, op) \/ Fifo!SetState(u, op) \/ Fifo!Event(u, op)
    BY <2>2 DEF Fifo!NonBlock, Fifo!Sleep, Fifo!SetState, Fifo!Event
  <2>3. CASE Fifo!Signal(u, op) \/ Fifo!Fault(u, op) \/ Fifo!Wake(u, op)
    BY <2>3 DEF Fifo!Signal, Fifo!Fault, Fifo!Wake
  <2>4. CASE Fifo!Done(u, op)
    BY <2>4 DEF Fifo!Done
  <2>5. QED
    BY <1>5, <2>1, <2>2, <2>3, <2>4
<1>6. QED
  BY <1>1, <1>2, <1>3, <1>4, <1>5

LEMMA FfNoAccident ==
  ASSUME FfGood, FfClean, kind = "fifo", Fifo!FifoNext
  PROVE  FfClean'
<1> PICK u \in Users :
      \/ Fifo!Open(u) \/ Fifo!Release(u) \/ Fifo!CopyOut(u) \/ Fifo!CopyIn(u) \/ Fifo!Clear(u)
      \/ \E op \in {"r", "w"} :
           \/ Fifo!Start(u, op) \/ Fifo!NonBlock(u, op) \/ Fifo!Sleep(u, op) \/ Fifo!SetState(u, op)
           \/ Fifo!Event(u, op) \/ Fifo!Signal(u, op) \/ Fifo!Relock(u, op) \/ Fifo!Fault(u, op)
           \/ Fifo!Done(u, op) \/ Fifo!Wake(u, op)
  BY DEF Fifo!FifoNext
<1>1. buff /\ f_size \in Nat /\ mutex \in Nat
  BY DEF FfGood, FfTypeOK, FfData, FfPlace
<1>2. CASE Fifo!Open(u) \/ Fifo!Release(u)
  BY <1>2 DEF Fifo!Open, Fifo!Release, FfClean
<1>3. CASE Fifo!CopyOut(u)
  BY <1>1, <1>3 DEF Fifo!CopyOut, FfClean, Fifo!Because
<1>4. CASE Fifo!CopyIn(u)
  <2>1. PICK n \in 1 .. Cap - f_size :
          spoilt' = spoilt \cup Fifo!Because("freed", ~buff)
                           \cup Fifo!Because("past the end", f_size + n > Cap)
    BY <1>4 DEF Fifo!CopyIn
  <2>2. ~(f_size + n > Cap)
    BY <1>1, CapAssumption
  <2>3. QED
    BY <1>1, <2>1, <2>2 DEF FfClean, Fifo!Because
<1>5. CASE Fifo!Clear(u)
  BY <1>5 DEF Fifo!Clear, FfClean
<1>6. ASSUME NEW op \in {"r", "w"},
             \/ Fifo!Start(u, op) \/ Fifo!NonBlock(u, op) \/ Fifo!Sleep(u, op) \/ Fifo!SetState(u, op)
             \/ Fifo!Event(u, op) \/ Fifo!Signal(u, op) \/ Fifo!Relock(u, op) \/ Fifo!Fault(u, op)
             \/ Fifo!Done(u, op) \/ Fifo!Wake(u, op)
      PROVE  FfClean'
  <2>1. CASE Fifo!Start(u, op) \/ Fifo!Relock(u, op)
    <3>1. mutex > 0 /\ spoilt' = spoilt \cup Fifo!Because("two inside", Fifo!Inside \ {u} # {})
      BY <2>1 DEF Fifo!Start, Fifo!Relock, Fifo!Lock
    <3>2. \A v \in Users : ~FfIn(v)
      <4>1. mutex = IF \E v \in Users : FfIn(v) THEN 0 ELSE 1
        BY DEF FfGood, FfLock
      <4>2. mutex # 0
        <5>1. mutex > 0
          BY <3>1
        <5>2. QED
          BY <5>1
      <4>3. QED
        BY <4>1, <4>2
    <3>3. Fifo!Inside \ {u} = {}
      BY <3>2 DEF Fifo!Inside, FfIn
    <3>4. QED
      BY <3>1, <3>3 DEF FfClean, Fifo!Because
  <2>2. CASE Fifo!NonBlock(u, op) \/ Fifo!Sleep(u, op) \/ Fifo!SetState(u, op) \/ Fifo!Event(u, op)
    BY <2>2 DEF Fifo!NonBlock, Fifo!Sleep, Fifo!SetState, Fifo!Event, FfClean
  <2>3. CASE Fifo!Signal(u, op) \/ Fifo!Fault(u, op) \/ Fifo!Wake(u, op)
    BY <2>3 DEF Fifo!Signal, Fifo!Fault, Fifo!Wake, FfClean
  <2>4. CASE Fifo!Done(u, op)
    BY <2>4 DEF Fifo!Done, FfClean, Fifo!Because
  <2>5. QED
    BY <1>6, <2>1, <2>2, <2>3, <2>4
<1>7. QED
  BY <1>2, <1>3, <1>4, <1>5, <1>6

LEMMA FfInitInv == Fifo!FifoInit => FfInv
<1> SUFFICES ASSUME Fifo!FifoInit PROVE FfInv
  OBVIOUS
<1> USE DEF Fifo!FifoInit
<1>1. \A v \in Users : at_op[v] = <<"-", "idle">>
  BY DEF Fifo!Idle
<1>2. FfTypeOK
  <2>1. at_op \in [Users -> FfOp \X FfPc]
    BY DEF Fifo!Idle, FfOp, FfPc
  <2>2. QED
    BY <2>1, CapAssumption DEF FfTypeOK
<1>3. FfLock
  BY <1>1 DEF FfLock, FfIn
<1>4. FfData
  <2>1. FfPlace
    BY CapAssumption DEF FfPlace
  <2>2. FfKept
    <3>1. FfSpan(cell, r_ptr, f_size) = <<>>
      BY FfSpanEmpty
    <3>2. <<>> \o <<>> = <<>>
      BY ConcatEmptySeq
    <3>3. QED
      BY <3>1, <3>2 DEF FfKept
  <2>3. QED
    BY <1>1, <2>1, <2>2 DEF FfData, FfMoved
<1>5. FfRest
  BY <1>1 DEF FfRest, FfGap, FfSleep
<1>6. QED
  BY <1>2, <1>3, <1>4, <1>5 DEF FfInv, FfGood, FfClean

LEMMA FfStepInv == FfInv /\ [Fifo!FifoNext]_Fifo!fifo_vars => FfInv'
<1> SUFFICES ASSUME FfInv, [Fifo!FifoNext]_Fifo!fifo_vars PROVE FfInv'
  OBVIOUS
<1>1. CASE Fifo!FifoNext
  <2>1. spoilt \subseteq spoilt' /\ kind' = kind
    BY <1>1, FfSpoils
  <2>2. kind = "fifo" => FfClean'
    BY <1>1, FfNoAccident DEF FfInv
  <2>3. ASSUME FfClean' PROVE FfGood'
    <3>1. FfGood
      BY <2>1, <2>3 DEF FfInv, FfClean
    <3>2. PICK u \in Users :
            \/ Fifo!Open(u) \/ Fifo!Release(u) \/ Fifo!CopyOut(u) \/ Fifo!CopyIn(u) \/ Fifo!Clear(u)
            \/ \E op \in {"r", "w"} :
                 \/ Fifo!Start(u, op) \/ Fifo!NonBlock(u, op) \/ Fifo!Sleep(u, op)
                 \/ Fifo!SetState(u, op) \/ Fifo!Event(u, op) \/ Fifo!Signal(u, op)
                 \/ Fifo!Relock(u, op) \/ Fifo!Fault(u, op) \/ Fifo!Done(u, op) \/ Fifo!Wake(u, op)
      BY <1>1 DEF Fifo!FifoNext
    <3>3. QED
      BY <2>3, <3>1, <3>2, FfOpen, FfRelease, FfCopyOut, FfCopyIn, FfClear, FfStart, FfGivesUp,
         FfSleeps, FfSetState, FfEvent, FfSignal, FfDone, FfWake
  <2>4. QED
    BY <2>1, <2>2, <2>3 DEF FfInv
<1>2. CASE UNCHANGED Fifo!fifo_vars
  <2>1. UNCHANGED <<kind, buff, mutex, cell, r_ptr, w_ptr, f_size, at_op, moved, written, taken, spoilt>>
    BY <1>2 DEF Fifo!fifo_vars, Fifo!store_vars
  <2>2. FfClean' <=> FfClean
    BY <2>1 DEF FfClean
  <2>3. FfGood => FfGood'
    BY <2>1 DEF FfGood, FfTypeOK, FfLock, FfIn, FfData, FfPlace, FfKept, FfMoved, FfRest, FfGap,
                FfSleep, FfWaker, FfExcused, Fifo!Blocked
  <2>4. QED
    BY <2>1, <2>2, <2>3 DEF FfInv
<1>3. QED
  BY <1>1, <1>2

\* Any processes, buffers and number of bytes: what is read is what was written, in order
\* and once, until one of scullpip's accidents, and globalfifo has none but the missed
\* wake-up of a reader; whoever sleeps beside work has a wake-up to come, but for that.
THEOREM FifosSpecHold == Fifo!FifoInit /\ [][Fifo!FifoNext]_Fifo!fifo_vars => []FifosHold
<1>1. ASSUME FfInv PROVE FifosHold
  <2>1. ASSUME FfClean PROVE taken \o Fifo!Front(f_size) = written
    <3>1. FfGood
      BY <1>1, <2>1 DEF FfInv
    <3>2. Fifo!Front(f_size) = FfSpan(cell, r_ptr, f_size)
      BY <3>1, FfFront DEF FfGood, FfTypeOK, FfData, FfPlace
    <3>3. QED
      BY <3>1, <3>2 DEF FfGood, FfData, FfKept
  <2>2. ASSUME NEW u \in Users, NEW op \in {"r", "w"},
               at_op[u] = <<op, "asleep">>, ~Fifo!Blocked(op), ~FfWaker(op)
        PROVE  spoilt # {} /\ ~(op = "w" /\ kind = "fifo")
    <3>1. CASE FfClean
      BY <1>1, <2>2, <3>1 DEF FfInv, FfGood, FfRest, FfSleep, FfExcused
    <3>2. CASE ~FfClean
      BY <1>1, <3>2 DEF FfInv, FfClean
    <3>3. QED
      BY <3>1, <3>2
  <2>3. QED
    BY <1>1, <2>1, <2>2 DEF FifosHold, Fifo!FifosKept, FfInv, FfClean, FfWaker
<1>2. QED
  BY <1>1, FfInitInv, FfStepInv, PTL
=============================================================================
