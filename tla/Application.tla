----------------------------- MODULE Application -----------------------------
(***************************************************************************)
(* The process (binary/src/lib.rs and main.rs): configuration, the         *)
(* adapters built one after the other, the background tasks, the signal    *)
(* and the bounded shutdown.                                               *)
(*                                                                         *)
(* A task is its loop and the pieces of work it has taken: requests,       *)
(* e-mails, keys of a sweep, a message, a sample. Work waits for the       *)
(* outside and may hang; everything else a task does takes no time next to *)
(* the 30 s of the shutdown. A call on a thread of the blocking pool (an   *)
(* include that is read, a file of the store) outlives the work that made  *)
(* it: nothing stops it, and the runtime waits for it in the end.          *)
(***************************************************************************)
EXTENDS Naturals, FiniteSets

CONSTANTS Optional,   \* those of "inbound" and "sampler" that are configured
          Capacity,   \* how much work each task takes at once
          MaxThreads, \* bound on the threads of the blocking pool (512)
          None

Tasks  == {"http", "worker", "gc"} \union Optional
Stages == <<"config", "storage", "queue", "publisher", "smtp", "resolver",
            "attachment_store", "attachment_fetcher", "inbound_nats">>

ASSUME ApplicationAssumption ==
  /\ Optional \subseteq {"inbound", "sampler"}
  /\ Capacity \in [Tasks -> Nat \ {0}] /\ MaxThreads \in Nat

VARIABLES phase,      \* of main
          built,      \* stages completed
          tasks,      \* each task's loop
          work,       \* the work it has in hand
          threads,    \* threads that calls of such work run on
          cancelled,  \* the cancellation token
          result      \* what run returned

vars == <<phase, built, tasks, work, threads, cancelled, result>>

Ended == {"done", "failed", "aborted"}

TypeOK ==
  /\ phase \in {"build", "running", "flush", "exited"}
  /\ built \in 0..9
  /\ tasks \in [Tasks -> {"down", "running", "draining"} \union Ended]
  /\ \A t \in Tasks : work[t] \in 0..Capacity[t]
  /\ \A t \in Tasks : tasks[t] \in {"down"} \union Ended => work[t] = 0
  /\ threads \in 0..MaxThreads /\ cancelled \in BOOLEAN /\ result \in {None, "ok", "error"}

Init ==
  /\ phase = "build" /\ built = 0
  /\ tasks = [t \in Tasks |-> "down"] /\ work = [t \in Tasks |-> 0]
  /\ threads = 0 /\ cancelled = FALSE /\ result = None

-----------------------------------------------------------------------------
(* from_env and build.                                                     *)

Build ==
  /\ phase = "build" /\ built < 9
  /\ built' = built + 1
  /\ UNCHANGED <<phase, tasks, work, threads, cancelled, result>>

\* A stage fails: the error leaves main.
BuildFails ==
  /\ phase = "build" /\ built < 9
  /\ phase' = "exited" /\ result' = "error"
  /\ UNCHANGED <<built, tasks, work, threads, cancelled>>

\* run: every task is spawned.
Run ==
  /\ phase = "build" /\ built = 9
  /\ phase' = "running"
  /\ tasks' = [t \in Tasks |-> "running"]
  /\ UNCHANGED <<built, work, threads, cancelled, result>>

-----------------------------------------------------------------------------
(* The tasks.                                                              *)

\* Tasks that look at the cancellation before they take work: the biased
\* selects of the worker and the inbound server, and the check of the sweep.
\* The HTTP server and the sampler may take more until they notice it.
Checks(t) == t \in {"worker", "gc", "inbound"}

\* Faulty variant of TakeWork: a select that is not biased.
TakeWork_Unbiased(t) ==
  /\ tasks[t] = "running" /\ work[t] < Capacity[t]
  /\ work' = [work EXCEPT ![t] = @ + 1]
  /\ UNCHANGED <<phase, built, tasks, threads, cancelled, result>>

TakeWork(t) ==
  /\ tasks[t] = "running" /\ work[t] < Capacity[t]
  /\ Checks(t) => ~cancelled
  /\ work' = [work EXCEPT ![t] = @ + 1]
  /\ UNCHANGED <<phase, built, tasks, threads, cancelled, result>>

FinishWork(t) ==
  /\ work[t] > 0
  /\ work' = [work EXCEPT ![t] = @ - 1]
  /\ UNCHANGED <<phase, built, tasks, threads, cancelled, result>>

\* spawn_blocking, also below tokio::fs; the work awaits the call, or is dropped.
Offload(t) ==
  /\ work[t] > 0 /\ threads < MaxThreads
  /\ threads' = threads + 1
  /\ UNCHANGED <<phase, built, tasks, work, cancelled, result>>

CallReturns ==
  /\ threads > 0
  /\ threads' = threads - 1
  /\ UNCHANGED <<phase, built, tasks, work, cancelled, result>>

\* A task notices the cancellation: the HTTP server and the worker beside their
\* work, the others between two pieces of it. A sweep stops at its next key.
Notice(t) ==
  /\ cancelled /\ tasks[t] = "running"
  /\ t \in {"gc", "inbound", "sampler"} => work[t] = 0
  /\ tasks' = [tasks EXCEPT ![t] = "draining"]
  /\ UNCHANGED <<phase, built, work, threads, cancelled, result>>

Finish(t) ==
  /\ tasks[t] = "draining" /\ work[t] = 0
  /\ tasks' = [tasks EXCEPT ![t] = "done"]
  /\ UNCHANGED <<phase, built, work, threads, cancelled, result>>

\* The listener cannot be bound or the server ends with an error; or a panic.
Fails(t) ==
  /\ tasks[t] \in {"running", "draining"}
  /\ tasks' = [tasks EXCEPT ![t] = "failed"] /\ work' = [work EXCEPT ![t] = 0]
  /\ UNCHANGED <<phase, built, threads, cancelled, result>>

-----------------------------------------------------------------------------
(* The signal and the shutdown.                                            *)

Signal ==
  /\ phase = "running" /\ ~cancelled
  /\ cancelled' = TRUE
  /\ UNCHANGED <<phase, built, tasks, work, threads, result>>

Live == {t \in Tasks : tasks[t] \notin Ended}

Return ==
  phase' = "flush" /\ result' = "ok"

\* while let Some(joined) = tasks.join_next(): failures are logged.
Drained ==
  /\ phase = "running" /\ cancelled /\ Live = {}
  /\ Return /\ UNCHANGED <<built, tasks, work, threads, cancelled>>

\* 30 s later only tasks with work that hangs are left; abort_all drops them, and
\* leaves the threads alone.
DrainTimeout ==
  /\ phase = "running" /\ cancelled
  /\ Live # {} /\ \A t \in Live : work[t] > 0
  /\ tasks' = [t \in Tasks |-> IF t \in Live THEN "aborted" ELSE tasks[t]]
  /\ work' = [t \in Tasks |-> 0]
  /\ Return /\ UNCHANGED <<built, threads, cancelled>>

\* The telemetry is flushed (what may hold that is in Telemetry) and the runtime is
\* dropped, which waits for the blocking pool.
Exit ==
  /\ phase = "flush" /\ threads = 0 /\ phase' = "exited"
  /\ UNCHANGED <<built, tasks, work, threads, cancelled, result>>

Next ==
  \/ Build \/ BuildFails \/ Run
  \/ \E t \in Tasks : TakeWork(t) \/ FinishWork(t) \/ Offload(t) \/ Notice(t) \/ Finish(t) \/ Fails(t)
  \/ CallReturns \/ Signal \/ Drained \/ DrainTimeout \/ Exit

Spec == Init /\ [][Next]_vars

\* Loops and timers run; no work has to finish and no signal has to come. A
\* select that finds both branches ready again and again takes each at times:
\* it starts with a random one, or with the cancellation.
Fairness ==
  /\ WF_vars(Run) /\ WF_vars(Drained) /\ WF_vars(DrainTimeout) /\ WF_vars(Exit)
  /\ \A t \in Tasks : SF_vars(Notice(t)) /\ WF_vars(Finish(t))

\* What nothing in the program sees to: every file system answers in the end.
CallsReturn == WF_vars(CallReturns)

FairSpec == Spec /\ Fairness /\ CallsReturn

-----------------------------------------------------------------------------
(* Properties.                                                             *)

\* No task runs in a process that is not completely built, or after run returned: none
\* outlives the shutdown, whether it was drained or ran out of time.
RunsWithinLife ==
  Live \ {t \in Tasks : tasks[t] = "down"} # {} => built = 9 /\ phase = "running"

\* Once the cancellation is set the worker claims no e-mail, the sweep deletes
\* no further key and no message is fetched, whatever they were at.
NothingTakenAfterCancel ==
  [][\A t \in Tasks : cancelled /\ Checks(t) => work'[t] <= work[t]]_vars

\* The two together: from start to exit no task runs in a process that is not
\* completely built or whose run has returned, and none takes up new work once cancelled.
LifeInOrder == [](TypeOK /\ RunsWithinLife) /\ NothingTakenAfterCancel

\* After the signal run returns, whatever its tasks hang on.
RunReturns == cancelled ~> phase \in {"flush", "exited"}

\* And the process ends, whatever its tasks hang on but a call on a blocking thread:
\* neither the 30 s nor abort_all ends the wait for one.
SignalEnds == cancelled ~> phase = "exited"
=============================================================================
