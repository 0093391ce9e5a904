------------------------------ MODULE Readiness ------------------------------
(***************************************************************************)
(* GET /health/ready as the container's health check asks it: one probe at *)
(* a time goes through the router's deadline, the storage's pool, the      *)
(* storage and the state of the queue's client, while the program's own    *)
(* work holds connections and the dependencies come and go.                *)
(*                                                                         *)
(* A step takes no time unless it waits for a connection or for a storage  *)
(* that is silent; only then does the clock of the probe move.             *)
(***************************************************************************)
EXTENDS Naturals, FiniteSets

CONSTANTS Backend,         \* "storage", "memory" or "nats", where the queue is
          Pool,            \* connections to the storage
          Work,            \* how many of them the program's work may hold
          AcquireTimeout,  \* of the pool
          RequestTimeout,  \* of the read and health routes
          ClientTimeout,   \* of the healthcheck subcommand
          MaxOutages       \* bound on the changes of the dependencies

ReadinessAssumption ==
  /\ Backend \in {"storage", "memory", "nats"}
  /\ Pool \in Nat \ {0} /\ Work \in 0..Pool
  /\ {AcquireTimeout, RequestTimeout, ClientTimeout} \subseteq Nat /\ MaxOutages \in Nat

VARIABLES storage,  \* "up", "down" (answers with an error) or "silent"
          nats,     \* whether the NATS server is up
          client,   \* connection_state of the NATS client
          busy,     \* connections held by the work
          at,       \* where the probe is
          elapsed,  \* since the probe's request
          seen,     \* dependencies the probe found in order
          last,     \* how the last probe ended
          outages

vars == <<storage, nats, client, busy, at, elapsed, seen, last, outages>>
outside == <<storage, nats, client, outages>>

Probing == at \in {"acquire", "query", "queue"}

TypeOK ==
  /\ storage \in {"up", "down", "silent"} /\ nats \in BOOLEAN
  /\ client \in {"connected", "disconnected"}
  /\ busy \in 0..Work /\ at \in {"idle", "acquire", "query", "queue"}
  /\ elapsed \in Nat /\ seen \subseteq {"storage", "queue"}
  /\ last \in {"none", "200", "503", "408", "gone"} /\ outages \in 0..MaxOutages
  /\ busy + (IF at = "query" THEN 1 ELSE 0) <= Pool

\* build has connected to both before the server listens.
Init ==
  /\ storage = "up" /\ nats = TRUE /\ client = "connected" /\ busy = 0
  /\ at = "idle" /\ elapsed = 0 /\ seen = {} /\ last = "none" /\ outages = 0

-----------------------------------------------------------------------------
(* The dependencies and the work.                                          *)

StorageChanges ==
  /\ outages < MaxOutages /\ outages' = outages + 1
  /\ storage' \in {"up", "down", "silent"} \ {storage}
  /\ UNCHANGED <<nats, client, busy, at, elapsed, seen, last>>

NatsChanges ==
  /\ Backend = "nats" /\ outages < MaxOutages /\ outages' = outages + 1
  /\ nats' = ~nats
  /\ UNCHANGED <<storage, client, busy, at, elapsed, seen, last>>

\* The client notices a lost server, or reconnects, some time later.
ClientNotices ==
  /\ client' = (IF nats THEN "connected" ELSE "disconnected") /\ client' # client
  /\ UNCHANGED <<storage, nats, busy, at, elapsed, seen, last, outages>>

Free == Pool - busy - (IF at = "query" THEN 1 ELSE 0)

WorkAcquires ==
  /\ busy < Work /\ Free > 0
  /\ busy' = busy + 1
  /\ UNCHANGED <<outside, at, elapsed, seen, last>>

WorkReturns ==
  /\ busy > 0 /\ storage # "silent"
  /\ busy' = busy - 1
  /\ UNCHANGED <<outside, at, elapsed, seen, last>>

-----------------------------------------------------------------------------
(* The probe.                                                              *)

Probe ==
  /\ at = "idle"
  /\ at' = "acquire" /\ elapsed' = 0 /\ seen' = {}
  /\ UNCHANGED <<outside, busy, last>>

Answer(status) ==
  /\ at' = "idle" /\ last' = status /\ elapsed' = 0 /\ UNCHANGED <<outside, busy, seen>>

Acquire ==
  /\ at = "acquire" /\ Free > 0
  /\ at' = "query"
  /\ UNCHANGED <<outside, busy, elapsed, seen, last>>

\* The pool gives up: check returns its error, which makes NotReady.
AcquireFails == at = "acquire" /\ Free = 0 /\ elapsed >= AcquireTimeout /\ Answer("503")

\* Faulty variant of QueryReturns: the error of the storage is dropped.
QueryReturns_Dropped ==
  /\ at = "query" /\ storage # "silent"
  /\ at' = "queue" /\ seen' = seen \union (IF storage = "up" THEN {"storage"} ELSE {})
  /\ UNCHANGED <<outside, busy, elapsed, last>>

\* SELECT 1, and `?`.
QueryReturns ==
  /\ at = "query"
  /\ \/ /\ storage = "up"
        /\ at' = "queue" /\ seen' = seen \union {"storage"}
        /\ UNCHANGED <<outside, busy, elapsed, last>>
     \/ storage = "down" /\ Answer("503")

\* Faulty variant of QueueOk: the client of NATS is not asked.
QueueOk_Always == TRUE

\* A queue in the storage or in memory has nothing of its own to check.
QueueOk == Backend = "nats" => client = "connected"

CheckQueue ==
  /\ at = "queue"
  /\ \/ /\ QueueOk
        /\ at' = "idle" /\ last' = "200" /\ elapsed' = 0
        /\ seen' = seen \union (IF Backend # "nats" \/ client = "connected" THEN {"queue"} ELSE {})
        /\ UNCHANGED <<outside, busy>>
     \/ ~QueueOk /\ Answer("503")

\* The deadline of the routes drops the handler and answers itself.
Deadline == at \in {"acquire", "query"} /\ elapsed >= RequestTimeout /\ Answer("408")

ClientGivesUp == at \in {"acquire", "query"} /\ elapsed >= ClientTimeout /\ Answer("gone")

Waits == (at = "acquire" /\ Free = 0) \/ (at = "query" /\ storage = "silent")

Tick ==
  /\ Waits /\ elapsed < ClientTimeout /\ elapsed < RequestTimeout
  /\ elapsed' = elapsed + 1
  /\ UNCHANGED <<outside, busy, at, seen, last>>

-----------------------------------------------------------------------------

Next ==
  \/ StorageChanges \/ NatsChanges \/ ClientNotices \/ WorkAcquires \/ WorkReturns
  \/ Probe \/ Acquire \/ AcquireFails \/ QueryReturns \/ CheckQueue
  \/ Deadline \/ ClientGivesUp \/ Tick

Spec == Init /\ [][Next]_vars

\* The orchestrator probes again and again, timers run out, the client of NATS
\* keeps trying, the work returns its connections, and the pool serves those who
\* wait for one in their order.
Fairness ==
  /\ WF_vars(Probe) /\ SF_vars(Acquire) /\ WF_vars(QueryReturns) /\ WF_vars(CheckQueue)
  /\ WF_vars(Tick) /\ WF_vars(Deadline \/ ClientGivesUp)
  /\ WF_vars(ClientNotices) /\ WF_vars(WorkReturns)

FairSpec == Spec /\ Fairness

-----------------------------------------------------------------------------
(* Properties.                                                             *)

(* A probe that answers 200 has seen the storage answer and, for a queue   *)
(* on NATS, its client connected.                                          *)
ReadyIsSound == at = "idle" /\ last = "200" => seen = {"storage", "queue"}

(* The same with the type invariant, which bounds the connections in use   *)
(* by the pool.                                                            *)
SignalsAreTrue == TypeOK /\ ReadyIsSound

(* No probe hangs: whatever the storage does, it ends, so that the         *)
(* orchestrator's next probe starts.                                       *)
ProbeEnds == Probing ~> at = "idle"

(* An outage that stays is seen: from some probe on none is ready. For     *)
(* NATS that rests on the client noticing.                                 *)
OutageSeen ==
  <>[](storage # "up" \/ (Backend = "nats" /\ ~nats)) => <>[](last # "200")

(* When the dependencies stay up, the probes are ready again and stay so,  *)
(* as long as the work leaves one connection to the probe.                 *)
Recovers == <>[](storage = "up" /\ nats) => <>[](last = "200")
=============================================================================
