--------------------------------- MODULE Upgrade ---------------------------------
(***************************************************************************)
(* Processes of two releases that start over one PostgreSQL database, each *)
(* with the migrations it was built with, and over one NATS consumer: the  *)
(* steps of AppConfig::build, the schema, and the rows that one release    *)
(* writes and the other one reads. Migration m adds a nullable column to a *)
(* table, as those that came after the first release do.                   *)
(*                                                                         *)
(* A fault is a step of a start that fails or a process that dies during   *)
(* it; a stop ends a process that serves. What ends is started again.      *)
(***************************************************************************)
EXTENDS Naturals

CONSTANTS Procs,
          Latest,       \* migrations of the newest release: 1..Latest
          Knows,        \* migrations that a process was built with: 1..Knows[p]
          Applied0,     \* migrations that the database starts with: 1..Applied0
          max_deliver,  \* CATAPULTE_QUEUE_MAX_DELIVER of a process
          Rows,         \* rows that may be written
          MaxFaults,    \* bound: faults in a behaviour
          MaxStops,     \* bound: stops in a behaviour
          None

UpgradeAssumption ==
  /\ Latest \in Nat
  /\ Knows \in [Procs -> 1..Latest]
  /\ Applied0 \in 0..Latest
  /\ max_deliver \in [Procs -> Nat]
  /\ MaxFaults \in Nat /\ MaxStops \in Nat
  /\ None \notin Procs \union Nat

VARIABLES applied,   \* migrations in the database
          lock,      \* who holds the lock of the migrations
          at,        \* where each process is
          todo,      \* the migrations a process is about to apply
          rows,      \* columns that each row has a value in, or not there
          unread,    \* reads that returned an error
          consumer,  \* max_deliver of the consumer in JetStream
          faults, stops

vars == <<applied, lock, at, todo, rows, unread, consumer, faults, stops>>

Stages  == {"connect", "lock", "list", "migrate", "unlock", "queue", "others"}
Columns == 1..Latest

\* The type invariant; what is to be applied is known to the holder of the lock only.
TypeOK ==
  /\ applied \in SUBSET Columns
  /\ lock \in Procs \union {None}
  /\ at \in [Procs -> {"off", "serving"} \union Stages]
  /\ todo \in [Procs -> SUBSET Columns]
  /\ \A p \in Procs : todo[p] # {} => at[p] = "migrate" /\ lock = p
  /\ rows \in [Rows -> [there : BOOLEAN, values : SUBSET Columns]]
  /\ unread \in Nat
  /\ consumer \in Nat \union {None}
  /\ faults \in 0..MaxFaults /\ stops \in 0..MaxStops

Init ==
  /\ applied = 1..Applied0
  /\ lock = None
  /\ at = [p \in Procs |-> "off"]
  /\ todo = [p \in Procs |-> {}]
  /\ rows = [r \in Rows |-> [there |-> FALSE, values |-> {}]]
  /\ unread = 0
  /\ consumer = None
  /\ faults = 0 /\ stops = 0

Goto(p, stage) == at' = [at EXCEPT ![p] = stage]
Step(p, from, to) == at[p] = from /\ Goto(p, to)
Data == <<rows, unread>>

-----------------------------------------------------------------------------
(* A start.                                                                *)

Start(p) ==
  /\ Step(p, "off", "connect")
  /\ UNCHANGED <<applied, lock, todo, Data, consumer, faults, stops>>

Connect(p) ==
  /\ Step(p, "connect", "lock")
  /\ UNCHANGED <<applied, lock, todo, Data, consumer, faults, stops>>

\* Faulty variant of Lock: migrations run side by side.
Lock_Shared(p) ==
  /\ Step(p, "lock", "list")
  /\ lock' = p
  /\ UNCHANGED <<applied, todo, Data, consumer, faults, stops>>

\* migrate: sqlx takes an advisory lock of the database,
Lock(p) ==
  /\ lock = None
  /\ Step(p, "lock", "list")
  /\ lock' = p
  /\ UNCHANGED <<applied, todo, Data, consumer, faults, stops>>

Known(p) == 1..Knows[p]

\* lists what is applied, refuses to go on when it does not know some of it,
List(p) ==
  /\ at[p] = "list"
  /\ IF applied \subseteq Known(p)
     THEN /\ todo' = [todo EXCEPT ![p] = Known(p) \ applied]
          /\ Goto(p, "migrate")
          /\ UNCHANGED lock
     ELSE Goto(p, "off") /\ lock' = None /\ UNCHANGED todo
  /\ UNCHANGED <<applied, Data, consumer, faults, stops>>

\* applies the rest in order, each in a transaction,
Apply(p) ==
  /\ at[p] = "migrate"
  /\ \E m \in todo[p] :
       /\ \A n \in todo[p] : m <= n
       /\ applied' = applied \union {m}
       /\ todo' = [todo EXCEPT ![p] = @ \ {m}]
  /\ UNCHANGED <<lock, at, Data, consumer, faults, stops>>

\* and gives the lock back.
Unlock(p) ==
  /\ at[p] = "migrate" /\ todo[p] = {}
  /\ lock' = None
  /\ Goto(p, "queue")
  /\ UNCHANGED <<applied, todo, Data, consumer, faults, stops>>

\* NatsAdapter::connect: get_or_create_consumer takes a consumer that exists as it is.
Queue(p) ==
  /\ Step(p, "queue", "others")
  /\ consumer' = IF consumer = None THEN max_deliver[p] ELSE consumer
  /\ UNCHANGED <<applied, lock, todo, Data, faults, stops>>

\* Publisher, senders, resolver, attachment store, fetcher and submissions.
Others(p) ==
  /\ Step(p, "others", "serving")
  /\ UNCHANGED <<applied, lock, todo, Data, consumer, faults, stops>>

\* The session that ends gives up its lock.
Free(p) == lock' = IF lock = p THEN None ELSE lock

\* A step fails, and build and with it the process; or the process dies.
Fail(p) ==
  /\ at[p] \in Stages
  /\ faults < MaxFaults /\ faults' = faults + 1
  /\ Goto(p, "off")
  /\ todo' = [todo EXCEPT ![p] = {}]
  /\ Free(p)
  /\ UNCHANGED <<applied, Data, consumer, stops>>

Stop(p) ==
  /\ Step(p, "serving", "off")
  /\ stops < MaxStops /\ stops' = stops + 1
  /\ UNCHANGED <<applied, lock, todo, Data, consumer, faults>>

-----------------------------------------------------------------------------
(* Rows.                                                                   *)

\* An INSERT names the columns that its release knows.
Write(p, r) ==
  /\ at[p] = "serving" /\ ~rows[r].there
  /\ rows' = [rows EXCEPT ![r] = [there |-> TRUE, values |-> Known(p)]]
  /\ UNCHANGED <<applied, lock, at, todo, unread, consumer, faults, stops>>

\* try_get of each column that the release knows: it must be in the table, and NULL
\* is read as None, as no trace or as no class.
Decodes(p, r) == Known(p) \subseteq applied

Read(p, r) ==
  /\ at[p] = "serving" /\ rows[r].there
  /\ unread' = unread + (IF Decodes(p, r) THEN 0 ELSE 1)
  /\ unread' <= 1  \* bound: one failed read is enough
  /\ UNCHANGED <<applied, lock, at, todo, rows, consumer, faults, stops>>

StartStep(p) ==
  \/ Start(p) \/ Connect(p) \/ Lock(p) \/ List(p) \/ Apply(p) \/ Unlock(p)
  \/ Queue(p) \/ Others(p)

Next ==
  \E p \in Procs :
    \/ StartStep(p) \/ Fail(p) \/ Stop(p)
    \/ \E r \in Rows : Write(p, r) \/ Read(p, r)

Spec == Init /\ [][Next]_vars

\* A supervisor starts again what has ended, and the steps of a start go on; the
\* database grants its lock to each of those that wait for it.
Fairness ==
  \A p \in Procs : WF_vars(StartStep(p)) /\ SF_vars(Lock(p))

FairSpec == Spec /\ Fairness

-----------------------------------------------------------------------------
(* Properties.                                                             *)

\* No migration is applied a second time, whoever starts at once: an ALTER TABLE
\* that adds a column again would end the start (migrate).
AppliedOnce == \A p \in Procs : todo[p] \intersect applied = {}

\* A process that serves has every table and column it was built for, and reads the
\* rows of the other release (deserialize_trace_context, row_to_event_record).
RowsAreReadable ==
  /\ \A p \in Procs : at[p] = "serving" => Known(p) \subseteq applied
  /\ unread = 0

\* The releases get along over one database, whatever fails or stops.
ReleasesAgree == TypeOK /\ AppliedOnce /\ RowsAreReadable

\* Starts that fail or die half-way, also under the lock, do not keep the newest
\* release from serving in the end.
NewestServes ==
  \A p \in Procs : Knows[p] = Latest => <>[](at[p] = "serving")
=================================================================================
