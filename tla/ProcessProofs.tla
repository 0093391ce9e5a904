---------------------------- MODULE ProcessProofs ----------------------------
(***************************************************************************)
(* What holds of the process around the gateway, for every value of the    *)
(* constants: its start and shutdown, the telemetry, the readiness probe,  *)
(* the sampled gauges, the subscribers and the settings. The parts are the *)
(* instances of MCProcess. The last theorems state the properties of its   *)
(* specification, of whose constants PartsAssumption says what each part   *)
(* assumes; before them that is a hypothesis of the theorem of the part.   *)
(***************************************************************************)
EXTENDS MCProcess, FiniteSetTheorems, TLAPS

(* Start and shutdown of the process (Application).                        *)

\* What the type invariant leaves open: work is a function on the tasks.
ProcessTyped == TypeOK /\ work \in [Tasks -> Nat]

\* Where the process is decides what its tasks can be: none runs before run, nor
\* after it has returned.
LifeInv ==
  /\ phase = "build" => \A t \in Tasks : tasks[t] = "down"
  /\ phase = "running" => built = 9
  /\ phase \in {"flush", "exited"} =>
       \A t \in Tasks : tasks[t] \in {"down"} \union Ended

ProcessInv == ProcessTyped /\ LifeInv

\* The process starts with nothing built and no task.
LEMMA ProcessStarts == Init => ProcessInv
  <1> SUFFICES ASSUME Init PROVE ProcessInv
    OBVIOUS
  <1>1. \A t \in Tasks : work[t] = 0 /\ Capacity[t] \in Nat /\ tasks[t] = "down"
    BY ApplicationAssumption DEF Init, ApplicationAssumption
  <1>2. work \in [Tasks -> Nat]
    BY DEF Init
  <1>3. \A t \in Tasks : work[t] \in 0..Capacity[t]
    BY <1>1
  <1>4. TypeOK
    <2>1. tasks \in [Tasks -> {"down", "running", "draining"} \union Ended]
      BY DEF Init
    <2>2. phase \in {"build", "running", "flush", "exited"} /\ result \in {None, "ok", "error"}
      BY DEF Init
    <2>3. built \in 0..9 /\ threads \in 0..MaxThreads
      BY ApplicationAssumption, SMT DEF Init, ApplicationAssumption
    <2>4. cancelled \in BOOLEAN
      BY Zenon DEF Init
    <2> QED
      BY <1>1, <1>3, <2>1, <2>2, <2>3, <2>4 DEF TypeOK
  <1>5. LifeInv
    BY <1>1 DEF Init, LifeInv
  <1> QED
    BY <1>2, <1>4, <1>5 DEF ProcessInv, ProcessTyped

\* Every step of main, of a task or of the signal keeps the types.
LEMMA ProcessStaysTyped ==
  ASSUME ProcessTyped, [Next]_vars
  PROVE  ProcessTyped'
  <1> USE DEF ProcessTyped
  <1>0. MaxThreads \in Nat /\ \A t \in Tasks : Capacity[t] \in Nat \ {0} /\ work[t] \in Nat
    BY ApplicationAssumption DEF ApplicationAssumption
  <1>1. CASE Build \/ BuildFails \/ Run
    BY <1>0, <1>1 DEF TypeOK, Build, BuildFails, Run, Ended
  <1>2. ASSUME NEW t \in Tasks,
               TakeWork(t) \/ FinishWork(t) \/ Offload(t) \/ Notice(t)
                 \/ Finish(t) \/ Fails(t)
        PROVE  ProcessTyped'
    <2>1. CASE TakeWork(t)
      BY <1>0, <2>1 DEF TypeOK, TakeWork, Ended
    <2>2. CASE FinishWork(t)
      BY <1>0, <2>2 DEF TypeOK, FinishWork, Ended
    <2>3. CASE Notice(t)
      BY <1>0, <2>3 DEF TypeOK, Notice, Ended
    <2>4. CASE Finish(t)
      BY <1>0, <2>4 DEF TypeOK, Finish, Ended
    <2>5. CASE Fails(t)
      BY <1>0, <2>5 DEF TypeOK, Fails, Ended
    <2>6. CASE Offload(t)
      BY <1>0, <2>6 DEF TypeOK, Offload, Ended
    <2> QED
      BY <1>2, <2>1, <2>2, <2>3, <2>4, <2>5, <2>6
  <1>3. CASE Signal
    BY <1>0, <1>3 DEF TypeOK, Signal
  <1>6. CASE Drained
    BY <1>0, <1>6 DEF TypeOK, Drained, Return
  <1>7. CASE Exit \/ CallReturns
    BY <1>0, <1>7 DEF TypeOK, Exit, CallReturns
  <1>4. CASE DrainTimeout
    BY <1>0, <1>4 DEF TypeOK, DrainTimeout, Return, Ended, Live
  <1>5. CASE UNCHANGED vars
    BY <1>5 DEF TypeOK, vars
  <1> QED
    BY <1>1, <1>2, <1>3, <1>4, <1>5, <1>6, <1>7 DEF Next

\* Every step keeps the tasks within the life of the process: a run that returns has
\* none left, whether they were drained or aborted.
LEMMA LifeStep ==
  ASSUME ProcessInv, [Next]_vars
  PROVE  LifeInv'
  <1> USE DEF ProcessInv, ProcessTyped, LifeInv
  <1>1. CASE Build \/ BuildFails \/ Run
    BY <1>1 DEF TypeOK, Build, BuildFails, Run
  <1>2. ASSUME NEW t \in Tasks,
               TakeWork(t) \/ FinishWork(t) \/ Offload(t) \/ Notice(t)
                 \/ Finish(t) \/ Fails(t)
        PROVE  LifeInv'
    BY <1>2 DEF TypeOK, TakeWork, FinishWork, Offload, Notice, Finish,
                Fails, Ended
  <1>3. CASE Signal \/ Exit \/ CallReturns
    BY <1>3 DEF TypeOK, Signal, Exit, CallReturns
  <1>4. CASE Drained \/ DrainTimeout
    BY <1>4 DEF TypeOK, Drained, DrainTimeout, Return, Live,
                Ended
  <1>5. CASE UNCHANGED vars
    BY <1>5 DEF vars
  <1> QED
    BY <1>1, <1>2, <1>3, <1>4, <1>5 DEF Next

\* The types and the life of the process hold in every state of it.
LEMMA ProcessInvariant == Spec => []ProcessInv
  <1>1. Init => ProcessInv
    BY ProcessStarts
  <1>2. ProcessInv /\ [Next]_vars => ProcessInv'
    BY ProcessStaysTyped, LifeStep DEF ProcessInv
  <1> QED
    BY <1>1, <1>2, PTL DEF Spec

\* From start to exit no task runs in a process that is not completely built or whose
\* run has returned, and once the signal came none takes up new work (Application::run).
THEOREM LivesAreOrdered == Spec => LifeInOrder
  <1>1. ProcessInv => TypeOK /\ RunsWithinLife
    BY DEF ProcessInv, ProcessTyped, LifeInv, TypeOK, RunsWithinLife, Live,
           Ended
  <1>2. ProcessInv /\ [Next]_vars =>
          [\A t \in Tasks : cancelled /\ Checks(t) => work'[t] <= work[t]]_vars
    <2> SUFFICES ASSUME ProcessInv, Next,
                        NEW t \in Tasks, cancelled, Checks(t)
                 PROVE  work'[t] <= work[t]
      OBVIOUS
    <2>1. work \in [Tasks -> Nat]
      BY DEF ProcessInv, ProcessTyped
    <2>2. CASE \E u \in Tasks : TakeWork(u)
      BY <2>1, <2>2 DEF TakeWork
    <2>3. CASE UNCHANGED work
      BY <2>1, <2>3
    <2>4. ASSUME NEW u \in Tasks, FinishWork(u) \/ Fails(u)
          PROVE  work'[t] <= work[t]
      <3>1. work[t] \in Nat /\ work[u] \in Nat
        BY <2>1
      <3>2. work'[t] \in {work[t], work[t] - 1, 0}
        BY <2>1, <2>4 DEF FinishWork, Fails
      <3> QED
        BY <3>1, <3>2
    <2>5. CASE DrainTimeout
      BY <2>1, <2>5 DEF DrainTimeout
    <2> QED
      BY <2>2, <2>3, <2>4, <2>5 DEF Next, Build, BuildFails, Run, Notice,
         Offload, CallReturns, Finish, Signal, Drained, Exit
  <1> QED
    BY <1>1, <1>2, ProcessInvariant, PTL DEF Spec, LifeInOrder, NothingTakenAfterCancel
-----------------------------------------------------------------------------
(* Telemetry.                                                              *)

Closed(s) == provider[s] = "closed"

\* Before the application runs: what has been built so far, and by whom.
StartInv ==
  /\ step \in {"traces", "metrics", "build", "run"} =>
       blocking = "none" /\ returned = "none" /\ \A s \in Exporting!Signals : ~Closed(s)
  /\ step = "traces" => \A s \in Exporting!Signals : provider[s] = "off"
  /\ step = "metrics" =>
       /\ provider["metrics"] = "off"
       /\ provider["traces"] = "on" => Exporting!SpanExporterBuilds(exporters)

\* And after it: what the blocking thread has passed is no longer on, and what a
\* closed provider still holds it refused to send.
FlushInv ==
  /\ blocking = "metrics" => provider["traces"] # "on"
  /\ blocking = "done" => \A s \in Exporting!Signals : provider[s] # "on"
  /\ \A s \in pending : Closed(s) => s \in refused
  /\ returned = "ok" => blocking # "none"
  /\ step = "exited" => blocking \notin Exporting!Signals

TelemetryInv == Exporting!TypeOK /\ StartInv /\ FlushInv

\* A process starts with its providers off and nothing to flush.
LEMMA TelemetryStarts == Exporting!Init => TelemetryInv
  BY DEF Exporting!Init, TelemetryInv, Exporting!TypeOK, StartInv, FlushInv, Closed, Exporting!Steps,
         Exporting!Signals

\* Every step of main, of the providers and of the blocking thread keeps the invariant.
LEMMA TelemetryStep ==
  ASSUME TelemetryInv, [Exporting!Next]_Exporting!vars
  PROVE  TelemetryInv'
  <1> USE DEF TelemetryInv, Exporting!TypeOK, StartInv, FlushInv, Closed, Exporting!Steps,
              Exporting!Signals, Exporting!Return
  <1>1. CASE Exporting!InitTraces
    BY <1>1 DEF Exporting!InitTraces, Exporting!SpanExporterBuilds
  <1>2. CASE Exporting!InitMetrics
    BY <1>2 DEF Exporting!InitMetrics
  <1>3. CASE Exporting!AppStep \/ Exporting!AppFails
    BY <1>3 DEF Exporting!AppStep, Exporting!AppFails
  <1>4. CASE Exporting!SpawnFlush \/ Exporting!Flushed \/ Exporting!FlushTimeout \/ Exporting!DropRuntime
    BY <1>4 DEF Exporting!SpawnFlush, Exporting!Flushed, Exporting!FlushTimeout, Exporting!DropRuntime
  <1>5. ASSUME NEW s \in Exporting!Signals, Exporting!Record(s) \/ Exporting!Export(s)
        PROVE  TelemetryInv'
    BY <1>5 DEF Exporting!Record, Exporting!Export
  <1>6. ASSUME NEW s \in Exporting!Signals, Exporting!Shutdown(s)
        PROVE  TelemetryInv'
    BY <1>6, ZenonT(30) DEF Exporting!Shutdown, Exporting!After
  <1>7. CASE UNCHANGED Exporting!vars
    BY <1>7 DEF Exporting!vars, Exporting!SpanExporterBuilds
  <1> QED
    BY <1>1, <1>2, <1>3, <1>4, <1>5, <1>6, <1>7 DEF Exporting!Next

\* A start that an exporter refuses leaves no provider behind, for both read the same
\* settings (init); and a process that ends well has given both providers their chance
\* to flush, whatever the first one answered (main, TelemetryGuard::shutdown).
THEOREM TelemetryIsTrue == Exporting!Spec => Exporting!SignalsAreTrue
  <1>1. TelemetryInv => Exporting!TypeOK /\ Exporting!FlushedAtExit
    BY DEF TelemetryInv, Exporting!TypeOK, FlushInv, Closed, Exporting!FlushedAtExit, Exporting!Signals
  <1>2. TelemetryInv /\ [Exporting!Next]_Exporting!vars =>
          [(step \in {"traces", "metrics"} /\ step' = "drop") =>
             (\A s \in Exporting!Signals : provider[s] = "off")]_Exporting!vars
    BY DEF TelemetryInv, Exporting!TypeOK, StartInv, Closed, Exporting!Next, Exporting!InitTraces,
           Exporting!InitMetrics, Exporting!AppStep, Exporting!AppFails, Exporting!SpawnFlush,
           Exporting!Flushed, Exporting!FlushTimeout, Exporting!DropRuntime, Exporting!Record,
           Exporting!Export, Exporting!Shutdown, Exporting!Return, Exporting!SpanExporterBuilds,
           Exporting!MetricExporterBuilds, Exporting!Signals
  <1> QED
    BY <1>1, <1>2, TelemetryStarts, TelemetryStep, PTL
    DEF Exporting!Spec, Exporting!SignalsAreTrue, Exporting!NoHalfInit

-----------------------------------------------------------------------------
(* Readiness.                                                              *)

\* The type invariant, of the dependencies and of the program.
OutsideOK ==
  /\ storage \in {"up", "down", "silent"} /\ nats \in BOOLEAN
  /\ client \in {"connected", "disconnected"} /\ outages \in 0..MaxOutages

BusyOK ==
  /\ busy \in 0..Work /\ at \in {"idle", "acquire", "query", "queue"}
  /\ busy + (IF at = "query" THEN 1 ELSE 0) <= Pool

InsideOK ==
  /\ at \in {"idle", "acquire", "query", "queue"}
  /\ elapsed \in Nat /\ seen \subseteq {"storage", "queue"}
  /\ last \in {"none", "200", "503", "408", "gone"}

\* A probe that asks the queue has had its answer from the storage.
ProbeInv == InsideOK /\ Probed!ReadyIsSound /\ (at = "queue" => "storage" \in seen)

\* The dependencies come and go without touching the probe.
LEMMA OutsideStep ==
  ASSUME Probed!ReadinessAssumption, OutsideOK, [Probed!Next]_Probed!vars
  PROVE  OutsideOK'
  <1>1. CASE UNCHANGED Probed!outside
    BY <1>1, Zenon DEF OutsideOK, Probed!outside
  <1>2. ASSUME outages < MaxOutages, outages' = outages + 1 PROVE outages' \in 0..MaxOutages
    BY <1>2, SMT DEF OutsideOK, Probed!ReadinessAssumption
  <1>3. CASE Probed!StorageChanges
    BY <1>2, <1>3, Zenon DEF OutsideOK, Probed!StorageChanges
  <1>4. CASE Probed!NatsChanges
    <2>1. nats' \in BOOLEAN
      BY <1>4, Zenon DEF Probed!NatsChanges
    <2> QED
      BY <1>2, <1>4, <2>1, Zenon DEF OutsideOK, Probed!NatsChanges
  <1>5. CASE Probed!ClientNotices
    <2>1. client' \in {"connected", "disconnected"}
      BY <1>5, Zenon DEF Probed!ClientNotices
    <2> QED
      BY <1>5, <2>1, Zenon DEF OutsideOK, Probed!ClientNotices
  <1> QED
    BY <1>1, <1>3, <1>4, <1>5, Zenon
    DEF Probed!Next, Probed!vars, Probed!outside, Probed!WorkAcquires, Probed!WorkReturns,
        Probed!Probe, Probed!Acquire, Probed!AcquireFails, Probed!QueryReturns, Probed!CheckQueue,
        Probed!Deadline, Probed!ClientGivesUp, Probed!Tick, Probed!Answer

\* The work and the probe together never hold more connections than there are.
LEMMA BusyStep ==
  ASSUME Probed!ReadinessAssumption, BusyOK, [Probed!Next]_Probed!vars
  PROVE  BusyOK'
  <1>0. Pool \in Nat /\ Work \in Nat /\ Work <= Pool /\ busy \in Nat /\ busy <= Work
    BY DEF Probed!ReadinessAssumption, BusyOK
  <1>1. CASE UNCHANGED busy /\ at' \in {"idle", "acquire", "queue"}
    BY <1>0, <1>1 DEF BusyOK
  <1>2. CASE Probed!WorkAcquires
    BY <1>0, <1>2 DEF BusyOK, Probed!WorkAcquires, Probed!Free
  <1>3. CASE Probed!WorkReturns
    BY <1>0, <1>3 DEF BusyOK, Probed!WorkReturns
  <1>4. CASE Probed!Acquire
    BY <1>0, <1>4 DEF BusyOK, Probed!Acquire, Probed!Free
  <1>5. CASE UNCHANGED <<busy, at>>
    BY <1>5 DEF BusyOK
  <1> QED
    BY <1>1, <1>2, <1>3, <1>4, <1>5, Zenon
    DEF Probed!Next, Probed!vars, Probed!StorageChanges, Probed!NatsChanges, Probed!ClientNotices,
        Probed!Probe, Probed!AcquireFails, Probed!QueryReturns, Probed!CheckQueue,
        Probed!Deadline, Probed!ClientGivesUp, Probed!Tick, Probed!Answer

\* Every step of the probe and of its deadlines keeps what the probe knows.
LEMMA ProbeStep ==
  ASSUME Probed!ReadinessAssumption, ProbeInv, [Probed!Next]_Probed!vars
  PROVE  ProbeInv'
  <1> USE DEF ProbeInv, InsideOK, Probed!ReadyIsSound
  <1>1. CASE UNCHANGED <<at, elapsed, seen, last>>
    BY <1>1
  <1>2. CASE Probed!Probe \/ Probed!Acquire
    <2>1. CASE Probed!Probe
      BY <2>1 DEF Probed!Probe
    <2>2. CASE Probed!Acquire
      <3>1. UNCHANGED <<elapsed, seen, last>> /\ at' = "query"
        BY <2>2, Zenon DEF Probed!Acquire
      <3> QED
        BY <3>1
    <2> QED
      BY <1>2, <2>1, <2>2, Zenon
  <1>3. CASE \E status \in {"503", "408", "gone"} : Probed!Answer(status)
    BY <1>3 DEF Probed!Answer
  <1>4. CASE Probed!QueryReturns
    BY <1>3, <1>4 DEF Probed!QueryReturns
  <1>5. CASE Probed!CheckQueue
    <2>1. CASE Probed!QueueOk
      <3>1. seen' = seen \union {"queue"} /\ at' = "idle" /\ last' = "200" /\ elapsed' = 0
        BY <1>5, <2>1, Zenon DEF Probed!CheckQueue, Probed!QueueOk
      <3>2. "storage" \in seen
        BY <1>5, Zenon DEF Probed!CheckQueue
      <3>3. seen' = {"storage", "queue"}
        BY <3>1, <3>2
      <3> QED
        BY <3>1, <3>3
    <2>2. CASE ~Probed!QueueOk
      BY <1>3, <1>5, <2>2, Zenon DEF Probed!CheckQueue
    <2> QED
      BY <2>1, <2>2
  <1>6. CASE Probed!Tick
    BY <1>6 DEF Probed!Tick
  <1> QED
    BY <1>1, <1>2, <1>3, <1>4, <1>5, <1>6, Zenon
    DEF Probed!Next, Probed!vars, Probed!StorageChanges, Probed!NatsChanges, Probed!ClientNotices,
        Probed!WorkAcquires, Probed!WorkReturns, Probed!AcquireFails, Probed!Deadline,
        Probed!ClientGivesUp

\* A probe that answers 200 has seen the storage answer and, for a queue on NATS, its
\* client connected (health_ready, readiness), and the connections in use never exceed
\* the pool, whatever the dependencies and the work do meanwhile.
THEOREM ReadinessIsTrue ==
  Probed!ReadinessAssumption => (Probed!Spec => []Probed!SignalsAreTrue)
  <1> SUFFICES ASSUME Probed!ReadinessAssumption
               PROVE  Probed!Spec => []Probed!SignalsAreTrue
    OBVIOUS
  <1>1. Probed!Init => ProbeInv
    BY DEF Probed!Init, ProbeInv, InsideOK, Probed!ReadyIsSound
  <1>2. Probed!Init => OutsideOK
    <2>1. Probed!Init => nats \in BOOLEAN
      BY Zenon DEF Probed!Init
    <2>2. Probed!Init => outages \in 0..MaxOutages
      BY SMT DEF Probed!Init, Probed!ReadinessAssumption
    <2> QED
      BY <2>1, <2>2, Zenon DEF Probed!Init, OutsideOK
  <1>3. Probed!Init => BusyOK
    BY DEF Probed!Init, BusyOK, Probed!ReadinessAssumption
  <1>4. ProbeInv /\ BusyOK /\ OutsideOK => Probed!SignalsAreTrue
    BY Zenon DEF ProbeInv, InsideOK, BusyOK, OutsideOK, Probed!SignalsAreTrue, Probed!TypeOK
  <1> QED
    BY <1>1, <1>2, <1>3, <1>4, ProbeStep, BusyStep, OutsideStep, PTL DEF Probed!Spec
-----------------------------------------------------------------------------
(* Gauges.                                                                 *)

Entered == [at : Sampled!Places, until : Nat, claims : 0..MaxClaims]

EntriesAt(place) == {e \in Entries : entry[e].at = place}

\* The counter of the memory queue is the entries in its channel, which is why it
\* does not wrap; and what was sent is what was settled.
CountersInv ==
  /\ backend = "memory" => ready_count = Cardinality(EntriesAt("queued"))
  /\ backend # "memory" => ready_count = 0
  /\ sent = Cardinality(EntriesAt("settled"))

ClockInv == now \in 1..MaxTime /\ faults \in 0..MaxFaults /\ backend \in Backends

GaugesInv ==
  /\ ClockInv
  /\ entry \in [Entries -> Entered]
  /\ CountersInv
  /\ sampler \in {"sleep", "queue", "senders"}
  /\ queue_pending \in Nat \union {Sampled!NotSet}
  /\ sender_sent \in Nat \union {Sampled!NotSet}

\* Cardinality and finiteness mean in the instance what they mean here.
LEMMA SameCounts ==
  ASSUME NEW S
  PROVE  Sampled!Cardinality(S) = Cardinality(S) /\ (Sampled!IsFiniteSet(S) <=> IsFiniteSet(S))
  <1>1. Sampled!Cardinality(S) = Cardinality(S)
    BY DEF Sampled!Cardinality, Cardinality
  <1>2. Sampled!IsFiniteSet(S) <=> IsFiniteSet(S)
    BY DEF Sampled!IsFiniteSet, IsFiniteSet
  <1> QED
    BY <1>1, <1>2

\* Any set of entries is finite, and not larger than that of all entries.
LEMMA EntriesAreFinite ==
  ASSUME Sampled!GaugesAssumption, NEW S \in SUBSET Entries
  PROVE  IsFiniteSet(S) /\ Cardinality(S) \in Nat /\ Cardinality(Entries) \in Nat
           /\ Cardinality(S) <= Cardinality(Entries)
  <1>1. IsFiniteSet(Entries)
    BY SameCounts DEF Sampled!GaugesAssumption
  <1> QED
    BY <1>1, FS_Subset, FS_CardinalityType

\* A gauge reads a number, whatever the backend counts.
LEMMA ReadsAreNaturals ==
  ASSUME Sampled!GaugesAssumption, GaugesInv
  PROVE  Sampled!pending \in Nat /\ sent \in 0..Cardinality(Entries) /\ ready_count \in Nat
  <1>1. sent \in 0..Cardinality(Entries) /\ ready_count \in Nat
    <2>1. EntriesAt("settled") \in SUBSET Entries /\ EntriesAt("queued") \in SUBSET Entries
      BY DEF EntriesAt
    <2> QED
      BY <2>1, EntriesAreFinite DEF GaugesInv, CountersInv
  <1>2. \A S \in SUBSET Entries : Sampled!Cardinality(S) \in Nat
    BY EntriesAreFinite, SameCounts
  <1>3. Sampled!Cardinality({e \in Entries : Sampled!InQueue(e) /\ ~Sampled!HiddenRow(e)}) \in Nat
    <2>1. {e \in Entries : Sampled!InQueue(e) /\ ~Sampled!HiddenRow(e)} \in SUBSET Entries
      OBVIOUS
    <2> QED
      BY <1>2, <2>1
  <1>4. Sampled!num_pending \in Nat
    <2>1. {e \in Entries : entry[e].at = "queued" /\ entry[e].claims = 0} \in SUBSET Entries
      OBVIOUS
    <2> QED
      BY <1>2, <2>1 DEF Sampled!num_pending
  <1>5. backend \in {"sqlite", "postgres", "memory", "nats"}
    BY DEF GaugesInv, ClockInv, Sampled!GaugesAssumption
  <1> QED
    BY <1>1, <1>3, <1>4, <1>5 DEF Sampled!pending, Sampled!InStorage

\* An entry that moves from one place to another leaves the first and joins the second.
LEMMA EntryMoves ==
  ASSUME Sampled!GaugesAssumption, entry \in [Entries -> Entered],
         NEW e \in Entries, NEW from, entry[e].at = from, NEW r \in Entered, from # r.at,
         entry' = [entry EXCEPT ![e] = r]
  PROVE  /\ entry' \in [Entries -> Entered]
         /\ \A p : p \notin {from, r.at} => EntriesAt(p)' = EntriesAt(p)
         /\ Cardinality(EntriesAt(r.at)') = Cardinality(EntriesAt(r.at)) + 1
         /\ Cardinality(EntriesAt(from)') = Cardinality(EntriesAt(from)) - 1
         /\ Cardinality(EntriesAt(from)) \in Nat /\ Cardinality(EntriesAt(r.at)) \in Nat
  <1>1. entry' \in [Entries -> Entered]
    OBVIOUS
  <1>2. \A x \in Entries : entry'[x] = IF x = e THEN r ELSE entry[x]
    OBVIOUS
  <1>3. \A p : p \notin {from, r.at} => EntriesAt(p)' = EntriesAt(p)
    BY <1>2 DEF EntriesAt
  <1>4. EntriesAt(r.at)' = EntriesAt(r.at) \union {e} /\ e \notin EntriesAt(r.at)
    BY <1>2 DEF EntriesAt
  <1>5. EntriesAt(from)' = EntriesAt(from) \ {e} /\ e \in EntriesAt(from)
    BY <1>2 DEF EntriesAt
  <1>6. EntriesAt(from) \in SUBSET Entries /\ EntriesAt(r.at) \in SUBSET Entries
    BY DEF EntriesAt
  <1>7. /\ IsFiniteSet(EntriesAt(from)) /\ Cardinality(EntriesAt(from)) \in Nat
        /\ IsFiniteSet(EntriesAt(r.at)) /\ Cardinality(EntriesAt(r.at)) \in Nat
    BY <1>6, EntriesAreFinite
  <1>8. Cardinality(EntriesAt(r.at)') = Cardinality(EntriesAt(r.at)) + 1
    BY <1>4, <1>7, FS_AddElement
  <1>9. Cardinality(EntriesAt(from)') = Cardinality(EntriesAt(from)) - 1
    BY <1>5, <1>7, FS_RemoveElement, ZenonT(30)
  <1> QED
    BY <1>1, <1>3, <1>7, <1>8, <1>9

\* What the counters become when an entry moves.
LEMMA CountersFollow ==
  ASSUME Sampled!GaugesAssumption, entry \in [Entries -> Entered], CountersInv, UNCHANGED backend,
         NEW e \in Entries, NEW from, entry[e].at = from, NEW r \in Entered, from # r.at,
         entry' = [entry EXCEPT ![e] = r],
         from # "settled",
         sent' = (IF r.at = "settled" THEN sent + 1 ELSE sent),
         backend # "memory" => ready_count' = ready_count,
         backend = "memory" =>
           ready_count' = (IF from = "queued" THEN ready_count - 1
                           ELSE IF r.at = "queued" THEN ready_count + 1 ELSE ready_count)
  PROVE  entry' \in [Entries -> Entered] /\ CountersInv'
  <1>1. /\ entry' \in [Entries -> Entered]
        /\ \A p : p \notin {from, r.at} => EntriesAt(p)' = EntriesAt(p)
        /\ Cardinality(EntriesAt(r.at)') = Cardinality(EntriesAt(r.at)) + 1
        /\ Cardinality(EntriesAt(from)') = Cardinality(EntriesAt(from)) - 1
    BY EntryMoves, ZenonT(30)
  <1>2. Cardinality(EntriesAt("settled")') =
          IF r.at = "settled" THEN Cardinality(EntriesAt("settled")) + 1
          ELSE Cardinality(EntriesAt("settled"))
    BY <1>1
  <1>3. Cardinality(EntriesAt("queued")') =
          IF from = "queued" THEN Cardinality(EntriesAt("queued")) - 1
          ELSE IF r.at = "queued" THEN Cardinality(EntriesAt("queued")) + 1
          ELSE Cardinality(EntriesAt("queued"))
    BY <1>1
  <1> QED
    BY <1>1, <1>2, <1>3 DEF CountersInv

\* An enqueue, a dequeue, an ack, a nack and the task that resends keep the counters
\* in step with the entries.
LEMMA EntryStep ==
  ASSUME Sampled!GaugesAssumption, GaugesInv, NEW e \in Entries,
         Sampled!Enqueue(e) \/ Sampled!Dequeue(e) \/ Sampled!Ack(e) \/ Sampled!Nack(e)
           \/ Sampled!Resend(e)
  PROVE  GaugesInv'
  <1>1. entry \in [Entries -> Entered] /\ CountersInv /\ now \in Nat
          /\ ClaimFor \in Nat /\ RetryAfter \in Nat /\ MaxClaims \in Nat
    BY DEF GaugesInv, ClockInv, Sampled!GaugesAssumption
  <1>2. entry[e] \in Entered
    BY <1>1
  <1>3. entry[e].until \in Nat /\ entry[e].claims \in 0..MaxClaims
    BY <1>2 DEF Entered
  <1>4. UNCHANGED <<backend, now, sampler, queue_pending, sender_sent, faults>>
    BY Zenon DEF Sampled!Enqueue, Sampled!Dequeue, Sampled!Ack, Sampled!Nack, Sampled!Resend
  <1>5. UNCHANGED backend
    BY <1>4
  <1>6. SUFFICES entry' \in [Entries -> Entered] /\ CountersInv'
    BY <1>4 DEF GaugesInv, ClockInv, Sampled!NotSet
  <1>7. PICK from : entry[e].at = from
    OBVIOUS
  <1>8. CASE Sampled!Enqueue(e)
    <2>1. PICK r \in Entered : r = [entry[e] EXCEPT !.at = "queued"]
      BY <1>2 DEF Entered, Sampled!Places
    <2>2. r.at = "queued" /\ from = "absent" /\ entry' = [entry EXCEPT ![e] = r]
      BY <1>1, <1>7, <1>8, <2>1 DEF Entered, Sampled!Enqueue
    <2>3. ready_count' = (IF backend = "memory" THEN ready_count + 1 ELSE ready_count)
            /\ sent' = sent
      BY <1>8 DEF Sampled!Enqueue, Sampled!Count
    <2> QED
      BY <1>1, <1>5, <1>7, <2>2, <2>3, CountersFollow
  <1>9. CASE Sampled!Dequeue(e)
    <2>1. entry[e].claims + 1 \in 0..MaxClaims /\ now + ClaimFor \in Nat
      BY <1>1, <1>3, <1>9 DEF Sampled!Dequeue
    <2>2. PICK r \in Entered :
            r = [at |-> "claimed", until |-> now + ClaimFor, claims |-> entry[e].claims + 1]
      BY <2>1 DEF Entered, Sampled!Places
    <2>3. r.at = "claimed" /\ entry' = [entry EXCEPT ![e] = r]
      BY <1>1, <1>9, <2>2 DEF Sampled!Dequeue
    <2>4. ready_count' = (IF backend = "memory" THEN ready_count + (-1) ELSE ready_count)
            /\ sent' = sent
      BY <1>9 DEF Sampled!Dequeue, Sampled!Count
    <2>5. from \in {"queued", "claimed", "delayed"} /\ (backend = "memory" => from = "queued")
      BY <1>7, <1>9 DEF Sampled!Dequeue, Sampled!Claimable, Sampled!InQueue
    <2>6. CASE from = "claimed"
      <3>1. entry' \in [Entries -> Entered]
        BY <1>1, <2>3
      <3>2. EntriesAt("settled")' = EntriesAt("settled")
        BY <1>1, <1>7, <2>3, <2>6 DEF EntriesAt
      <3> QED
        BY <1>1, <1>5, <2>4, <2>5, <2>6, <3>1, <3>2 DEF CountersInv
    <2>7. CASE from # "claimed"
      <3>1. backend = "memory" => ready_count' = ready_count - 1
        <4>1. backend = "memory" => ready_count \in Nat
          BY ReadsAreNaturals
        <4> QED
          BY <2>4, <4>1
      <3>2. backend # "memory" => ready_count' = ready_count
        BY <2>4
      <3> QED
        BY <1>1, <1>5, <1>7, <2>3, <2>4, <2>5, <2>7, <3>1, <3>2, CountersFollow
    <2> QED
      BY <2>6, <2>7
  <1>10. CASE Sampled!Ack(e)
    <2>1. PICK r \in Entered : r = [entry[e] EXCEPT !.at = "settled"]
      BY <1>2 DEF Entered, Sampled!Places
    <2>2. r.at = "settled" /\ from = "claimed" /\ entry' = [entry EXCEPT ![e] = r]
            /\ ready_count' = ready_count /\ sent' = sent + 1
      BY <1>1, <1>7, <1>10, <2>1 DEF Entered, Sampled!Ack
    <2> QED
      BY <1>1, <1>5, <1>7, <2>2, CountersFollow
  <1>11. CASE Sampled!Nack(e)
    <2>1. now + RetryAfter \in Nat
      BY <1>1
    <2>2. PICK r : r = [entry[e] EXCEPT !.at = "delayed", !.until = now + RetryAfter]
      OBVIOUS
    <2>3. r \in Entered /\ r.at = "delayed"
      BY <1>2, <2>1, <2>2 DEF Entered, Sampled!Places
    <2>4. from = "claimed" /\ entry' = [entry EXCEPT ![e] = r]
            /\ ready_count' = ready_count /\ sent' = sent
      BY <1>1, <1>2, <1>7, <1>11, <2>2 DEF Sampled!Nack, Entered
    <2> QED
      BY <1>1, <1>5, <1>7, <2>3, <2>4, CountersFollow
  <1>12. CASE Sampled!Resend(e)
    <2>1. PICK r : r = [entry[e] EXCEPT !.at = "queued", !.until = 0]
      OBVIOUS
    <2>2. r \in Entered /\ r.at = "queued"
      BY <1>2, <2>1 DEF Entered, Sampled!Places
    <2>3. from = "delayed" /\ entry' = [entry EXCEPT ![e] = r] /\ sent' = sent
      BY <1>1, <1>2, <1>7, <1>12, <2>1 DEF Sampled!Resend, Entered
    <2>4. ready_count' = (IF backend = "memory" THEN ready_count + 1 ELSE ready_count)
      BY <1>12 DEF Sampled!Resend, Sampled!Count
    <2> QED
      BY <1>1, <1>5, <1>7, <2>2, <2>3, <2>4, CountersFollow
  <1> QED
    BY <1>8, <1>9, <1>10, <1>11, <1>12

\* The sampler only reads, and leaves a gauge whose read fails as it is.
LEMMA SampleStep ==
  ASSUME Sampled!GaugesAssumption, GaugesInv,
         Sampled!Wake \/ Sampled!SampleQueue \/ Sampled!SampleSenders
  PROVE  GaugesInv'
  <1>1. Sampled!pending \in Nat /\ sent \in Nat
    <2>1. Cardinality(Entries) \in Nat
      BY EntriesAreFinite
    <2> QED
      BY <2>1, ReadsAreNaturals
  <1>2. UNCHANGED <<backend, entry, now, ready_count, sent>>
    BY Zenon DEF Sampled!Wake, Sampled!SampleQueue, Sampled!SampleSenders
  <1>3. CountersInv'
    BY <1>2 DEF GaugesInv, CountersInv, EntriesAt
  <1>4. CASE Sampled!Wake
    BY <1>2, <1>3, <1>4 DEF GaugesInv, ClockInv, Sampled!Wake, Sampled!NotSet
  <1>5. CASE Sampled!SampleQueue
    BY <1>1, <1>2, <1>3, <1>5
    DEF GaugesInv, ClockInv, Sampled!SampleQueue, Sampled!Read, Sampled!NotSet, Sampled!GaugesAssumption
  <1>6. CASE Sampled!SampleSenders
    BY <1>1, <1>2, <1>3, <1>6
    DEF GaugesInv, ClockInv, Sampled!SampleSenders, Sampled!Read, Sampled!NotSet, Sampled!GaugesAssumption
  <1> QED
    BY <1>4, <1>5, <1>6

\* No gauge is ever below zero: the counter of the memory queue (ready_count) counts
\* the entries of its channel at every moment, also while nacked ones sleep, and what
\* a sender has sent is at most what was enqueued (sample_once, pending).
THEOREM GaugesAreNaturals == Sampled!GaugesAssumption => (Sampled!Spec => []Sampled!TypeOK)
  <1> SUFFICES ASSUME Sampled!GaugesAssumption PROVE Sampled!Spec => []Sampled!TypeOK
    OBVIOUS
  <1>1. Sampled!Init => GaugesInv
    <2> SUFFICES ASSUME Sampled!Init PROVE GaugesInv
      OBVIOUS
    <2>1. EntriesAt("queued") = {} /\ EntriesAt("settled") = {}
      BY DEF Sampled!Init, EntriesAt
    <2>2. CountersInv
      BY <2>1, FS_EmptySet DEF Sampled!Init, CountersInv
    <2>3. entry \in [Entries -> Entered] /\ 1 \in 1..MaxTime /\ 0 \in 0..MaxFaults
      BY DEF Sampled!Init, Entered, Sampled!Places, Sampled!GaugesAssumption
    <2> QED
      BY <2>2, <2>3 DEF Sampled!Init, GaugesInv, ClockInv
  <1>2. GaugesInv /\ [Sampled!Next]_Sampled!vars => GaugesInv'
    <2> SUFFICES ASSUME GaugesInv, [Sampled!Next]_Sampled!vars PROVE GaugesInv'
      OBVIOUS
    <2>1. CASE Sampled!Tick
      <3>1. now' \in 1..MaxTime
        BY <2>1 DEF Sampled!Tick, GaugesInv, ClockInv, Sampled!GaugesAssumption
      <3> QED
        BY <2>1, <3>1 DEF Sampled!Tick, GaugesInv, ClockInv, CountersInv, EntriesAt, Sampled!NotSet
    <2>2. CASE UNCHANGED Sampled!vars
      BY <2>2 DEF Sampled!vars, GaugesInv, ClockInv, CountersInv, EntriesAt, Sampled!NotSet
    <2> QED
      BY <2>1, <2>2, EntryStep, SampleStep DEF Sampled!Next
  <1>3. GaugesInv => Sampled!TypeOK
    <2> SUFFICES ASSUME GaugesInv PROVE Sampled!TypeOK
      OBVIOUS
    <2>1. sent \in 0..Sampled!Cardinality(Entries) /\ ready_count \in Nat
      BY ReadsAreNaturals, SameCounts
    <2> QED
      BY <2>1 DEF GaugesInv, ClockInv, Entered, Sampled!TypeOK
  <1> QED
    BY <1>1, <1>2, <1>3, PTL DEF Sampled!Spec
-----------------------------------------------------------------------------
(* Subscribers of the events.                                              *)

\* Every call is of the next event of its publisher, which is idle otherwise; and a
\* request can be sent while there are tries left.
CallInv ==
  \A p \in Publishers :
    LET c == calls[p]
        n == Len(results[p])
    IN /\ c.event = None => c = Fanout!NoCall
       /\ c.event # None => n < Len(Script[p]) /\ c.event = Script[p][n + 1]
       /\ c.webhook = "sent" => c.try >= 1
       /\ c.webhook \in {"due", "asleep"} => c.try < Tries

\* The events of p that s holds are among its first n.
Below(p, s, n) == \A i \in DOMAIN s, k \in DOMAIN Script[p] : s[i] = Script[p][k] => k <= n

\* How many events of p the webhook, the storage and NATS may have been given.
Begun(p) == IF calls[p].event # None THEN Len(results[p]) + 1 ELSE Len(results[p])
Inserted(p) ==
  IF calls[p].event # None /\ calls[p].storage # "due" THEN Len(results[p]) + 1 ELSE Len(results[p])
Passed(p) ==
  IF calls[p].event # None /\ calls[p].nats = "done" THEN Len(results[p]) + 1 ELSE Len(results[p])

\* The stored events of p, and what its publishes have returned of them.
StoredOf(p) ==
  /\ Fanout!InOrderOnce(p, stored) /\ Below(p, stored, Inserted(p))
  /\ \A k \in DOMAIN results[p] :
       results[p][k] = "ok" => (\E i \in DOMAIN stored : stored[i] = Script[p][k])
  /\ calls[p].event # None /\ calls[p].storage = "done" =>
       \E i \in DOMAIN stored : stored[i] = calls[p].event

\* What is on the wire comes after what is on the bus.
Behind(p, s, t) ==
  \A i \in DOMAIN s, j \in DOMAIN t, k, l \in DOMAIN Script[p] :
    s[i] = Script[p][k] /\ t[j] = Script[p][l] => k < l

BusOf(p) ==
  /\ Fanout!InOrderOnce(p, bus) /\ Fanout!InOrderOnce(p, wire)
  /\ Below(p, bus, Passed(p)) /\ Below(p, wire, Passed(p))
  /\ Behind(p, bus, wire)

\* Only a publisher whose request timed out has requests that may arrive late.
LogOf(p) ==
  /\ p \notin slow => Fanout!InOrder(p, log) /\ Below(p, log, Begun(p))
  /\ \A r \in late : (\E k \in DOMAIN Script[p] : r[1] = Script[p][k]) => p \in slow

Received(e) == Cardinality({i \in DOMAIN log : log[i] = e})
Overdue(e)  == Cardinality({r \in late : r[1] = e})

\* Every copy of an event that has arrived or may yet arrive is one of its requests.
Current(p, k)  == k = Len(results[p]) + 1 /\ calls[p].event # None
InFlight(p, k) == IF Current(p, k) /\ calls[p].webhook = "sent" THEN 1 ELSE 0
Requests(p, k) ==
  IF k <= Len(results[p]) THEN Tries ELSE IF Current(p, k) THEN calls[p].try ELSE 0
CopiesOf(p, k) ==
  Received(Script[p][k]) + Overdue(Script[p][k]) + InFlight(p, k) <= Requests(p, k)

FanoutInv ==
  /\ Fanout!TypeOK /\ CallInv
  /\ \A p \in Publishers :
       /\ StoredOf(p) /\ BusOf(p) /\ LogOf(p)
       /\ \A k \in DOMAIN Script[p] : CopiesOf(p, k)

\* An event has one place in one script.
LEMMA OnePlace ==
  ASSUME Fanout!EventFanoutAssumption,
         NEW p \in Publishers, NEW q \in Publishers,
         NEW k \in DOMAIN Script[p], NEW l \in DOMAIN Script[q], Script[p][k] = Script[q][l]
  PROVE  p = q /\ k = l
  <1>1. p = q
    BY DEF Fanout!EventFanoutAssumption, Fanout!ToSet
  <1> QED
    BY <1>1 DEF Fanout!EventFanoutAssumption, Fanout!IsInjective

\* A script is a sequence of events, none of which is the one that stands for no call.
LEMMA ScriptsAreEvents ==
  ASSUME Fanout!EventFanoutAssumption, NEW p \in Publishers
  PROVE  /\ Script[p] \in Seq(Fanout!Events) /\ DOMAIN Script[p] = 1..Len(Script[p])
         /\ \A k \in DOMAIN Script[p] : Script[p][k] \in Fanout!Events /\ Script[p][k] # None
         /\ Len(Script[p]) \in Nat
  <1>1. Script[p] \in Seq(Fanout!ToSet(Script[p]))
    BY DEF Fanout!EventFanoutAssumption
  <1>2. \A k \in DOMAIN Script[p] : Script[p][k] \in Fanout!Events
    BY DEF Fanout!Events, Fanout!ToSet
  <1>3. None \notin Fanout!Events
    BY DEF Fanout!EventFanoutAssumption
  <1>4. Script[p] \in Seq(Fanout!Events)
    BY <1>1, <1>2
  <1> QED
    BY <1>2, <1>3, <1>4

\* The next event of a publisher, when all that s holds of it comes before, keeps s
\* in order without a copy.
LEMMA AppendNext ==
  ASSUME Fanout!EventFanoutAssumption, NEW s \in Seq(Fanout!Events), NEW p \in Publishers,
         NEW n \in Nat, n + 1 \in DOMAIN Script[p],
         Fanout!InOrderOnce(p, s), Below(p, s, n)
  PROVE  /\ Fanout!InOrderOnce(p, Append(s, Script[p][n + 1]))
         /\ Below(p, Append(s, Script[p][n + 1]), n + 1)
  <1> DEFINE e == Script[p][n + 1]
             t == Append(s, e)
  <1>1. Len(t) = Len(s) + 1 /\ DOMAIN t = 1..(Len(s) + 1) /\ DOMAIN s = 1..Len(s) /\ Len(s) \in Nat
    OBVIOUS
  <1>2. \A i \in DOMAIN t : t[i] = IF i = Len(s) + 1 THEN e ELSE s[i]
    OBVIOUS
  <1>3. \A k \in DOMAIN Script[p] : k \in Nat /\ (Script[p][k] = e => k = n + 1)
    BY OnePlace, ScriptsAreEvents
  <1> HIDE DEF t, e
  <1>4. \A i \in DOMAIN t, k \in DOMAIN Script[p] :
          t[i] = Script[p][k] => (i = Len(s) + 1 /\ k = n + 1) \/ (i \in DOMAIN s /\ t[i] = s[i] /\ k <= n)
    BY <1>1, <1>2, <1>3 DEF Below
  <1>5. Below(p, t, n + 1)
    BY <1>3, <1>4 DEF Below
  <1>6. ASSUME NEW i \in DOMAIN t, NEW j \in DOMAIN t, NEW k \in DOMAIN Script[p],
               NEW l \in DOMAIN Script[p], i < j, t[i] = Script[p][k], t[j] = Script[p][l]
        PROVE  k < l
    <2>1. i \in DOMAIN s /\ t[i] = s[i] /\ k <= n
      BY <1>1, <1>4, <1>6
    <2>2. CASE j = Len(s) + 1 /\ l = n + 1
      BY <1>3, <2>1, <2>2
    <2>3. CASE j \in DOMAIN s /\ t[j] = s[j]
      BY <1>6, <2>1, <2>3 DEF Fanout!InOrderOnce
    <2> QED
      BY <1>4, <1>6, <2>2, <2>3
  <1> QED
    BY <1>5, <1>6 DEF t, e, Fanout!InOrderOnce

\* The same of the webhook, whose receiver may have the event already.
LEMMA AppendAgain ==
  ASSUME Fanout!EventFanoutAssumption, NEW s \in Seq(Fanout!Events), NEW p \in Publishers,
         NEW n \in Nat, n + 1 \in DOMAIN Script[p],
         Fanout!InOrder(p, s), Below(p, s, n + 1)
  PROVE  /\ Fanout!InOrder(p, Append(s, Script[p][n + 1]))
         /\ Below(p, Append(s, Script[p][n + 1]), n + 1)
  <1> DEFINE e == Script[p][n + 1]
             t == Append(s, e)
  <1>1. Len(t) = Len(s) + 1 /\ DOMAIN t = 1..(Len(s) + 1) /\ DOMAIN s = 1..Len(s) /\ Len(s) \in Nat
    OBVIOUS
  <1>2. \A i \in DOMAIN t : t[i] = IF i = Len(s) + 1 THEN e ELSE s[i]
    OBVIOUS
  <1>3. \A k \in DOMAIN Script[p] : k \in Nat /\ (Script[p][k] = e => k = n + 1)
    BY OnePlace, ScriptsAreEvents
  <1> HIDE DEF t, e
  <1>4. \A i \in DOMAIN t, k \in DOMAIN Script[p] :
          t[i] = Script[p][k] => (i = Len(s) + 1 /\ k = n + 1) \/ (i \in DOMAIN s /\ t[i] = s[i] /\ k <= n + 1)
    BY <1>1, <1>2, <1>3 DEF Below
  <1>5. Below(p, t, n + 1)
    BY <1>3, <1>4 DEF Below
  <1>6. ASSUME NEW i \in DOMAIN t, NEW j \in DOMAIN t, NEW k \in DOMAIN Script[p],
               NEW l \in DOMAIN Script[p], i < j, t[i] = Script[p][k], t[j] = Script[p][l]
        PROVE  k <= l
    <2>1. i \in DOMAIN s /\ t[i] = s[i] /\ k <= n + 1
      BY <1>1, <1>4, <1>6
    <2>2. CASE j = Len(s) + 1 /\ l = n + 1
      BY <2>1, <2>2
    <2>3. CASE j \in DOMAIN s /\ t[j] = s[j]
      BY <1>6, <2>1, <2>3 DEF Fanout!InOrder
    <2> QED
      BY <1>4, <1>6, <2>2, <2>3
  <1> QED
    BY <1>5, <1>6 DEF t, e, Fanout!InOrder

\* An event of another publisher changes nothing for p.
LEMMA AppendOther ==
  ASSUME Fanout!EventFanoutAssumption, NEW s \in Seq(Fanout!Events), NEW p \in Publishers,
         NEW e \in Fanout!Events, \A k \in DOMAIN Script[p] : Script[p][k] # e
  PROVE  /\ Fanout!InOrderOnce(p, s) => Fanout!InOrderOnce(p, Append(s, e))
         /\ Fanout!InOrder(p, s) => Fanout!InOrder(p, Append(s, e))
         /\ \A n : Below(p, s, n) => Below(p, Append(s, e), n)
  <1> DEFINE t == Append(s, e)
  <1>1. \A i \in DOMAIN t : (i \in DOMAIN s /\ t[i] = s[i]) \/ t[i] = e
    OBVIOUS
  <1> HIDE DEF t
  <1>2. \A i \in DOMAIN t, k \in DOMAIN Script[p] : t[i] = Script[p][k] => i \in DOMAIN s /\ s[i] = Script[p][k]
    BY <1>1
  <1> QED
    BY <1>2 DEF t, Below, Fanout!InOrder, Fanout!InOrderOnce

\* A step of a publish in progress changes one leg of it.
LEMMA LegMoves ==
  ASSUME Fanout!EventFanoutAssumption, Fanout!TypeOK, CallInv, NEW p \in Publishers,
         \/ Fanout!Store(p) \/ Fanout!PublishNats(p) \/ Fanout!Send(p) \/ Fanout!Answered(p)
         \/ Fanout!Unreachable(p) \/ Fanout!TimesOut(p) \/ Fanout!Awake(p)
  PROVE  \E c \in Fanout!Calls :
           /\ calls' = [calls EXCEPT ![p] = c] /\ UNCHANGED results
           /\ calls[p].event # None /\ c.event = calls[p].event
           /\ c.webhook = "sent" => c.try >= 1
           /\ c.webhook \in {"due", "asleep"} => c.try < Tries
           /\ ~Fanout!Store(p) => c.storage = calls[p].storage /\ UNCHANGED stored
           /\ ~Fanout!PublishNats(p) => c.nats = calls[p].nats /\ UNCHANGED <<wire, bus>>
           /\ Fanout!Store(p) \/ Fanout!PublishNats(p) =>
                c.webhook = calls[p].webhook /\ c.try = calls[p].try /\ UNCHANGED <<log, late, slow>>
  <1>1. calls \in [Publishers -> Fanout!Calls] /\ Tries \in Nat
    BY DEF Fanout!TypeOK, Fanout!EventFanoutAssumption
  <1>2. PICK d \in Fanout!Calls : calls[p] = d
    BY <1>1
  <1>3. d.try \in 0..Tries /\ d.event \in Fanout!Events \union {None}
    BY <1>2 DEF Fanout!Calls
  <1>4. /\ d.event = None => d = Fanout!NoCall
        /\ d.webhook = "sent" => d.try >= 1
        /\ d.webhook \in {"due", "asleep"} => d.try < Tries
    BY <1>2 DEF CallInv
  <1>5. d # Fanout!NoCall => d.event # None
    BY <1>4
  <1>6. \A x : x = Fanout!NoCall => x.storage = "done" /\ x.nats = "done" /\ x.webhook = "done"
    BY DEF Fanout!NoCall
  <1>7. CASE Fanout!Store(p)
    <2>1. d.event # None
      BY <1>2, <1>4, <1>6, <1>7 DEF Fanout!Store
    <2>2. PICK where \in {"done", "failed"} : calls' = [calls EXCEPT ![p].storage = where]
      BY <1>7 DEF Fanout!Store
    <2>3. PICK c : c = [d EXCEPT !.storage = where]
      OBVIOUS
    <2>4. calls' = [calls EXCEPT ![p] = c]
      BY <1>1, <1>2, <2>2, <2>3
    <2>5. c \in Fanout!Calls /\ c.event = d.event /\ c.webhook = d.webhook /\ c.try = d.try /\ c.nats = d.nats
      BY <2>3 DEF Fanout!Calls
    <2> QED
      BY <1>2, <1>4, <1>7, <2>1, <2>4, <2>5 DEF Fanout!Store
  <1>8. CASE Fanout!PublishNats(p)
    <2>1. d.event # None
      BY <1>2, <1>4, <1>6, <1>8 DEF Fanout!PublishNats
    <2>3. PICK c : c = [d EXCEPT !.nats = "done"]
      OBVIOUS
    <2>4. calls' = [calls EXCEPT ![p] = c]
      BY <1>1, <1>2, <1>8, <2>3 DEF Fanout!PublishNats
    <2>5. c \in Fanout!Calls /\ c.event = d.event /\ c.webhook = d.webhook /\ c.try = d.try
            /\ c.storage = d.storage
      BY <2>3 DEF Fanout!Calls
    <2> QED
      BY <1>2, <1>4, <1>8, <2>1, <2>4, <2>5 DEF Fanout!PublishNats
  <1>9. ASSUME NEW c \in Fanout!Calls, calls' = [calls EXCEPT ![p] = c], d.event # None,
               c.event = d.event, c.storage = d.storage, c.nats = d.nats,
               c.webhook = "sent" => c.try >= 1,
               c.webhook \in {"due", "asleep"} => c.try < Tries,
               UNCHANGED <<results, stored, wire, bus>>,
               ~Fanout!Store(p), ~Fanout!PublishNats(p)
        PROVE  \E x \in Fanout!Calls :
           /\ calls' = [calls EXCEPT ![p] = x] /\ UNCHANGED results
           /\ calls[p].event # None /\ x.event = calls[p].event
           /\ x.webhook = "sent" => x.try >= 1
           /\ x.webhook \in {"due", "asleep"} => x.try < Tries
           /\ ~Fanout!Store(p) => x.storage = calls[p].storage /\ UNCHANGED stored
           /\ ~Fanout!PublishNats(p) => x.nats = calls[p].nats /\ UNCHANGED <<wire, bus>>
           /\ Fanout!Store(p) \/ Fanout!PublishNats(p) =>
                x.webhook = calls[p].webhook /\ x.try = calls[p].try /\ UNCHANGED <<log, late, slow>>
    BY <1>2, <1>9
  <1>10. ASSUME ~Fanout!Store(p), ~Fanout!PublishNats(p), NEW place \in {"due", "asleep", "done", "failed"},
                d.webhook \in {"sent", "asleep"}, place \in {"due", "asleep"} => d.try < Tries,
                calls' = [calls EXCEPT ![p].webhook = place],
                UNCHANGED <<results, stored, wire, bus>>
         PROVE  \E c \in Fanout!Calls :
                  /\ calls' = [calls EXCEPT ![p] = c]
                  /\ d.event # None /\ c.event = d.event /\ c.storage = d.storage /\ c.nats = d.nats
                  /\ c.webhook = "sent" => c.try >= 1
                  /\ c.webhook \in {"due", "asleep"} => c.try < Tries
    <2>1. d.event # None
      BY <1>4, <1>6, <1>10
    <2>2. PICK c : c = [d EXCEPT !.webhook = place]
      OBVIOUS
    <2>3. c \in Fanout!Calls /\ c.event = d.event /\ c.storage = d.storage /\ c.nats = d.nats
            /\ c.webhook = place /\ c.try = d.try
      BY <2>2 DEF Fanout!Calls
    <2>4. calls' = [calls EXCEPT ![p] = c]
      BY <1>1, <1>2, <1>10, <2>2
    <2> QED
      BY <1>10, <2>1, <2>3, <2>4
  <1>11. CASE ~Fanout!Store(p) /\ ~Fanout!PublishNats(p) /\ Fanout!Send(p)
    <2>1. d.event # None /\ d.webhook = "due" /\ d.try + 1 \in 1..Tries
      BY <1>1, <1>2, <1>3, <1>4, <1>6, <1>11 DEF Fanout!Send
    <2>2. PICK c : c = [d EXCEPT !.webhook = "sent", !.try = d.try + 1]
      OBVIOUS
    <2>3. c \in Fanout!Calls /\ c.event = d.event /\ c.storage = d.storage /\ c.nats = d.nats
            /\ c.webhook = "sent" /\ c.try = d.try + 1
      <3>1. PICK try \in 0..Tries : try = d.try + 1
        BY <1>1, <2>1
      <3>2. c = [d EXCEPT !.webhook = "sent", !.try = try]
        BY <2>2, <3>1
      <3> QED
        BY <3>1, <3>2 DEF Fanout!Calls
    <2>4. calls' = [calls EXCEPT ![p] = c]
      BY <1>1, <1>2, <1>11, <2>2 DEF Fanout!Send, Fanout!Calls
    <2>5. c.try >= 1 /\ UNCHANGED <<results, stored, wire, bus>>
      BY <1>11, <2>1, <2>3 DEF Fanout!Send
    <2> QED
      BY <1>9, <1>11, <2>1, <2>3, <2>4, <2>5
  <1>12. CASE /\ ~Fanout!Store(p) /\ ~Fanout!PublishNats(p)
              /\ Fanout!Answered(p) \/ Fanout!Unreachable(p) \/ Fanout!TimesOut(p)
    <2>1. PICK place \in {"done", Fanout!AfterError(d.try)} : calls' = [calls EXCEPT ![p].webhook = place]
      BY <1>2, <1>12 DEF Fanout!Answered, Fanout!Unreachable, Fanout!TimesOut
    <2>2. place \in {"due", "asleep", "done", "failed"} /\ (place \in {"due", "asleep"} => d.try < Tries)
      BY <2>1 DEF Fanout!AfterError
    <2>3. d.webhook = "sent" /\ UNCHANGED <<results, stored, wire, bus>>
      BY <1>2, <1>12 DEF Fanout!Answered, Fanout!Unreachable, Fanout!TimesOut
    <2> QED
      BY <1>9, <1>10, <1>12, <2>1, <2>2, <2>3
  <1>13. CASE ~Fanout!Store(p) /\ ~Fanout!PublishNats(p) /\ Fanout!Awake(p)
    <2>1. d.webhook = "asleep" /\ d.try < Tries /\ UNCHANGED <<results, stored, wire, bus>>
            /\ calls' = [calls EXCEPT ![p].webhook = "due"]
      BY <1>2, <1>4, <1>13 DEF Fanout!Awake
    <2> QED
      BY <1>9, <1>10, <1>13, <2>1
  <1> QED
    BY <1>7, <1>8, <1>11, <1>12, <1>13

\* The steps keep the types, and every call is of the next event of its publisher.
LEMMA FanoutTypes ==
  ASSUME Fanout!EventFanoutAssumption, Fanout!TypeOK, CallInv, [Fanout!Next]_Fanout!vars
  PROVE  Fanout!TypeOK' /\ CallInv'
  <1>1. /\ calls \in [Publishers -> Fanout!Calls] /\ results \in [Publishers -> Seq({"ok", "error"})]
        /\ stored \in Seq(Fanout!Events) /\ wire \in Seq(Fanout!Events)
        /\ bus \in Seq(Fanout!Events) /\ log \in Seq(Fanout!Events)
        /\ late \subseteq Fanout!Events \X (1..Tries) /\ slow \subseteq Publishers
        /\ \A p \in Publishers : Len(results[p]) <= Len(Script[p])
    BY DEF Fanout!TypeOK
  <1>2. \A p \in Publishers : calls[p].event \in Fanout!Events \union {None}
          /\ calls[p].try \in 0..Tries
    BY <1>1 DEF Fanout!Calls
  <1>3. ASSUME NEW p \in Publishers, Fanout!Begin(p)
        PROVE  Fanout!TypeOK' /\ CallInv'
    <2>1. PICK n \in Nat : n = Len(results[p])
      BY <1>1
    <2>2. n < Len(Script[p]) /\ n + 1 \in DOMAIN Script[p]
      BY <1>3, <2>1, ScriptsAreEvents DEF Fanout!Begin
    <2>3. PICK c : c = [event |-> Script[p][n + 1], storage |-> "due", try |-> 0,
                        webhook |-> IF WithWebhook THEN "due" ELSE "done",
                        nats |-> IF WithNats THEN "due" ELSE "done"]
      OBVIOUS
    <2>4. calls' = [calls EXCEPT ![p] = c]
      BY <1>3, <2>1, <2>3 DEF Fanout!Begin
    <2>5. 0 \in 0..Tries /\ 0 < Tries
      BY DEF Fanout!EventFanoutAssumption
    <2>6. c \in Fanout!Calls /\ c.event = Script[p][n + 1] /\ c.try = 0 /\ c.webhook \in {"due", "done"}
            /\ c.event # None
      BY <2>2, <2>3, <2>5, ScriptsAreEvents DEF Fanout!Calls
    <2>7. UNCHANGED <<results, stored, wire, bus, late, log, slow>>
      BY <1>3 DEF Fanout!Begin
    <2>8. Fanout!TypeOK'
      BY <1>1, <2>4, <2>6, <2>7 DEF Fanout!TypeOK
    <2>9. CallInv'
      BY <1>1, <2>1, <2>2, <2>4, <2>5, <2>6, <2>7 DEF CallInv
    <2> QED
      BY <2>8, <2>9
  <1>4. ASSUME NEW p \in Publishers, Fanout!Return(p)
        PROVE  Fanout!TypeOK' /\ CallInv'
    <2>1. PICK n \in Nat : n = Len(results[p])
      BY <1>1
    <2>2. calls[p].event # None /\ n < Len(Script[p])
      BY <1>4, <2>1 DEF CallInv, Fanout!Return
    <2>3. PICK o \in {"ok", "error"} : results' = [results EXCEPT ![p] = Append(results[p], o)]
      BY <1>4 DEF Fanout!Return, Fanout!Outcome
    <2>4. calls' = [calls EXCEPT ![p] = Fanout!NoCall] /\ UNCHANGED <<stored, wire, bus, log, slow>>
      BY <1>4 DEF Fanout!Return
    <2>5. late' = late
      BY <1>4 DEF Fanout!Return, Fanout!Joined
    <2>6. Fanout!NoCall \in Fanout!Calls /\ Fanout!NoCall.event = None /\ Fanout!NoCall.webhook = "done"
      BY DEF Fanout!Calls, Fanout!NoCall, Fanout!EventFanoutAssumption
    <2>7. Append(results[p], o) \in Seq({"ok", "error"}) /\ Len(Append(results[p], o)) = n + 1
      BY <1>1, <2>1
    <2>8. n + 1 <= Len(Script[p])
      BY <2>2, ScriptsAreEvents
    <2>9. Fanout!TypeOK'
      BY <1>1, <2>3, <2>4, <2>5, <2>6, <2>7, <2>8 DEF Fanout!TypeOK
    <2>10. CallInv'
      BY <1>1, <2>3, <2>4, <2>6 DEF CallInv
    <2> QED
      BY <2>9, <2>10
  <1>5. ASSUME NEW p \in Publishers,
               \/ Fanout!Store(p) \/ Fanout!PublishNats(p) \/ Fanout!Send(p) \/ Fanout!Answered(p)
               \/ Fanout!Unreachable(p) \/ Fanout!TimesOut(p) \/ Fanout!Awake(p)
        PROVE  Fanout!TypeOK' /\ CallInv'
    <2>1. PICK c \in Fanout!Calls :
            /\ calls' = [calls EXCEPT ![p] = c] /\ UNCHANGED results
            /\ calls[p].event # None /\ c.event = calls[p].event
            /\ c.webhook = "sent" => c.try >= 1
            /\ c.webhook \in {"due", "asleep"} => c.try < Tries
      BY <1>5, LegMoves
    <2>2. calls[p].event \in Fanout!Events
      BY <1>2, <2>1
    <2>3. \A s \in Seq(Fanout!Events) : Append(s, calls[p].event) \in Seq(Fanout!Events)
      BY <2>2
    <2>4. stored' \in Seq(Fanout!Events) /\ wire' \in Seq(Fanout!Events)
            /\ bus' \in Seq(Fanout!Events) /\ log' \in Seq(Fanout!Events)
      BY <1>1, <1>5, <2>3 DEF Fanout!Store, Fanout!PublishNats, Fanout!Send, Fanout!Answered, Fanout!Unreachable,
         Fanout!TimesOut, Fanout!Awake
    <2>5. late' \subseteq Fanout!Events \X (1..Tries) /\ slow' \subseteq Publishers
      <3>1. CASE UNCHANGED <<late, slow>>
        BY <1>1, <3>1
      <3>2. CASE Fanout!TimesOut(p)
        <4>1. calls[p].try \in 1..Tries
          BY <1>2, <3>2 DEF CallInv, Fanout!TimesOut
        <4> QED
          BY <1>1, <2>2, <3>2, <4>1 DEF Fanout!TimesOut
      <3> QED
        BY <1>5, <3>1, <3>2 DEF Fanout!Store, Fanout!PublishNats, Fanout!Send, Fanout!Answered, Fanout!Unreachable,
           Fanout!Awake
    <2>6. Fanout!TypeOK'
      BY <1>1, <2>1, <2>4, <2>5 DEF Fanout!TypeOK
    <2>7. c.event = None => c = Fanout!NoCall
      BY <2>1
    <2>8. CallInv'
      BY <1>1, <2>1, <2>7 DEF CallInv
    <2> QED
      BY <2>6, <2>8
  <1>6. CASE Fanout!ArrivesLate
    <2>1. PICK r \in late : late' = late \ {r} /\ (log' = Append(log, r[1]) \/ UNCHANGED log)
            /\ UNCHANGED <<calls, results, stored, wire, bus, slow>>
      BY <1>6 DEF Fanout!ArrivesLate
    <2>2. r[1] \in Fanout!Events
      BY <1>1
    <2>3. log' \in Seq(Fanout!Events)
      <3>1. PICK e \in Fanout!Events : e = r[1]
        BY <2>2
      <3>2. log' = Append(log, e) \/ log' = log
        BY <2>1, <3>1
      <3>3. Append(log, e) \in Seq(Fanout!Events)
        BY <1>1, <3>1
      <3> QED
        BY <1>1, <3>2, <3>3
    <2> QED
      BY <1>1, <2>1, <2>3 DEF Fanout!TypeOK, CallInv
  <1>7. CASE Fanout!OnTheBus \/ Fanout!ConnectionLost \/ UNCHANGED Fanout!vars
    <2>1. UNCHANGED <<calls, results, stored, late, log, slow>>
      BY <1>7 DEF Fanout!OnTheBus, Fanout!ConnectionLost, Fanout!vars
    <2>2. wire' \in Seq(Fanout!Events) /\ bus' \in Seq(Fanout!Events)
      <3>1. CASE Fanout!OnTheBus
        <4>1. wire # <<>> /\ wire' = Tail(wire) /\ bus' = Append(bus, Head(wire))
          BY <3>1 DEF Fanout!OnTheBus
        <4>2. Tail(wire) \in Seq(Fanout!Events) /\ Head(wire) \in Fanout!Events
          BY <1>1, <4>1
        <4> QED
          BY <1>1, <4>1, <4>2
      <3>2. CASE Fanout!ConnectionLost
        BY <1>1, <3>2 DEF Fanout!ConnectionLost
      <3> QED
        BY <1>1, <1>7, <3>1, <3>2 DEF Fanout!vars
    <2> QED
      BY <1>1, <2>1, <2>2 DEF Fanout!TypeOK, CallInv
  <1> QED
    BY <1>3, <1>4, <1>5, <1>6, <1>7 DEF Fanout!Next, Fanout!PublisherStep

\* The event of a call stands where its publisher is in its script, and in no other
\* script.
LEMMA CallStands ==
  ASSUME Fanout!EventFanoutAssumption, Fanout!TypeOK, CallInv, NEW p \in Publishers,
         calls[p].event # None
  PROVE  /\ Len(results[p]) \in Nat /\ Len(results[p]) + 1 \in DOMAIN Script[p]
         /\ calls[p].event = Script[p][Len(results[p]) + 1] /\ calls[p].event \in Fanout!Events
         /\ \A q \in Publishers \ {p} : \A k \in DOMAIN Script[q] : Script[q][k] # calls[p].event
  <1>1. PICK n \in Nat : n = Len(results[p])
    BY DEF Fanout!TypeOK
  <1>2. n < Len(Script[p]) /\ calls[p].event = Script[p][n + 1]
    BY <1>1 DEF CallInv
  <1>3. n + 1 \in DOMAIN Script[p]
    BY <1>2, ScriptsAreEvents
  <1>4. calls[p].event \in Fanout!Events
    BY <1>2, <1>3, ScriptsAreEvents
  <1>5. \A q \in Publishers \ {p} : \A k \in DOMAIN Script[q] : Script[q][k] # calls[p].event
    BY <1>2, <1>3, OnePlace
  <1> QED
    BY <1>1, <1>2, <1>3, <1>4, <1>5

\* What the storage holds of q stays in order, and is what its publishes have told.
LEMMA StoredStep ==
  ASSUME Fanout!EventFanoutAssumption, Fanout!TypeOK, CallInv, [Fanout!Next]_Fanout!vars,
         NEW q \in Publishers, StoredOf(q)
  PROVE  StoredOf(q)'
  <1>1. /\ calls \in [Publishers -> Fanout!Calls] /\ results \in [Publishers -> Seq({"ok", "error"})]
        /\ stored \in Seq(Fanout!Events)
    BY DEF Fanout!TypeOK
  <1>2. PICK n \in Nat : n = Len(results[q])
    BY <1>1
  <1>3. CASE calls'[q] = calls[q] /\ results'[q] = results[q] /\ stored' = stored
    BY <1>3 DEF StoredOf, Inserted
  <1>4. CASE /\ calls'[q].event = calls[q].event /\ calls'[q].storage = calls[q].storage
             /\ results'[q] = results[q] /\ stored' = stored
    BY <1>4 DEF StoredOf, Inserted
  <1>5. CASE Fanout!Begin(q)
    <2>1. n < Len(Script[q]) /\ n + 1 \in DOMAIN Script[q] /\ calls[q].event = None
      BY <1>2, <1>5, ScriptsAreEvents DEF Fanout!Begin, Fanout!NoCall
    <2>2. calls'[q].event = Script[q][n + 1] /\ calls'[q].storage = "due" /\ UNCHANGED <<results, stored>>
      BY <1>1, <1>2, <1>5 DEF Fanout!Begin
    <2>3. Inserted(q) = n /\ Inserted(q)' = n
      BY <1>2, <2>1, <2>2 DEF Inserted
    <2>4. \A i \in DOMAIN stored : stored[i] # Script[q][n + 1]
      BY <2>1, <2>3 DEF StoredOf, Below
    <2> QED
      BY <2>2, <2>3, <2>4 DEF StoredOf
  <1>6. CASE Fanout!Return(q)
    <2>1. calls[q].event # None /\ calls[q].storage \in {"done", "failed"}
      BY <1>6 DEF CallInv, Fanout!Return, Fanout!Joined
    <2>2. PICK o : o = Fanout!Outcome(calls[q])
      OBVIOUS
    <2>3. o = (IF calls[q].storage = "done" THEN "ok" ELSE "error")
      BY <2>2 DEF Fanout!Outcome
    <2>4. results'[q] = Append(results[q], o) /\ calls'[q] = Fanout!NoCall /\ stored' = stored
      BY <1>1, <1>6, <2>2 DEF Fanout!Return
    <2>5. Len(results'[q]) = n + 1 /\ results'[q][n + 1] = o
            /\ DOMAIN results'[q] = 1..(n + 1) /\ \A k \in 1..n : results'[q][k] = results[q][k]
            /\ DOMAIN results[q] = 1..n
      BY <1>1, <1>2, <2>3, <2>4
    <2>6. Inserted(q) = n + 1
      BY <1>2, <2>1 DEF Inserted
    <2>7. Inserted(q)' = n + 1 /\ calls'[q].event = None
      BY <2>4, <2>5 DEF Inserted, Fanout!NoCall
    <2>8. calls[q].event = Script[q][n + 1]
      BY <1>2, <2>1 DEF CallInv
    <2>9. ASSUME NEW k \in DOMAIN results'[q]
          PROVE  results'[q][k] = "ok" => (\E i \in DOMAIN stored : stored[i] = Script[q][k])
      <3>1. CASE k = n + 1
        BY <2>1, <2>3, <2>5, <2>8, <3>1 DEF StoredOf
      <3>2. CASE k \in 1..n
        BY <2>5, <3>2 DEF StoredOf
      <3> QED
        BY <1>2, <2>5, <3>1, <3>2
    <2> QED
      BY <2>4, <2>6, <2>7, <2>9 DEF StoredOf
  <1>7. ASSUME NEW p \in Publishers, Fanout!Store(p) PROVE StoredOf(q)'
    <2>1. PICK c \in Fanout!Calls :
            calls' = [calls EXCEPT ![p] = c] /\ UNCHANGED results
              /\ calls[p].event # None /\ c.event = calls[p].event
      BY <1>7, LegMoves
    <2>2. /\ c.storage \in {"done", "failed"}
          /\ \/ stored' = Append(stored, calls[p].event)
             \/ c.storage = "failed" /\ stored' = stored
      <3>1. c = calls'[p]
        BY <1>1, <2>1
      <3>2. \A x : calls' = [calls EXCEPT ![p].storage = x] => calls'[p].storage = x
        BY <1>1 DEF Fanout!Calls
      <3> QED
        BY <1>7, <3>1, <3>2 DEF Fanout!Store
    <2>3. PICK e \in Fanout!Events : e = calls[p].event
      BY <2>1, CallStands
    <2>4. PICK s \in Seq(Fanout!Events) : s = Append(stored, e)
      <3>1. Append(stored, e) \in Seq(Fanout!Events)
        BY <1>1
      <3> QED
        BY <3>1
    <2>6. \A i \in DOMAIN stored : i \in DOMAIN s /\ s[i] = stored[i]
      BY <1>1, <2>4
    <2>7. \E i \in DOMAIN s : s[i] = e
      <3>1. Len(stored) + 1 \in DOMAIN s /\ s[Len(stored) + 1] = e
        BY <1>1, <2>4
      <3> QED
        BY <3>1
    <2>8. CASE q # p
      <3>1. calls'[q] = calls[q] /\ results'[q] = results[q]
        BY <1>1, <2>1, <2>8
      <3>2. \A k \in DOMAIN Script[q] : Script[q][k] # e
        BY <2>1, <2>3, <2>8, CallStands
      <3>3. CASE stored' = s
        <4>1. Fanout!InOrderOnce(q, s) /\ Below(q, s, Inserted(q))
          BY <1>1, <2>4, <3>2, AppendOther DEF StoredOf
        <4>2. Inserted(q)' = Inserted(q)
          BY <3>1 DEF Inserted
        <4>3. \A k \in DOMAIN results[q] :
                results[q][k] = "ok" => (\E i \in DOMAIN s : s[i] = Script[q][k])
          BY <2>6 DEF StoredOf
        <4>4. calls[q].event # None /\ calls[q].storage = "done" =>
                \E i \in DOMAIN s : s[i] = calls[q].event
          BY <2>6 DEF StoredOf
        <4>5. Below(q, s, Inserted(q)') /\ Fanout!InOrderOnce(q, s)
          BY <4>1, <4>2
        <4>6. Below(q, stored, Inserted(q))'
          BY <3>3, <4>5 DEF Below
        <4> QED
          BY <3>1, <3>3, <4>3, <4>4, <4>5, <4>6, ZenonT(30) DEF StoredOf, Fanout!InOrderOnce
      <3> QED
        BY <1>3, <2>2, <2>3, <2>4, <3>1, <3>3
    <2>9. CASE q = p
      <3>1. n + 1 \in DOMAIN Script[q] /\ e = Script[q][n + 1]
        BY <1>2, <2>1, <2>3, <2>9, CallStands
      <3>2. Inserted(q) = n
        <4>1. calls[q].storage = "due"
          BY <1>7, <2>9 DEF Fanout!Store
        <4> QED
          BY <1>2, <4>1 DEF Inserted
      <3>3. calls'[q] = c /\ c.event = e /\ results'[q] = results[q] /\ e # None
        BY <1>1, <2>1, <2>3, <2>9
      <3>4. c.storage # "due" => Inserted(q)' = n + 1
        BY <1>2, <3>3 DEF Inserted
      <3>5. DOMAIN results[q] = 1..n /\ \A k \in 1..n : k \in DOMAIN Script[q] /\ Script[q][k] # e
        <4>1. DOMAIN results[q] = 1..n
          BY <1>1, <1>2
        <4>2. 1..n \subseteq DOMAIN Script[q]
          BY <3>1, ScriptsAreEvents
        <4>3. \A k \in 1..n : Script[q][k] # e
          BY <3>1, <4>2, OnePlace
        <4> QED
          BY <4>1, <4>2, <4>3
      <3>6. CASE stored' = s
        <4>1. Fanout!InOrderOnce(q, s) /\ Below(q, s, n + 1)
          BY <1>1, <1>2, <2>4, <3>1, <3>2, AppendNext DEF StoredOf
        <4>2. \A x : (\E i \in DOMAIN stored : stored[i] = x) => \E i \in DOMAIN s : s[i] = x
          BY <2>6
        <4>3. Inserted(q)' = n + 1
          BY <2>2, <3>4
        <4> QED
          BY <2>7, <3>3, <3>6, <4>1, <4>2, <4>3, ZenonT(60) DEF StoredOf
      <3>7. CASE c.storage = "failed" /\ stored' = stored
        <4>1. Below(q, stored, n + 1) /\ Fanout!InOrderOnce(q, stored)
          BY <1>2, <3>2, ScriptsAreEvents DEF StoredOf, Below
        <4> QED
          BY <3>3, <3>4, <3>7, <4>1 DEF StoredOf
      <3> QED
        BY <2>2, <2>3, <2>4, <3>6, <3>7
    <2> QED
      BY <2>8, <2>9
  <1>8. ASSUME NEW p \in Publishers,
               \/ Fanout!PublishNats(p) \/ Fanout!Send(p) \/ Fanout!Answered(p)
               \/ Fanout!Unreachable(p) \/ Fanout!TimesOut(p) \/ Fanout!Awake(p)
        PROVE  StoredOf(q)'
    <2>1. CASE Fanout!Store(p)
      BY <1>7, <2>1
    <2>2. CASE ~Fanout!Store(p)
      <3>1. PICK c \in Fanout!Calls :
              calls' = [calls EXCEPT ![p] = c] /\ UNCHANGED <<results, stored>>
                /\ c.event = calls[p].event /\ c.storage = calls[p].storage
        BY <1>8, <2>2, LegMoves
      <3> QED
        BY <1>1, <1>4, <3>1
    <2> QED
      BY <2>1, <2>2
  <1>9. ASSUME NEW p \in Publishers \ {q}, Fanout!Begin(p) \/ Fanout!Return(p) PROVE StoredOf(q)'
    BY <1>1, <1>3, <1>9 DEF Fanout!Begin, Fanout!Return
  <1>10. CASE Fanout!ArrivesLate \/ Fanout!OnTheBus \/ Fanout!ConnectionLost \/ UNCHANGED Fanout!vars
    BY <1>3, <1>10 DEF Fanout!ArrivesLate, Fanout!OnTheBus, Fanout!ConnectionLost, Fanout!vars
  <1> QED
    BY <1>5, <1>6, <1>7, <1>8, <1>9, <1>10 DEF Fanout!Next, Fanout!PublisherStep

\* What NATS has been given of q stays in order, on the wire and on the bus.
LEMMA BusStep ==
  ASSUME Fanout!EventFanoutAssumption, Fanout!TypeOK, CallInv, [Fanout!Next]_Fanout!vars,
         NEW q \in Publishers, BusOf(q)
  PROVE  BusOf(q)'
  <1>1. /\ calls \in [Publishers -> Fanout!Calls] /\ results \in [Publishers -> Seq({"ok", "error"})]
        /\ bus \in Seq(Fanout!Events) /\ wire \in Seq(Fanout!Events)
    BY DEF Fanout!TypeOK
  <1>2. PICK n \in Nat : n = Len(results[q])
    BY <1>1
  <1>3. Passed(q) \in {n, n + 1}
    BY <1>2 DEF Passed
  <1>4. ASSUME Passed(q)' >= Passed(q), Passed(q)' \in Nat, UNCHANGED <<wire, bus>>
        PROVE  BusOf(q)'
    <2>1. \A s : Below(q, s, Passed(q)) => Below(q, s, Passed(q)')
      BY <1>2, <1>3, <1>4, ScriptsAreEvents DEF Below
    <2>2. Below(q, bus, Passed(q))' /\ Below(q, wire, Passed(q))'
      BY <1>4, <2>1 DEF BusOf, Below
    <2> QED
      BY <1>4, <2>2 DEF BusOf, Behind, Fanout!InOrderOnce
  <1>5. CASE UNCHANGED <<wire, bus>> /\ calls'[q].event = calls[q].event /\ calls'[q].nats = calls[q].nats
               /\ results'[q] = results[q]
    <2>1. Passed(q)' = Passed(q)
      BY <1>5 DEF Passed
    <2> QED
      BY <1>2, <1>3, <1>4, <1>5, <2>1
  <1>6. CASE Fanout!Begin(q)
    <2>1. calls[q].event = None /\ results' = results /\ UNCHANGED <<wire, bus>>
      BY <1>6 DEF Fanout!Begin, Fanout!NoCall
    <2>2. Passed(q) = n /\ Passed(q)' \in {n, n + 1}
      BY <1>2, <2>1 DEF Passed
    <2> QED
      BY <1>2, <1>4, <2>1, <2>2
  <1>7. CASE Fanout!Return(q)
    <2>1. UNCHANGED <<wire, bus>>
      BY <1>7 DEF Fanout!Return
    <2>2. PICK o \in {"ok", "error"} : results' = [results EXCEPT ![q] = Append(results[q], o)]
      BY <1>7 DEF Fanout!Return, Fanout!Outcome
    <2>3. Len(results'[q]) = n + 1 /\ calls'[q].event = None
      BY <1>1, <1>2, <1>7, <2>2 DEF Fanout!Return, Fanout!NoCall
    <2>4. Passed(q)' = n + 1
      BY <1>2, <2>3 DEF Passed
    <2> QED
      BY <1>2, <1>3, <1>4, <2>1, <2>4
  <1>8. ASSUME NEW p \in Publishers, Fanout!PublishNats(p) PROVE BusOf(q)'
    <2>1. PICK c \in Fanout!Calls :
            calls' = [calls EXCEPT ![p] = c] /\ UNCHANGED results
              /\ calls[p].event # None /\ c.event = calls[p].event
      BY <1>8, LegMoves
    <2>2. c.nats = "done" /\ calls[p].nats = "due" /\ bus' = bus
            /\ (wire' = Append(wire, calls[p].event) \/ wire' = wire)
      BY <1>1, <1>8, <2>1 DEF Fanout!PublishNats, Fanout!Calls
    <2>3. PICK e \in Fanout!Events : e = calls[p].event
      BY <2>1, CallStands
    <2>4. PICK s \in Seq(Fanout!Events) : s = Append(wire, e)
      <3>1. Append(wire, e) \in Seq(Fanout!Events)
        BY <1>1
      <3> QED
        BY <3>1
    <2>5. \A i \in DOMAIN s : (i \in DOMAIN wire /\ s[i] = wire[i]) \/ s[i] = e
      BY <1>1, <2>4
    <2>6. CASE q # p
      <3>1. calls'[q] = calls[q] /\ results'[q] = results[q]
        BY <1>1, <2>1, <2>6
      <3>2. \A k \in DOMAIN Script[q] : Script[q][k] # e
        BY <2>1, <2>3, <2>6, CallStands
      <3>3. Passed(q)' = Passed(q)
        BY <3>1 DEF Passed
      <3>4. CASE wire' = s
        <4>1. Fanout!InOrderOnce(q, s) /\ Below(q, s, Passed(q))
          BY <1>1, <2>4, <3>2, AppendOther DEF BusOf
        <4>2. Behind(q, bus, s)
          BY <2>5, <3>2 DEF BusOf, Behind
        <4> QED
          BY <2>2, <3>3, <3>4, <4>1, <4>2 DEF BusOf, Below, Behind, Fanout!InOrderOnce
      <3> QED
        BY <1>5, <2>2, <2>3, <2>4, <3>1, <3>4
    <2>7. CASE q = p
      <3>1. n + 1 \in DOMAIN Script[q] /\ e = Script[q][n + 1]
        BY <1>2, <2>1, <2>3, <2>7, CallStands
      <3>2. Passed(q) = n
        BY <1>2, <2>2, <2>7 DEF Passed
      <3>3. calls'[q] = c /\ results'[q] = results[q]
        BY <1>1, <2>1, <2>7
      <3>4. Passed(q)' = n + 1
        BY <1>2, <2>1, <2>2, <2>7, <3>3 DEF Passed
      <3>5. CASE wire' = s
        <4>1. Fanout!InOrderOnce(q, s) /\ Below(q, s, n + 1)
          BY <1>1, <1>2, <2>4, <3>1, <3>2, AppendNext DEF BusOf
        <4>2. Below(q, bus, n) /\ Below(q, bus, n + 1)
          BY <1>2, <3>2, ScriptsAreEvents DEF BusOf, Below
        <4>3. \A k \in DOMAIN Script[q] : Script[q][k] = e => k = n + 1
          BY <3>1, OnePlace
        <4>4. \A k \in DOMAIN Script[q] : k <= n => k < n + 1
          BY <1>2, ScriptsAreEvents
        <4>5. Behind(q, bus, s)
          BY <2>5, <4>2, <4>3, <4>4 DEF BusOf, Behind, Below
        <4>6. Below(q, bus, Passed(q))' /\ Below(q, wire, Passed(q))'
          BY <2>2, <3>4, <3>5, <4>1, <4>2 DEF Below
        <4> QED
          BY <2>2, <3>5, <4>1, <4>5, <4>6 DEF BusOf, Behind, Fanout!InOrderOnce
      <3>6. CASE wire' = wire
        BY <1>2, <1>4, <2>2, <3>2, <3>4, <3>6
      <3> QED
        BY <2>2, <2>3, <2>4, <3>5, <3>6
    <2> QED
      BY <2>6, <2>7
  <1>9. ASSUME NEW p \in Publishers,
               \/ Fanout!Store(p) \/ Fanout!Send(p) \/ Fanout!Answered(p)
               \/ Fanout!Unreachable(p) \/ Fanout!TimesOut(p) \/ Fanout!Awake(p)
        PROVE  BusOf(q)'
    <2>1. CASE Fanout!PublishNats(p)
      BY <1>8, <2>1
    <2>2. CASE ~Fanout!PublishNats(p)
      <3>1. PICK c \in Fanout!Calls :
              calls' = [calls EXCEPT ![p] = c] /\ UNCHANGED <<results, wire, bus>>
                /\ c.event = calls[p].event /\ c.nats = calls[p].nats
        BY <1>9, <2>2, LegMoves
      <3> QED
        BY <1>1, <1>5, <3>1
    <2> QED
      BY <2>1, <2>2
  <1>10. ASSUME NEW p \in Publishers \ {q}, Fanout!Begin(p) \/ Fanout!Return(p) PROVE BusOf(q)'
    BY <1>1, <1>5, <1>10 DEF Fanout!Begin, Fanout!Return
  <1>11. CASE Fanout!OnTheBus
    <2>1. wire # <<>> /\ wire' = Tail(wire) /\ bus' = Append(bus, Head(wire))
            /\ UNCHANGED <<calls, results>>
      BY <1>11 DEF Fanout!OnTheBus
    <2>2. PICK h \in Fanout!Events : h = Head(wire) /\ h = wire[1] /\ 1 \in DOMAIN wire
      BY <1>1, <2>1
    <2>3. \A j \in DOMAIN wire' : j \in Nat /\ j >= 1 /\ j + 1 \in DOMAIN wire /\ wire'[j] = wire[j + 1]
      BY <1>1, <2>1
    <2>4. \A i \in DOMAIN bus' : (i \in DOMAIN bus /\ bus'[i] = bus[i]) \/ (i = Len(bus) + 1 /\ bus'[i] = h)
      BY <1>1, <2>1, <2>2
    <2>5. \A i \in DOMAIN bus : i \in Nat /\ i < Len(bus) + 1
      BY <1>1
    <2>6. Len(bus) \in Nat
      BY <1>1
    <2>7. Fanout!InOrderOnce(q, bus')
      <3> SUFFICES ASSUME NEW i \in DOMAIN bus', NEW j \in DOMAIN bus', NEW k \in DOMAIN Script[q],
                          NEW l \in DOMAIN Script[q], i < j, bus'[i] = Script[q][k], bus'[j] = Script[q][l]
                   PROVE  k < l
        BY DEF Fanout!InOrderOnce
      <3>1. i \in DOMAIN bus /\ bus[i] = Script[q][k]
        BY <2>4, <2>5, <2>6
      <3>2. CASE j \in DOMAIN bus /\ bus'[j] = bus[j]
        BY <3>1, <3>2 DEF BusOf, Fanout!InOrderOnce
      <3>3. CASE bus'[j] = h
        BY <2>2, <3>1, <3>3 DEF BusOf, Behind
      <3> QED
        BY <2>4, <3>2, <3>3
    <2>8. Fanout!InOrderOnce(q, wire')
      <3> SUFFICES ASSUME NEW i \in DOMAIN wire', NEW j \in DOMAIN wire', NEW k \in DOMAIN Script[q],
                          NEW l \in DOMAIN Script[q], i < j, wire'[i] = Script[q][k], wire'[j] = Script[q][l]
                   PROVE  k < l
        BY DEF Fanout!InOrderOnce
      <3>1. i + 1 < j + 1
        BY <2>3
      <3> QED
        BY <2>3, <3>1 DEF BusOf, Fanout!InOrderOnce
    <2>9. Behind(q, bus', wire')
      <3> SUFFICES ASSUME NEW i \in DOMAIN bus', NEW j \in DOMAIN wire', NEW k \in DOMAIN Script[q],
                          NEW l \in DOMAIN Script[q], bus'[i] = Script[q][k], wire'[j] = Script[q][l]
                   PROVE  k < l
        BY DEF Behind
      <3>1. CASE i \in DOMAIN bus /\ bus'[i] = bus[i]
        BY <2>3, <3>1, ZenonT(30) DEF BusOf, Behind
      <3>2. CASE bus'[i] = h
        <4>1. 1 < j + 1
          BY <2>3
        <4> QED
          BY <2>2, <2>3, <3>2, <4>1, ZenonT(30) DEF BusOf, Fanout!InOrderOnce
      <3> QED
        BY <2>4, <3>1, <3>2
    <2>10. Below(q, bus', Passed(q)) /\ Below(q, wire', Passed(q))
      BY <2>2, <2>3, <2>4 DEF BusOf, Below
    <2>11. Passed(q)' = Passed(q)
      BY <2>1 DEF Passed
    <2>12. Below(q, bus, Passed(q))' /\ Below(q, wire, Passed(q))'
      BY <2>10, <2>11 DEF Below
    <2> QED
      BY <2>7, <2>8, <2>9, <2>12 DEF BusOf, Behind, Fanout!InOrderOnce
  <1>12. CASE Fanout!ConnectionLost
    <2>1. wire' = <<>> /\ UNCHANGED <<calls, results, bus>>
      BY <1>12 DEF Fanout!ConnectionLost
    <2>2. DOMAIN wire' = {}
      BY <2>1
    <2>3. Passed(q)' = Passed(q)
      BY <2>1 DEF Passed
    <2> QED
      BY <2>1, <2>2, <2>3 DEF BusOf, Behind, Below, Fanout!InOrderOnce
  <1>13. CASE Fanout!ArrivesLate \/ UNCHANGED Fanout!vars
    BY <1>5, <1>13 DEF Fanout!ArrivesLate, Fanout!vars
  <1> QED
    BY <1>6, <1>7, <1>8, <1>9, <1>10, <1>11, <1>12, <1>13 DEF Fanout!Next, Fanout!PublisherStep

\* The receiver of the webhook gets the events of q in order, as long as no request of
\* q times out.
LEMMA LogStep ==
  ASSUME Fanout!EventFanoutAssumption, Fanout!TypeOK, CallInv, [Fanout!Next]_Fanout!vars,
         NEW q \in Publishers, LogOf(q)
  PROVE  LogOf(q)'
  <1>1. /\ calls \in [Publishers -> Fanout!Calls] /\ results \in [Publishers -> Seq({"ok", "error"})]
        /\ log \in Seq(Fanout!Events) /\ late \subseteq Fanout!Events \X (1..Tries)
    BY DEF Fanout!TypeOK
  <1>2. PICK n \in Nat : n = Len(results[q])
    BY <1>1
  <1>3. Begun(q) \in {n, n + 1}
    BY <1>2 DEF Begun
  <1>4. ASSUME Begun(q)' >= Begun(q), Begun(q)' \in Nat, UNCHANGED <<log, late, slow>>
        PROVE  LogOf(q)'
    <2>1. Below(q, log, Begun(q)) => Below(q, log, Begun(q)')
      BY <1>2, <1>3, <1>4, ScriptsAreEvents DEF Below
    <2>2. q \notin slow => Below(q, log, Begun(q))'
      BY <1>4, <2>1 DEF LogOf, Below
    <2> QED
      BY <1>4, <2>2 DEF LogOf, Fanout!InOrder
  <1>5. ASSUME calls'[q].event = calls[q].event, results'[q] = results[q]
        PROVE  Begun(q)' = Begun(q)
    BY <1>5 DEF Begun
  <1>6. CASE UNCHANGED <<log, late, slow>> /\ calls'[q].event = calls[q].event /\ results'[q] = results[q]
    BY <1>2, <1>3, <1>4, <1>5, <1>6
  <1>7. CASE Fanout!Begin(q)
    <2>1. calls[q].event = None /\ results' = results /\ UNCHANGED <<log, late, slow>>
      BY <1>7 DEF Fanout!Begin, Fanout!NoCall
    <2>2. Begun(q) = n /\ Begun(q)' \in {n, n + 1}
      BY <1>2, <2>1 DEF Begun
    <2> QED
      BY <1>2, <1>4, <2>1, <2>2
  <1>8. CASE Fanout!Return(q)
    <2>1. UNCHANGED <<log, late, slow>>
      BY <1>8 DEF Fanout!Return, Fanout!Joined
    <2>2. PICK o \in {"ok", "error"} : results' = [results EXCEPT ![q] = Append(results[q], o)]
      BY <1>8 DEF Fanout!Return, Fanout!Outcome
    <2>3. Len(results'[q]) = n + 1 /\ calls'[q].event = None
      BY <1>1, <1>2, <1>8, <2>2 DEF Fanout!Return, Fanout!NoCall
    <2>4. Begun(q)' = n + 1
      BY <1>2, <2>3 DEF Begun
    <2> QED
      BY <1>2, <1>3, <1>4, <2>1, <2>4
  <1>9. ASSUME NEW p \in Publishers \ {q}, Fanout!Begin(p) \/ Fanout!Return(p) PROVE LogOf(q)'
    BY <1>1, <1>6, <1>9 DEF Fanout!Begin, Fanout!Return, Fanout!Joined
  <1>10. ASSUME NEW p \in Publishers,
               \/ Fanout!Store(p) \/ Fanout!PublishNats(p) \/ Fanout!Send(p) \/ Fanout!Answered(p)
               \/ Fanout!Unreachable(p) \/ Fanout!TimesOut(p) \/ Fanout!Awake(p)
         PROVE LogOf(q)'
    <2>1. PICK c \in Fanout!Calls :
            calls' = [calls EXCEPT ![p] = c] /\ UNCHANGED results
              /\ calls[p].event # None /\ c.event = calls[p].event
      BY <1>10, LegMoves
    <2>2. PICK e \in Fanout!Events : e = calls[p].event
      BY <2>1, CallStands
    <2>3. calls'[q].event = calls[q].event /\ results'[q] = results[q]
      BY <1>1, <2>1
    <2>4. Begun(q)' = Begun(q)
      BY <1>5, <2>3
    <2>5. q # p => \A k \in DOMAIN Script[q] : Script[q][k] # e
      BY <2>1, <2>2, CallStands
    <2>6. CASE UNCHANGED <<log, late, slow>>
      BY <1>6, <2>3, <2>6
    <2>7. CASE log' = Append(log, e) /\ UNCHANGED <<late, slow>>
      <3>1. ASSUME q \notin slow
            PROVE  Fanout!InOrder(q, Append(log, e)) /\ Below(q, Append(log, e), Begun(q))
        <4>1. CASE q # p
          BY <1>1, <2>5, <3>1, <4>1, AppendOther DEF LogOf
        <4>2. CASE q = p
          <5>1. n + 1 \in DOMAIN Script[q] /\ e = Script[q][n + 1] /\ Begun(q) = n + 1
            BY <1>2, <2>1, <2>2, <4>2, CallStands DEF Begun
          <5> QED
            BY <1>1, <1>2, <3>1, <5>1, AppendAgain DEF LogOf
        <4> QED
          BY <4>1, <4>2
      <3>2. q \notin slow => Below(q, log, Begun(q))'
        BY <2>4, <2>7, <3>1 DEF Below
      <3> QED
        BY <2>7, <3>1, <3>2 DEF LogOf, Fanout!InOrder
    <2>8. CASE /\ UNCHANGED log /\ slow' = slow \union {p}
               /\ late' = late \union {<<calls[p].event, calls[p].try>>}
      <3>1. q \notin slow' => Fanout!InOrder(q, log) /\ Below(q, log, Begun(q))
        BY <2>8 DEF LogOf
      <3>2. q \notin slow' => Below(q, log, Begun(q))'
        BY <2>4, <2>8, <3>1 DEF Below
      <3>3. \A r \in late' : (\E k \in DOMAIN Script[q] : r[1] = Script[q][k]) => q \in slow'
        BY <2>2, <2>5, <2>8 DEF LogOf
      <3> QED
        BY <2>8, <3>1, <3>2, <3>3 DEF LogOf, Fanout!InOrder
    <2> QED
      BY <1>10, <2>2, <2>6, <2>7, <2>8 DEF Fanout!Store, Fanout!PublishNats, Fanout!Send, Fanout!Answered,
         Fanout!Unreachable, Fanout!TimesOut, Fanout!Awake
  <1>11. CASE Fanout!ArrivesLate
    <2>1. PICK r \in late : late' = late \ {r} /\ (log' = Append(log, r[1]) \/ UNCHANGED log)
            /\ UNCHANGED <<calls, results, slow>>
      BY <1>11 DEF Fanout!ArrivesLate
    <2>2. PICK e \in Fanout!Events : e = r[1]
      BY <1>1
    <2>3. Begun(q)' = Begun(q)
      BY <2>1 DEF Begun
    <2>4. q \notin slow => \A k \in DOMAIN Script[q] : Script[q][k] # e
      BY <2>2 DEF LogOf
    <2>5. q \notin slow => Fanout!InOrder(q, log') /\ Below(q, log', Begun(q))
      <3>1. CASE log' = Append(log, e)
        BY <1>1, <2>4, <3>1, AppendOther DEF LogOf
      <3> QED
        BY <2>1, <2>2, <3>1 DEF LogOf
    <2>6. q \notin slow' => Below(q, log, Begun(q))'
      BY <2>1, <2>3, <2>5 DEF Below
    <2> QED
      BY <2>1, <2>5, <2>6 DEF LogOf, Fanout!InOrder
  <1>12. CASE Fanout!OnTheBus \/ Fanout!ConnectionLost \/ UNCHANGED Fanout!vars
    BY <1>6, <1>12 DEF Fanout!OnTheBus, Fanout!ConnectionLost, Fanout!vars
  <1> QED
    BY <1>7, <1>8, <1>9, <1>10, <1>11, <1>12 DEF Fanout!Next, Fanout!PublisherStep

\* Cardinality and finiteness mean in the instance what they mean here.
LEMMA FanoutCounts ==
  ASSUME NEW S
  PROVE  Fanout!Cardinality(S) = Cardinality(S)
  BY DEF Fanout!Cardinality, Cardinality

\* What has arrived of an event and what may yet arrive are numbers.
LEMMA CopiesAreNaturals ==
  ASSUME Fanout!EventFanoutAssumption, Fanout!TypeOK, NEW e
  PROVE  /\ IsFiniteSet({i \in DOMAIN log : log[i] = e}) /\ Received(e) \in Nat
         /\ IsFiniteSet({r \in late : r[1] = e}) /\ Overdue(e) \in Nat
  <1>1. log \in Seq(Fanout!Events) /\ late \subseteq Fanout!Events \X (1..Tries) /\ Tries \in Nat
    BY DEF Fanout!TypeOK, Fanout!EventFanoutAssumption
  <1>2. PICK m \in Nat : DOMAIN log = 1..m
    BY <1>1
  <1>3. IsFiniteSet(1..m) /\ IsFiniteSet(1..Tries)
    BY <1>1, FS_Interval
  <1>4. IsFiniteSet({i \in DOMAIN log : log[i] = e})
    BY <1>2, <1>3, FS_Subset
  <1>5. IsFiniteSet({<<e, t>> : t \in 1..Tries})
    <2>1. IsFiniteSet({e} \X (1..Tries))
      BY <1>3, FS_Singleton, FS_Product
    <2>2. {<<e, t>> : t \in 1..Tries} \subseteq {e} \X (1..Tries)
      OBVIOUS
    <2> QED
      BY <2>1, <2>2, FS_Subset
  <1>6. {r \in late : r[1] = e} \subseteq {<<e, t>> : t \in 1..Tries}
    <2> SUFFICES ASSUME NEW r \in late, r[1] = e PROVE r \in {<<e, t>> : t \in 1..Tries}
      OBVIOUS
    <2>1. r \in Fanout!Events \X (1..Tries)
      BY <1>1
    <2> QED
      BY <2>1
  <1>7. IsFiniteSet({r \in late : r[1] = e})
    BY <1>5, <1>6, FS_Subset
  <1> QED
    BY <1>4, <1>7, FS_CardinalityType DEF Received, Overdue

\* An event that arrives is one copy more of it, and of no other.
LEMMA ArrivalCounts ==
  ASSUME Fanout!EventFanoutAssumption, Fanout!TypeOK, NEW e, NEW f, log' = Append(log, f)
  PROVE  Received(e)' = IF e = f THEN Received(e) + 1 ELSE Received(e)
  <1> DEFINE S == {i \in DOMAIN log : log[i] = e}
             T == {i \in DOMAIN log' : log'[i] = e}
  <1>1. log \in Seq(Fanout!Events)
    BY DEF Fanout!TypeOK
  <1>2. PICK m \in Nat : m = Len(log) /\ DOMAIN log = 1..m
    BY <1>1
  <1>3. DOMAIN log' = 1..(m + 1) /\ log'[m + 1] = f /\ \A i \in 1..m : log'[i] = log[i]
    BY <1>1, <1>2
  <1>4. IsFiniteSet(S) /\ Received(e) = Cardinality(S) /\ Received(e)' = Cardinality(T)
    BY CopiesAreNaturals DEF Received
  <1>5. CASE e = f
    <2>1. T = S \union {m + 1} /\ m + 1 \notin S
      BY <1>2, <1>3, <1>5
    <2> HIDE DEF S, T
    <2>2. Cardinality(S \union {m + 1}) = Cardinality(S) + 1
      BY <1>4, <2>1, FS_AddElement
    <2> QED
      BY <1>4, <1>5, <2>1, <2>2
  <1>6. CASE e # f
    <2>1. T = S
      BY <1>2, <1>3, <1>6
    <2> QED
      BY <1>4, <1>6, <2>1
  <1> QED
    BY <1>5, <1>6

\* A request that times out may arrive late once.
LEMMA TimeoutCounts ==
  ASSUME Fanout!EventFanoutAssumption, Fanout!TypeOK, NEW e, NEW f, NEW t,
         late' = late \union {<<f, t>>}
  PROVE  Overdue(e)' \in {Overdue(e), Overdue(e) + 1} /\ (e # f => Overdue(e)' = Overdue(e))
  <1> DEFINE S == {r \in late : r[1] = e}
             T == {r \in late' : r[1] = e}
  <1>1. IsFiniteSet(S) /\ Overdue(e) = Cardinality(S) /\ Overdue(e)' = Cardinality(T)
    BY CopiesAreNaturals DEF Overdue
  <1>2. T = (IF e = f THEN S \union {<<f, t>>} ELSE S)
    OBVIOUS
  <1>3. Cardinality(S \union {<<f, t>>}) \in {Cardinality(S), Cardinality(S) + 1}
    BY <1>1, FS_AddElement
  <1> QED
    BY <1>1, <1>2, <1>3

\* One that arrives is no longer expected.
LEMMA LateCounts ==
  ASSUME Fanout!EventFanoutAssumption, Fanout!TypeOK, NEW e, NEW r \in late, late' = late \ {r}
  PROVE  Overdue(e)' = IF e = r[1] THEN Overdue(e) - 1 ELSE Overdue(e)
  <1> DEFINE S == {x \in late : x[1] = e}
             T == {x \in late' : x[1] = e}
  <1>1. IsFiniteSet(S) /\ Overdue(e) = Cardinality(S) /\ Overdue(e)' = Cardinality(T)
    BY CopiesAreNaturals DEF Overdue
  <1>2. CASE e = r[1]
    <2>1. T = S \ {r} /\ r \in S
      BY <1>2
    <2> QED
      BY <1>1, <1>2, <2>1, FS_RemoveElement
  <1>3. CASE e # r[1]
    <2>1. T = S
      BY <1>3
    <2> QED
      BY <1>1, <1>3, <2>1
  <1> QED
    BY <1>2, <1>3

\* The copies of an event stay within its requests.
LEMMA CopiesStep ==
  ASSUME Fanout!EventFanoutAssumption, Fanout!TypeOK, CallInv, [Fanout!Next]_Fanout!vars,
         NEW q \in Publishers, NEW k \in DOMAIN Script[q], CopiesOf(q, k)
  PROVE  CopiesOf(q, k)'
  <1>1. /\ calls \in [Publishers -> Fanout!Calls] /\ results \in [Publishers -> Seq({"ok", "error"})]
        /\ Tries \in Nat /\ k \in Nat
    BY ScriptsAreEvents DEF Fanout!TypeOK, Fanout!EventFanoutAssumption
  <1>2. PICK n \in Nat : n = Len(results[q])
    BY <1>1
  <1>3. PICK e : e = Script[q][k]
    OBVIOUS
  <1>4. Received(e) \in Nat /\ Overdue(e) \in Nat
    BY CopiesAreNaturals
  <1>5. calls[q].try \in 0..Tries /\ calls[q].try \in Nat
    BY <1>1 DEF Fanout!Calls
  <1>6. InFlight(q, k) \in {0, 1} /\ Requests(q, k) \in Nat
    BY <1>1, <1>5 DEF InFlight, Requests
  <1>7. Received(e) + Overdue(e) + InFlight(q, k) <= Requests(q, k)
    BY <1>3 DEF CopiesOf
  <1>8. CopiesOf(q, k)' <=> Received(e)' + Overdue(e)' + InFlight(q, k)' <= Requests(q, k)'
    BY <1>3 DEF CopiesOf, Received, Overdue
  <1>9. UNCHANGED log => Received(e)' = Received(e)
    BY DEF Received
  <1>10. UNCHANGED late => Overdue(e)' = Overdue(e)
    BY DEF Overdue
  <1>11. ASSUME UNCHANGED <<log, late>>, calls'[q] = calls[q], results'[q] = results[q]
         PROVE  CopiesOf(q, k)'
    <2>1. InFlight(q, k)' = InFlight(q, k) /\ Requests(q, k)' = Requests(q, k)
      BY <1>11 DEF InFlight, Requests, Current
    <2> QED
      BY <1>7, <1>8, <1>9, <1>10, <1>11, <2>1
  <1>12. CASE Fanout!Begin(q)
    <2>1. calls[q].event = None /\ UNCHANGED <<results, log, late>>
      BY <1>12 DEF Fanout!Begin, Fanout!NoCall
    <2>2. calls'[q].try = 0 /\ calls'[q].webhook \in {"due", "done"}
      BY <1>1, <1>12 DEF Fanout!Begin
    <2>3. InFlight(q, k) = 0 /\ InFlight(q, k)' = 0
      BY <2>1, <2>2 DEF InFlight, Current
    <2>4. Requests(q, k)' = Requests(q, k)
      BY <2>1, <2>2 DEF Requests, Current
    <2> QED
      BY <1>7, <1>8, <1>9, <1>10, <2>1, <2>3, <2>4
  <1>13. CASE Fanout!Return(q)
    <2>1. UNCHANGED <<log, late>> /\ calls[q].webhook \in {"done", "failed"} /\ calls[q].event # None
      BY <1>13 DEF Fanout!Return, Fanout!Joined, CallInv
    <2>2. PICK o \in {"ok", "error"} : results' = [results EXCEPT ![q] = Append(results[q], o)]
      BY <1>13 DEF Fanout!Return, Fanout!Outcome
    <2>3. Len(results'[q]) = n + 1 /\ calls'[q].event = None
      BY <1>1, <1>2, <1>13, <2>2 DEF Fanout!Return, Fanout!NoCall
    <2>4. InFlight(q, k) = 0 /\ InFlight(q, k)' = 0
      BY <2>1, <2>3 DEF InFlight, Current
    <2>5. Requests(q, k)' >= Requests(q, k) /\ Requests(q, k)' \in Nat
      <3>1. CASE k <= n
        BY <1>1, <1>2, <2>3, <3>1 DEF Requests
      <3>2. CASE k = n + 1
        BY <1>1, <1>2, <1>5, <2>1, <2>3, <3>2 DEF Requests, Current
      <3>3. CASE k > n + 1
        BY <1>1, <1>2, <2>3, <3>3 DEF Requests, Current
      <3> QED
        BY <1>1, <1>2, <3>1, <3>2, <3>3
    <2> QED
      BY <1>4, <1>6, <1>7, <1>8, <1>9, <1>10, <2>1, <2>4, <2>5
  <1>14. ASSUME NEW p \in Publishers \ {q}, Fanout!Begin(p) \/ Fanout!Return(p) PROVE CopiesOf(q, k)'
    BY <1>1, <1>11, <1>14 DEF Fanout!Begin, Fanout!Return, Fanout!Joined
  <1>15. ASSUME NEW p \in Publishers,
               \/ Fanout!Store(p) \/ Fanout!PublishNats(p) \/ Fanout!Send(p) \/ Fanout!Answered(p)
               \/ Fanout!Unreachable(p) \/ Fanout!TimesOut(p) \/ Fanout!Awake(p)
         PROVE CopiesOf(q, k)'
    <2>1. PICK c \in Fanout!Calls :
            calls' = [calls EXCEPT ![p] = c] /\ UNCHANGED results
              /\ calls[p].event # None /\ c.event = calls[p].event
              /\ (Fanout!Store(p) \/ Fanout!PublishNats(p) =>
                    c.webhook = calls[p].webhook /\ c.try = calls[p].try /\ UNCHANGED <<log, late>>)
      BY <1>15, LegMoves
    <2>2. \/ UNCHANGED <<log, late>>
          \/ log' = Append(log, calls[p].event) /\ UNCHANGED late
          \/ UNCHANGED log /\ late' = late \union {<<calls[p].event, calls[p].try>>}
      BY <1>15 DEF Fanout!Store, Fanout!PublishNats, Fanout!Send, Fanout!Answered, Fanout!Unreachable,
         Fanout!TimesOut, Fanout!Awake
    <2>3. CASE p # q \/ ~Current(q, k)
      <3>1. e # calls[p].event
        <4>1. CASE p # q
          BY <1>3, <2>1, <4>1, CallStands
        <4>2. CASE p = q /\ ~Current(q, k)
          BY <1>3, <2>1, <4>2, CallStands, OnePlace DEF Current
        <4> QED
          BY <2>3, <4>1, <4>2
      <3>2. Received(e)' = Received(e) /\ Overdue(e)' = Overdue(e)
        BY <1>9, <1>10, <2>2, <3>1, ArrivalCounts, TimeoutCounts
      <3>3. results'[q] = results[q] /\ calls'[q].event = calls[q].event /\ (p # q => calls'[q] = calls[q])
        BY <1>1, <2>1
      <3>4. Current(q, k)' <=> Current(q, k)
        BY <3>3 DEF Current
      <3>5. InFlight(q, k)' = InFlight(q, k) /\ Requests(q, k)' = Requests(q, k)
        BY <2>3, <3>3, <3>4 DEF InFlight, Requests
      <3> QED
        BY <1>7, <1>8, <3>2, <3>5
    <2>4. CASE p = q /\ Current(q, k)
      <3>1. k = n + 1 /\ e = calls[p].event /\ calls'[q] = c /\ results'[q] = results[q]
        BY <1>1, <1>2, <1>3, <2>1, <2>4, CallStands DEF Current
      <3>2. Current(q, k)'
        BY <1>2, <2>1, <2>4, <3>1 DEF Current
      <3>3. Requests(q, k) = calls[q].try /\ Requests(q, k)' = c.try
        BY <1>2, <2>4, <3>1, <3>2 DEF Requests
      <3>4. InFlight(q, k) = (IF calls[q].webhook = "sent" THEN 1 ELSE 0)
        BY <2>4 DEF InFlight
      <3>5. InFlight(q, k)' = (IF c.webhook = "sent" THEN 1 ELSE 0)
        BY <3>1, <3>2 DEF InFlight
      <3>6. CASE Fanout!Store(q) \/ Fanout!PublishNats(q)
        BY <1>7, <1>8, <1>9, <1>10, <2>1, <2>4, <3>3, <3>4, <3>5, <3>6
      <3>7. CASE Fanout!Send(q)
        <4>1. calls[q].webhook = "due" /\ c.webhook = "sent" /\ c.try = calls[q].try + 1
                /\ UNCHANGED <<log, late>>
          BY <1>1, <3>1, <3>7 DEF Fanout!Send, Fanout!Calls
        <4> QED
          BY <1>4, <1>5, <1>7, <1>8, <1>9, <1>10, <3>3, <3>4, <3>5, <4>1
      <3>8. CASE Fanout!Answered(q) \/ Fanout!Unreachable(q) \/ Fanout!TimesOut(q)
        <4>1. calls[q].webhook = "sent" /\ c.webhook \in {"done", "asleep", "failed"}
                /\ c.try = calls[q].try
          BY <1>1, <3>1, <3>8 DEF Fanout!Answered, Fanout!Unreachable, Fanout!TimesOut, Fanout!AfterError,
             Fanout!Calls
        <4>2. \/ Received(e)' = Received(e) /\ Overdue(e)' \in {Overdue(e), Overdue(e) + 1}
              \/ Received(e)' \in {Received(e), Received(e) + 1} /\ Overdue(e)' = Overdue(e)
          <5>1. CASE UNCHANGED log
            BY <1>9, <1>10, <2>2, <5>1, TimeoutCounts
          <5>2. CASE log' = Append(log, calls[p].event) /\ UNCHANGED late
            BY <1>10, <5>2, ArrivalCounts
          <5> QED
            BY <2>2, <5>1, <5>2
        <4> QED
          BY <1>4, <1>5, <1>7, <1>8, <3>3, <3>4, <3>5, <4>1, <4>2
      <3>9. CASE Fanout!Awake(q)
        <4>1. calls[q].webhook = "asleep" /\ c.webhook = "due" /\ c.try = calls[q].try
                /\ UNCHANGED <<log, late>>
          BY <1>1, <3>1, <3>9 DEF Fanout!Awake, Fanout!Calls
        <4> QED
          BY <1>7, <1>8, <1>9, <1>10, <3>3, <3>4, <3>5, <4>1
      <3> QED
        BY <1>15, <2>4, <3>6, <3>7, <3>8, <3>9
    <2> QED
      BY <2>3, <2>4
  <1>16. CASE Fanout!ArrivesLate
    <2>1. PICK r \in late : late' = late \ {r} /\ (log' = Append(log, r[1]) \/ UNCHANGED log)
            /\ UNCHANGED <<calls, results>>
      BY <1>16 DEF Fanout!ArrivesLate
    <2>2. Overdue(e)' = (IF e = r[1] THEN Overdue(e) - 1 ELSE Overdue(e))
      BY <2>1, LateCounts
    <2>3. Received(e)' \in {Received(e), IF e = r[1] THEN Received(e) + 1 ELSE Received(e)}
      BY <1>9, <2>1, ArrivalCounts
    <2>4. InFlight(q, k)' = InFlight(q, k) /\ Requests(q, k)' = Requests(q, k)
      BY <2>1 DEF InFlight, Requests, Current
    <2> QED
      BY <1>4, <1>6, <1>7, <1>8, <2>2, <2>3, <2>4
  <1>17. CASE Fanout!OnTheBus \/ Fanout!ConnectionLost \/ UNCHANGED Fanout!vars
    BY <1>11, <1>17 DEF Fanout!OnTheBus, Fanout!ConnectionLost, Fanout!vars
  <1> QED
    BY <1>12, <1>13, <1>14, <1>15, <1>16, <1>17 DEF Fanout!Next, Fanout!PublisherStep

\* For every publisher and every script, whatever the webhook's receiver and NATS do:
\* the stored events and those on the bus are in order without a copy, an event whose
\* publish succeeded is stored (PublisherAdapter), the receiver gets the
\* events in order unless a request timed out, and each once per request at most
\* (WebhookPublisher).
THEOREM EventsStayInOrder == PartsSpec => []EventsInOrder
  <1> Fanout!EventFanoutAssumption
    BY PartsAssumption
  <1>1. Fanout!Init => FanoutInv
    <2> SUFFICES ASSUME Fanout!Init PROVE FanoutInv
      OBVIOUS
    <2>1. /\ calls = [p \in Publishers |-> Fanout!NoCall] /\ results = [p \in Publishers |-> <<>>]
          /\ stored = <<>> /\ wire = <<>> /\ bus = <<>> /\ log = <<>> /\ late = {} /\ slow = {}
      BY DEF Fanout!Init
    <2>2. Fanout!NoCall \in Fanout!Calls /\ Fanout!NoCall.event = None /\ Fanout!NoCall.webhook = "done"
      BY DEF Fanout!Calls, Fanout!NoCall, Fanout!EventFanoutAssumption
    <2>3. \A p \in Publishers : Len(results[p]) = 0 /\ Len(Script[p]) \in Nat
      BY <2>1, ScriptsAreEvents
    <2>4. Fanout!TypeOK
      BY <2>1, <2>2, <2>3 DEF Fanout!TypeOK
    <2>5. CallInv
      BY <2>1, <2>2 DEF CallInv
    <2>6. \A p \in Publishers : StoredOf(p) /\ BusOf(p) /\ LogOf(p)
      BY <2>1, <2>2 DEF StoredOf, BusOf, LogOf, Below, Behind, Fanout!InOrder, Fanout!InOrderOnce
    <2>7. ASSUME NEW p \in Publishers, NEW k \in DOMAIN Script[p] PROVE CopiesOf(p, k)
      <3>1. Received(Script[p][k]) = 0 /\ Overdue(Script[p][k]) = 0
        BY <2>1, FS_EmptySet DEF Received, Overdue
      <3>2. InFlight(p, k) = 0 /\ Requests(p, k) = 0
        BY <2>1, <2>2, <2>3, ScriptsAreEvents DEF InFlight, Requests, Current
      <3> QED
        BY <3>1, <3>2 DEF CopiesOf
    <2> QED
      BY <2>4, <2>5, <2>6, <2>7 DEF FanoutInv
  <1>2. FanoutInv /\ [Fanout!Next]_Fanout!vars => FanoutInv'
    <2> SUFFICES ASSUME FanoutInv, [Fanout!Next]_Fanout!vars PROVE FanoutInv'
      OBVIOUS
    <2>1. Fanout!TypeOK' /\ CallInv'
      BY FanoutTypes DEF FanoutInv
    <2>2. \A p \in Publishers : StoredOf(p)' /\ BusOf(p)' /\ LogOf(p)'
      BY StoredStep, BusStep, LogStep DEF FanoutInv
    <2>3. \A p \in Publishers : \A k \in DOMAIN Script[p] : CopiesOf(p, k)'
      BY CopiesStep DEF FanoutInv
    <2> QED
      BY <2>1, <2>2, <2>3 DEF FanoutInv
  <1>3. FanoutInv => EventsInOrder
    <2> SUFFICES ASSUME FanoutInv PROVE EventsInOrder
      OBVIOUS
    <2>1. \A p \in Publishers : StoredOf(p) /\ BusOf(p) /\ LogOf(p)
      BY DEF FanoutInv
    <2>2. Fanout!WebhookInOrder
      BY <2>1 DEF LogOf, Fanout!WebhookInOrder
    <2>3. ASSUME NEW e \in Fanout!Events PROVE Fanout!Cardinality({i \in DOMAIN log : log[i] = e}) <= Tries
      <3>1. PICK p \in Publishers : \E k \in DOMAIN Script[p] : e = Script[p][k]
        BY DEF Fanout!Events, Fanout!ToSet
      <3>2. PICK k \in DOMAIN Script[p] : e = Script[p][k]
        BY <3>1
      <3>3. Received(e) + Overdue(e) + InFlight(p, k) <= Requests(p, k)
        BY <3>2 DEF FanoutInv, CopiesOf
      <3>4. Requests(p, k) \in Nat /\ Requests(p, k) <= Tries /\ InFlight(p, k) \in {0, 1}
        <4>1. calls[p].try \in 0..Tries /\ Tries \in Nat
          BY DEF FanoutInv, Fanout!TypeOK, Fanout!Calls, Fanout!EventFanoutAssumption
        <4> QED
          BY <4>1 DEF Requests, InFlight
      <3>5. Received(e) \in Nat /\ Overdue(e) \in Nat /\ Tries \in Nat
        BY CopiesAreNaturals DEF FanoutInv, Fanout!EventFanoutAssumption
      <3>6. Received(e) <= Tries
        BY <3>3, <3>4, <3>5
      <3> QED
        BY <3>6, FanoutCounts DEF Received
    <2>4. Fanout!StoredInOrder
      <3>1. ASSUME NEW p \in Publishers, NEW i \in DOMAIN bus, NEW k \in DOMAIN Script[p],
                   bus[i] = Script[p][k]
            PROVE  k <= Len(results[p]) + 1
        <4>1. k <= Passed(p) /\ k \in Nat /\ Len(results[p]) \in Nat
          BY <2>1, <3>1, ScriptsAreEvents DEF BusOf, Below, FanoutInv, Fanout!TypeOK
        <4> QED
          BY <4>1 DEF Passed
      <3> QED
        BY <2>1, <3>1 DEF StoredOf, BusOf, Fanout!StoredInOrder
    <2>5. Fanout!SuccessIsListed
      BY <2>1 DEF StoredOf, Fanout!SuccessIsListed, Fanout!ToSet
    <2> QED
      BY <2>2, <2>3, <2>4, <2>5 DEF FanoutInv, EventsInOrder, Fanout!CopiesBounded
  <1>4. PartsInit => Fanout!Init
    BY DEF PartsInit
  <1>5. [PartsNext]_allVars => [Fanout!Next]_Fanout!vars
    BY DEF PartsNext, allVars, fanout, Fanout!vars
  <1> QED
    BY <1>1, <1>2, <1>3, <1>4, <1>5, PTL DEF PartsSpec

-----------------------------------------------------------------------------

\* What is seen of the process from outside is true, in any of its parts: the probe
\* (health_ready), the exporters (init, TelemetryGuard::shutdown) and the gauges
\* (sample_once).
THEOREM SignalsStayTrue == PartsSpec => SignalsAreTrue
  <1> DEFINE Other == part = "loaded probe"
  <1>1. PartsInit => Exporting!Init /\ Probed!Init /\ Sampled!Init
    BY DEF PartsInit
  <1>2. /\ [PartsNext]_allVars => [Exporting!Next]_Exporting!vars /\ [Sampled!Next]_Sampled!vars
        /\ ~Other /\ [PartsNext]_allVars => [Probed!Next]_Probed!vars
    BY DEF PartsNext, allVars, telemetry, readiness, gauges, Exporting!vars, Probed!vars, Sampled!vars
  <1>3. [PartsNext]_allVars => (Other <=> Other')
    BY DEF PartsNext, allVars
  <1>4. Probed!ReadinessAssumption /\ Sampled!GaugesAssumption
    BY PartsAssumption
  <1>5. Exporting!Spec => Exporting!SignalsAreTrue
    BY TelemetryIsTrue
  <1>6. (Probed!Spec => []Probed!SignalsAreTrue) /\ (Sampled!Spec => []Sampled!TypeOK)
    BY <1>4, ReadinessIsTrue, GaugesAreNaturals
  <1>7. Other \/ Probed!SignalsAreTrue => (part # "loaded probe" => Probed!SignalsAreTrue)
    OBVIOUS
  <1> HIDE DEF Other
  <1> QED
    BY <1>1, <1>2, <1>3, <1>5, <1>6, <1>7, PTL
       DEF PartsSpec, Exporting!Spec, Probed!Spec, Sampled!Spec, SignalsAreTrue

-----------------------------------------------------------------------------
(* The settings (Configuration). Each component's settings are those of    *)
(* its own variables, read as they are; Merge keeps them apart.            *)

\* What a reader makes of a value: itself or an error, unless the value is blank.
Blank == {"unset", "", "not unicode"}
Faithful(x, y) == x \in Blank \/ y \in {"error", x}

\* Each reader does.
LEMMA ReadersAreFaithful ==
  /\ \A x : /\ Faithful(x, Settings!Required(x)) /\ Faithful(x, Settings!Text(x))
            /\ Faithful(x, Settings!Trimmed(x)) /\ Faithful(x, Settings!RequiredTrimmed(x))
            /\ Faithful(x, Settings!Strict(x)) /\ Faithful(x, Settings!Lax(x))
            /\ Faithful(x, Settings!StrictNonZero(x)) /\ Faithful(x, Settings!LaxNonZero(x))
            /\ Faithful(x, Settings!ParsedUrl(x)) /\ Faithful(x, Settings!StorageBackend(x))
            /\ Faithful(x, Settings!QueueBackend(x)) /\ Faithful(x, Settings!StoreBackend(x))
            /\ Faithful(x, Settings!SocketAddress(x)) /\ Faithful(x, Settings!Origins(x))
            /\ Faithful(x, Settings!QuotaRange(x)) /\ Faithful(x, Settings!Exporter(x))
            /\ Faithful(x, Settings!Protocol(x)) /\ Faithful(x, Settings!AllowHttp(x))
            /\ Faithful(x, Settings!Tls(x)) /\ Faithful(x, Settings!Error)
  BY DEF Faithful, Blank, Settings!Required, Settings!Text, Settings!Trimmed, Settings!RequiredTrimmed,
         Settings!Strict, Settings!Lax, Settings!StrictNonZero, Settings!LaxNonZero, Settings!NonZero,
         Settings!ParsedUrl, Settings!StorageBackend, Settings!QueueBackend, Settings!StoreBackend,
         Settings!SocketAddress, Settings!Origins, Settings!QuotaRange, Settings!Exporter,
         Settings!Protocol, Settings!AllowHttp, Settings!Tls, Settings!OneOf, Settings!Absent,
         Settings!Unset, Settings!Raw, Settings!Error, Settings!Default

\* What is loaded from the environment e is what it says, what Excepted names aside,
\* in the variables of the components or prefixes S.
Sound(e, S, c) ==
  \A k \in DOMAIN c : k \in DOMAIN e /\ k[1] \in S /\ (k \in Settings!Excepted(e) \/ Faithful(e[k], c[k]))

\* What Merge gives of a variable, one of the settings gives.
LEMMA MergeOf ==
  ASSUME NEW C
  PROVE  /\ DOMAIN Settings!Merge(C) = UNION {DOMAIN c : c \in C}
         /\ \A k \in DOMAIN Settings!Merge(C) : \E c \in C : k \in DOMAIN c /\ Settings!Merge(C)[k] = c[k]
  <1>1. ASSUME NEW k \in DOMAIN Settings!Merge(C)
        PROVE  \E c \in C : k \in DOMAIN c /\ Settings!Merge(C)[k] = c[k]
    <2> DEFINE d == CHOOSE c \in C : k \in DOMAIN c
    <2>1. \E c \in C : k \in DOMAIN c
      BY DEF Settings!Merge
    <2>2. d \in C /\ k \in DOMAIN d
      BY <2>1
    <2>3. Settings!Merge(C)[k] = d[k]
      BY DEF Settings!Merge
    <2> QED
      BY <2>2, <2>3
  <1>2. DOMAIN Settings!Merge(C) = UNION {DOMAIN c : c \in C}
    BY DEF Settings!Merge
  <1> QED
    BY <1>1, <1>2

\* What one of the settings has, Merge has.
LEMMA MergeGives ==
  \A C, k : (\E c \in C : k \in DOMAIN c) =>
     k \in DOMAIN Settings!Merge(C) /\ \E d \in C : k \in DOMAIN d /\ Settings!Merge(C)[k] = d[k]
  <1> SUFFICES ASSUME NEW C, NEW k, NEW c \in C, k \in DOMAIN c
               PROVE  k \in DOMAIN Settings!Merge(C) /\ \E d \in C : k \in DOMAIN d /\ Settings!Merge(C)[k] = d[k]
    OBVIOUS
  <1>1. DOMAIN c \in {DOMAIN d : d \in C}
    OBVIOUS
  <1>2. k \in DOMAIN Settings!Merge(C)
    BY <1>1, MergeOf
  <1> QED
    BY <1>2, MergeOf

\* Settings that are sound stay so together.
LEMMA MergeIsSound ==
  ASSUME NEW e, NEW S, NEW C, \A c \in C : Sound(e, S, c)
  PROVE  Sound(e, S, Settings!Merge(C))
  <1> SUFFICES ASSUME NEW k \in DOMAIN Settings!Merge(C)
               PROVE  /\ k \in DOMAIN e /\ k[1] \in S
                      /\ k \in Settings!Excepted(e) \/ Faithful(e[k], Settings!Merge(C)[k])
    BY DEF Sound
  <1>1. PICK c \in C : k \in DOMAIN c /\ Settings!Merge(C)[k] = c[k]
    BY MergeOf
  <1> QED
    BY <1>1 DEF Sound

\* Environments that give a component the same.
Agree(e, f, c) == \A n \in Settings!Variables[c] : e[<<c, n>>] = f[<<c, n>>]

\* The environment has the variables of the component.
Settable(e, c) == \A n \in Settings!Variables[c] : <<c, n>> \in DOMAIN e

\* What each component loads is what its variables say, and depends on nothing else.
LEMMA SqliteLoads ==
  ASSUME NEW e, Settable(e, "SQLITE")
  PROVE  /\ Sound(e, {"SQLITE"}, Settings!Sqlite(e))
         /\ \A f : Agree(e, f, "SQLITE") => Settings!Sqlite(f) = Settings!Sqlite(e)
  <1> PICK a : a = [k \in {<<"SQLITE", n>> : n \in {"URL"}} |-> Settings!Required(e[k])]
    OBVIOUS
  <1>1. Sound(e, {"SQLITE"}, a)
    BY ReadersAreFaithful DEF Sound, Settable, Settings!Variables
  <1>2. Settings!Sqlite(e) = a
    BY DEF Settings!Sqlite, Settings!Each
  <1>3. ASSUME NEW f, Agree(e, f, "SQLITE") PROVE Settings!Sqlite(f) = Settings!Sqlite(e)
    <2>1. a = [k \in {<<"SQLITE", n>> : n \in {"URL"}} |-> Settings!Required(f[k])]
      BY <1>3 DEF Agree, Settings!Variables
    <2> QED
      BY <1>2, <2>1 DEF Settings!Sqlite, Settings!Each
  <1> QED
    BY <1>2, <1>3, <1>1

LEMMA PostgresLoads ==
  ASSUME NEW e, Settable(e, "POSTGRES")
  PROVE  /\ Sound(e, {"POSTGRES"}, Settings!Postgres(e))
         /\ \A f : Agree(e, f, "POSTGRES") => Settings!Postgres(f) = Settings!Postgres(e)
  <1> PICK a : a = [k \in {<<"POSTGRES", n>> : n \in {"URL"}} |-> Settings!Required(e[k])]
    OBVIOUS
  <1> PICK b : b = [k \in {<<"POSTGRES", n>> : n \in {"MAX_CONNECTIONS", "ACQUIRE_TIMEOUT_SECS"}} |->
                      Settings!Strict(e[k])]
    OBVIOUS
  <1>1. Sound(e, {"POSTGRES"}, a) /\ Sound(e, {"POSTGRES"}, b)
    BY ReadersAreFaithful DEF Sound, Settable, Settings!Variables
  <1>2. Settings!Postgres(e) = Settings!Merge({a, b})
    BY DEF Settings!Postgres, Settings!Each
  <1>3. ASSUME NEW f, Agree(e, f, "POSTGRES") PROVE Settings!Postgres(f) = Settings!Postgres(e)
    <2>1. a = [k \in {<<"POSTGRES", n>> : n \in {"URL"}} |-> Settings!Required(f[k])]
      BY <1>3 DEF Agree, Settings!Variables
    <2>2. b = [k \in {<<"POSTGRES", n>> : n \in {"MAX_CONNECTIONS", "ACQUIRE_TIMEOUT_SECS"}} |->
                 Settings!Strict(f[k])]
      BY <1>3 DEF Agree, Settings!Variables
    <2> QED
      BY <1>2, <2>1, <2>2 DEF Settings!Postgres, Settings!Each
  <1>4. Sound(e, {"POSTGRES"}, Settings!Merge({a, b}))
    BY <1>1, MergeIsSound
  <1> QED
    BY <1>2, <1>3, <1>4

LEMMA QueueNatsLoads ==
  ASSUME NEW e, Settable(e, "QUEUE")
  PROVE  /\ Sound(e, {"QUEUE"}, Settings!QueueNats(e))
         /\ \A f : Agree(e, f, "QUEUE") => Settings!QueueNats(f) = Settings!QueueNats(e)
  <1> PICK a : a = [k \in {<<"QUEUE", n>> : n \in {"URL"}} |-> Settings!Required(e[k])]
    OBVIOUS
  <1> PICK b : b = [k \in {<<"QUEUE", n>> : n \in {"STREAM"}} |-> Settings!Text(e[k])]
    OBVIOUS
  <1> PICK c : c = [k \in {<<"QUEUE", n>> : n \in {"ACK_WAIT_SECS", "MAX_DELIVER", "BACKOFF"}} |->
                      Settings!Lax(e[k])]
    OBVIOUS
  <1>1. Sound(e, {"QUEUE"}, a) /\ Sound(e, {"QUEUE"}, b) /\ Sound(e, {"QUEUE"}, c)
    BY ReadersAreFaithful DEF Sound, Settable, Settings!Variables
  <1>2. Settings!QueueNats(e) = Settings!Merge({a, b, c})
    BY DEF Settings!QueueNats, Settings!Each
  <1>3. ASSUME NEW f, Agree(e, f, "QUEUE") PROVE Settings!QueueNats(f) = Settings!QueueNats(e)
    <2>1. a = [k \in {<<"QUEUE", n>> : n \in {"URL"}} |-> Settings!Required(f[k])]
      BY <1>3 DEF Agree, Settings!Variables
    <2>2. b = [k \in {<<"QUEUE", n>> : n \in {"STREAM"}} |-> Settings!Text(f[k])]
      BY <1>3 DEF Agree, Settings!Variables
    <2>3. c = [k \in {<<"QUEUE", n>> : n \in {"ACK_WAIT_SECS", "MAX_DELIVER", "BACKOFF"}} |-> Settings!Lax(f[k])]
      BY <1>3 DEF Agree, Settings!Variables
    <2> QED
      BY <1>2, <2>1, <2>2, <2>3 DEF Settings!QueueNats, Settings!Each
  <1>4. Sound(e, {"QUEUE"}, Settings!Merge({a, b, c}))
    BY <1>1, MergeIsSound
  <1> QED
    BY <1>2, <1>3, <1>4

LEMMA FsLoads ==
  ASSUME NEW e, Settable(e, "ATTACHMENT_FS")
  PROVE  /\ Sound(e, {"ATTACHMENT_FS"}, Settings!Fs(e))
         /\ \A f : Agree(e, f, "ATTACHMENT_FS") => Settings!Fs(f) = Settings!Fs(e)
  <1> PICK a : a = [k \in {<<"ATTACHMENT_FS", n>> : n \in {"ROOT"}} |-> Settings!Required(e[k])]
    OBVIOUS
  <1>1. Sound(e, {"ATTACHMENT_FS"}, a)
    BY ReadersAreFaithful DEF Sound, Settable, Settings!Variables
  <1>2. Settings!Fs(e) = a
    BY DEF Settings!Fs, Settings!Each
  <1>3. ASSUME NEW f, Agree(e, f, "ATTACHMENT_FS") PROVE Settings!Fs(f) = Settings!Fs(e)
    <2>1. a = [k \in {<<"ATTACHMENT_FS", n>> : n \in {"ROOT"}} |-> Settings!Required(f[k])]
      BY <1>3 DEF Agree, Settings!Variables
    <2> QED
      BY <1>2, <2>1 DEF Settings!Fs, Settings!Each
  <1> QED
    BY <1>2, <1>3, <1>1

LEMMA S3Loads ==
  ASSUME NEW e, Settable(e, "ATTACHMENT_S3")
  PROVE  /\ Sound(e, {"ATTACHMENT_S3"}, Settings!S3(e))
         /\ \A f : Agree(e, f, "ATTACHMENT_S3") => Settings!S3(f) = Settings!S3(e)
  <1> PICK a : a = [k \in {<<"ATTACHMENT_S3", n>> :
                              n \in {"ENDPOINT", "BUCKET", "ACCESS_KEY_ID", "SECRET_ACCESS_KEY"}} |->
                      Settings!Required(e[k])]
    OBVIOUS
  <1> PICK b : b = [k \in {<<"ATTACHMENT_S3", n>> : n \in {"REGION", "PREFIX"}} |-> Settings!Text(e[k])]
    OBVIOUS
  <1> PICK c : c = [k \in {<<"ATTACHMENT_S3", n>> : n \in {"PATH_STYLE"}} |-> Settings!PathStyle(e[k])]
    OBVIOUS
  <1>1. Sound(e, {"ATTACHMENT_S3"}, a) /\ Sound(e, {"ATTACHMENT_S3"}, b)
    BY ReadersAreFaithful DEF Sound, Settable, Settings!Variables
  <1>5. Sound(e, {"ATTACHMENT_S3"}, c)
    BY DEF Sound, Settable, Settings!Variables, Settings!Excepted, Settings!LenientlyRead
  <1>2. Settings!S3(e) = Settings!Merge({a, b, c})
    BY DEF Settings!S3, Settings!Each
  <1>3. ASSUME NEW f, Agree(e, f, "ATTACHMENT_S3") PROVE Settings!S3(f) = Settings!S3(e)
    <2>1. a = [k \in {<<"ATTACHMENT_S3", n>> : n \in {"ENDPOINT", "BUCKET", "ACCESS_KEY_ID", "SECRET_ACCESS_KEY"}} |->
                 Settings!Required(f[k])]
      BY <1>3 DEF Agree, Settings!Variables
    <2>2. b = [k \in {<<"ATTACHMENT_S3", n>> : n \in {"REGION", "PREFIX"}} |-> Settings!Text(f[k])]
      BY <1>3 DEF Agree, Settings!Variables
    <2>3. c = [k \in {<<"ATTACHMENT_S3", n>> : n \in {"PATH_STYLE"}} |-> Settings!PathStyle(f[k])]
      BY <1>3 DEF Agree, Settings!Variables
    <2> QED
      BY <1>2, <2>1, <2>2, <2>3 DEF Settings!S3, Settings!Each
  <1>4. Sound(e, {"ATTACHMENT_S3"}, Settings!Merge({a, b, c}))
    BY <1>1, <1>5, MergeIsSound
  <1> QED
    BY <1>2, <1>3, <1>4

LEMMA RedisLoads ==
  ASSUME NEW e, Settable(e, "ATTACHMENT_REDIS")
  PROVE  /\ Sound(e, {"ATTACHMENT_REDIS"}, Settings!Redis(e))
         /\ \A f : Agree(e, f, "ATTACHMENT_REDIS") => Settings!Redis(f) = Settings!Redis(e)
  <1> PICK a : a = [k \in {<<"ATTACHMENT_REDIS", n>> : n \in {"URL"}} |-> Settings!Required(e[k])]
    OBVIOUS
  <1> PICK b : b = [k \in {<<"ATTACHMENT_REDIS", n>> : n \in {"PREFIX"}} |-> Settings!Text(e[k])]
    OBVIOUS
  <1>1. Sound(e, {"ATTACHMENT_REDIS"}, a) /\ Sound(e, {"ATTACHMENT_REDIS"}, b)
    BY ReadersAreFaithful DEF Sound, Settable, Settings!Variables
  <1>2. Settings!Redis(e) = Settings!Merge({a, b})
    BY DEF Settings!Redis, Settings!Each
  <1>3. ASSUME NEW f, Agree(e, f, "ATTACHMENT_REDIS") PROVE Settings!Redis(f) = Settings!Redis(e)
    <2>1. a = [k \in {<<"ATTACHMENT_REDIS", n>> : n \in {"URL"}} |-> Settings!Required(f[k])]
      BY <1>3 DEF Agree, Settings!Variables
    <2>2. b = [k \in {<<"ATTACHMENT_REDIS", n>> : n \in {"PREFIX"}} |-> Settings!Text(f[k])]
      BY <1>3 DEF Agree, Settings!Variables
    <2> QED
      BY <1>2, <2>1, <2>2 DEF Settings!Redis, Settings!Each
  <1>4. Sound(e, {"ATTACHMENT_REDIS"}, Settings!Merge({a, b}))
    BY <1>1, MergeIsSound
  <1> QED
    BY <1>2, <1>3, <1>4

LEMMA HttpLoads ==
  ASSUME NEW e, Settable(e, "HTTP")
  PROVE  /\ Sound(e, {"HTTP"}, Settings!Http(e))
         /\ \A f : Agree(e, f, "HTTP") => Settings!Http(f) = Settings!Http(e)
  <1> PICK a : a = [k \in {<<"HTTP", n>> : n \in {"ADDRESS"}} |-> Settings!SocketAddress(e[k])]
    OBVIOUS
  <1> PICK b : b = [k \in {<<"HTTP", n>> : n \in {"API_KEY"}} |-> Settings!Trimmed(e[k])]
    OBVIOUS
  <1> PICK c : c = [k \in {<<"HTTP", n>> : n \in {"REQUEST_TIMEOUT_SECS"}} |-> Settings!Strict(e[k])]
    OBVIOUS
  <1>1. Sound(e, {"HTTP"}, a) /\ Sound(e, {"HTTP"}, b) /\ Sound(e, {"HTTP"}, c)
    BY ReadersAreFaithful DEF Sound, Settable, Settings!Variables
  <1>2. Settings!Http(e) = Settings!Merge({a, b, c})
    BY DEF Settings!Http, Settings!Each
  <1>3. ASSUME NEW f, Agree(e, f, "HTTP") PROVE Settings!Http(f) = Settings!Http(e)
    <2>1. a = [k \in {<<"HTTP", n>> : n \in {"ADDRESS"}} |-> Settings!SocketAddress(f[k])]
      BY <1>3 DEF Agree, Settings!Variables
    <2>2. b = [k \in {<<"HTTP", n>> : n \in {"API_KEY"}} |-> Settings!Trimmed(f[k])]
      BY <1>3 DEF Agree, Settings!Variables
    <2>3. c = [k \in {<<"HTTP", n>> : n \in {"REQUEST_TIMEOUT_SECS"}} |-> Settings!Strict(f[k])]
      BY <1>3 DEF Agree, Settings!Variables
    <2> QED
      BY <1>2, <2>1, <2>2, <2>3 DEF Settings!Http, Settings!Each
  <1>4. Sound(e, {"HTTP"}, Settings!Merge({a, b, c}))
    BY <1>1, MergeIsSound
  <1> QED
    BY <1>2, <1>3, <1>4

LEMMA ConsumerLoads ==
  ASSUME NEW e, Settable(e, "INBOUND_NATS")
  PROVE  /\ Sound(e, {"INBOUND_NATS"}, Settings!Consumer(e))
         /\ \A f : Agree(e, f, "INBOUND_NATS") => Settings!Consumer(f) = Settings!Consumer(e)
  <1> PICK a : a = [k \in {<<"INBOUND_NATS", n>> : n \in {"STREAM", "SUBJECT", "CONSUMER"}} |->
                      Settings!Required(e[k])]
    OBVIOUS
  <1> PICK b : b = [k \in {<<"INBOUND_NATS", n>> : n \in {"ACK_WAIT_SECS", "MAX_DELIVER"}} |->
                      Settings!LaxNonZero(e[k])]
    OBVIOUS
  <1> PICK c : c = [k \in {<<"INBOUND_NATS", n>> : n \in {"BACKOFF_SECS"}} |-> Settings!Lax(e[k])]
    OBVIOUS
  <1>1. Sound(e, {"INBOUND_NATS"}, a) /\ Sound(e, {"INBOUND_NATS"}, b) /\ Sound(e, {"INBOUND_NATS"}, c)
    BY ReadersAreFaithful DEF Sound, Settable, Settings!Variables
  <1>2. Settings!Consumer(e) = Settings!Merge({a, b, c})
    BY DEF Settings!Consumer, Settings!Each
  <1>3. ASSUME NEW f, Agree(e, f, "INBOUND_NATS") PROVE Settings!Consumer(f) = Settings!Consumer(e)
    <2>1. a = [k \in {<<"INBOUND_NATS", n>> : n \in {"STREAM", "SUBJECT", "CONSUMER"}} |-> Settings!Required(f[k])]
      BY <1>3 DEF Agree, Settings!Variables
    <2>2. b = [k \in {<<"INBOUND_NATS", n>> : n \in {"ACK_WAIT_SECS", "MAX_DELIVER"}} |-> Settings!LaxNonZero(f[k])]
      BY <1>3 DEF Agree, Settings!Variables
    <2>3. c = [k \in {<<"INBOUND_NATS", n>> : n \in {"BACKOFF_SECS"}} |-> Settings!Lax(f[k])]
      BY <1>3 DEF Agree, Settings!Variables
    <2> QED
      BY <1>2, <2>1, <2>2, <2>3 DEF Settings!Consumer, Settings!Each
  <1>4. Sound(e, {"INBOUND_NATS"}, Settings!Merge({a, b, c}))
    BY <1>1, MergeIsSound
  <1> QED
    BY <1>2, <1>3, <1>4

LEMMA WorkerLoads ==
  ASSUME NEW e, Settable(e, "WORKER")
  PROVE  /\ Sound(e, {"WORKER"}, Settings!Worker(e))
         /\ \A f : Agree(e, f, "WORKER") => Settings!Worker(f) = Settings!Worker(e)
  <1> PICK a : a = [k \in {<<"WORKER", n>> : n \in {"CONCURRENCY"}} |-> Settings!StrictNonZero(e[k])]
    OBVIOUS
  <1>1. Sound(e, {"WORKER"}, a)
    BY ReadersAreFaithful DEF Sound, Settable, Settings!Variables
  <1>2. Settings!Worker(e) = a
    BY DEF Settings!Worker, Settings!Each
  <1>3. ASSUME NEW f, Agree(e, f, "WORKER") PROVE Settings!Worker(f) = Settings!Worker(e)
    <2>1. a = [k \in {<<"WORKER", n>> : n \in {"CONCURRENCY"}} |-> Settings!StrictNonZero(f[k])]
      BY <1>3 DEF Agree, Settings!Variables
    <2> QED
      BY <1>2, <2>1 DEF Settings!Worker, Settings!Each
  <1> QED
    BY <1>2, <1>3, <1>1

LEMMA WebhookLoads ==
  ASSUME NEW e, Settable(e, "WEBHOOK")
  PROVE  /\ Sound(e, {"WEBHOOK"}, Settings!Webhook(e))
         /\ \A f : Agree(e, f, "WEBHOOK") => Settings!Webhook(f) = Settings!Webhook(e)
  <1> PICK a : a = [k \in {<<"WEBHOOK", n>> : n \in {"URL"}} |-> Settings!ParsedUrl(e[k])]
    OBVIOUS
  <1> PICK b : b = [k \in {<<"WEBHOOK", n>> : n \in {"TIMEOUT_MS"}} |-> Settings!Lenient(e[k])]
    OBVIOUS
  <1>1. Sound(e, {"WEBHOOK"}, a) /\ Sound(e, {"WEBHOOK"}, b)
    BY ReadersAreFaithful DEF Sound, Settable, Settings!Variables, Settings!Excepted, Settings!LenientlyRead, Settings!Lenient
  <1>2. Settings!Webhook(e) = Settings!Merge({a, b})
    BY DEF Settings!Webhook, Settings!Each
  <1>3. ASSUME NEW f, Agree(e, f, "WEBHOOK") PROVE Settings!Webhook(f) = Settings!Webhook(e)
    <2>1. a = [k \in {<<"WEBHOOK", n>> : n \in {"URL"}} |-> Settings!ParsedUrl(f[k])]
      BY <1>3 DEF Agree, Settings!Variables
    <2>2. b = [k \in {<<"WEBHOOK", n>> : n \in {"TIMEOUT_MS"}} |-> Settings!Lenient(f[k])]
      BY <1>3 DEF Agree, Settings!Variables
    <2> QED
      BY <1>2, <2>1, <2>2 DEF Settings!Webhook, Settings!Each
  <1>4. Sound(e, {"WEBHOOK"}, Settings!Merge({a, b}))
    BY <1>1, MergeIsSound
  <1> QED
    BY <1>2, <1>3, <1>4

LEMMA NatsEventsLoads ==
  ASSUME NEW e, Settable(e, "NATS_EVENTS")
  PROVE  /\ Sound(e, {"NATS_EVENTS"}, Settings!NatsEvents(e))
         /\ \A f : Agree(e, f, "NATS_EVENTS") => Settings!NatsEvents(f) = Settings!NatsEvents(e)
  <1> PICK a : a = [k \in {<<"NATS_EVENTS", n>> : n \in {"URL", "SUBJECT"}} |-> Settings!Text(e[k])]
    OBVIOUS
  <1>1. Sound(e, {"NATS_EVENTS"}, a)
    BY ReadersAreFaithful DEF Sound, Settable, Settings!Variables
  <1>2. Settings!NatsEvents(e) = a
    BY DEF Settings!NatsEvents, Settings!Each
  <1>3. ASSUME NEW f, Agree(e, f, "NATS_EVENTS") PROVE Settings!NatsEvents(f) = Settings!NatsEvents(e)
    <2>1. a = [k \in {<<"NATS_EVENTS", n>> : n \in {"URL", "SUBJECT"}} |-> Settings!Text(f[k])]
      BY <1>3 DEF Agree, Settings!Variables
    <2> QED
      BY <1>2, <2>1 DEF Settings!NatsEvents, Settings!Each
  <1> QED
    BY <1>2, <1>3, <1>1

LEMMA FetcherLoads ==
  ASSUME NEW e, Settable(e, "ATTACHMENT_FETCHER")
  PROVE  /\ Sound(e, {"ATTACHMENT_FETCHER"}, Settings!Fetcher(e))
         /\ \A f : Agree(e, f, "ATTACHMENT_FETCHER") => Settings!Fetcher(f) = Settings!Fetcher(e)
  <1> PICK a : a = [k \in {<<"ATTACHMENT_FETCHER", n>> : n \in {"ALLOWED_DOMAINS"}} |-> Settings!Text(e[k])]
    OBVIOUS
  <1> PICK b : b = [k \in {<<"ATTACHMENT_FETCHER", n>> : n \in {"ALLOW_HTTP"}} |-> Settings!AllowHttp(e[k])]
    OBVIOUS
  <1> PICK c : c = [k \in {<<"ATTACHMENT_FETCHER", n>> : n \in {"MAX_BYTES", "FETCH_TIMEOUT_MS"}} |->
                      Settings!Lax(e[k])]
    OBVIOUS
  <1>1. /\ Sound(e, {"ATTACHMENT_FETCHER"}, a) /\ Sound(e, {"ATTACHMENT_FETCHER"}, b)
        /\ Sound(e, {"ATTACHMENT_FETCHER"}, c)
    BY ReadersAreFaithful DEF Sound, Settable, Settings!Variables
  <1>2. Settings!Fetcher(e) = Settings!Merge({a, b, c})
    BY DEF Settings!Fetcher, Settings!Each
  <1>3. ASSUME NEW f, Agree(e, f, "ATTACHMENT_FETCHER") PROVE Settings!Fetcher(f) = Settings!Fetcher(e)
    <2>1. a = [k \in {<<"ATTACHMENT_FETCHER", n>> : n \in {"ALLOWED_DOMAINS"}} |-> Settings!Text(f[k])]
      BY <1>3 DEF Agree, Settings!Variables
    <2>2. b = [k \in {<<"ATTACHMENT_FETCHER", n>> : n \in {"ALLOW_HTTP"}} |-> Settings!AllowHttp(f[k])]
      BY <1>3 DEF Agree, Settings!Variables
    <2>3. c = [k \in {<<"ATTACHMENT_FETCHER", n>> : n \in {"MAX_BYTES", "FETCH_TIMEOUT_MS"}} |-> Settings!Lax(f[k])]
      BY <1>3 DEF Agree, Settings!Variables
    <2> QED
      BY <1>2, <2>1, <2>2, <2>3 DEF Settings!Fetcher, Settings!Each
  <1>4. Sound(e, {"ATTACHMENT_FETCHER"}, Settings!Merge({a, b, c}))
    BY <1>1, MergeIsSound
  <1> QED
    BY <1>2, <1>3, <1>4

LEMMA GcLoads ==
  ASSUME NEW e, Settable(e, "GC")
  PROVE  /\ Sound(e, {"GC"}, Settings!Gc(e))
         /\ \A f : Agree(e, f, "GC") => Settings!Gc(f) = Settings!Gc(e)
  <1> PICK a : a = [k \in {<<"GC", n>> : n \in {"SWEEP_INTERVAL_SECS", "GRACE_PERIOD_SECS"}} |->
                      Settings!Lenient(e[k])]
    OBVIOUS
  <1>1. Sound(e, {"GC"}, a)
    BY ReadersAreFaithful DEF Sound, Settable, Settings!Variables, Settings!Excepted, Settings!LenientlyRead, Settings!Lenient
  <1>2. Settings!Gc(e) = a
    BY DEF Settings!Gc, Settings!Each
  <1>3. ASSUME NEW f, Agree(e, f, "GC") PROVE Settings!Gc(f) = Settings!Gc(e)
    <2>1. a = [k \in {<<"GC", n>> : n \in {"SWEEP_INTERVAL_SECS", "GRACE_PERIOD_SECS"}} |-> Settings!Lenient(f[k])]
      BY <1>3 DEF Agree, Settings!Variables
    <2> QED
      BY <1>2, <2>1 DEF Settings!Gc, Settings!Each
  <1> QED
    BY <1>2, <1>3, <1>1

\* Settings of some variables are settings of more.
LEMMA SoundOfMore ==
  ASSUME NEW e, NEW S, NEW T, NEW c, Sound(e, S, c), S \subseteq T
  PROVE  Sound(e, T, c)
  BY DEF Sound

\* The storage, and the one of its backends that is selected.
OnPostgres(e) == e[<<"STORAGE", "BACKEND">>] \in {"postgres", "pg"}

LEMMA StorageLoads ==
  ASSUME NEW e, Settable(e, "STORAGE"), Settable(e, "SQLITE"), Settable(e, "POSTGRES")
  PROVE  /\ Sound(e, {"STORAGE", "SQLITE", "POSTGRES"}, Settings!Storage(e))
         /\ \A f : /\ Agree(e, f, "STORAGE")
                   /\ IF OnPostgres(e) THEN Agree(e, f, "POSTGRES") ELSE Agree(e, f, "SQLITE")
                   => Settings!Storage(f) = Settings!Storage(e)
  <1> DEFINE S == {"STORAGE", "SQLITE", "POSTGRES"}
  <1> PICK a : a = [k \in {<<"STORAGE", n>> : n \in {"BACKEND"}} |-> Settings!StorageBackend(e[k])]
    OBVIOUS
  <1> PICK b : b = IF OnPostgres(e) THEN Settings!Postgres(e) ELSE Settings!Sqlite(e)
    OBVIOUS
  <1>1. Sound(e, S, a)
    BY ReadersAreFaithful DEF Sound, Settable, Settings!Variables
  <1>2. Sound(e, S, b)
    <2>1. Sound(e, S, Settings!Postgres(e))
      BY PostgresLoads, SoundOfMore
    <2>2. Sound(e, S, Settings!Sqlite(e))
      BY SqliteLoads, SoundOfMore
    <2> QED
      BY <2>1, <2>2
  <1>3. Settings!Storage(e) = Settings!Merge({a, b})
    BY DEF Settings!Storage, Settings!Each, OnPostgres
  <1>4. Sound(e, S, Settings!Merge({a, b}))
    BY <1>1, <1>2, MergeIsSound
  <1>5. ASSUME NEW f, Agree(e, f, "STORAGE"),
               IF OnPostgres(e) THEN Agree(e, f, "POSTGRES") ELSE Agree(e, f, "SQLITE")
        PROVE  Settings!Storage(f) = Settings!Storage(e)
    <2>1. a = [k \in {<<"STORAGE", n>> : n \in {"BACKEND"}} |-> Settings!StorageBackend(f[k])]
      BY <1>5 DEF Agree, Settings!Variables
    <2>2. f[<<"STORAGE", "BACKEND">>] = e[<<"STORAGE", "BACKEND">>]
      BY <1>5 DEF Agree, Settings!Variables
    <2>3. b = IF OnPostgres(e) THEN Settings!Postgres(f) ELSE Settings!Sqlite(f)
      BY <1>5, PostgresLoads, SqliteLoads
    <2> QED
      BY <1>3, <2>1, <2>2, <2>3 DEF Settings!Storage, Settings!Each, OnPostgres
  <1> QED
    BY <1>3, <1>4, <1>5

\* The queue, which has settings of its own on NATS.
OnNats(e) == e[<<"QUEUE", "BACKEND">>] = "nats"

LEMMA QueueLoads ==
  ASSUME NEW e, Settable(e, "QUEUE")
  PROVE  /\ Sound(e, {"QUEUE"}, Settings!Queue(e))
         /\ \A f : /\ f[<<"QUEUE", "BACKEND">>] = e[<<"QUEUE", "BACKEND">>]
                   /\ OnNats(e) => Agree(e, f, "QUEUE")
                   => Settings!Queue(f) = Settings!Queue(e)
  <1> PICK a : a = [k \in {<<"QUEUE", n>> : n \in {"BACKEND"}} |-> Settings!QueueBackend(e[k])]
    OBVIOUS
  <1> PICK C : C = {c \in {Settings!QueueNats(e)} : OnNats(e)}
    OBVIOUS
  <1>1. Sound(e, {"QUEUE"}, a) /\ \A c \in C : Sound(e, {"QUEUE"}, c)
    BY ReadersAreFaithful, QueueNatsLoads DEF Sound, Settable, Settings!Variables
  <1>2. Settings!Queue(e) = Settings!Merge({a} \union C)
    BY DEF Settings!Queue, Settings!Each, OnNats
  <1>3. Sound(e, {"QUEUE"}, Settings!Merge({a} \union C))
    BY <1>1, MergeIsSound
  <1>4. ASSUME NEW f, f[<<"QUEUE", "BACKEND">>] = e[<<"QUEUE", "BACKEND">>], OnNats(e) => Agree(e, f, "QUEUE")
        PROVE  Settings!Queue(f) = Settings!Queue(e)
    <2>1. a = [k \in {<<"QUEUE", n>> : n \in {"BACKEND"}} |-> Settings!QueueBackend(f[k])]
      BY <1>4
    <2>2. C = {c \in {Settings!QueueNats(f)} : OnNats(f)}
      BY <1>4, QueueNatsLoads DEF OnNats
    <2> QED
      BY <1>2, <2>1, <2>2 DEF Settings!Queue, Settings!Each, OnNats
  <1> QED
    BY <1>2, <1>3, <1>4

\* The store of attachments, and the one of its backends that is selected.
LEMMA AttachmentStoreLoads ==
  ASSUME NEW e, Settable(e, "ATTACHMENT"), Settable(e, "ATTACHMENT_FS"), Settable(e, "ATTACHMENT_S3"),
         Settable(e, "ATTACHMENT_REDIS")
  PROVE  /\ Sound(e, {"ATTACHMENT", "ATTACHMENT_FS", "ATTACHMENT_S3", "ATTACHMENT_REDIS"},
                  Settings!AttachmentStore(e))
         /\ \A f : /\ Agree(e, f, "ATTACHMENT") /\ Agree(e, f, "ATTACHMENT_REDIS")
                   /\ e[<<"ATTACHMENT", "BACKEND">>] = "s3" => Agree(e, f, "ATTACHMENT_S3")
                   /\ e[<<"ATTACHMENT", "BACKEND">>] \notin {"s3", "redis"} => Agree(e, f, "ATTACHMENT_FS")
                   => Settings!AttachmentStore(f) = Settings!AttachmentStore(e)
  <1> DEFINE S == {"ATTACHMENT", "ATTACHMENT_FS", "ATTACHMENT_S3", "ATTACHMENT_REDIS"}
             Chosen(x) == CASE x = "s3"    -> Settings!S3(e)
                              [] x = "redis" -> Settings!Redis(e)
                              [] OTHER       -> Settings!Fs(e)
  <1> PICK x : x = e[<<"ATTACHMENT", "BACKEND">>]
    OBVIOUS
  <1> PICK a : a = [k \in {<<"ATTACHMENT", n>> : n \in {"BACKEND"}} |-> Settings!StoreBackend(e[k])]
    OBVIOUS
  <1> PICK b : b = Chosen(x)
    OBVIOUS
  <1>1. Sound(e, S, a)
    BY ReadersAreFaithful DEF Sound, Settable, Settings!Variables
  <1>2. Sound(e, S, b)
    <2>1. Sound(e, S, Settings!S3(e)) /\ Sound(e, S, Settings!Redis(e)) /\ Sound(e, S, Settings!Fs(e))
      BY S3Loads, RedisLoads, FsLoads, SoundOfMore
    <2> QED
      BY <2>1
  <1>3. Settings!AttachmentStore(e) = Settings!Merge({a, b})
    BY DEF Settings!AttachmentStore, Settings!Each
  <1>4. Sound(e, S, Settings!Merge({a, b}))
    BY <1>1, <1>2, MergeIsSound
  <1>5. ASSUME NEW f, Agree(e, f, "ATTACHMENT"), Agree(e, f, "ATTACHMENT_REDIS"),
               x = "s3" => Agree(e, f, "ATTACHMENT_S3"), x \notin {"s3", "redis"} => Agree(e, f, "ATTACHMENT_FS")
        PROVE  Settings!AttachmentStore(f) = Settings!AttachmentStore(e)
    <2>1. a = [k \in {<<"ATTACHMENT", n>> : n \in {"BACKEND"}} |-> Settings!StoreBackend(f[k])]
      BY <1>5 DEF Agree, Settings!Variables
    <2>2. f[<<"ATTACHMENT", "BACKEND">>] = x
      BY <1>5 DEF Agree, Settings!Variables
    <2>3. b = CASE x = "s3"    -> Settings!S3(f)
                [] x = "redis" -> Settings!Redis(f)
                [] OTHER       -> Settings!Fs(f)
      BY <1>5, S3Loads, RedisLoads, FsLoads
    <2> QED
      BY <1>3, <2>1, <2>2, <2>3 DEF Settings!AttachmentStore, Settings!Each
  <1> QED
    BY <1>3, <1>4, <1>5

\* Submissions over NATS, which have settings when they have a URL.
InboundUrl(e) == Settings!Trimmed(e[<<"INBOUND_NATS", "URL">>])

LEMMA InboundNatsLoads ==
  ASSUME NEW e, Settable(e, "INBOUND_NATS")
  PROVE  /\ Sound(e, {"INBOUND_NATS"}, Settings!InboundNats(e))
         /\ \A f : /\ InboundUrl(f) = InboundUrl(e)
                   /\ InboundUrl(e) # Settings!Default => Agree(e, f, "INBOUND_NATS")
                   => Settings!InboundNats(f) = Settings!InboundNats(e)
  <1> PICK a : a = [k \in {<<"INBOUND_NATS", n>> : n \in {"URL"}} |-> Settings!Trimmed(e[k])]
    OBVIOUS
  <1> PICK C : C = {c \in {Settings!Consumer(e)} : InboundUrl(e) # Settings!Default}
    OBVIOUS
  <1>1. Sound(e, {"INBOUND_NATS"}, a) /\ \A c \in C : Sound(e, {"INBOUND_NATS"}, c)
    BY ReadersAreFaithful, ConsumerLoads DEF Sound, Settable, Settings!Variables
  <1>2. Settings!InboundNats(e) = Settings!Merge({a} \union C)
    BY DEF Settings!InboundNats, Settings!Each, InboundUrl
  <1>3. Sound(e, {"INBOUND_NATS"}, Settings!Merge({a} \union C))
    BY <1>1, MergeIsSound
  <1>4. ASSUME NEW f, InboundUrl(f) = InboundUrl(e),
               InboundUrl(e) # Settings!Default => Agree(e, f, "INBOUND_NATS")
        PROVE  Settings!InboundNats(f) = Settings!InboundNats(e)
    <2>1. a = [k \in {<<"INBOUND_NATS", n>> : n \in {"URL"}} |-> Settings!Trimmed(f[k])]
      BY <1>4 DEF InboundUrl
    <2>2. C = {c \in {Settings!Consumer(f)} : InboundUrl(f) # Settings!Default}
      BY <1>4, ConsumerLoads
    <2> QED
      BY <1>2, <2>1, <2>2 DEF Settings!InboundNats, Settings!Each, InboundUrl
  <1> QED
    BY <1>2, <1>3, <1>4

\* The loader of includes, whose lists exclude each other.
LEMMA IncludeLoaderLoads ==
  ASSUME NEW e, Settable(e, "INCLUDE_LOADER")
  PROVE  /\ Sound(e, {"INCLUDE_LOADER"}, Settings!IncludeLoader(e))
         /\ \A f : Agree(e, f, "INCLUDE_LOADER") => Settings!IncludeLoader(f) = Settings!IncludeLoader(e)
  <1> DEFINE Both(f) == \A n \in {"HTTP_ALLOW", "HTTP_DENY"} :
                          Settings!Origins(f[<<"INCLUDE_LOADER", n>>]) # Settings!Default
  <1> PICK a : a = [k \in {<<"INCLUDE_LOADER", n>> : n \in {"FS_ROOT"}} |-> Settings!Origins(e[k])]
    OBVIOUS
  <1> PICK b : b = [k \in {<<"INCLUDE_LOADER", n>> : n \in {"HTTP_ALLOW", "HTTP_DENY"}} |->
                      IF Both(e) THEN Settings!Error ELSE Settings!Origins(e[k])]
    OBVIOUS
  <1>1. Sound(e, {"INCLUDE_LOADER"}, a) /\ Sound(e, {"INCLUDE_LOADER"}, b)
    BY ReadersAreFaithful DEF Sound, Settable, Settings!Variables
  <1>2. Settings!IncludeLoader(e) = Settings!Merge({a, b})
    BY DEF Settings!IncludeLoader, Settings!Each
  <1>3. Sound(e, {"INCLUDE_LOADER"}, Settings!Merge({a, b}))
    BY <1>1, MergeIsSound
  <1>4. ASSUME NEW f, Agree(e, f, "INCLUDE_LOADER") PROVE Settings!IncludeLoader(f) = Settings!IncludeLoader(e)
    <2>1. \A n \in {"HTTP_ALLOW", "HTTP_DENY", "FS_ROOT"} : f[<<"INCLUDE_LOADER", n>>] = e[<<"INCLUDE_LOADER", n>>]
      BY <1>4 DEF Agree, Settings!Variables
    <2>2. a = [k \in {<<"INCLUDE_LOADER", n>> : n \in {"FS_ROOT"}} |-> Settings!Origins(f[k])]
      BY <2>1
    <2>3. Both(e) <=> Both(f)
      BY <2>1
    <2>4. b = [k \in {<<"INCLUDE_LOADER", n>> : n \in {"HTTP_ALLOW", "HTTP_DENY"}} |->
                 IF Both(f) THEN Settings!Error ELSE Settings!Origins(f[k])]
      <3> HIDE DEF Both
      <3> QED
        BY <2>1, <2>3
    <2> QED
      BY <1>2, <2>2, <2>4 DEF Settings!IncludeLoader, Settings!Each
  <1> QED
    BY <1>2, <1>3, <1>4

\* A prefix that the list of the senders leads to.
IsSender(e, p) == p \in Settings!Prefixes(e[<<"SENDERS", "">>])

\* Half a sender's credentials are excepted, whatever is loaded.
LEMMA HalfIsExcepted ==
  ASSUME NEW e, NEW p, IsSender(e, p),
         Settings!Half(e, p, "USERNAME", "PASSWORD")
  PROVE  {<<p, "USERNAME">>, <<p, "PASSWORD">>} \subseteq Settings!Excepted(e)
  <1>1. p \in {q \in Settings!Prefixes(e[<<"SENDERS", "">>]) : Settings!Half(e, q, "USERNAME", "PASSWORD")}
    BY DEF IsSender
  <1>2. {<<p, "USERNAME">>, <<p, "PASSWORD">>} \subseteq Settings!HalfCredentials(e)
    BY <1>1, Zenon DEF Settings!HalfCredentials
  <1> QED
    BY <1>2 DEF Settings!Excepted

LEMMA CredentialsLoad ==
  ASSUME NEW e, NEW p, IsSender(e, p),
         \A n \in {"USERNAME", "PASSWORD"} : <<p, n>> \in DOMAIN e
  PROVE  /\ Sound(e, {p}, Settings!Credentials(e, p))
         /\ \A f : (\A n \in {"USERNAME", "PASSWORD"} : f[<<p, n>>] = e[<<p, n>>])
                   => Settings!Credentials(f, p) = Settings!Credentials(e, p)
  <1> DEFINE names == {<<p, n>> : n \in {"USERNAME", "PASSWORD"}}
  <1>1. ASSUME NEW f, Settings!Half(f, p, "USERNAME", "PASSWORD")
        PROVE  Settings!Credentials(f, p) = [k \in names |-> Settings!Default]
    BY <1>1, Zenon DEF Settings!Credentials, Settings!Each
  <1>2. ASSUME NEW f, ~Settings!Half(f, p, "USERNAME", "PASSWORD")
        PROVE  Settings!Credentials(f, p) = [k \in names |-> Settings!Text(f[k])]
    BY <1>2, Zenon DEF Settings!Credentials, Settings!Each
  <1>3. Sound(e, {p}, Settings!Credentials(e, p))
    <2>1. CASE Settings!Half(e, p, "USERNAME", "PASSWORD")
      <3> PICK u : u = [k \in names |-> Settings!Default]
        OBVIOUS
      <3>1. {<<p, "USERNAME">>, <<p, "PASSWORD">>} \subseteq Settings!Excepted(e)
        BY <2>1, HalfIsExcepted
      <3>2. Sound(e, {p}, u)
        BY <3>1 DEF Sound
      <3>3. Settings!Credentials(e, p) = u
        BY <1>1, <2>1, Zenon
      <3> QED
        BY ONLY <3>2, <3>3
    <2>2. CASE ~Settings!Half(e, p, "USERNAME", "PASSWORD")
      <3> PICK u : u = [k \in names |-> Settings!Text(e[k])]
        OBVIOUS
      <3>1. Sound(e, {p}, u)
        BY ReadersAreFaithful DEF Sound
      <3>2. Settings!Credentials(e, p) = u
        BY <1>2, <2>2, Zenon
      <3> QED
        BY ONLY <3>1, <3>2
    <2> QED
      BY <2>1, <2>2
  <1>4. ASSUME NEW f, \A n \in {"USERNAME", "PASSWORD"} : f[<<p, n>>] = e[<<p, n>>]
        PROVE  Settings!Credentials(f, p) = Settings!Credentials(e, p)
    <2>1. Settings!Half(f, p, "USERNAME", "PASSWORD") <=> Settings!Half(e, p, "USERNAME", "PASSWORD")
      BY <1>4 DEF Settings!Half
    <2>2. [k \in names |-> Settings!Text(f[k])] = [k \in names |-> Settings!Text(e[k])]
      BY <1>4
    <2>3. CASE Settings!Half(e, p, "USERNAME", "PASSWORD")
      BY <1>1, <2>1, <2>3
    <2>4. CASE ~Settings!Half(e, p, "USERNAME", "PASSWORD")
      BY <1>2, <2>1, <2>2, <2>4
    <2> QED
      BY <2>3, <2>4
  <1> QED
    BY <1>3, <1>4

\* A sender, whose variables have its prefix.
LEMMA SenderLoads ==
  ASSUME NEW e, NEW p, IsSender(e, p), \A n \in Settings!SenderVariables : <<p, n>> \in DOMAIN e
  PROVE  /\ Sound(e, {p}, Settings!Sender(e, p))
         /\ \A f : (\A n \in Settings!SenderVariables : f[<<p, n>>] = e[<<p, n>>])
                   => Settings!Sender(f, p) = Settings!Sender(e, p)
  <1> DEFINE Half(f) == Settings!Half(f, p, "QUOTA_COUNT", "QUOTA_RANGE")
  <1> PICK h : h = [k \in {<<p, n>> : n \in {"HOST"}} |-> Settings!Required(e[k])]
    OBVIOUS
  <1> PICK o : o = [k \in {<<p, n>> : n \in {"PORT"}} |-> Settings!Lax(e[k])]
    OBVIOUS
  <1> PICK u : u = Settings!Credentials(e, p)
    OBVIOUS
  <1> PICK t : t = [k \in {<<p, n>> : n \in {"TLS"}} |-> Settings!Tls(e[k])]
    OBVIOUS
  <1> PICK c : c = [k \in {<<p, n>> : n \in {"QUOTA_COUNT"}} |->
                      IF Half(e) THEN Settings!Error ELSE Settings!Lax(e[k])]
    OBVIOUS
  <1> PICK r : r = [k \in {<<p, n>> : n \in {"QUOTA_RANGE"}} |->
                      IF Half(e) THEN Settings!Error ELSE Settings!QuotaRange(e[k])]
    OBVIOUS
  <1> PICK i : i = [k \in {<<p, n>> : n \in {"PRIORITY"}} |-> Settings!Lax(e[k])]
    OBVIOUS
  <1> PICK m : m = [k \in {<<p, n>> : n \in {"MATCH_DOMAIN"}} |-> Settings!Trimmed(e[k])]
    OBVIOUS
  <1>0. /\ <<p, "HOST">> \in DOMAIN e /\ <<p, "PORT">> \in DOMAIN e
        /\ <<p, "USERNAME">> \in DOMAIN e /\ <<p, "PASSWORD">> \in DOMAIN e
        /\ <<p, "TLS">> \in DOMAIN e /\ <<p, "PRIORITY">> \in DOMAIN e
        /\ <<p, "QUOTA_COUNT">> \in DOMAIN e /\ <<p, "QUOTA_RANGE">> \in DOMAIN e
        /\ <<p, "MATCH_DOMAIN">> \in DOMAIN e
    BY DEF Settings!SenderVariables
  <1>7. /\ Sound(e, {p}, u)
        /\ \A f : (\A n \in {"USERNAME", "PASSWORD"} : f[<<p, n>>] = e[<<p, n>>]) => Settings!Credentials(f, p) = u
    <2>1. \A n \in {"USERNAME", "PASSWORD"} : <<p, n>> \in DOMAIN e
      BY <1>0
    <2> QED
      BY <2>1, CredentialsLoad
  <1>1. /\ Sound(e, {p}, h) /\ Sound(e, {p}, o) /\ Sound(e, {p}, u) /\ Sound(e, {p}, t)
        /\ Sound(e, {p}, c) /\ Sound(e, {p}, r) /\ Sound(e, {p}, i) /\ Sound(e, {p}, m)
    <2>1. /\ DOMAIN h \subseteq DOMAIN e /\ DOMAIN o \subseteq DOMAIN e
          /\ DOMAIN t \subseteq DOMAIN e /\ DOMAIN c \subseteq DOMAIN e /\ DOMAIN r \subseteq DOMAIN e
          /\ DOMAIN i \subseteq DOMAIN e /\ DOMAIN m \subseteq DOMAIN e
      BY <1>0
    <2> DEFINE Reads(x) == \A k \in DOMAIN x : k[1] = p /\ Faithful(e[k], x[k])
    <2>2. Reads(h) /\ Reads(o) /\ Reads(t)
      BY ReadersAreFaithful
    <2>3. Reads(c) /\ Reads(r) /\ Reads(i) /\ Reads(m)
      BY ReadersAreFaithful DEF Settings!Half
    <2>4. \A x : DOMAIN x \subseteq DOMAIN e /\ Reads(x) => Sound(e, {p}, x)
      BY DEF Sound
    <2>5. Sound(e, {p}, u)
      BY <1>7
    <2> HIDE DEF Reads
    <2> QED
      BY ONLY <2>1, <2>2, <2>3, <2>4, <2>5
  <1>2. Settings!Smtp(e, p) = Settings!Merge({h, o, u, t}) /\ Sound(e, {p}, Settings!Smtp(e, p))
    <2>1. Settings!Smtp(e, p) = Settings!Merge({h, o, u, t})
      BY DEF Settings!Smtp, Settings!Each
    <2>2. Sound(e, {p}, Settings!Merge({h, o, u, t}))
      BY <1>1, MergeIsSound
    <2> QED
      BY <2>1, <2>2
  <1>3. Settings!Quota(e, p) = Settings!Merge({c, r}) /\ Sound(e, {p}, Settings!Quota(e, p))
    <2>1. Settings!Quota(e, p) = Settings!Merge({c, r})
      BY DEF Settings!Quota, Settings!Each
    <2>2. Sound(e, {p}, Settings!Merge({c, r}))
      BY <1>1, MergeIsSound
    <2> QED
      BY <2>1, <2>2
  <1>4. Settings!Sender(e, p) = Settings!Merge({Settings!Smtp(e, p), Settings!Quota(e, p), i, m})
    BY DEF Settings!Sender, Settings!Priority, Settings!Each
  <1>5. Sound(e, {p}, Settings!Sender(e, p))
    <2>1. \A x \in {Settings!Smtp(e, p), Settings!Quota(e, p), i, m} : Sound(e, {p}, x)
      BY <1>1, <1>2, <1>3
    <2>2. Sound(e, {p}, Settings!Merge({Settings!Smtp(e, p), Settings!Quota(e, p), i, m}))
      BY <2>1, MergeIsSound
    <2> QED
      BY <1>4, <2>2
  <1>6. ASSUME NEW f, \A n \in Settings!SenderVariables : f[<<p, n>>] = e[<<p, n>>]
        PROVE  Settings!Sender(f, p) = Settings!Sender(e, p)
    <2>1. \A n \in {"HOST", "PORT", "USERNAME", "PASSWORD", "TLS", "QUOTA_COUNT", "QUOTA_RANGE", "PRIORITY",
                    "MATCH_DOMAIN"} : f[<<p, n>>] = e[<<p, n>>]
      BY <1>6 DEF Settings!SenderVariables
    <2>2. Settings!Smtp(f, p) = Settings!Smtp(e, p)
      <3>1. h = [k \in {<<p, n>> : n \in {"HOST"}} |-> Settings!Required(f[k])]
        BY <2>1
      <3>2. o = [k \in {<<p, n>> : n \in {"PORT"}} |-> Settings!Lax(f[k])]
        BY <2>1
      <3>3. u = Settings!Credentials(f, p)
        BY <2>1, <1>7
      <3>4. t = [k \in {<<p, n>> : n \in {"TLS"}} |-> Settings!Tls(f[k])]
        BY <2>1
      <3> QED
        BY <1>2, <3>1, <3>2, <3>3, <3>4 DEF Settings!Smtp, Settings!Each
    <2>3. Settings!Quota(f, p) = Settings!Quota(e, p)
      <3>1. Half(e) <=> Half(f)
        BY <2>1 DEF Settings!Half
      <3> HIDE DEF Half
      <3>2. c = [k \in {<<p, n>> : n \in {"QUOTA_COUNT"}} |->
                   IF Half(f) THEN Settings!Error ELSE Settings!Lax(f[k])]
        BY <2>1, <3>1
      <3>3. r = [k \in {<<p, n>> : n \in {"QUOTA_RANGE"}} |->
                   IF Half(f) THEN Settings!Error ELSE Settings!QuotaRange(f[k])]
        BY <2>1, <3>1
      <3> QED
        BY <1>3, <3>2, <3>3 DEF Half, Settings!Quota, Settings!Each
    <2>4. i = [k \in {<<p, n>> : n \in {"PRIORITY"}} |-> Settings!Lax(f[k])]
      BY <2>1
    <2>5. m = [k \in {<<p, n>> : n \in {"MATCH_DOMAIN"}} |-> Settings!Trimmed(f[k])]
      BY <2>1
    <2> QED
      BY <1>4, <2>2, <2>3, <2>4, <2>5 DEF Settings!Sender, Settings!Priority, Settings!Each
  <1> QED
    BY <1>5, <1>6

\* The names of the senders, and the senders.
LEMMA SendersLoad ==
  ASSUME NEW e, Settable(e, "SENDERS"),
         \A p \in Settings!Prefixes(e[<<"SENDERS", "">>]) : \A n \in Settings!SenderVariables : <<p, n>> \in DOMAIN e
  PROVE  LET P == Settings!Prefixes(e[<<"SENDERS", "">>]) IN
         /\ Sound(e, {"SENDERS"} \union P, Settings!Senders(e))
         /\ \A f : /\ Agree(e, f, "SENDERS")
                   /\ \A p \in P : \A n \in Settings!SenderVariables : f[<<p, n>>] = e[<<p, n>>]
                   => Settings!Senders(f) = Settings!Senders(e)
  <1> PICK P : P = Settings!Prefixes(e[<<"SENDERS", "">>])
    OBVIOUS
  <1> DEFINE S == {"SENDERS"} \union P
  <1> PICK a : a = [k \in {<<"SENDERS", n>> : n \in {""}} |->
                      IF Settings!Parts(e[k]) = <<>> THEN Settings!Error ELSE Settings!Required(e[k])]
    OBVIOUS
  <1> PICK C : C = {Settings!Sender(e, p) : p \in P}
    OBVIOUS
  <1>1. Sound(e, S, a)
    <2>1. \A k \in DOMAIN a : k = <<"SENDERS", "">> /\ a[k] \in {Settings!Error, Settings!Required(e[k])}
      BY Zenon
    <2>2. Sound(e, {"SENDERS"}, a)
      <3>1. \A x : Faithful(x, Settings!Error) /\ Faithful(x, Settings!Required(x))
        BY ReadersAreFaithful
      <3>2. \A k \in DOMAIN a : k[1] = "SENDERS"
        <4>1. \A y : <<"SENDERS", y>>[1] = "SENDERS"
          OBVIOUS
        <4> QED
          BY <2>1, <4>1, Zenon
      <3>3. \A k \in DOMAIN a : Faithful(e[k], a[k])
        BY <2>1, <3>1
      <3>4. \A k \in DOMAIN a : k \in DOMAIN e
        BY <2>1 DEF Settable, Settings!Variables
      <3> QED
        BY <3>2, <3>3, <3>4 DEF Sound
    <2> QED
      BY <2>2, SoundOfMore
  <1>2. \A c \in C : Sound(e, S, c)
    <2> SUFFICES ASSUME NEW p \in P PROVE Sound(e, S, Settings!Sender(e, p))
      OBVIOUS
    <2>1. Sound(e, {p}, Settings!Sender(e, p))
      BY SenderLoads DEF IsSender
    <2> QED
      BY <2>1, SoundOfMore
  <1>3. Settings!Senders(e) = Settings!Merge({a} \union C)
    BY DEF Settings!Senders, Settings!Each
  <1>4. Sound(e, S, Settings!Merge({a} \union C))
    BY <1>1, <1>2, MergeIsSound
  <1>5. ASSUME NEW f, Agree(e, f, "SENDERS"),
               \A p \in P : \A n \in Settings!SenderVariables : f[<<p, n>>] = e[<<p, n>>]
        PROVE  Settings!Senders(f) = Settings!Senders(e)
    <2>1. f[<<"SENDERS", "">>] = e[<<"SENDERS", "">>]
      BY <1>5 DEF Agree, Settings!Variables
    <2>2. a = [k \in {<<"SENDERS", n>> : n \in {""}} |->
                 IF Settings!Parts(f[k]) = <<>> THEN Settings!Error ELSE Settings!Required(f[k])]
      BY <2>1
    <2>3. C = {Settings!Sender(f, p) : p \in P}
      <3>1. \A p \in P : Settings!Sender(f, p) = Settings!Sender(e, p)
        BY <1>5, SenderLoads DEF IsSender
      <3> QED
        BY <3>1
    <2> QED
      BY <1>3, <2>1, <2>2, <2>3 DEF Settings!Senders, Settings!Each
  <1> QED
    BY <1>3, <1>4, <1>5

\* An entry of the resolver, with a variable for each header it lists; and what it is for
\* the three variables that every entry has.
HostRead(e, p) ==
  IF Settings!Trimmed(e[<<p, "BEARER_TOKEN">>]) = Settings!Default /\ Settings!Parts(e[<<p, "HEADERS">>]) = <<>>
  THEN Settings!Error ELSE Settings!RequiredTrimmed(e[<<p, "HOST">>])
HeadersRead(e, p) ==
  IF Settings!Repeats(Settings!Fragments(e, p)) THEN Settings!Error ELSE Settings!Trimmed(e[<<p, "HEADERS">>])
FragmentsOf(e, p) == {Settings!Fragments(e, p)[i] : i \in DOMAIN Settings!Fragments(e, p)}

LEMMA AuthEntryLoads ==
  ASSUME NEW e, NEW p, \A n \in Settings!EntryVariables \union FragmentsOf(e, p) : <<p, n>> \in DOMAIN e
  PROVE  /\ Sound(e, {p}, Settings!AuthEntry(e, p))
         /\ \A f : (\A n \in Settings!EntryVariables \union FragmentsOf(e, p) : f[<<p, n>>] = e[<<p, n>>])
                   => Settings!AuthEntry(f, p) = Settings!AuthEntry(e, p)
         /\ FragmentsOf(e, p) \intersect Settings!EntryVariables = {} =>
              /\ {<<p, "HOST">>, <<p, "BEARER_TOKEN">>, <<p, "HEADERS">>} \subseteq DOMAIN Settings!AuthEntry(e, p)
              /\ Settings!AuthEntry(e, p)[<<p, "HOST">>] = HostRead(e, p)
              /\ Settings!AuthEntry(e, p)[<<p, "BEARER_TOKEN">>] = Settings!Trimmed(e[<<p, "BEARER_TOKEN">>])
              /\ Settings!AuthEntry(e, p)[<<p, "HEADERS">>] = HeadersRead(e, p)
  <1> DEFINE Nothing(f) == /\ Settings!Trimmed(f[<<p, "BEARER_TOKEN">>]) = Settings!Default
                           /\ Settings!Parts(f[<<p, "HEADERS">>]) = <<>>
             Twice(f)   == Settings!Repeats(Settings!Fragments(f, p))
  <1> PICK h : h = [k \in {<<p, n>> : n \in {"HOST"}} |->
                      IF Nothing(e) THEN Settings!Error ELSE Settings!RequiredTrimmed(e[k])]
    OBVIOUS
  <1> PICK b : b = [k \in {<<p, n>> : n \in {"BEARER_TOKEN"}} |-> Settings!Trimmed(e[k])]
    OBVIOUS
  <1> PICK l : l = [k \in {<<p, n>> : n \in {"HEADERS"}} |->
                      IF Twice(e) THEN Settings!Error ELSE Settings!Trimmed(e[k])]
    OBVIOUS
  <1> PICK v : v = [k \in {<<p, n>> : n \in FragmentsOf(e, p)} |-> Settings!RequiredTrimmed(e[k])]
    OBVIOUS
  <1>1. Settings!AuthEntry(e, p) = Settings!Merge({h, b, l, v})
    BY DEF Settings!AuthEntry, Settings!HostOf, Settings!HeadersOf, Settings!Each, FragmentsOf
  <1>2. /\ DOMAIN h = {<<p, "HOST">>} /\ h[<<p, "HOST">>] = HostRead(e, p)
        /\ DOMAIN b = {<<p, "BEARER_TOKEN">>} /\ b[<<p, "BEARER_TOKEN">>] = Settings!Trimmed(e[<<p, "BEARER_TOKEN">>])
        /\ DOMAIN l = {<<p, "HEADERS">>} /\ l[<<p, "HEADERS">>] = HeadersRead(e, p)
        /\ DOMAIN v = {<<p, n>> : n \in FragmentsOf(e, p)}
        /\ \A k \in DOMAIN v : v[k] = Settings!RequiredTrimmed(e[k])
    BY DEF HostRead, HeadersRead
  <1>3. Sound(e, {p}, Settings!AuthEntry(e, p))
    <2>1. Sound(e, {p}, h) /\ Sound(e, {p}, b) /\ Sound(e, {p}, l) /\ Sound(e, {p}, v)
      <3>1. /\ {<<p, "HOST">>, <<p, "BEARER_TOKEN">>, <<p, "HEADERS">>} \subseteq DOMAIN e
            /\ DOMAIN v \subseteq DOMAIN e
        <4>1. \A n \in Settings!EntryVariables \union FragmentsOf(e, p) : <<p, n>> \in DOMAIN e
          OBVIOUS
        <4>2. {"HOST", "BEARER_TOKEN", "HEADERS"} \subseteq Settings!EntryVariables
          BY DEF Settings!EntryVariables
        <4> QED
          BY ONLY <1>2, <4>1, <4>2
      <3>2. /\ Faithful(e[<<p, "HOST">>], HostRead(e, p)) /\ Faithful(e[<<p, "HEADERS">>], HeadersRead(e, p))
            /\ \A x : Faithful(x, Settings!Trimmed(x)) /\ Faithful(x, Settings!RequiredTrimmed(x))
        BY ReadersAreFaithful DEF HostRead, HeadersRead
      <3>3. \A k, x, y : DOMAIN x = {k} /\ k[1] = p /\ k \in DOMAIN e /\ x[k] = y /\ Faithful(e[k], y)
                        => Sound(e, {p}, x)
        BY DEF Sound
      <3>4. \A n : <<p, n>>[1] = p
        OBVIOUS
      <3>5. Sound(e, {p}, h)
        BY ONLY <1>2, <3>1, <3>2, <3>3, <3>4
      <3>6. Sound(e, {p}, b)
        BY ONLY <1>2, <3>1, <3>2, <3>3, <3>4
      <3>7. Sound(e, {p}, l)
        BY ONLY <1>2, <3>1, <3>2, <3>3, <3>4
      <3>8. Sound(e, {p}, v)
        BY ONLY <1>2, <3>1, <3>2 DEF Sound
      <3> QED
        BY <3>5, <3>6, <3>7, <3>8
    <2>2. Sound(e, {p}, Settings!Merge({h, b, l, v}))
      BY <2>1, MergeIsSound
    <2> QED
      BY <1>1, <2>2
  <1>4. ASSUME NEW f, \A n \in Settings!EntryVariables \union FragmentsOf(e, p) : f[<<p, n>>] = e[<<p, n>>]
        PROVE  Settings!AuthEntry(f, p) = Settings!AuthEntry(e, p)
    <2>1. \A n \in {"HOST", "BEARER_TOKEN", "HEADERS"} : f[<<p, n>>] = e[<<p, n>>]
      BY <1>4 DEF Settings!EntryVariables
    <2>2. Settings!Fragments(f, p) = Settings!Fragments(e, p)
      BY <2>1 DEF Settings!Fragments
    <2>3. (Nothing(e) <=> Nothing(f)) /\ (Twice(e) <=> Twice(f)) /\ FragmentsOf(f, p) = FragmentsOf(e, p)
      BY <2>1, <2>2 DEF FragmentsOf
    <2> HIDE DEF Nothing, Twice
    <2>4. h = [k \in {<<p, n>> : n \in {"HOST"}} |->
                 IF Nothing(f) THEN Settings!Error ELSE Settings!RequiredTrimmed(f[k])]
      BY <2>1, <2>3
    <2>5. b = [k \in {<<p, n>> : n \in {"BEARER_TOKEN"}} |-> Settings!Trimmed(f[k])]
      BY <2>1
    <2>6. l = [k \in {<<p, n>> : n \in {"HEADERS"}} |->
                 IF Twice(f) THEN Settings!Error ELSE Settings!Trimmed(f[k])]
      BY <2>1, <2>3
    <2>7. v = [k \in {<<p, n>> : n \in FragmentsOf(f, p)} |-> Settings!RequiredTrimmed(f[k])]
      BY <1>4, <2>3
    <2> QED
      BY <1>1, <2>4, <2>5, <2>6, <2>7
         DEF Nothing, Twice, Settings!AuthEntry, Settings!HostOf, Settings!HeadersOf, Settings!Each, FragmentsOf
  <1>5. ASSUME FragmentsOf(e, p) \intersect Settings!EntryVariables = {},
               NEW k \in {<<p, "HOST">>, <<p, "BEARER_TOKEN">>, <<p, "HEADERS">>}
        PROVE  /\ k \in DOMAIN Settings!AuthEntry(e, p) /\ k \notin DOMAIN v
               /\ \E c \in {h, b, l} : k \in DOMAIN c /\ Settings!AuthEntry(e, p)[k] = c[k]
    <2>1. k \notin DOMAIN v
      BY <1>2, <1>5 DEF Settings!EntryVariables
    <2> PICK M : M = {h, b, l, v}
      OBVIOUS
    <2>2. \E c \in M : k \in DOMAIN c
      BY <1>2
    <2>3. k \in DOMAIN Settings!Merge(M) /\ \E d \in M : k \in DOMAIN d /\ Settings!Merge(M)[k] = d[k]
      BY ONLY <2>2, MergeGives
    <2> QED
      BY <1>1, <2>1, <2>3
  <1>6. FragmentsOf(e, p) \intersect Settings!EntryVariables = {} =>
              /\ {<<p, "HOST">>, <<p, "BEARER_TOKEN">>, <<p, "HEADERS">>} \subseteq DOMAIN Settings!AuthEntry(e, p)
              /\ Settings!AuthEntry(e, p)[<<p, "HOST">>] = HostRead(e, p)
              /\ Settings!AuthEntry(e, p)[<<p, "BEARER_TOKEN">>] = Settings!Trimmed(e[<<p, "BEARER_TOKEN">>])
              /\ Settings!AuthEntry(e, p)[<<p, "HEADERS">>] = HeadersRead(e, p)
    <2> SUFFICES ASSUME FragmentsOf(e, p) \intersect Settings!EntryVariables = {}
          PROVE  /\ {<<p, "HOST">>, <<p, "BEARER_TOKEN">>, <<p, "HEADERS">>} \subseteq DOMAIN Settings!AuthEntry(e, p)
                 /\ Settings!AuthEntry(e, p)[<<p, "HOST">>] = HostRead(e, p)
                 /\ Settings!AuthEntry(e, p)[<<p, "BEARER_TOKEN">>] = Settings!Trimmed(e[<<p, "BEARER_TOKEN">>])
                 /\ Settings!AuthEntry(e, p)[<<p, "HEADERS">>] = HeadersRead(e, p)
      OBVIOUS
    <2>1. \A k \in {<<p, "HOST">>, <<p, "BEARER_TOKEN">>, <<p, "HEADERS">>} :
            /\ k \in DOMAIN Settings!AuthEntry(e, p)
            /\ \E c \in {h, b, l} : k \in DOMAIN c /\ Settings!AuthEntry(e, p)[k] = c[k]
      BY <1>5
    <2> QED
      BY ONLY <1>2, <2>1
  <1> QED
    BY <1>3, <1>4, <1>6

\* The settings of the resolver and its entries.
LEMMA ResolverLoads ==
  ASSUME NEW e, Settable(e, "RESOLVER"),
         \A p \in Settings!Prefixes(e[<<"RESOLVER", "TOKENS">>]) :
           \A n \in Settings!EntryVariables \union FragmentsOf(e, p) : <<p, n>> \in DOMAIN e
  PROVE  LET P == Settings!Prefixes(e[<<"RESOLVER", "TOKENS">>]) IN
         /\ Sound(e, {"RESOLVER"} \union P, Settings!Resolver(e))
         /\ \A f : /\ Agree(e, f, "RESOLVER")
                   /\ \A p \in P : \A n \in Settings!EntryVariables \union FragmentsOf(e, p) :
                        f[<<p, n>>] = e[<<p, n>>]
                   => Settings!Resolver(f) = Settings!Resolver(e)
         /\ "RESOLVER" \notin P =>
              /\ <<"RESOLVER", "TOKENS">> \in DOMAIN Settings!Resolver(e)
              /\ Settings!Resolver(e)[<<"RESOLVER", "TOKENS">>] = Settings!Text(e[<<"RESOLVER", "TOKENS">>])
              /\ \A p \in P : \A k \in DOMAIN Settings!AuthEntry(e, p) :
                   /\ k \in DOMAIN Settings!Resolver(e)
                   /\ Settings!Resolver(e)[k] = Settings!AuthEntry(e, p)[k]
  <1> PICK P : P = Settings!Prefixes(e[<<"RESOLVER", "TOKENS">>])
    OBVIOUS
  <1> DEFINE S == {"RESOLVER"} \union P
  <1> PICK a : a = [k \in {<<"RESOLVER", n>> : n \in {"ALLOWED_DOMAINS", "TEMPLATES_DIR", "TOKENS"}} |->
                      Settings!Text(e[k])]
    OBVIOUS
  <1> PICK C : C = {Settings!AuthEntry(e, p) : p \in P}
    OBVIOUS
  <1>1. Sound(e, S, a)
    <2>1. Sound(e, {"RESOLVER"}, a)
      BY ReadersAreFaithful DEF Sound, Settable, Settings!Variables
    <2> QED
      BY <2>1, SoundOfMore
  <1>2. \A p \in P : Sound(e, {p}, Settings!AuthEntry(e, p))
    BY AuthEntryLoads
  <1>3. \A c \in C : Sound(e, S, c)
    <2> SUFFICES ASSUME NEW p \in P PROVE Sound(e, S, Settings!AuthEntry(e, p))
      OBVIOUS
    <2> QED
      BY <1>2, SoundOfMore
  <1>4. Settings!Resolver(e) = Settings!Merge({a} \union C)
    BY DEF Settings!Resolver, Settings!Each
  <1>5. Sound(e, S, Settings!Merge({a} \union C))
    BY <1>1, <1>3, MergeIsSound
  <1>6. ASSUME NEW f, Agree(e, f, "RESOLVER"),
               \A p \in P : \A n \in Settings!EntryVariables \union FragmentsOf(e, p) : f[<<p, n>>] = e[<<p, n>>]
        PROVE  Settings!Resolver(f) = Settings!Resolver(e)
    <2>1. \A n \in {"ALLOWED_DOMAINS", "TEMPLATES_DIR", "TOKENS"} : f[<<"RESOLVER", n>>] = e[<<"RESOLVER", n>>]
      BY <1>6 DEF Agree, Settings!Variables
    <2>2. a = [k \in {<<"RESOLVER", n>> : n \in {"ALLOWED_DOMAINS", "TEMPLATES_DIR", "TOKENS"}} |->
                 Settings!Text(f[k])]
      BY <2>1
    <2>3. C = {Settings!AuthEntry(f, p) : p \in P}
      <3>1. \A p \in P : Settings!AuthEntry(f, p) = Settings!AuthEntry(e, p)
        BY <1>6, AuthEntryLoads
      <3> QED
        BY <3>1
    <2>4. f[<<"RESOLVER", "TOKENS">>] = e[<<"RESOLVER", "TOKENS">>]
      BY <2>1
    <2> QED
      BY <1>4, <2>2, <2>3, <2>4 DEF Settings!Resolver, Settings!Each
  <1>7. ASSUME "RESOLVER" \notin P
        PROVE  /\ <<"RESOLVER", "TOKENS">> \in DOMAIN Settings!Resolver(e)
               /\ Settings!Resolver(e)[<<"RESOLVER", "TOKENS">>] = Settings!Text(e[<<"RESOLVER", "TOKENS">>])
    <2> PICK k : k = <<"RESOLVER", "TOKENS">>
      OBVIOUS
    <2>1. k[1] = "RESOLVER" /\ k \in DOMAIN a /\ a[k] = Settings!Text(e[k])
      OBVIOUS
    <2>2. \A c \in C : k \notin DOMAIN c
      BY <1>2, <1>7, <2>1 DEF Sound
    <2> PICK M : M = {a} \union C
      OBVIOUS
    <2>3. \E c \in M : k \in DOMAIN c
      BY <2>1
    <2>4. k \in DOMAIN Settings!Merge(M) /\ \E d \in M : k \in DOMAIN d /\ Settings!Merge(M)[k] = d[k]
      BY ONLY <2>3, MergeGives
    <2> QED
      BY <1>4, <2>1, <2>2, <2>4
  <1>8. ASSUME "RESOLVER" \notin P, NEW p \in P, NEW k \in DOMAIN Settings!AuthEntry(e, p)
        PROVE  k \in DOMAIN Settings!Resolver(e) /\ Settings!Resolver(e)[k] = Settings!AuthEntry(e, p)[k]
    <2>1. k[1] = p
      BY <1>2 DEF Sound
    <2>2. k \notin DOMAIN a
      BY <1>8, <2>1
    <2>3. \A q \in P : k \in DOMAIN Settings!AuthEntry(e, q) => q = p
      BY <1>2, <2>1 DEF Sound
    <2> PICK M : M = {a} \union C
      OBVIOUS
    <2>4. k \in DOMAIN Settings!Merge(M) /\ \E d \in M : k \in DOMAIN d /\ Settings!Merge(M)[k] = d[k]
      <3>1. \E c \in M : k \in DOMAIN c
        OBVIOUS
      <3> QED
        BY ONLY <3>1, MergeGives
    <2> QED
      BY <1>4, <2>2, <2>3, <2>4
  <1> QED
    BY <1>4, <1>5, <1>6, <1>7, <1>8

\* The telemetry, which looks for the standard variables as well.
LEMMA TelemetryLoads ==
  ASSUME NEW e, Settable(e, "CATAPULTE_OTEL")
  PROVE  /\ Sound(e, {"CATAPULTE_OTEL"}, Settings!Telemetry(e))
         /\ \A f : /\ DOMAIN f = DOMAIN e
                   /\ \A k \in DOMAIN e : k[1] \in {"CATAPULTE_OTEL", "OTEL"} => f[k] = e[k]
                   => Settings!Telemetry(f) = Settings!Telemetry(e)
  <1> DEFINE Names == {"TRACES_EXPORTER", "METRICS_EXPORTER", "EXPORTER_OTLP_PROTOCOL", "EXPORTER_OTLP_ENDPOINT",
                       "METRIC_EXPORT_INTERVAL_SECS"}
             Exports(x) == "otlp" \in {x[<<"CATAPULTE_OTEL", "TRACES_EXPORTER">>],
                                       x[<<"CATAPULTE_OTEL", "METRICS_EXPORTER">>]}
  <1>0. \A n \in Names : <<"CATAPULTE_OTEL", n>> \in DOMAIN e
    BY DEF Settable, Settings!Variables
  <1> PICK q : q = Settings!Prefixed(e)
    OBVIOUS
  <1>1. \A n \in Names :
          e[<<"CATAPULTE_OTEL", n>>] \in Blank \/ q[<<"CATAPULTE_OTEL", n>>] = e[<<"CATAPULTE_OTEL", n>>]
    BY <1>0 DEF Settings!Prefixed, Blank, Settings!Unset
  <1> PICK x : x = [k \in {<<"CATAPULTE_OTEL", n>> : n \in {"TRACES_EXPORTER", "METRICS_EXPORTER"}} |->
                      Settings!Exporter(q[k])]
    OBVIOUS
  <1> PICK o : o = [k \in {<<"CATAPULTE_OTEL", n>> : n \in {"EXPORTER_OTLP_PROTOCOL"}} |-> Settings!Protocol(q[k])]
    OBVIOUS
  <1> PICK u : u = [k \in {<<"CATAPULTE_OTEL", n>> : n \in {"EXPORTER_OTLP_ENDPOINT"}} |->
                      IF Exports(q) THEN Settings!Required(q[k]) ELSE Settings!Text(q[k])]
    OBVIOUS
  <1> PICK i : i = [k \in {<<"CATAPULTE_OTEL", n>> : n \in {"METRIC_EXPORT_INTERVAL_SECS"}} |->
                      Settings!LaxNonZero(e[k])]
    OBVIOUS
  <1>2. Settings!Telemetry(e) = Settings!Merge({x, o, u, i})
    BY DEF Settings!Telemetry, Settings!Each
  <1>3. Sound(e, {"CATAPULTE_OTEL"}, Settings!Merge({x, o, u, i}))
    <2> DEFINE S == {"CATAPULTE_OTEL"}
    <2>1. \A k \in DOMAIN u : u[k] \in {Settings!Required(q[k]), Settings!Text(q[k])}
      OBVIOUS
    <2>2. Sound(e, S, x) /\ Sound(e, S, o) /\ Sound(e, S, i)
      <3>1. \A n \in Names : LET k == <<"CATAPULTE_OTEL", n>> IN
              /\ Faithful(e[k], Settings!Exporter(q[k])) /\ Faithful(e[k], Settings!Protocol(q[k]))
              /\ Faithful(e[k], Settings!LaxNonZero(e[k]))
        BY <1>1, ReadersAreFaithful DEF Faithful
      <3>2. Sound(e, S, x)
        <4>1. \A k \in DOMAIN x : /\ \E n \in Names : k = <<"CATAPULTE_OTEL", n>>
                                 /\ k[1] = "CATAPULTE_OTEL" /\ x[k] = Settings!Exporter(q[k])
          OBVIOUS
        <4> QED
          BY <1>0, <3>1, <4>1 DEF Sound
      <3>3. Sound(e, S, o)
        BY <1>0, <3>1 DEF Sound
      <3>4. Sound(e, S, i)
        BY <1>0, <3>1 DEF Sound
      <3> QED
        BY <3>2, <3>3, <3>4
    <2>3. Sound(e, S, u)
      BY <1>0, <1>1, <2>1, ReadersAreFaithful DEF Sound, Faithful
    <2> QED
      BY <2>2, <2>3, MergeIsSound
  <1>4. ASSUME NEW f, DOMAIN f = DOMAIN e, \A k \in DOMAIN e : k[1] \in {"CATAPULTE_OTEL", "OTEL"} => f[k] = e[k]
        PROVE  Settings!Telemetry(f) = Settings!Telemetry(e)
    <2> PICK r : r = Settings!Prefixed(f)
      OBVIOUS
    <2>1. \A n \in Names : f[<<"CATAPULTE_OTEL", n>>] = e[<<"CATAPULTE_OTEL", n>>]
      BY <1>0, <1>4
    <2>2. \A n \in Names : <<"OTEL", n>> \in DOMAIN e => f[<<"OTEL", n>>] = e[<<"OTEL", n>>]
      BY <1>4
    <2>3. \A n \in Names : r[<<"CATAPULTE_OTEL", n>>] = q[<<"CATAPULTE_OTEL", n>>]
      <3> SUFFICES ASSUME NEW n \in Names PROVE r[<<"CATAPULTE_OTEL", n>>] = q[<<"CATAPULTE_OTEL", n>>]
        OBVIOUS
      <3> DEFINE d == <<"CATAPULTE_OTEL", n>>
      <3>1. d \in DOMAIN e /\ d[1] = "CATAPULTE_OTEL" /\ d[2] = n
        BY <1>0
      <3> HIDE DEF d
      <3>2. q[d] = IF e[d] = Settings!Unset /\ <<"OTEL", n>> \in DOMAIN e THEN e[<<"OTEL", n>>] ELSE e[d]
        BY <3>1 DEF Settings!Prefixed
      <3>3. r[d] = IF f[d] = Settings!Unset /\ <<"OTEL", n>> \in DOMAIN e THEN f[<<"OTEL", n>>] ELSE f[d]
        BY <1>4, <3>1 DEF Settings!Prefixed
      <3> QED
        BY <2>1, <2>2, <3>2, <3>3 DEF d
    <2>4. Exports(q) <=> Exports(r)
      BY <2>3
    <2> HIDE DEF Exports
    <2>5. x = [k \in {<<"CATAPULTE_OTEL", n>> : n \in {"TRACES_EXPORTER", "METRICS_EXPORTER"}} |->
                 Settings!Exporter(r[k])]
      BY <2>3
    <2>6. o = [k \in {<<"CATAPULTE_OTEL", n>> : n \in {"EXPORTER_OTLP_PROTOCOL"}} |-> Settings!Protocol(r[k])]
      BY <2>3
    <2>7. u = [k \in {<<"CATAPULTE_OTEL", n>> : n \in {"EXPORTER_OTLP_ENDPOINT"}} |->
                 IF Exports(r) THEN Settings!Required(r[k]) ELSE Settings!Text(r[k])]
      BY <2>3, <2>4
    <2>8. i = [k \in {<<"CATAPULTE_OTEL", n>> : n \in {"METRIC_EXPORT_INTERVAL_SECS"}} |->
                 Settings!LaxNonZero(f[k])]
      BY <2>1
    <2> QED
      BY <1>2, <2>5, <2>6, <2>7, <2>8 DEF Exports, Settings!Telemetry, Settings!Each
  <1> QED
    BY <1>2, <1>3, <1>4

\* An environment as the program may find it, and the prefixes that its lists name.
WellSet(e) == DOMAIN e = DOMAIN Choices /\ \A k \in DOMAIN Choices : e[k] \in Settings!Values(k)
SendersOf(e) == Settings!Prefixes(e[<<"SENDERS", "">>])
EntriesOf(e) == Settings!Prefixes(e[<<"RESOLVER", "TOKENS">>])

\* Its components, senders and entries have their variables, which the prefixes tell apart.
LEMMA PrefixesTellApart ==
  ASSUME NEW e, WellSet(e)
  PROVE  /\ \A c \in DOMAIN Settings!Variables : Settable(e, c)
         /\ \A p \in SendersOf(e) : \A n \in Settings!SenderVariables : <<p, n>> \in DOMAIN e
         /\ \A p \in EntriesOf(e) :
              /\ \A n \in Settings!EntryVariables \union FragmentsOf(e, p) : <<p, n>> \in DOMAIN e
              /\ FragmentsOf(e, p) \intersect Settings!EntryVariables = {}
         /\ SendersOf(e) \intersect EntriesOf(e) = {}
         /\ (SendersOf(e) \union EntriesOf(e)) \intersect DOMAIN Settings!Variables = {}
  <1> DEFINE senders == Settings!Listed(<<"SENDERS", "">>)
             entries == Settings!Listed(<<"RESOLVER", "TOKENS">>)
  <1>1. /\ \A c \in DOMAIN Settings!Variables : \A n \in Settings!Variables[c] : <<c, n>> \in DOMAIN Choices
        /\ \A p \in senders : \A n \in Settings!SenderVariables : <<p, n>> \in DOMAIN Choices
        /\ \A p \in entries :
             /\ \A n \in Settings!EntryVariables \union Settings!ListedHeaders(p) : <<p, n>> \in DOMAIN Choices
             /\ Settings!ListedHeaders(p) \intersect Settings!EntryVariables = {}
        /\ senders \intersect entries = {}
        /\ (senders \union entries) \intersect DOMAIN Settings!Variables = {}
    BY PartsAssumption DEF Settings!ConfigurationAssumption
  <1>2. \A c \in DOMAIN Settings!Variables : Settable(e, c)
    BY <1>1 DEF Settable, WellSet
  <1>3. SendersOf(e) \subseteq senders /\ EntriesOf(e) \subseteq entries
    <2>1. <<"SENDERS", "">> \in DOMAIN Choices /\ <<"RESOLVER", "TOKENS">> \in DOMAIN Choices
      BY <1>1 DEF Settings!Variables
    <2>2. \A k \in DOMAIN Choices : Settings!Prefixes(e[k]) \subseteq Settings!Listed(k)
      BY DEF WellSet, Settings!Listed
    <2> QED
      BY <2>1, <2>2 DEF SendersOf, EntriesOf
  <1>4. ASSUME NEW p \in EntriesOf(e) PROVE FragmentsOf(e, p) \subseteq Settings!ListedHeaders(p)
    <2> PICK k : k = <<p, "HEADERS">>
      OBVIOUS
    <2>1. k \in DOMAIN Choices
      BY <1>1, <1>3, <1>4 DEF Settings!EntryVariables
    <2>2. e[k] \in Settings!Values(k)
      BY <2>1 DEF WellSet
    <2>3. FragmentsOf(e, p) = {Fragment[Settings!Parts(e[k])[i]] : i \in DOMAIN Settings!Parts(e[k])}
      BY DEF FragmentsOf, Settings!Fragments
    <2> QED
      BY <2>2, <2>3 DEF Settings!ListedHeaders
  <1> HIDE DEF senders, entries
  <1> QED
    BY <1>1, <1>2, <1>3, <1>4 DEF WellSet

\* The components, and all the prefixes of variables there are.
Components ==
  {"STORAGE", "SQLITE", "POSTGRES", "QUEUE", "ATTACHMENT",
   "ATTACHMENT_FS", "ATTACHMENT_S3", "ATTACHMENT_REDIS", "HTTP", "INBOUND_NATS",
   "WORKER", "WEBHOOK", "NATS_EVENTS", "ATTACHMENT_FETCHER", "GC",
   "INCLUDE_LOADER", "SENDERS", "RESOLVER", "CATAPULTE_OTEL"}
Scope(e) == Components \union SendersOf(e) \union EntriesOf(e)

\* What is loaded is what the environment says, and one component's settings stay its own.
LEMMA LoadedIsSound ==
  ASSUME NEW e, WellSet(e)
  PROVE  /\ Sound(e, Scope(e), Settings!Loaded(e))
         /\ \A k \in DOMAIN Settings!Resolver(e) \union DOMAIN Settings!Http(e) : k \in DOMAIN Settings!Loaded(e)
         /\ \A k \in DOMAIN Settings!Resolver(e) : Settings!Loaded(e)[k] = Settings!Resolver(e)[k]
         /\ \A k \in DOMAIN Settings!Http(e) : Settings!Loaded(e)[k] = Settings!Http(e)[k]
  <1> DEFINE P == SendersOf(e)  Q == EntriesOf(e)
  <1>0. Components = DOMAIN Settings!Variables
    BY DEF Components, Settings!Variables
  <1>1. \A c \in Components : Settable(e, c)
    BY <1>0, PrefixesTellApart
  <1>2. P \intersect Q = {} /\ (P \union Q) \intersect Components = {}
    BY <1>0, PrefixesTellApart
  <1>3. /\ \A p \in P : \A n \in Settings!SenderVariables : <<p, n>> \in DOMAIN e
        /\ \A p \in Q : \A n \in Settings!EntryVariables \union FragmentsOf(e, p) : <<p, n>> \in DOMAIN e
    BY PrefixesTellApart
  <1>4. /\ Settable(e, "STORAGE") /\ Settable(e, "SQLITE")
        /\ Settable(e, "POSTGRES") /\ Settable(e, "QUEUE")
        /\ Settable(e, "ATTACHMENT") /\ Settable(e, "ATTACHMENT_FS")
        /\ Settable(e, "ATTACHMENT_S3") /\ Settable(e, "ATTACHMENT_REDIS")
        /\ Settable(e, "HTTP") /\ Settable(e, "INBOUND_NATS")
        /\ Settable(e, "WORKER") /\ Settable(e, "WEBHOOK")
        /\ Settable(e, "NATS_EVENTS") /\ Settable(e, "ATTACHMENT_FETCHER")
        /\ Settable(e, "GC") /\ Settable(e, "INCLUDE_LOADER")
        /\ Settable(e, "SENDERS") /\ Settable(e, "RESOLVER")
        /\ Settable(e, "CATAPULTE_OTEL")
    BY <1>1 DEF Components
  <1> PICK t : t = Settings!Telemetry(e)
    OBVIOUS
  <1> PICK s : s = Settings!Storage(e)
    OBVIOUS
  <1> PICK h : h = Settings!Http(e)
    OBVIOUS
  <1> PICK n : n = Settings!InboundNats(e)
    OBVIOUS
  <1> PICK d : d = Settings!Senders(e)
    OBVIOUS
  <1> PICK r : r = Settings!Resolver(e)
    OBVIOUS
  <1> PICK w : w = Settings!Worker(e)
    OBVIOUS
  <1> PICK q : q = Settings!Queue(e)
    OBVIOUS
  <1> PICK b : b = Settings!Webhook(e)
    OBVIOUS
  <1> PICK v : v = Settings!NatsEvents(e)
    OBVIOUS
  <1> PICK a : a = Settings!AttachmentStore(e)
    OBVIOUS
  <1> PICK c : c = Settings!Fetcher(e)
    OBVIOUS
  <1> PICK i : i = Settings!IncludeLoader(e)
    OBVIOUS
  <1> PICK g : g = Settings!Gc(e)
    OBVIOUS
  <1>5. /\ Sound(e, {"STORAGE", "SQLITE", "POSTGRES"}, s)
        /\ Sound(e, {"HTTP"}, h)
        /\ Sound(e, {"INBOUND_NATS"}, n)
        /\ Sound(e, {"SENDERS"} \union SendersOf(e), d)
        /\ Sound(e, {"RESOLVER"} \union EntriesOf(e), r)
        /\ Sound(e, {"WORKER"}, w)
        /\ Sound(e, {"QUEUE"}, q)
        /\ Sound(e, {"WEBHOOK"}, b)
        /\ Sound(e, {"NATS_EVENTS"}, v)
        /\ Sound(e, {"ATTACHMENT", "ATTACHMENT_FS", "ATTACHMENT_S3", "ATTACHMENT_REDIS"}, a)
        /\ Sound(e, {"ATTACHMENT_FETCHER"}, c)
        /\ Sound(e, {"INCLUDE_LOADER"}, i)
        /\ Sound(e, {"GC"}, g)
        /\ Sound(e, {"CATAPULTE_OTEL"}, t)
    <2>1. Sound(e, {"STORAGE", "SQLITE", "POSTGRES"}, s)
      BY <1>4, StorageLoads
    <2>2. Sound(e, {"HTTP"}, h)
      BY <1>4, HttpLoads
    <2>3. Sound(e, {"INBOUND_NATS"}, n)
      BY <1>4, InboundNatsLoads
    <2>4. Sound(e, {"SENDERS"} \union SendersOf(e), d)
      BY <1>4, <1>3, SendersLoad DEF SendersOf
    <2>5. Sound(e, {"RESOLVER"} \union EntriesOf(e), r)
      BY <1>4, <1>3, ResolverLoads DEF EntriesOf
    <2>6. Sound(e, {"WORKER"}, w)
      BY <1>4, WorkerLoads
    <2>7. Sound(e, {"QUEUE"}, q)
      BY <1>4, QueueLoads
    <2>8. Sound(e, {"WEBHOOK"}, b)
      BY <1>4, WebhookLoads
    <2>9. Sound(e, {"NATS_EVENTS"}, v)
      BY <1>4, NatsEventsLoads
    <2>10. Sound(e, {"ATTACHMENT", "ATTACHMENT_FS", "ATTACHMENT_S3", "ATTACHMENT_REDIS"}, a)
      BY <1>4, AttachmentStoreLoads
    <2>11. Sound(e, {"ATTACHMENT_FETCHER"}, c)
      BY <1>4, FetcherLoads
    <2>12. Sound(e, {"INCLUDE_LOADER"}, i)
      BY <1>4, IncludeLoaderLoads
    <2>13. Sound(e, {"GC"}, g)
      BY <1>4, GcLoads
    <2>14. Sound(e, {"CATAPULTE_OTEL"}, t)
      BY <1>4, TelemetryLoads
    <2> QED
      BY <2>1, <2>2, <2>3, <2>4, <2>5, <2>6, <2>7, <2>8, <2>9, <2>10, <2>11, <2>12, <2>13, <2>14
  <1> PICK M : M = {s, h, n, d, r, w, q, b, v, a, c, i, g}
    OBVIOUS
  <1> PICK F : F = Settings!Merge(M)
    OBVIOUS
  <1>6. Settings!FromEnv(e) = F /\ Settings!Loaded(e) = Settings!Merge({t, F})
    BY DEF Settings!FromEnv, Settings!Loaded
  <1>7. Sound(e, Scope(e), F)
    <2>1. ASSUME NEW x \in M PROVE Sound(e, Scope(e), x)
      BY <1>5 DEF Sound, Scope, Components
    <2> QED
      BY <2>1, MergeIsSound
  <1>8. Sound(e, Scope(e), Settings!Merge({t, F}))
    <2>1. Sound(e, Scope(e), t)
      BY <1>5, SoundOfMore DEF Scope, Components
    <2>2. \A x \in {t, F} : Sound(e, Scope(e), x)
      BY <1>7, <2>1
    <2> QED
      BY <2>2, MergeIsSound
  <1>9. ASSUME NEW k, NEW y \in {r, h}, k \in DOMAIN y
        PROVE  k \in DOMAIN Settings!Loaded(e) /\ Settings!Loaded(e)[k] = y[k]
    <2>1. \A x \in M : k \in DOMAIN x => x = y
      BY <1>2, <1>5, <1>9 DEF Sound, Components
    <2>2. k \notin DOMAIN t
      BY <1>2, <1>5, <1>9 DEF Sound, Components
    <2>3. \E x \in M : k \in DOMAIN x
      BY <1>9
    <2>4. k \in DOMAIN F /\ \E x \in M : k \in DOMAIN x /\ F[k] = x[k]
      BY <2>3, MergeGives
    <2>5. F[k] = y[k]
      BY <2>1, <2>4
    <2> PICK N : N = {t, F}
      OBVIOUS
    <2>6. \E x \in N : k \in DOMAIN x
      BY <2>4
    <2>7. k \in DOMAIN Settings!Merge(N) /\ \E x \in N : k \in DOMAIN x /\ Settings!Merge(N)[k] = x[k]
      BY ONLY <2>6, MergeGives
    <2> QED
      BY <1>6, <2>2, <2>5, <2>7
  <1> QED
    BY <1>6, <1>8, <1>9

\* Without the variables of what is not selected, the same is loaded and built.
LEMMA UnselectedUnread ==
  ASSUME NEW e, WellSet(e), Settings!EnvironmentReadable(e),
         NEW f, f = [k \in DOMAIN e |-> IF k \in Settings!Unselected(e) THEN Settings!Unset ELSE e[k]]
  PROVE  /\ Settings!Loaded(f) = Settings!Loaded(e)
         /\ Settings!ResolverBuilds(f) <=> Settings!ResolverBuilds(e)
         /\ Settings!EnvironmentReadable(f)
  <1> DEFINE Dropped == {"SQLITE", "POSTGRES", "QUEUE", "ATTACHMENT_FS", "ATTACHMENT_S3", "INBOUND_NATS"}
  <1>0. Components = DOMAIN Settings!Variables
    BY DEF Components, Settings!Variables
  <1>1. DOMAIN f = DOMAIN e /\ \A k \in DOMAIN e : k \notin Settings!Unselected(e) => f[k] = e[k]
    OBVIOUS
  <1>2. \A k \in DOMAIN e : k[1] \notin Dropped => f[k] = e[k]
    BY <1>1 DEF Settings!Unselected
  <1>3. \A c \in Components : Settable(e, c)
    BY <1>0, PrefixesTellApart
  <1>4. \A c \in Components \ Dropped : Agree(e, f, c)
    <2> SUFFICES ASSUME NEW c \in Components \ Dropped, NEW n \in Settings!Variables[c]
                 PROVE  e[<<c, n>>] = f[<<c, n>>]
      BY DEF Agree
    <2> PICK k : k = <<c, n>>
      OBVIOUS
    <2>1. k \in DOMAIN e /\ k[1] = c
      BY <1>3 DEF Settable
    <2> QED
      BY <1>2, <2>1
  <1>5. \A p \in SendersOf(e) \union EntriesOf(e) : \A n : <<p, n>> \in DOMAIN e => f[<<p, n>>] = e[<<p, n>>]
    <2> SUFFICES ASSUME NEW p \in SendersOf(e) \union EntriesOf(e), NEW n, <<p, n>> \in DOMAIN e
                 PROVE  f[<<p, n>>] = e[<<p, n>>]
      OBVIOUS
    <2> PICK k : k = <<p, n>>
      OBVIOUS
    <2>1. p \notin Dropped
      BY <1>0, PrefixesTellApart DEF Components
    <2>2. k[1] = p
      OBVIOUS
    <2> QED
      BY <1>2, <2>1, <2>2
  <1>6. /\ Agree(e, f, "STORAGE") /\ Agree(e, f, "ATTACHMENT") /\ Agree(e, f, "ATTACHMENT_REDIS")
        /\ Agree(e, f, "HTTP") /\ Agree(e, f, "WORKER") /\ Agree(e, f, "WEBHOOK") /\ Agree(e, f, "NATS_EVENTS")
        /\ Agree(e, f, "ATTACHMENT_FETCHER") /\ Agree(e, f, "GC") /\ Agree(e, f, "INCLUDE_LOADER")
        /\ Agree(e, f, "SENDERS") /\ Agree(e, f, "RESOLVER")
    BY <1>4 DEF Components
  <1>7. ASSUME NEW c \in Components,
               \A k \in DOMAIN e : k[1] = c => k \notin Settings!Unselected(e)
        PROVE  Agree(e, f, c)
    <2> SUFFICES ASSUME NEW n \in Settings!Variables[c] PROVE e[<<c, n>>] = f[<<c, n>>]
      BY DEF Agree
    <2> PICK k : k = <<c, n>>
      OBVIOUS
    <2>1. k \in DOMAIN e /\ k[1] = c
      BY <1>3 DEF Settable
    <2> QED
      BY <1>1, <1>7, <2>1
  <1>8. Settings!Storage(f) = Settings!Storage(e)
    <2>1. OnPostgres(e) => Agree(e, f, "POSTGRES")
      <3>1. OnPostgres(e) => \A k \in DOMAIN e : k[1] = "POSTGRES" => k \notin Settings!Unselected(e)
        BY DEF OnPostgres, Settings!Unselected
      <3> QED
        BY <1>7, <3>1 DEF Components
    <2>2. ~OnPostgres(e) => Agree(e, f, "SQLITE")
      <3>1. ~OnPostgres(e) => \A k \in DOMAIN e : k[1] = "SQLITE" => k \notin Settings!Unselected(e)
        BY DEF OnPostgres, Settings!Unselected
      <3> QED
        BY <1>7, <3>1 DEF Components
    <2>3. Settable(e, "STORAGE") /\ Settable(e, "SQLITE") /\ Settable(e, "POSTGRES")
      BY <1>3 DEF Components
    <2> QED
      BY <1>6, <2>1, <2>2, <2>3, StorageLoads
  <1>9. Settings!Queue(f) = Settings!Queue(e)
    <2>1. Settable(e, "QUEUE")
      BY <1>3 DEF Components
    <2>2. f[<<"QUEUE", "BACKEND">>] = e[<<"QUEUE", "BACKEND">>]
      <3> PICK k : k = <<"QUEUE", "BACKEND">>
        OBVIOUS
      <3>1. k \in DOMAIN e /\ k[1] = "QUEUE" /\ k[2] = "BACKEND"
        BY <2>1 DEF Settable, Settings!Variables
      <3> QED
        BY <1>1, <3>1 DEF Settings!Unselected
    <2>3. OnNats(e) => Agree(e, f, "QUEUE")
      <3>1. OnNats(e) => \A k \in DOMAIN e : k[1] = "QUEUE" => k \notin Settings!Unselected(e)
        BY DEF OnNats, Settings!Unselected
      <3> QED
        BY <1>7, <3>1 DEF Components
    <2> QED
      BY <2>1, <2>2, <2>3, QueueLoads
  <1>10. Settings!AttachmentStore(f) = Settings!AttachmentStore(e)
    <2> PICK x : x = e[<<"ATTACHMENT", "BACKEND">>]
      OBVIOUS
    <2>1. x = "s3" => Agree(e, f, "ATTACHMENT_S3")
      <3>1. x = "s3" => \A k \in DOMAIN e : k[1] = "ATTACHMENT_S3" => k \notin Settings!Unselected(e)
        BY DEF Settings!Unselected
      <3> QED
        BY <1>7, <3>1 DEF Components
    <2>2. x \notin {"s3", "redis"} => Agree(e, f, "ATTACHMENT_FS")
      <3>1. x \notin {"s3", "redis"} => \A k \in DOMAIN e : k[1] = "ATTACHMENT_FS" => k \notin Settings!Unselected(e)
        BY DEF Settings!Unselected
      <3> QED
        BY <1>7, <3>1 DEF Components
    <2>3. /\ Settable(e, "ATTACHMENT") /\ Settable(e, "ATTACHMENT_FS") /\ Settable(e, "ATTACHMENT_S3")
          /\ Settable(e, "ATTACHMENT_REDIS")
      BY <1>3 DEF Components
    <2> QED
      BY <1>6, <2>1, <2>2, <2>3, AttachmentStoreLoads
  <1>11. Settings!InboundNats(f) = Settings!InboundNats(e)
    <2>1. Settable(e, "INBOUND_NATS")
      BY <1>3 DEF Components
    <2> PICK k : k = <<"INBOUND_NATS", "URL">>
      OBVIOUS
    <2>2. k \in DOMAIN e /\ k[1] = "INBOUND_NATS" /\ e[k] # Settings!Raw
      BY <2>1 DEF Settable, Settings!Variables, Settings!EnvironmentReadable
    <2>3. CASE e[k] \in {Settings!Unset, ""}
      <3>1. f[k] = Settings!Unset
        BY <2>2, <2>3 DEF Settings!Unselected
      <3>2. InboundUrl(e) = Settings!Default /\ InboundUrl(f) = Settings!Default
        BY <2>3, <3>1 DEF InboundUrl, Settings!Trimmed, Settings!Absent
      <3> QED
        BY <2>1, <3>2, InboundNatsLoads
    <2>4. CASE e[k] \notin {Settings!Unset, ""}
      <3>1. \A j \in DOMAIN e : j[1] = "INBOUND_NATS" => j \notin Settings!Unselected(e)
        BY <2>4 DEF Settings!Unselected
      <3>2. Agree(e, f, "INBOUND_NATS")
        BY <1>7, <3>1 DEF Components
      <3>3. f[k] = e[k]
        BY <1>1, <2>2, <3>1
      <3> QED
        BY <2>1, <3>2, <3>3, InboundNatsLoads DEF InboundUrl
    <2> QED
      BY <2>3, <2>4
  <1>12. Settings!Senders(f) = Settings!Senders(e)
    <2>1. \A p \in SendersOf(e) : \A n \in Settings!SenderVariables : <<p, n>> \in DOMAIN e
      BY PrefixesTellApart
    <2>2. \A p \in SendersOf(e) : \A n \in Settings!SenderVariables : f[<<p, n>>] = e[<<p, n>>]
      BY <1>5, <2>1
    <2>3. Settable(e, "SENDERS")
      BY <1>3 DEF Components
    <2> QED
      BY <1>6, <2>1, <2>2, <2>3, SendersLoad DEF SendersOf
  <1>13. Settings!Resolver(f) = Settings!Resolver(e)
    <2>1. \A p \in EntriesOf(e) : \A n \in Settings!EntryVariables \union FragmentsOf(e, p) : <<p, n>> \in DOMAIN e
      BY PrefixesTellApart
    <2>2. \A p \in EntriesOf(e) :
            \A n \in Settings!EntryVariables \union FragmentsOf(e, p) : f[<<p, n>>] = e[<<p, n>>]
      BY <1>5, <2>1
    <2>3. Settable(e, "RESOLVER")
      BY <1>3 DEF Components
    <2> QED
      BY <1>6, <2>1, <2>2, <2>3, ResolverLoads DEF EntriesOf
  <1>14. Settings!Telemetry(f) = Settings!Telemetry(e)
    <2>1. \A k \in DOMAIN e : k[1] \in {"CATAPULTE_OTEL", "OTEL"} => f[k] = e[k]
      BY <1>2
    <2>2. Settable(e, "CATAPULTE_OTEL")
      BY <1>3 DEF Components
    <2> QED
      BY <1>1, <2>1, <2>2, TelemetryLoads
  <1>15. /\ Settings!Http(f) = Settings!Http(e) /\ Settings!Worker(f) = Settings!Worker(e)
         /\ Settings!Webhook(f) = Settings!Webhook(e) /\ Settings!NatsEvents(f) = Settings!NatsEvents(e)
         /\ Settings!Fetcher(f) = Settings!Fetcher(e) /\ Settings!IncludeLoader(f) = Settings!IncludeLoader(e)
         /\ Settings!Gc(f) = Settings!Gc(e)
    <2>1. /\ Settable(e, "HTTP") /\ Settable(e, "WORKER") /\ Settable(e, "WEBHOOK") /\ Settable(e, "NATS_EVENTS")
          /\ Settable(e, "ATTACHMENT_FETCHER") /\ Settable(e, "INCLUDE_LOADER") /\ Settable(e, "GC")
      BY <1>3 DEF Components
    <2>2. Settings!Http(f) = Settings!Http(e) /\ Settings!Worker(f) = Settings!Worker(e)
      BY <1>6, <2>1, HttpLoads, WorkerLoads
    <2>3. Settings!Webhook(f) = Settings!Webhook(e) /\ Settings!NatsEvents(f) = Settings!NatsEvents(e)
      BY <1>6, <2>1, WebhookLoads, NatsEventsLoads
    <2>4. /\ Settings!Fetcher(f) = Settings!Fetcher(e) /\ Settings!IncludeLoader(f) = Settings!IncludeLoader(e)
          /\ Settings!Gc(f) = Settings!Gc(e)
      BY <1>6, <2>1, FetcherLoads, IncludeLoaderLoads, GcLoads
    <2> QED
      BY <2>2, <2>3, <2>4
  <1>16. Settings!Loaded(f) = Settings!Loaded(e)
    BY <1>8, <1>9, <1>10, <1>11, <1>12, <1>13, <1>14, <1>15 DEF Settings!Loaded, Settings!FromEnv
  <1>17. Settings!ResolverBuilds(f) <=> Settings!ResolverBuilds(e)
    <2>1. f[<<"RESOLVER", "TOKENS">>] = e[<<"RESOLVER", "TOKENS">>]
      BY <1>6 DEF Agree, Settings!Variables
    <2>2. \A p \in EntriesOf(e) : \A n \in {"HOST", "BEARER_TOKEN", "HEADERS"} : f[<<p, n>>] = e[<<p, n>>]
      BY <1>5, PrefixesTellApart DEF Settings!EntryVariables
    <2>0. PICK names : names = Settings!Parts(e[<<"RESOLVER", "TOKENS">>])
      OBVIOUS
    <2>3. \A i \in DOMAIN names : Account[names[i]] \in EntriesOf(e)
      BY <2>0 DEF EntriesOf, Settings!Prefixes
    <2>4. [i \in DOMAIN names |-> f[<<Account[names[i]], "HOST">>]]
            = [i \in DOMAIN names |-> e[<<Account[names[i]], "HOST">>]]
      BY <2>2, <2>3
    <2>5. ASSUME NEW p \in EntriesOf(e) PROVE Settings!Fragments(f, p) = Settings!Fragments(e, p)
      <3>1. f[<<p, "HEADERS">>] = e[<<p, "HEADERS">>]
        BY <2>2
      <3> QED
        BY ONLY <3>1 DEF Settings!Fragments
    <2> DEFINE Alone(x, p) ==
                 \/ Settings!Trimmed(x[<<p, "BEARER_TOKEN">>]) = Settings!Default
                 \/ ~\E i \in DOMAIN Settings!Fragments(x, p) : Settings!Fragments(x, p)[i] = "AUTHORIZATION"
               Hosts(x)    == [i \in DOMAIN names |-> x[<<Account[names[i]], "HOST">>]]
    <2>6. Settings!ResolverBuilds(e) <=> ~Settings!Repeats(Hosts(e)) /\ \A p \in EntriesOf(e) : Alone(e, p)
      BY ONLY <2>0 DEF Settings!ResolverBuilds, EntriesOf
    <2>7. Settings!ResolverBuilds(f) <=> ~Settings!Repeats(Hosts(f)) /\ \A p \in EntriesOf(e) : Alone(f, p)
      BY ONLY <2>0, <2>1 DEF Settings!ResolverBuilds, EntriesOf
    <2>8. \A p \in EntriesOf(e) : Alone(e, p) <=> Alone(f, p)
      BY <2>2, <2>5
    <2>9. Hosts(e) = Hosts(f)
      BY <2>4
    <2> HIDE DEF Alone, Hosts
    <2> QED
      BY <2>6, <2>7, <2>8, <2>9
  <1>18. Settings!EnvironmentReadable(f)
    BY DEF Settings!EnvironmentReadable, Settings!Unset, Settings!Raw
  <1> QED
    BY <1>16, <1>17, <1>18

\* What the start of the settings keeps: the environment is one the operator may give, and
\* the program runs on what it loads from there or has refused to.
SettingsInv ==
  IF part = "settings"
  THEN /\ WellSet(env) /\ edits \in 0..MaxEdits /\ start \in {"off", "running", "failed"}
       /\ start = "running" => config = Settings!Loaded(env) /\ Settings!Starts(env, config)
       /\ start # "running" => config = <<>>
       /\ start = "failed" => ~Settings!Starts(env, Settings!Loaded(env))
  ELSE start = "off"

\* A program that runs uses what was set.
LEMMA SetIsUsed ==
  ASSUME SettingsInv
  PROVE  Settings!SetMeansUsed
  <1> SUFFICES ASSUME start = "running", NEW k \in DOMAIN config \ Settings!Excepted(env)
               PROVE  env[k] \in {Settings!Unset, ""} \/ config[k] = env[k]
    BY DEF Settings!SetMeansUsed, Settings!Running
  <1>1. WellSet(env) /\ config = Settings!Loaded(env) /\ Settings!Starts(env, config)
    BY DEF SettingsInv
  <1>2. k \in DOMAIN env /\ Faithful(env[k], config[k])
    BY <1>1, LoadedIsSound DEF Sound
  <1>3. env[k] # Settings!Raw /\ config[k] # Settings!Error
    BY <1>1, <1>2 DEF Settings!Starts, Settings!EnvironmentReadable
  <1> QED
    BY <1>2, <1>3 DEF Faithful, Blank, Settings!Unset, Settings!Raw, Settings!Error

\* What is not selected decides nothing.
LEMMA UnselectedDecidesNothing ==
  ASSUME SettingsInv
  PROVE  Settings!UnselectedIgnored
  <1> DEFINE without == [k \in DOMAIN env |-> IF k \in Settings!Unselected(env) THEN Settings!Unset ELSE env[k]]
  <1> SUFFICES ASSUME start # "off", Settings!EnvironmentReadable(env)
               PROVE  Settings!Running = Settings!Starts(without, Settings!Loaded(without))
    BY DEF Settings!UnselectedIgnored
  <1> PICK f : f = without
    OBVIOUS
  <1>1. /\ WellSet(env) /\ start \in {"running", "failed"}
        /\ start = "running" <=> Settings!Starts(env, Settings!Loaded(env))
    BY DEF SettingsInv
  <1>2. /\ Settings!Loaded(f) = Settings!Loaded(env) /\ Settings!EnvironmentReadable(f)
        /\ Settings!ResolverBuilds(f) <=> Settings!ResolverBuilds(env)
    BY <1>1, UnselectedUnread
  <1>3. Settings!Starts(f, Settings!Loaded(f)) <=> Settings!Starts(env, Settings!Loaded(env))
    BY ONLY <1>2, Settings!EnvironmentReadable(env) DEF Settings!Starts
  <1>4. Settings!Running <=> start = "running"
    BY DEF Settings!Running
  <1>5. Settings!Running \in BOOLEAN /\ Settings!Starts(f, Settings!Loaded(f)) \in BOOLEAN
    BY DEF Settings!Running, Settings!Starts
  <1> HIDE DEF without
  <1> QED
    BY <1>1, <1>3, <1>4, <1>5

\* The address of the server is the one that is set, if it is one.
LEMMA HttpReads ==
  ASSUME NEW e
  PROVE  /\ <<"HTTP", "ADDRESS">> \in DOMAIN Settings!Http(e)
         /\ Settings!Http(e)[<<"HTTP", "ADDRESS">>] = Settings!SocketAddress(e[<<"HTTP", "ADDRESS">>])
  <1> PICK a : a = [k \in {<<"HTTP", n>> : n \in {"ADDRESS"}} |-> Settings!SocketAddress(e[k])]
    OBVIOUS
  <1> PICK b : b = [k \in {<<"HTTP", n>> : n \in {"API_KEY"}} |-> Settings!Trimmed(e[k])]
    OBVIOUS
  <1> PICK c : c = [k \in {<<"HTTP", n>> : n \in {"REQUEST_TIMEOUT_SECS"}} |-> Settings!Strict(e[k])]
    OBVIOUS
  <1> PICK M : M = {a, b, c}
    OBVIOUS
  <1> PICK k : k = <<"HTTP", "ADDRESS">>
    OBVIOUS
  <1>1. Settings!Http(e) = Settings!Merge(M)
    BY DEF Settings!Http, Settings!Each
  <1>2. k \in DOMAIN a /\ k \notin DOMAIN b /\ k \notin DOMAIN c /\ a[k] = Settings!SocketAddress(e[k])
    OBVIOUS
  <1>3. \E x \in M : k \in DOMAIN x
    BY <1>2
  <1>4. k \in DOMAIN Settings!Merge(M) /\ \E x \in M : k \in DOMAIN x /\ Settings!Merge(M)[k] = x[k]
    BY ONLY <1>3, MergeGives
  <1> QED
    BY <1>1, <1>2, <1>4

\* The health check connects to where the server listens.
LEMMA ProbeFindsTheServer ==
  ASSUME SettingsInv
  PROVE  Settings!ProbesTheServer
  <1> SUFFICES ASSUME start = "running"
               PROVE  Settings!ReadinessAuthority(env[<<"HTTP", "ADDRESS">>])
                        = Loopback[config[<<"HTTP", "ADDRESS">>]]
    BY DEF Settings!ProbesTheServer, Settings!Running
  <1> PICK k : k = <<"HTTP", "ADDRESS">>
    OBVIOUS
  <1>1. WellSet(env) /\ config = Settings!Loaded(env) /\ Settings!Starts(env, config)
    BY DEF SettingsInv
  <1>2. k \in DOMAIN Settings!Http(env) /\ Settings!Http(env)[k] = Settings!SocketAddress(env[k])
    BY HttpReads
  <1>3. k \in DOMAIN config /\ config[k] = Settings!SocketAddress(env[k])
    BY <1>1, <1>2, LoadedIsSound
  <1>4. config[k] # Settings!Error
    BY <1>1, <1>3 DEF Settings!Starts
  <1> QED
    BY <1>3, <1>4 DEF Settings!SocketAddress, Settings!ReadinessAuthority

\* An entry's settings are its own variables', once the program runs.
LEMMA EntriesAsSet ==
  ASSUME SettingsInv, part = "settings", start = "running"
  PROVE  /\ Settings!TokenPrefixes = EntriesOf(env)
         /\ \A p \in EntriesOf(env) :
              /\ config[<<p, "HOST">>] = env[<<p, "HOST">>]
              /\ config[<<p, "BEARER_TOKEN">>] = Settings!Trimmed(env[<<p, "BEARER_TOKEN">>])
              /\ config[<<p, "HEADERS">>] = Settings!Trimmed(env[<<p, "HEADERS">>])
              /\ ~Settings!Repeats(Settings!Fragments(env, p))
  <1>1. WellSet(env) /\ config = Settings!Loaded(env) /\ Settings!Starts(env, config)
    BY DEF SettingsInv
  <1>2. /\ Settable(env, "RESOLVER") /\ "RESOLVER" \notin EntriesOf(env)
        /\ \A p \in EntriesOf(env) :
             /\ \A n \in Settings!EntryVariables \union FragmentsOf(env, p) : <<p, n>> \in DOMAIN env
             /\ FragmentsOf(env, p) \intersect Settings!EntryVariables = {}
    BY <1>1, PrefixesTellApart DEF Settings!Variables
  <1>3. \A k \in DOMAIN Settings!Resolver(env) :
          k \in DOMAIN config /\ config[k] = Settings!Resolver(env)[k] /\ config[k] # Settings!Error
    BY <1>1, LoadedIsSound DEF Settings!Starts
  <1>4. Settings!TokenPrefixes = EntriesOf(env)
    <2> PICK x : x = env[<<"RESOLVER", "TOKENS">>]
      OBVIOUS
    <2>1. config[<<"RESOLVER", "TOKENS">>] = Settings!Text(x)
      BY <1>2, <1>3, ResolverLoads DEF EntriesOf
    <2>2. {Settings!Unset, Settings!Raw, Settings!Default} \intersect DOMAIN Split = {}
      BY PartsAssumption DEF Settings!ConfigurationAssumption
    <2>3. Settings!Parts(Settings!Text(x)) = Settings!Parts(x)
      BY <2>2 DEF Settings!Parts, Settings!Text, Settings!Absent
    <2> QED
      BY <2>1, <2>3 DEF Settings!TokenPrefixes, EntriesOf, Settings!Prefixes
  <1>5. ASSUME NEW p \in EntriesOf(env)
        PROVE  /\ config[<<p, "HOST">>] = env[<<p, "HOST">>]
               /\ config[<<p, "BEARER_TOKEN">>] = Settings!Trimmed(env[<<p, "BEARER_TOKEN">>])
               /\ config[<<p, "HEADERS">>] = Settings!Trimmed(env[<<p, "HEADERS">>])
               /\ ~Settings!Repeats(Settings!Fragments(env, p))
    <2>1. /\ {<<p, "HOST">>, <<p, "BEARER_TOKEN">>, <<p, "HEADERS">>} \subseteq DOMAIN Settings!AuthEntry(env, p)
          /\ Settings!AuthEntry(env, p)[<<p, "HOST">>] = HostRead(env, p)
          /\ Settings!AuthEntry(env, p)[<<p, "BEARER_TOKEN">>] = Settings!Trimmed(env[<<p, "BEARER_TOKEN">>])
          /\ Settings!AuthEntry(env, p)[<<p, "HEADERS">>] = HeadersRead(env, p)
      BY <1>2, AuthEntryLoads
    <2>2. \A k \in DOMAIN Settings!AuthEntry(env, p) :
            config[k] = Settings!AuthEntry(env, p)[k] /\ config[k] # Settings!Error
      BY <1>2, <1>3, ResolverLoads DEF EntriesOf
    <2>3. /\ config[<<p, "HOST">>] = HostRead(env, p) /\ HostRead(env, p) # Settings!Error
          /\ config[<<p, "BEARER_TOKEN">>] = Settings!Trimmed(env[<<p, "BEARER_TOKEN">>])
          /\ config[<<p, "HEADERS">>] = HeadersRead(env, p) /\ HeadersRead(env, p) # Settings!Error
      BY <2>1, <2>2
    <2> QED
      BY <2>3 DEF HostRead, HeadersRead, Settings!RequiredTrimmed, Settings!Trimmed
  <1> QED
    BY <1>4, <1>5

\* A host gets one Authorization header at most.
LEMMA AuthorizedOnce ==
  ASSUME SettingsInv
  PROVE  Settings!OneAuthorization
  <1> SUFFICES ASSUME start = "running", NEW p \in Settings!TokenPrefixes, NEW o \in Settings!TokenPrefixes,
                      config[<<p, "HOST">>] = config[<<o, "HOST">>],
                      NEW x \in Settings!Authorizations(p), NEW y \in Settings!Authorizations(o)
               PROVE  x = y
    BY DEF Settings!OneAuthorization, Settings!Running
  <1>1. part = "settings" /\ WellSet(env) /\ Settings!ResolverBuilds(env)
    BY DEF SettingsInv, Settings!Starts
  <1>2. /\ Settings!TokenPrefixes = EntriesOf(env)
        /\ \A q \in EntriesOf(env) :
              /\ config[<<q, "HOST">>] = env[<<q, "HOST">>]
              /\ config[<<q, "BEARER_TOKEN">>] = Settings!Trimmed(env[<<q, "BEARER_TOKEN">>])
              /\ config[<<q, "HEADERS">>] = Settings!Trimmed(env[<<q, "HEADERS">>])
              /\ ~Settings!Repeats(Settings!Fragments(env, q))
    BY <1>1, EntriesAsSet
  <1>3. ASSUME NEW q \in Settings!TokenPrefixes, config[<<q, "HOST">>] = config[<<p, "HOST">>]
        PROVE  q = p
    <2>0. PICK names : names = Settings!Parts(env[<<"RESOLVER", "TOKENS">>])
      OBVIOUS
    <2>1. EntriesOf(env) = {Account[names[i]] : i \in DOMAIN names}
      BY <2>0 DEF EntriesOf, Settings!Prefixes
    <2>2. PICK i \in DOMAIN names : q = Account[names[i]]
      BY <1>2, <2>1
    <2>3. PICK j \in DOMAIN names : p = Account[names[j]]
      BY <1>2, <2>1
    <2> PICK hosts : hosts = [m \in DOMAIN names |-> env[<<Account[names[m]], "HOST">>]]
      OBVIOUS
    <2>4. ~Settings!Repeats(hosts)
      BY <1>1, <2>0 DEF Settings!ResolverBuilds
    <2>5. hosts[i] = hosts[j] /\ i \in DOMAIN hosts /\ j \in DOMAIN hosts
      BY <1>2, <1>3, <2>2, <2>3
    <2>6. i = j
      BY <2>4, <2>5 DEF Settings!Repeats
    <2> QED
      BY <2>2, <2>3, <2>6
  <1> PICK s : s = Settings!Parts(env[<<p, "HEADERS">>])
    OBVIOUS
  <1>4. Settings!Fragments(env, p) = [i \in DOMAIN s |-> Fragment[s[i]]]
    BY DEF Settings!Fragments
  <1>5. Settings!Parts(config[<<p, "HEADERS">>]) \in {s, <<>>}
    <2>1. Settings!Default \notin DOMAIN Split
      BY PartsAssumption DEF Settings!ConfigurationAssumption
    <2> QED
      BY <1>2, <2>1 DEF Settings!Trimmed, Settings!Parts
  <1> DEFINE Explicit == {i \in DOMAIN s : Fragment[s[i]] = "AUTHORIZATION"}
             Bearer   == Settings!Trimmed(env[<<p, "BEARER_TOKEN">>]) # Settings!Default
  <1>6. \A z \in Settings!Authorizations(p) :
          (\E i \in Explicit : z = <<p, s[i]>>) \/ (z = <<p, "bearer">> /\ Bearer)
    <2> PICK t : t = Settings!Parts(config[<<p, "HEADERS">>])
      OBVIOUS
    <2> DEFINE H == {h \in {t[i] : i \in DOMAIN t} : h \in DOMAIN Fragment /\ Fragment[h] = "AUTHORIZATION"}
    <2>1. \A h \in H : \E i \in Explicit : h = s[i]
      BY <1>5
    <2>2. Settings!Authorizations(p) =
            {<<p, h>> : h \in {t[i] : i \in DOMAIN t}
                              \intersect {g \in DOMAIN Fragment : Fragment[g] = "AUTHORIZATION"}}
            \union {<<p, "bearer">> : b \in {config[<<p, "BEARER_TOKEN">>]} \ {Settings!Default}}
      BY DEF Settings!Authorizations
    <2>3. \A z \in Settings!Authorizations(p) :
            (\E h \in H : z = <<p, h>>) \/ (z = <<p, "bearer">> /\ config[<<p, "BEARER_TOKEN">>] # Settings!Default)
      BY <2>2
    <2> HIDE DEF H, Explicit
    <2> QED
      BY <1>2, <2>1, <2>3
  <1>7. \A i, j \in Explicit : i = j
    <2>1. ~Settings!Repeats(Settings!Fragments(env, p))
      BY <1>2
    <2> PICK g : g = Settings!Fragments(env, p)
      OBVIOUS
    <2>2. \A i \in Explicit : i \in DOMAIN g /\ g[i] = "AUTHORIZATION"
      BY <1>4
    <2> HIDE DEF Explicit
    <2> QED
      BY <2>1, <2>2 DEF Settings!Repeats
  <1>8. Bearer => Explicit = {}
    <2>1. Bearer => ~\E i \in DOMAIN Settings!Fragments(env, p) : Settings!Fragments(env, p)[i] = "AUTHORIZATION"
      BY <1>1, <1>2 DEF Settings!ResolverBuilds, EntriesOf
    <2> QED
      BY <1>4, <2>1
  <1> HIDE DEF Explicit, Bearer
  <1>9. o = p
    BY <1>3
  <1> QED
    BY <1>6, <1>7, <1>8, <1>9

\* A change to the environment leaves it one the operator may give.
LEMMA EditKeepsSettings ==
  ASSUME WellSet(env), Settings!Edit
  PROVE  WellSet(env)'
  <1>1. PICK k \in DOMAIN Choices : \E x \in Choices[k] : env' = [env EXCEPT ![k] = x]
    BY DEF Settings!Edit
  <1>2. PICK x \in Choices[k] : env' = [env EXCEPT ![k] = x]
    BY <1>1
  <1>3. \A j \in DOMAIN Choices : env'[j] \in Settings!Values(j)
    BY <1>2 DEF WellSet, Settings!Values
  <1> QED
    BY <1>2, <1>3 DEF WellSet

\* Every step of the start keeps this.
LEMMA SettingsStep ==
  ASSUME SettingsInv, [PartsNext]_allVars
  PROVE  SettingsInv'
  <1>1. CASE UNCHANGED <<part, settings>>
    BY <1>1 DEF SettingsInv, WellSet, settings, Settings!Starts, Settings!EnvironmentReadable, Settings!ResolverBuilds
  <1>2. CASE part = "settings" /\ part' = part /\ Settings!Next
    <2>1. CASE Settings!Edit
      <3>1. start = "off" /\ start' = "off" /\ config' = <<>> /\ edits' \in 0..MaxEdits
        <4>1. MaxEdits \in Nat
          BY PartsAssumption DEF Settings!ConfigurationAssumption
        <4> QED
          BY <1>2, <2>1, <4>1 DEF Settings!Edit, SettingsInv
      <3>2. WellSet(env)'
        BY <1>2, <2>1, EditKeepsSettings DEF SettingsInv
      <3> QED
        BY <1>2, <3>1, <3>2 DEF SettingsInv
    <2>2. CASE Settings!Start(Settings!Loaded(env))
      <3>1. /\ env' = env /\ edits' = edits /\ start' = "running" /\ config' = Settings!Loaded(env)
            /\ Settings!Starts(env, Settings!Loaded(env))
        BY <2>2 DEF Settings!Start
      <3> QED
        BY <1>2, <3>1 DEF SettingsInv, WellSet
    <2>3. CASE Settings!Refuse(Settings!Loaded(env))
      <3>1. /\ env' = env /\ edits' = edits /\ start = "off" /\ start' = "failed" /\ config' = config
            /\ ~Settings!Starts(env, Settings!Loaded(env))
        BY <2>3 DEF Settings!Refuse
      <3> QED
        BY <1>2, <3>1 DEF SettingsInv, WellSet
    <2> QED
      BY <1>2, <2>1, <2>2, <2>3 DEF Settings!Next
  <1> QED
    BY <1>1, <1>2 DEF PartsNext, allVars

(* A running program uses every variable that was set as it was set, the   *)
(* lenient intervals excepted; what a component that is not selected would *)
(* read decides nothing; a host gets one Authorization header at most; and *)
(* the health check connects to the address the server listens on: for any *)
(* environments, changes, lists, names and prefixes that tell components,  *)
(* senders and entries apart.                                              *)
THEOREM SettingsAreUsed == PartsSpec => []SetMeansUsed
  <1>1. PartsInit => SettingsInv
    <2> SUFFICES ASSUME PartsInit PROVE SettingsInv
      OBVIOUS
    <2>1. CASE part = "settings"
      <3>1. env \in Bases /\ edits = 0 /\ start = "off" /\ config = <<>>
        BY <2>1 DEF PartsInit, Settings!Init
      <3>2. MaxEdits \in Nat /\ \A b \in Bases : DOMAIN b = DOMAIN Choices
        BY PartsAssumption DEF Settings!ConfigurationAssumption
      <3>3. WellSet(env)
        BY <3>1, <3>2 DEF WellSet, Settings!Values
      <3> QED
        BY <2>1, <3>1, <3>2, <3>3 DEF SettingsInv
    <2>2. CASE part # "settings"
      BY <2>2 DEF PartsInit, SettingsInv
    <2> QED
      BY <2>1, <2>2
  <1>2. SettingsInv /\ [PartsNext]_allVars => SettingsInv'
    BY SettingsStep
  <1>3. SettingsInv => SetMeansUsed
    <2> SUFFICES ASSUME SettingsInv PROVE SetMeansUsed
      OBVIOUS
    <2>1. ASSUME part = "settings" PROVE Settings!TypeOK
      <3>1. DOMAIN config # {} => start = "running"
        BY <2>1 DEF SettingsInv
      <3>2. start = "running" => \A k \in DOMAIN config : config[k] # Settings!Error
        BY <2>1 DEF SettingsInv, Settings!Starts
      <3>3. DOMAIN env = DOMAIN Choices /\ edits \in 0..MaxEdits /\ start \in {"off", "running", "failed"}
        BY <2>1 DEF SettingsInv, WellSet
      <3> QED
        BY <3>1, <3>2, <3>3 DEF Settings!TypeOK
    <2> QED
      BY <2>1, SetIsUsed, UnselectedDecidesNothing, ProbeFindsTheServer, AuthorizedOnce DEF SetMeansUsed
  <1> QED
    BY <1>1, <1>2, <1>3, PTL DEF PartsSpec

=============================================================================
