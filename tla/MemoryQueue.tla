----------------------------- MODULE MemoryQueue -----------------------------
(***************************************************************************)
(* The in-memory queue (adapter/outbound-queue-memory) under a worker: an  *)
(* unbounded channel, the map of entries in flight by ack token, the       *)
(* entries that sleep out their backoff in a spawned task, and a counter   *)
(* of ready entries that is kept apart from the channel. Threads           *)
(* interleave between an update of the counter and of the channel.         *)
(*                                                                         *)
(* A fault is an SMTP acceptance whose answer is lost, a panic of a task,  *)
(* or a restart of the process, which starts with an empty queue.          *)
(***************************************************************************)
EXTENDS Integers, Sequences, FiniteSets

CONSTANTS Emails,
          Slots,         \* permits of the worker
          MAX_ATTEMPTS,  \* MAX_ATTEMPTS of worker.rs (3)
          Routable,      \* the e-mails for which some route matches
          MaxFaults,     \* bound: faults in a behaviour
          NoEntry

ASSUME MemoryAssumption ==
  /\ IsFiniteSet(Slots)
  /\ MAX_ATTEMPTS \in Nat \ {0}
  /\ Routable \subseteq Emails
  /\ MaxFaults \in Nat
  /\ NoEntry \notin [email : Emails, attempt : Nat]
  /\ NoEntry \notin [at : {"work", "ack", "nack"}, token : Nat,
                     email : Emails, attempt : Nat]

VARIABLES channel,      \* entries that can be received
          sending,      \* entries counted as ready, about to enter the channel
          sleeping,     \* nacked entries whose delay has not elapsed
          pending,      \* the map of entries in flight, by token
          next_token,
          ready_count,  \* an AtomicU64: below zero it would wrap
          loop,         \* where Worker::run is in dequeue, and its entry
          tasks,        \* process_one in each permit slot
          queued,       \* e-mails ever enqueued
          settled,      \* e-mails acked
          lost,         \* e-mails that were in a process that ended
          claims,       \* how often each e-mail was dequeued
          accepted,     \* copies SMTP servers have accepted
          faults

queue == <<channel, sending, sleeping, pending, next_token, ready_count>>
vars  == <<queue, loop, tasks, queued, settled, lost, claims, accepted, faults>>

Entries    == [email : Emails, attempt : Nat]
InFlight   == [token : Nat, email : Emails, attempt : Nat]
LoopPlaces == {"dequeue", "received", "counted"}
TaskPlaces == {"work", "ack", "nack"}
TaskRecs   == [at : TaskPlaces, token : Nat, email : Emails, attempt : Nat]

Entry(i) == [email |-> i.email, attempt |-> i.attempt]

\* The type invariant; the counter does not wrap.
TypeOK ==
  /\ channel \in Seq(Entries)
  /\ sending \in SUBSET Entries
  /\ sleeping \in SUBSET Entries
  /\ pending \in SUBSET InFlight
  /\ next_token \in Nat
  /\ ready_count \in Nat
  /\ loop \in [at : LoopPlaces, entry : Entries \union {NoEntry}]
  /\ (loop.entry = NoEntry) = (loop.at = "dequeue")
  /\ tasks \in [Slots -> TaskRecs \union {NoEntry}]
  /\ queued \in SUBSET Emails
  /\ settled \in SUBSET Emails
  /\ lost \in SUBSET Emails
  /\ claims \in [Emails -> Nat]
  /\ accepted \in [Emails -> Nat]
  /\ faults \in 0..MaxFaults

AtDequeue == [at |-> "dequeue", entry |-> NoEntry]

\* MemoryQueue::new, and a worker at its start.
Init ==
  /\ channel = <<>> /\ sending = {} /\ sleeping = {} /\ pending = {}
  /\ next_token = 0 /\ ready_count = 0
  /\ loop = AtDequeue
  /\ tasks = [s \in Slots |-> NoEntry]
  /\ queued = {} /\ settled = {} /\ lost = {}
  /\ claims = [e \in Emails |-> 0]
  /\ accepted = [e \in Emails |-> 0]
  /\ faults = 0

NoFault == UNCHANGED faults
Fault   == faults < MaxFaults /\ faults' = faults + 1

\* The first half of every send into the channel, by enqueue and by a backoff.
CountUp(i) ==
  /\ ready_count' = ready_count + 1
  /\ sending' = sending \union {i}

Enqueue(e) ==
  /\ e \notin queued
  /\ queued' = queued \union {e}
  /\ CountUp([email |-> e, attempt |-> 1])
  /\ UNCHANGED <<channel, sleeping, pending, next_token, loop, tasks, settled,
                 lost, claims, accepted, faults>>

\* tx.send; it cannot fail, as the queue that sends also owns the receiver.
Transmit(i) ==
  /\ i \in sending
  /\ sending' = sending \ {i}
  /\ channel' = Append(channel, i)
  /\ UNCHANGED <<sleeping, pending, next_token, ready_count, loop, tasks,
                 queued, settled, lost, claims, accepted, faults>>

\* dequeue: recv, once the loop has a permit.
Receive ==
  /\ loop.at = "dequeue"
  /\ \E s \in Slots : tasks[s] = NoEntry
  /\ channel # <<>>
  /\ loop' = [at |-> "received", entry |-> Head(channel)]
  /\ channel' = Tail(channel)
  /\ UNCHANGED <<sending, sleeping, pending, next_token, ready_count, tasks,
                 queued, settled, lost, claims, accepted, faults>>

CountDown ==
  /\ loop.at = "received"
  /\ ready_count' = ready_count - 1
  /\ loop' = [loop EXCEPT !.at = "counted"]
  /\ UNCHANGED <<channel, sending, sleeping, pending, next_token, tasks,
                 queued, settled, lost, claims, accepted, faults>>

\* next_token.fetch_add(1), whose result is the old value.
TakeToken == next_token' = next_token + 1

\* The entry gets a token and its process_one is spawned in a free slot.
Register(s) ==
  LET i == loop.entry
  IN /\ loop.at = "counted"
     /\ tasks[s] = NoEntry
     /\ pending' = pending \union
                     {[token |-> next_token, email |-> i.email, attempt |-> i.attempt]}
     /\ TakeToken
     /\ tasks' = [tasks EXCEPT ![s] =
                    [at |-> "work", token |-> next_token,
                     email |-> i.email, attempt |-> i.attempt]]
     /\ claims' = [claims EXCEPT ![i.email] = @ + 1]
     /\ loop' = AtDequeue
     /\ UNCHANGED <<channel, sending, sleeping, ready_count, queued, settled,
                    lost, accepted, faults>>

Running(s, place) == tasks[s] # NoEntry /\ tasks[s].at = place

\* Faulty variant of AfterError: off by one, too early.
AfterError_Early(attempt) == IF attempt + 1 >= MAX_ATTEMPTS THEN "ack" ELSE "nack"

\* What process_one does with an e-mail that could not be sent.
AfterError(attempt) == IF attempt >= MAX_ATTEMPTS THEN "ack" ELSE "nack"

\* The e-mail is sent, refused or not routable, or it is sent and the answer lost.
Work(s) ==
  LET e == tasks[s].email
      error == AfterError(tasks[s].attempt)
      Goto(place) == tasks' = [tasks EXCEPT ![s].at = place]
      Accept == accepted' = [accepted EXCEPT ![e] = @ + 1]
  IN /\ Running(s, "work")
     /\ \/ e \in Routable /\ Goto("ack") /\ Accept /\ NoFault
        \/ e \in Routable /\ Goto(error) /\ Accept /\ Fault
        \/ Goto(error) /\ UNCHANGED accepted /\ NoFault
        \/ e \notin Routable /\ Goto("ack") /\ UNCHANGED accepted /\ NoFault
     /\ UNCHANGED <<queue, loop, queued, settled, lost, claims>>

\* pending.remove(&token).
Remove(token) == pending' = {i \in pending : i.token # token}

\* ack: the e-mail is sent or given up. It cannot fail.
Ack(s) ==
  /\ Running(s, "ack")
  /\ Remove(tasks[s].token)
  /\ settled' = settled \union {tasks[s].email}
  /\ tasks' = [tasks EXCEPT ![s] = NoEntry]
  /\ UNCHANGED <<channel, sending, sleeping, next_token, ready_count, loop,
                 queued, lost, claims, accepted, faults>>

\* Faulty variant of Nack: the entry is copied, not moved.
Nack_KeepsEntry(s) ==
  /\ Running(s, "nack")
  /\ sleeping' = sleeping \union {Entry(i) : i \in {i \in pending : i.token = tasks[s].token}}
  /\ tasks' = [tasks EXCEPT ![s] = NoEntry]
  /\ UNCHANGED <<channel, sending, pending, next_token, ready_count, loop,
                 queued, settled, lost, claims, accepted, faults>>

\* nack: a task is spawned that owns the entry and sleeps.
Nack(s) ==
  /\ Running(s, "nack")
  /\ Remove(tasks[s].token)
  /\ sleeping' = sleeping \union {Entry(i) : i \in {i \in pending : i.token = tasks[s].token}}
  /\ tasks' = [tasks EXCEPT ![s] = NoEntry]
  /\ UNCHANGED <<channel, sending, next_token, ready_count, loop, queued,
                 settled, lost, claims, accepted, faults>>

\* The delay has elapsed.
Wake(i) ==
  /\ i \in sleeping
  /\ sleeping' = sleeping \ {i}
  /\ CountUp([i EXCEPT !.attempt = @ + 1])
  /\ UNCHANGED <<channel, pending, next_token, loop, tasks, queued, settled,
                 lost, claims, accepted, faults>>

\* The task panics: its permit is dropped, its entry stays in the map.
Panic(s) ==
  /\ Running(s, "work")
  /\ Fault
  /\ tasks' = [tasks EXCEPT ![s] = NoEntry]
  /\ UNCHANGED <<queue, loop, queued, settled, lost, claims, accepted>>

\* The process ends, in a crash or after a shutdown, and another one starts.
Restart ==
  /\ Fault
  /\ channel' = <<>> /\ sending' = {} /\ sleeping' = {} /\ pending' = {}
  /\ next_token' = 0 /\ ready_count' = 0
  /\ loop' = AtDequeue
  /\ tasks' = [s \in Slots |-> NoEntry]
  /\ lost' = queued \ settled
  /\ UNCHANGED <<queued, settled, claims, accepted>>

Dequeue == Receive \/ CountDown \/ \E s \in Slots : Register(s)

Task(s) == Work(s) \/ Ack(s) \/ Nack(s)

Next ==
  \/ \E e \in Emails : Enqueue(e)
  \/ \E i \in sending : Transmit(i)
  \/ Dequeue
  \/ \E s \in Slots : Task(s) \/ Panic(s)
  \/ \E i \in sleeping : Wake(i)
  \/ Restart

Spec == Init /\ [][Next]_vars

\* Threads run as long as the process lives, delays elapse, and awaits end.
Fairness ==
  /\ WF_vars(\E i \in sending : Transmit(i))
  /\ WF_vars(Dequeue)
  /\ \A s \in Slots : WF_vars(Task(s))
  /\ WF_vars(\E i \in sleeping : Wake(i))

FairSpec == Spec /\ Fairness

-----------------------------------------------------------------------------
(* Properties.                                                             *)

Holders(e) ==
  Cardinality({n \in DOMAIN channel : channel[n].email = e})
    + Cardinality({i \in sending \union sleeping \union pending : i.email = e})
    + IF loop.entry # NoEntry /\ loop.entry.email = e THEN 1 ELSE 0

\* An entry is moved, never copied nor dropped: through retries, a panic
\* and a restart, each e-mail that is owed is in one place and others in none.
OnePlace ==
  \A e \in Emails : Holders(e) = IF e \in queued \ (settled \union lost) THEN 1 ELSE 0

\* A task finds its entry under its token, as nobody else has that token.
TaskOwnsEntry ==
  \A s \in Slots : tasks[s] # NoEntry =>
    /\ {Entry(i) : i \in {i \in pending : i.token = tasks[s].token}} = {Entry(tasks[s])}
    /\ \A t \in Slots \ {s} : tasks[t] # NoEntry => tasks[t].token # tasks[s].token

\* pending() is the number of entries in the channel, give or take those that
\* are on their way in or out: the counter never wraps.
CounterCovers ==
  ready_count = Len(channel) + Cardinality(sending)
                  + IF loop.at = "received" THEN 1 ELSE 0

\* No e-mail gets more attempts than MAX_ATTEMPTS: nothing lapses here.
AttemptsBounded ==
  \A e \in Emails : claims[e] <= MAX_ATTEMPTS

\* An e-mail goes out once, and once more only after an answer was lost.
CopiesBounded ==
  \A e \in Emails : accepted[e] <= 1 + faults

\* The handlers move an entry and never copy it, only the task that claimed it
\* settles it, ready_count covers the channel, and an e-mail is claimed and sent no
\* more often than its attempts and the lost answers explain.
MemorySafe ==
  TypeOK /\ OnePlace /\ TaskOwnsEntry /\ CounterCovers /\ AttemptsBounded /\ CopiesBounded

Stranded(e) ==
  \E i \in pending : i.email = e /\ \A s \in Slots : tasks[s] = NoEntry \/ tasks[s].token # i.token

\* Every e-mail queued is settled, unless the process ends or its task panics:
\* then nothing redelivers it.
Drains ==
  \A e \in Emails : e \in queued ~> e \in settled \/ e \in lost \/ Stranded(e)

\* The same promise as that of the storage queue. What a restart forgets stays
\* owed for ever.
Promise == INSTANCE AtLeastOnce WITH
  owed    <- queued \ settled,
  sentOut <- {e \in Emails : accepted[e] > 0},
  excused <- {e \in queued : e \notin Routable \/ claims[e] >= MAX_ATTEMPTS},
  settled <- settled

KeepsPromise == Promise!Spec
=============================================================================
