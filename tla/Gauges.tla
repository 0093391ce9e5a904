--------------------------------- MODULE Gauges ---------------------------------
(***************************************************************************)
(* The gauges that the sampler (binary/src/metrics.rs) pushes: the entries *)
(* that wait in the queue, as each backend counts them, and what a sender  *)
(* has sent. Workers take entries, and may stop doing so at any time: a    *)
(* gauge is looked at when nothing moves.                                  *)
(*                                                                         *)
(* Time moves in steps up to MaxTime. MaxClaims bounds the dequeues of an  *)
(* entry, MaxFaults the reads that fail.                                   *)
(***************************************************************************)
EXTENDS Integers, FiniteSets

CONSTANTS Backends,    \* the queue backends to look at
          Entries,
          ClaimFor,    \* the claim of a row, or ack_wait
          RetryAfter,  \* the delay of a nack
          MaxTime,     \* bound: time of the model
          MaxClaims,   \* bound: dequeues of an entry
          MaxFaults    \* bound: reads of the sampler that fail

GaugesAssumption ==
  /\ Backends \subseteq {"sqlite", "postgres", "memory", "nats"}
  /\ IsFiniteSet(Entries)
  /\ {ClaimFor, RetryAfter, MaxTime, MaxClaims, MaxFaults} \subseteq Nat /\ MaxTime # 0

VARIABLES backend,
          entry,        \* each entry of the queue: until when it is hidden, 0 for
                        \* not at all; whether a worker has it; its dequeues
          now,
          ready_count,  \* the counter of the memory queue
          sent,         \* delivery.succeeded events of the one sender
          sampler,      \* where sample_once is
          queue_pending, sender_sent,  \* the gauges
          faults

vars == <<backend, entry, now, ready_count, sent, sampler, queue_pending,
          sender_sent, faults>>

Places == {"absent", "queued", "claimed", "delayed", "settled"}
NotSet == -1

\* The type invariant; the counter does not wrap.
TypeOK ==
  /\ backend \in Backends
  /\ entry \in [Entries -> [at : Places, until : Nat, claims : 0..MaxClaims]]
  /\ now \in 1..MaxTime
  /\ ready_count \in Nat
  /\ sent \in 0..Cardinality(Entries)
  /\ sampler \in {"sleep", "queue", "senders"}
  /\ queue_pending \in Nat \union {NotSet} /\ sender_sent \in Nat \union {NotSet}
  /\ faults \in 0..MaxFaults

\* The first sample is taken at once.
Init ==
  /\ backend \in Backends
  /\ entry = [e \in Entries |-> [at |-> "absent", until |-> 0, claims |-> 0]]
  /\ now = 1
  /\ ready_count = 0 /\ sent = 0
  /\ sampler = "queue"
  /\ queue_pending = NotSet /\ sender_sent = NotSet
  /\ faults = 0

InStorage == backend \in {"sqlite", "postgres"}
InQueue(e) == entry[e].at \in {"queued", "claimed", "delayed"}

\* What a dequeue may take now: a row that nobody claims, or whose claim or delay
\* has lapsed; an item of the channel; a message that is new or due again.
Claimable(e) ==
  /\ InQueue(e)
  /\ entry[e].at = "queued" \/ (backend # "memory" /\ entry[e].until < now)

\* claimed_until of the row is set and not in the past.
HiddenRow(e) == entry[e].until > 0 /\ ~(entry[e].until < now)

\* num_pending of a consumer: messages that were never delivered to it.
num_pending == Cardinality({e \in Entries : entry[e].at = "queued" /\ entry[e].claims = 0})

\* QueueAdapter::pending of each backend.
pending ==
  CASE InStorage -> Cardinality({e \in Entries : InQueue(e) /\ ~HiddenRow(e)})
    [] backend = "memory" -> ready_count
    [] backend = "nats" -> num_pending

-----------------------------------------------------------------------------
(* The queue and its workers.                                              *)

Count(n) == ready_count' = IF backend = "memory" THEN ready_count + n ELSE ready_count

Enqueue(e) ==
  /\ entry[e].at = "absent"
  /\ entry' = [entry EXCEPT ![e].at = "queued"]
  /\ Count(1)
  /\ UNCHANGED <<backend, now, sent, sampler, queue_pending, sender_sent, faults>>

Dequeue(e) ==
  /\ Claimable(e)
  /\ entry[e].claims < MaxClaims
  /\ entry' = [entry EXCEPT ![e] = [at |-> "claimed", until |-> now + ClaimFor,
                                    claims |-> @.claims + 1]]
  /\ Count(-1)
  /\ UNCHANGED <<backend, now, sent, sampler, queue_pending, sender_sent, faults>>

Ack(e) ==
  /\ entry[e].at = "claimed"
  /\ entry' = [entry EXCEPT ![e].at = "settled"]
  /\ sent' = sent + 1
  /\ UNCHANGED <<backend, now, ready_count, sampler, queue_pending, sender_sent, faults>>

Nack(e) ==
  /\ entry[e].at = "claimed"
  /\ entry' = [entry EXCEPT ![e].at = "delayed", ![e].until = now + RetryAfter]
  /\ UNCHANGED <<backend, now, ready_count, sent, sampler, queue_pending, sender_sent,
                 faults>>

\* The task that a nack of the memory queue spawns.
Resend(e) ==
  /\ backend = "memory"
  /\ entry[e].at = "delayed" /\ entry[e].until <= now
  /\ entry' = [entry EXCEPT ![e].at = "queued", ![e].until = 0]
  /\ Count(1)
  /\ UNCHANGED <<backend, now, sent, sampler, queue_pending, sender_sent, faults>>

Tick ==
  /\ now < MaxTime
  /\ now' = now + 1
  /\ UNCHANGED <<backend, entry, ready_count, sent, sampler, queue_pending, sender_sent,
                 faults>>

-----------------------------------------------------------------------------
(* The sampler.                                                            *)

Wake ==
  /\ sampler = "sleep"
  /\ sampler' = "queue"
  /\ UNCHANGED <<backend, entry, now, ready_count, sent, queue_pending, sender_sent, faults>>

\* A read that succeeds sets its gauge, one that fails leaves it; the counter of
\* the memory queue can always be read.
Read(gauge, value, mayFail) ==
  \/ gauge' = value /\ UNCHANGED faults
  \/ /\ mayFail /\ faults < MaxFaults
     /\ faults' = faults + 1
     /\ UNCHANGED gauge

SampleQueue ==
  /\ sampler = "queue"
  /\ Read(queue_pending, pending, backend # "memory")
  /\ sampler' = "senders"
  /\ UNCHANGED <<backend, entry, now, ready_count, sent, sender_sent>>

\* list_senders.execute, whatever became of the first read.
SampleSenders ==
  /\ sampler = "senders"
  /\ Read(sender_sent, sent, TRUE)
  /\ sampler' = "sleep"
  /\ UNCHANGED <<backend, entry, now, ready_count, sent, queue_pending>>

Next ==
  \/ \E e \in Entries : Enqueue(e) \/ Dequeue(e) \/ Ack(e) \/ Nack(e) \/ Resend(e)
  \/ Tick \/ Wake \/ SampleQueue \/ SampleSenders

Spec == Init /\ [][Next]_vars

\* Time passes, a sleep ends, and the sampler goes on. Workers owe nothing.
Fairness ==
  /\ WF_vars(Tick)
  /\ \A e \in Entries : WF_vars(Resend(e))
  /\ WF_vars(Wake \/ SampleQueue \/ SampleSenders)

FairSpec == Spec /\ Fairness

-----------------------------------------------------------------------------
(* Properties.                                                             *)

\* Once nothing moves any more, the gauges agree with the queue and the senders
\* for good: entries that were left behind by workers which are gone are among
\* those that the gauge counts, and a failed read is made up for (sample_once).
GaugesCatchUp ==
  <>[](queue_pending = Cardinality({e \in Entries : Claimable(e)}) /\ sender_sent = sent)
=================================================================================
