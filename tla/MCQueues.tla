------------------------------- MODULE MCQueues -------------------------------
(***************************************************************************)
(* Instances for TLC of the parts that carry an e-mail outside the         *)
(* database: the memory queue, the NATS queue and the submissions over     *)
(* NATS. They share no state, so each behaviour is one of a single part,   *)
(* which part picks; the others stay as they start. A liveness property is *)
(* implied by the fairness of its part.                                    *)
(***************************************************************************)
EXTENDS MemoryQueue

CONSTANTS Published, Workers, NoEmail, MaxDeliver, Readable, Routed, MaxNatsFaults,  \* NatsQueue
          Messages, Servers, NoMessage, Deliveries, Valid, Fetchable, Keyed,
          MaxInFaults                                                             \* InboundNats

VARIABLES part,
          reported, wire, stream, workers, copies, nats_faults,           \* NatsQueue
          inbox, servers, reserved, enqueued, heard, stopping, in_faults  \* InboundNats

nats    == <<reported, wire, stream, workers, copies, nats_faults>>
inbound == <<inbox, servers, reserved, enqueued, heard, stopping, in_faults>>
allVars == <<part, vars, nats, inbound>>

Nats == INSTANCE NatsQueue WITH
  Emails <- Published, Routable <- Routed, MaxFaults <- MaxNatsFaults,
  tasks <- workers, accepted <- copies, faults <- nats_faults

\* The payload of the second cannot be read.
Garbled == INSTANCE NatsQueue WITH
  Emails <- {"n1", "n2"}, Routable <- {"n1"}, Readable <- {"n1"}, MaxFaults <- 1,
  tasks <- workers, accepted <- copies, faults <- nats_faults

Inbound == INSTANCE InboundNats WITH
  MaxDeliver <- Deliveries, MaxFaults <- MaxInFaults,
  stream <- inbox, queued <- enqueued, faults <- in_faults

\* Two messages without a key; the attachments of one cannot be fetched.
Keyless == INSTANCE InboundNats WITH
  Messages <- {"m1", "m2"}, Valid <- {"m1", "m2"}, Fetchable <- {"m1"}, Keyed <- {},
  MaxDeliver <- 2, MaxFaults <- 2,
  stream <- inbox, queued <- enqueued, faults <- in_faults

ASSUME PartsAssumption ==
  /\ Nats!NatsQueueAssumption /\ Garbled!NatsQueueAssumption
  /\ Inbound!InboundNatsAssumption /\ Keyless!InboundNatsAssumption

PartsInit ==
  /\ part \in {"memory", "nats", "garbled", "inbound", "keyless"}
  /\ Init /\ Nats!Init /\ Inbound!Init

PartsNext ==
  /\ UNCHANGED part
  /\ \/ part = "memory"  /\ Next         /\ UNCHANGED <<nats, inbound>>
     \/ part = "nats"    /\ Nats!Next    /\ UNCHANGED <<vars, inbound>>
     \/ part = "garbled" /\ Garbled!Next /\ UNCHANGED <<vars, inbound>>
     \/ part = "inbound" /\ Inbound!Next /\ UNCHANGED <<vars, nats>>
     \/ part = "keyless" /\ Keyless!Next /\ UNCHANGED <<vars, nats>>

PartsSpec == PartsInit /\ [][PartsNext]_allVars

-----------------------------------------------------------------------------
(* Properties of the parts, under names that tell them apart.              *)

\* The NATS queue: a message leaves the stream only once an SMTP server has accepted
\* the e-mail or it is exhausted; recipients get one more copy per fault at most,
\* redeliveries included; and JetStream gives a message up before the worker does
\* only when something went wrong or the payload is unreadable. The queue and its
\* workers keep the promise of AtLeastOnce.
NatsSafe == [](part # "garbled" => Nats!NatsSafe) /\ Nats!KeepsPromise

\* The submissions over NATS (handle_message): one that leaves the stream was
\* enqueued or can never be, but for a keyed one that a fault interrupted; it is
\* enqueued again once per fault at most, never with a key; and it is parked only
\* when each of its deliveries had a fault.
InboundSafe == part # "keyless" => Inbound!InboundSafe

\* Nothing stays undecided. Every e-mail in the memory queue is settled, if nothing
\* dies and its answers arrive in the end; every e-mail that NATS has taken is
\* settled, parked or lost, also one whose payload cannot be read; every submission
\* over NATS is settled, parked or left in the stream by a shutdown, and a
\* cancelled server stops, having answered the message it had in hand. With payloads
\* that cannot be read and messages without a key the queues are as safe.
QueuesDecide ==
  /\ [](part = "garbled" => Garbled!NatsSafe)
  /\ [](part = "keyless" => Keyless!InboundSafe)
  /\ part = "memory"  /\ Fairness         => Drains
  /\ part = "garbled" /\ Garbled!Fairness => Garbled!FateDecided
  /\ part = "inbound" /\ Inbound!Fairness => Inbound!Decided
  /\ part = "inbound" /\ Inbound!Fairness => Inbound!StopsClean
==============================================================================
