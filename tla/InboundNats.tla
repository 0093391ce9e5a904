----------------------------- MODULE InboundNats -----------------------------
(***************************************************************************)
(* Submissions over NATS (adapter/inbound-nats): servers that fetch one    *)
(* message at a time from a durable pull consumer, submit what it holds    *)
(* and ack, nak or discard it.                                             *)
(*                                                                         *)
(* The use case is reduced to the two steps a redelivery may fall between: *)
(* it reserves the row of the e-mail, which an idempotency key may find    *)
(* taken, then enqueues it or gives the row back. JetStream delivers what  *)
(* is not acked again, MaxDeliver times at most. MaxFaults bounds what     *)
(* goes wrong.                                                             *)
(***************************************************************************)
EXTENDS Naturals, FiniteSets

CONSTANTS Messages,
          Servers,      \* the inbound servers on the consumer
          MaxDeliver,   \* CATAPULTE_INBOUND_NATS_MAX_DELIVER (5)
          Valid,        \* messages that parse and convert
          Fetchable,    \* messages whose attachments can be fetched
          Keyed,        \* messages with an idempotency key
          MaxFaults,    \* bound: faults in a behaviour
          NoMessage

InboundNatsAssumption ==
  /\ MaxDeliver \in Nat \ {0} /\ MaxFaults \in Nat
  /\ Valid \subseteq Messages /\ Fetchable \subseteq Messages /\ Keyed \subseteq Messages
  /\ NoMessage \notin Messages

VARIABLES stream,    \* each message's place in the stream and its deliveries
          servers,   \* what each server does
          reserved,  \* rows of the e-mail table, by message
          queued,    \* e-mails enqueued, by message
          heard,     \* messages a lifecycle event has told about
          stopping,  \* the shutdown has been requested
          faults

vars == <<stream, servers, reserved, queued, heard, stopping, faults>>

MessageStates == {"unsent", "ready", "pending", "parked", "removed"}
Places        == {"fetch", "asleep", "handle", "reserved", "ack", "nak", "stopped"}
Free          == [at |-> "fetch", msg |-> NoMessage, delivery |-> 0]

TypeOK ==
  /\ stream \in [Messages -> [state : MessageStates, delivered : 0..MaxDeliver]]
  /\ servers \in [Servers -> [at : Places, msg : Messages \union {NoMessage}, delivery : 0..MaxDeliver]]
  /\ \A s \in Servers : servers[s].at \in {"handle", "reserved", "ack", "nak"} <=> servers[s].msg # NoMessage
  /\ reserved \in [Messages -> Nat] /\ queued \in [Messages -> Nat]
  /\ heard \subseteq Messages
  /\ stopping \in BOOLEAN /\ faults \in 0..MaxFaults

Init ==
  /\ stream = [m \in Messages |-> [state |-> "unsent", delivered |-> 0]]
  /\ servers = [s \in Servers |-> Free]
  /\ reserved = [m \in Messages |-> 0] /\ queued = [m \in Messages |-> 0]
  /\ heard = {} /\ stopping = FALSE /\ faults = 0

Fault == faults < MaxFaults /\ faults' = faults + 1

Goto(s, place) == servers' = [servers EXCEPT ![s].at = place]
At(s, place)   == servers[s].at = place
Msg(s)         == servers[s].msg

-----------------------------------------------------------------------------
(* The stream.                                                             *)

Publish(m) ==
  /\ stream[m].state = "unsent"
  /\ stream' = [stream EXCEPT ![m].state = "ready"]
  /\ UNCHANGED <<servers, reserved, queued, heard, stopping, faults>>

Delivered(m) ==
  [stream EXCEPT ![m] = [state |-> "pending", delivered |-> @.delivered + 1]]

\* Due again: a delivery more, or none.
Due(m) == IF stream[m].delivered < MaxDeliver THEN "ready" ELSE "parked"

InHand(m) == \E s \in Servers : Msg(s) = m /\ servers[s].delivery = stream[m].delivered

\* The ack wait of the last delivery is over; a fault while it is still handled.
AckWait(m) ==
  /\ stream[m].state = "pending"
  /\ IF InHand(m) THEN Fault ELSE UNCHANGED faults
  /\ stream' = [stream EXCEPT ![m].state = Due(m)]
  /\ UNCHANGED <<servers, reserved, queued, heard, stopping>>

-----------------------------------------------------------------------------
(* The servers.                                                            *)

\* fetch_one has a message.
fetch_one(s, m) ==
  /\ At(s, "fetch") /\ stream[m].state = "ready"
  /\ stream' = Delivered(m)
  /\ servers' = [servers EXCEPT ![s] = [at |-> "handle", msg |-> m,
                                        delivery |-> stream[m].delivered + 1]]
  /\ UNCHANGED <<reserved, queued, heard, stopping, faults>>

\* fetch_one fails, maybe with a message it was sent: the server sleeps.
FetchFails(s) ==
  /\ At(s, "fetch") /\ Fault
  /\ Goto(s, "asleep")
  /\ \/ UNCHANGED stream
     \/ \E m \in Messages : stream[m].state = "ready" /\ stream' = Delivered(m)
  /\ UNCHANGED <<reserved, queued, heard, stopping>>

WakeUp(s) ==
  /\ At(s, "asleep") /\ Goto(s, "fetch")
  /\ UNCHANGED <<stream, reserved, queued, heard, stopping, faults>>

\* Faulty variant of Handle: the key of a redelivered message is not looked up.
Handle_NoLookup(s) ==
  /\ At(s, "handle")
  /\ IF Msg(s) \notin Valid
       THEN Goto(s, "ack") /\ UNCHANGED reserved
       ELSE Goto(s, "reserved") /\ reserved' = [reserved EXCEPT ![Msg(s)] = @ + 1]
  /\ UNCHANGED <<stream, queued, heard, stopping, faults>>

\* What does not parse or convert is acked to discard it; so is what was
\* submitted before, as execute answers with the id of the row the key finds.
Handle(s) ==
  LET m == Msg(s)
      duplicate == m \in Keyed /\ reserved[m] > 0
  IN /\ At(s, "handle")
     /\ IF m \notin Valid \/ duplicate
          THEN Goto(s, "ack") /\ UNCHANGED <<reserved, faults>>
          ELSE \/ Goto(s, "reserved") /\ reserved' = [reserved EXCEPT ![m] = @ + 1] /\ UNCHANGED faults
               \/ Goto(s, "nak") /\ Fault /\ UNCHANGED reserved
     /\ UNCHANGED <<stream, queued, heard, stopping>>

\* is_transient: everything but an attachment that cannot be fetched is retried.
AfterError(error) == IF error = "AttachmentFetch" THEN "ack" ELSE "nak"

\* The rest of execute: the attachments are fetched and stored, the e-mail is
\* enqueued and Queued is published; or the row is given back.
Submit(s) ==
  LET m == Msg(s)
      Fails(error) == /\ reserved' = [reserved EXCEPT ![m] = @ - 1]
                      /\ Goto(s, AfterError(error))
                      /\ UNCHANGED <<queued, heard>>
  IN /\ At(s, "reserved")
     /\ IF m \notin Fetchable
          THEN Fails("AttachmentFetch") /\ UNCHANGED faults
          ELSE \/ /\ queued' = [queued EXCEPT ![m] = @ + 1]
                  /\ Goto(s, "ack")
                  /\ \/ heard' = heard \union {m} /\ UNCHANGED faults
                     \/ UNCHANGED heard /\ Fault
                  /\ UNCHANGED reserved
               \/ Fails("Enqueue") /\ Fault
     /\ UNCHANGED <<stream, stopping>>

\* msg.ack and ack_with(Nak(None)): publishes that may be lost. An ack settles
\* the message whichever delivery it answers, a nak without a delay has it
\* delivered again at once.
Respond(s) ==
  LET m == Msg(s)
      state == stream[m].state
  IN /\ At(s, "ack") \/ At(s, "nak")
     /\ \/ /\ \/ At(s, "ack") /\ stream' = [stream EXCEPT ![m].state = "removed"]
              \/ /\ At(s, "nak")
                 /\ stream' = [stream EXCEPT ![m].state =
                                 IF state = "pending" THEN Due(m) ELSE state]
           /\ UNCHANGED faults
        \/ UNCHANGED stream /\ Fault
     /\ servers' = [servers EXCEPT ![s] = Free]
     /\ UNCHANGED <<reserved, queued, heard, stopping>>

\* The process is killed and started again.
Crash(s) ==
  /\ servers[s].at # "stopped" /\ Fault
  /\ servers' = [servers EXCEPT ![s] = Free]
  /\ UNCHANGED <<stream, reserved, queued, heard, stopping>>

Shutdown ==
  /\ ~stopping /\ stopping' = TRUE
  /\ UNCHANGED <<stream, servers, reserved, queued, heard, faults>>

\* The cancelled loop: it is left between two messages, never while one is
\* handled; a message fetch_one was just being sent is dropped.
Stop(s) ==
  /\ stopping /\ At(s, "fetch")
  /\ Goto(s, "stopped")
  /\ \/ UNCHANGED stream
     \/ \E m \in Messages : stream[m].state = "ready" /\ stream' = Delivered(m)
  /\ UNCHANGED <<reserved, queued, heard, stopping, faults>>

ServerStep(s) ==
  \/ \E m \in Messages : fetch_one(s, m)
  \/ WakeUp(s) \/ Handle(s) \/ Submit(s) \/ Respond(s) \/ Stop(s)

Next ==
  \/ \E m \in Messages : Publish(m) \/ AckWait(m)
  \/ \E s \in Servers : ServerStep(s) \/ FetchFails(s) \/ Crash(s)
  \/ Shutdown

Spec == Init /\ [][Next]_vars

\* The servers run and the consumer's timers fire.
Fairness ==
  /\ \A s \in Servers : WF_vars(ServerStep(s))
  /\ \A m \in Messages : WF_vars(AckWait(m))

FairSpec == Spec /\ Fairness

-----------------------------------------------------------------------------
(* Properties.                                                             *)

Hopeless(m) == m \notin Valid \/ m \notin Fetchable
Removed(m)  == stream[m].state = "removed"

\* What leaves the stream was enqueued or can never be, whatever is lost, slow
\* or killed. Only with an idempotency key may faults settle an e-mail that was
\* never enqueued: its redelivery finds the reserved row and is acked.
NothingDropped ==
  \A m \in Messages :
    Removed(m) => queued[m] > 0 \/ Hopeless(m) \/ (m \in Keyed /\ faults > 0)

\* A redelivery after a lost ack, a slow submission or a crash submits again:
\* at most once per fault, and never with an idempotency key.
CopiesBounded ==
  \A m \in Messages :
    /\ queued[m] <= 1 + faults
    /\ m \in Keyed => queued[m] <= 1

\* JetStream gives up only what failed: a message is parked with as many faults
\* as it had deliveries, for every delivery without one settles it.
ParkedByFaults ==
  \A m \in Messages : stream[m].state = "parked" /\ ~stopping => faults >= MaxDeliver

\* The submissions over NATS (handle_message): no fault, redelivery or shutdown
\* drops one, multiplies it or has it given up beyond what the faults excuse.
InboundSafe == TypeOK /\ NothingDropped /\ CopiesBounded /\ ParkedByFaults

\* Every submission is settled in the end: removed, parked, or left in the
\* stream by a shutdown.
Decided ==
  \A m \in Messages :
    stream[m].state # "unsent" ~> Removed(m) \/ stream[m].state = "parked" \/ stopping

\* A cancelled server stops, having answered the message it had in hand.
StopsClean == stopping ~> \A s \in Servers : At(s, "stopped")
=============================================================================
