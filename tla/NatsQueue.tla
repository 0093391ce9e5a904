------------------------------ MODULE NatsQueue ------------------------------
(***************************************************************************)
(* The NATS queue backend (adapter/outbound-nats): a client whose enqueue, *)
(* ack and nack are plain publishes nobody confirms, a JetStream work      *)
(* queue with one durable pull consumer, and the worker tasks between.     *)
(*                                                                         *)
(* What a publish hands to the connection is on the wire until the server  *)
(* has it; a lost connection loses it. The server redelivers what is not   *)
(* acked within ack_wait, MaxDeliver times at most; then the message stays *)
(* in the stream, parked. MaxFaults bounds what goes wrong.                *)
(***************************************************************************)
EXTENDS Naturals, FiniteSets

CONSTANTS Emails,
          Workers,       \* permit slots of the workers on the consumer
          MAX_ATTEMPTS,  \* MAX_ATTEMPTS of worker.rs (3)
          MaxDeliver,    \* CATAPULTE_QUEUE_MAX_DELIVER (3)
          Readable,      \* e-mails whose payload the worker can deserialize
          Routable,      \* e-mails for which some route matches
          MaxFaults,     \* bound: faults in a behaviour
          NoEmail

NatsQueueAssumption ==
  /\ MAX_ATTEMPTS \in Nat \ {0}
  /\ MaxDeliver \in Nat \ {0}
  /\ Readable \subseteq Emails /\ Routable \subseteq Emails
  /\ MaxFaults \in Nat
  /\ NoEmail \notin Emails

VARIABLES reported,  \* e-mails whose enqueue has returned Ok
          wire,      \* commands the server has yet to receive
          stream,    \* each e-mail's message in the stream, and its consumer state
          tasks,     \* what each worker slot does
          accepted,  \* copies SMTP servers have accepted
          faults

vars == <<reported, wire, stream, tasks, accepted, faults>>

MessageStates == {"absent", "ready", "pending", "delayed", "parked", "removed"}
Commands == [kind : {"publish", "ack", "nak"}, email : Emails, delivery : Nat]
Idle     == [at |-> "idle", email |-> NoEmail, attempt |-> 0]

TypeOK ==
  /\ reported \in SUBSET Emails
  /\ wire \in SUBSET Commands
  /\ stream \in [Emails -> [state : MessageStates, delivered : 0..MaxDeliver]]
  /\ tasks \in [Workers -> [at : {"idle", "execute", "ack", "nack"},
                            email : Emails \union {NoEmail}, attempt : Nat]]
  /\ accepted \in [Emails -> Nat]
  /\ faults \in 0..MaxFaults

Init ==
  /\ reported = {}
  /\ wire = {}
  /\ stream = [e \in Emails |-> [state |-> "absent", delivered |-> 0]]
  /\ tasks = [w \in Workers |-> Idle]
  /\ accepted = [e \in Emails |-> 0]
  /\ faults = 0

NoFault == UNCHANGED faults
Fault   == faults < MaxFaults /\ faults' = faults + 1

Command(kind, e, n) == [kind |-> kind, email |-> e, delivery |-> n]

Holds(w, e, n) == tasks[w].email = e /\ tasks[w].attempt = n

\* Delivery n of e is in somebody's hands, or its ack is on its way.
InHand(e, n) ==
  \/ \E w \in Workers : Holds(w, e, n)
  \/ Command("ack", e, n) \in wire \/ Command("nak", e, n) \in wire

-----------------------------------------------------------------------------
(* The adapter and the worker.                                             *)

\* publish returns once the connection has the message. Its error is reported
\* and the message then is not sent.
enqueue(e) ==
  /\ e \notin reported
  /\ stream[e].state = "absent"
  /\ reported' = reported \union {e}
  /\ wire' = wire \union {Command("publish", e, 0)}
  /\ UNCHANGED <<stream, tasks, accepted, faults>>

\* A fetch of one message: the server counts the delivery, and the count is the
\* attempt. A payload that does not parse is an error before anyone could ack.
dequeue(w, e) ==
  /\ tasks[w].at = "idle"
  /\ stream[e].state = "ready"
  /\ stream' = [stream EXCEPT ![e] = [state |-> "pending", delivered |-> @.delivered + 1]]
  /\ tasks' = IF e \notin Readable THEN tasks
              ELSE [tasks EXCEPT ![w] = [at |-> "execute", email |-> e,
                                         attempt |-> stream[e].delivered + 1]]
  /\ UNCHANGED <<reported, wire, accepted, faults>>

\* The server's delivery is dropped: the connection broke, or the dequeue was
\* cancelled by the shutdown.
DeliveryLost(e) ==
  /\ stream[e].state = "ready"
  /\ Fault
  /\ stream' = [stream EXCEPT ![e] = [state |-> "pending", delivered |-> @.delivered + 1]]
  /\ UNCHANGED <<reported, wire, tasks, accepted>>

\* is_terminal of process_one, for errors other than NoMatchingRoute.
AfterError(attempt) == IF attempt >= MAX_ATTEMPTS THEN "ack" ELSE "nack"

\* execute of process_one: sent, failed, not routable, or sent without the
\* worker learning of it.
Execute(w) ==
  LET e     == tasks[w].email
      error == IF e \in Routable THEN AfterError(tasks[w].attempt) ELSE "ack"
      Accept == e \in Routable /\ accepted' = [accepted EXCEPT ![e] = @ + 1]
      Goto(place) == tasks' = [tasks EXCEPT ![w].at = place]
  IN /\ tasks[w].at = "execute"
     /\ \/ Goto("ack") /\ Accept /\ NoFault
        \/ Goto(error) /\ UNCHANGED accepted /\ NoFault
        \/ Goto(error) /\ Accept /\ Fault
     /\ UNCHANGED <<reported, wire, stream>>

\* Faulty variant of Respond: it naks where it should ack.
Respond_Swapped(w, kind) ==
  /\ tasks[w].at = (IF kind = "ack" THEN "ack" ELSE "nack")
  /\ wire' = wire \union {Command("nak", tasks[w].email, tasks[w].attempt)}
  /\ NoFault
  /\ tasks' = [tasks EXCEPT ![w] = Idle]
  /\ UNCHANGED <<reported, stream, accepted>>

\* ack and nack: a publish to the delivery's reply subject, and the task ends.
\* A publish that fails ends it too.
Respond(w, kind) ==
  /\ tasks[w].at = (IF kind = "ack" THEN "ack" ELSE "nack")
  /\ \/ /\ wire' = wire \union {Command(kind, tasks[w].email, tasks[w].attempt)}
        /\ NoFault
     \/ UNCHANGED wire /\ Fault
  /\ tasks' = [tasks EXCEPT ![w] = Idle]
  /\ UNCHANGED <<reported, stream, accepted>>

ack(w)  == Respond(w, "ack")
nack(w) == Respond(w, "nak")

Crash(w) ==
  /\ tasks[w].at # "idle"
  /\ Fault
  /\ tasks' = [tasks EXCEPT ![w] = Idle]
  /\ UNCHANGED <<reported, wire, stream, accepted>>

-----------------------------------------------------------------------------
(* JetStream and the connection to it.                                     *)

\* An ack or a nak names the message, so that of an earlier delivery counts as
\* well. The ack of a message that is parked may come too late.
Handled(c) ==
  LET state == stream[c.email].state
  IN CASE c.kind = "publish" -> {"ready"}
       [] c.kind = "ack" -> {"removed"} \union ({"parked"} \intersect {state})
       [] c.kind = "nak" -> {IF state = "pending" THEN "delayed" ELSE state}

Receive(c) ==
  /\ c \in wire
  /\ wire' = wire \ {c}
  /\ \E state \in Handled(c) : stream' = [stream EXCEPT ![c.email].state = state]
  /\ UNCHANGED <<reported, tasks, accepted, faults>>

ConnectionLost(c) ==
  /\ c \in wire
  /\ Fault
  /\ wire' = wire \ {c}
  /\ UNCHANGED <<reported, stream, tasks, accepted>>

\* What becomes of a message that is due again.
Due(e) == IF stream[e].delivered < MaxDeliver THEN "ready" ELSE "parked"

\* Faulty variant of Timer: only what was naked is delivered again.
Timer_NoAckWait(e) ==
  /\ stream[e].state = "delayed"
  /\ NoFault
  /\ stream' = [stream EXCEPT ![e].state = Due(e)]
  /\ UNCHANGED <<reported, wire, tasks, accepted>>

\* ack_wait or the delay of the nak is over. While a task is still busy with the
\* delivery, or its answer is under way, that is a fault.
Timer(e) ==
  /\ stream[e].state \in {"pending", "delayed"}
  /\ IF stream[e].state = "pending" /\ InHand(e, stream[e].delivered)
       THEN Fault ELSE NoFault
  /\ stream' = [stream EXCEPT ![e].state = Due(e)]
  /\ UNCHANGED <<reported, wire, tasks, accepted>>

-----------------------------------------------------------------------------

WorkerStep(w) == (\E e \in Emails : dequeue(w, e)) \/ Execute(w) \/ ack(w) \/ nack(w)

Next ==
  \/ \E e \in Emails : enqueue(e) \/ DeliveryLost(e) \/ Timer(e)
  \/ \E w \in Workers : WorkerStep(w) \/ Crash(w)
  \/ \E c \in wire : Receive(c) \/ ConnectionLost(c)

Spec == Init /\ [][Next]_vars

\* The workers run, the connection is served, and the server's timers fire.
Fairness ==
  /\ \A w \in Workers : WF_vars(WorkerStep(w))
  /\ \A e \in Emails : WF_vars(Timer(e))
  /\ WF_vars(\E c \in wire : Receive(c))

FairSpec == Spec /\ Fairness

-----------------------------------------------------------------------------
(* Properties.                                                             *)

Exhausted(e) == stream[e].delivered >= MAX_ATTEMPTS \/ e \notin Routable
Removed(e)   == stream[e].state = "removed"
Lost(e)      == /\ e \in reported
                /\ stream[e].state = "absent"
                /\ Command("publish", e, 0) \notin wire

\* A message leaves the work queue only once an SMTP server has accepted the
\* e-mail, or its attempts are used up, or no route matches it: although a late
\* ack settles the message for every delivery, nothing acks before that.
NothingLost == \A e \in Emails : Removed(e) => accepted[e] > 0 \/ Exhausted(e)

\* Recipients get one copy and at most one more per fault: a redelivery needs a
\* nak, which never follows an acceptance, or a fault.
CopiesBounded == \A e \in Emails : accepted[e] <= 1 + faults

\* With max_deliver at least MAX_ATTEMPTS, JetStream gives a message up before
\* the worker does only when something went wrong or the payload is unreadable:
\* the worker's last attempt acks, it never naks into the limit.
ParkedByFault ==
  MaxDeliver >= MAX_ATTEMPTS =>
    \A e \in Readable : stream[e].state = "parked" => faults > 0

\* The queue over NATS: no e-mail is lost, multiplied or given up beyond what the
\* faults, the attempts and the routes excuse.
NatsSafe == TypeOK /\ NothingLost /\ CopiesBounded /\ ParkedByFault

\* Every e-mail that was enqueued is settled in the end, unless the connection
\* lost it or JetStream parked it.
FateDecided ==
  \A e \in Emails :
    e \in reported ~> Removed(e) \/ stream[e].state = "parked" \/ Lost(e)

\* The NATS queue keeps the gateway's promise: what is parked or lost is owed
\* for ever, but nothing is settled without an acceptance or an excuse.
Promise == INSTANCE AtLeastOnce WITH
  owed    <- {e \in reported : ~Removed(e)},
  sentOut <- {e \in Emails : accepted[e] > 0},
  excused <- {e \in reported : Exhausted(e)},
  settled <- {e \in Emails : Removed(e)}

KeepsPromise == Promise!Spec
=============================================================================
