----------------------------- MODULE EventFanout -----------------------------
(***************************************************************************)
(* How a lifecycle event reaches its subscribers: the publisher of the     *)
(* binary, which joins the storage, the webhook (adapter/outbound-webhook) *)
(* and NATS (the event publisher of adapter/outbound-nats), for the        *)
(* concurrent publishers of one e-mail's events, the submission and the    *)
(* worker's task.                                                          *)
(*                                                                         *)
(* A webhook request that timed out is abandoned, not recalled: it may     *)
(* still arrive. A NATS publish is on the wire until the server has it.    *)
(***************************************************************************)
EXTENDS Naturals, Sequences, SequencesExt, FiniteSets

CONSTANTS Publishers,
          Script,      \* the events each publisher publishes, in order
          WithWebhook, \* CATAPULTE_WEBHOOK_URL is set
          WithNats,    \* CATAPULTE_NATS_EVENTS_URL is set
          Tries,       \* requests per event (3)
          NoEvent

Events == UNION {ToSet(Script[p]) : p \in Publishers}

\* Every event has one publisher, which publishes it once.
EventFanoutAssumption ==
  /\ Tries \in Nat \ {0} /\ WithWebhook \in BOOLEAN /\ WithNats \in BOOLEAN
  /\ NoEvent \notin Events
  /\ \A p \in Publishers : Script[p] \in Seq(ToSet(Script[p])) /\ IsInjective(Script[p])
  /\ \A p, q \in Publishers : p # q => ToSet(Script[p]) \intersect ToSet(Script[q]) = {}

VARIABLES calls,    \* each publisher's publish in progress, leg by leg
          results,  \* what its publishes have returned
          stored,   \* the stored events, in the order of their insertion
          wire,     \* events the NATS connection holds
          bus,      \* events NATS subscribers have received
          late,     \* abandoned webhook requests that may still arrive
          log,      \* events the webhook's receiver has received
          slow      \* publishers a request of which has timed out

vars == <<calls, results, stored, wire, bus, late, log, slow>>

NoCall == [event |-> NoEvent, storage |-> "done", try |-> 0, webhook |-> "done", nats |-> "done"]

Calls == [event : Events \union {NoEvent}, storage : {"due", "done", "failed"},
          try : 0..Tries, webhook : {"due", "sent", "asleep", "done", "failed"},
          nats : {"due", "done"}]

TypeOK ==
  /\ calls \in [Publishers -> Calls]
  /\ results \in [Publishers -> Seq({"ok", "error"})]
  /\ \A p \in Publishers : Len(results[p]) <= Len(Script[p])
  /\ {stored, wire, bus, log} \subseteq Seq(Events)
  /\ late \subseteq Events \X (1..Tries)
  /\ slow \subseteq Publishers

Init ==
  /\ calls = [p \in Publishers |-> NoCall]
  /\ results = [p \in Publishers |-> <<>>]
  /\ stored = <<>> /\ wire = <<>> /\ bus = <<>> /\ log = <<>>
  /\ late = {} /\ slow = {}

-----------------------------------------------------------------------------
(* PublisherAdapter.                                                       *)

\* The variants of the adapter: the storage, and the legs that are configured.
Begin(p) ==
  /\ calls[p] = NoCall
  /\ Len(results[p]) < Len(Script[p])
  /\ calls' = [calls EXCEPT ![p] = [event   |-> Script[p][Len(results[p]) + 1],
                                    storage |-> "due",
                                    try     |-> 0,
                                    webhook |-> IF WithWebhook THEN "due" ELSE "done",
                                    nats    |-> IF WithNats THEN "due" ELSE "done"]]
  /\ UNCHANGED <<results, stored, wire, bus, late, log, slow>>

\* Faulty variant of Joined: the webhook is not waited for.
Joined_NotWebhook(c) == c.storage \in {"done", "failed"} /\ c.nats = "done"

\* tokio::join: every leg has ended.
Joined(c) ==
  /\ c.storage \in {"done", "failed"}
  /\ c.webhook \in {"done", "failed"}
  /\ c.nats = "done"

\* Only the storage's error is returned; the others are logged.
Outcome(c) == IF c.storage = "done" THEN "ok" ELSE "error"

\* A publish that is not waited for goes on without its caller.
Return(p) ==
  LET c == calls[p]
  IN /\ c # NoCall /\ Joined(c)
     /\ results' = [results EXCEPT ![p] = Append(@, Outcome(c))]
     /\ calls' = [calls EXCEPT ![p] = NoCall]
     /\ late' = IF c.webhook \in {"due", "sent", "asleep"}
                  THEN late \union {<<c.event, Tries>>} ELSE late
     /\ UNCHANGED <<stored, wire, bus, log, slow>>

\* The insertion into lifecycle_events, or its error, which is also what is left when
\* the answer of the database was lost and the row is there.
Store(p) ==
  /\ calls[p].storage = "due"
  /\ \E place \in {"done", "failed"} : calls' = [calls EXCEPT ![p].storage = place]
  /\ \/ stored' = Append(stored, calls[p].event)
     \/ calls'[p].storage = "failed" /\ UNCHANGED stored
  /\ UNCHANGED <<results, wire, bus, late, log, slow>>

\* The core publish: the connection has the event, or it fails at once.
PublishNats(p) ==
  /\ calls[p].nats = "due"
  /\ calls' = [calls EXCEPT ![p].nats = "done"]
  /\ wire' = Append(wire, calls[p].event) \/ UNCHANGED wire
  /\ UNCHANGED <<results, stored, bus, late, log, slow>>

-----------------------------------------------------------------------------
(* WebhookPublisher.                                                       *)

Send(p) ==
  /\ calls[p].webhook = "due"
  /\ calls' = [calls EXCEPT ![p].webhook = "sent", ![p].try = @ + 1]
  /\ UNCHANGED <<results, stored, wire, bus, late, log, slow>>

\* for attempt in 0..3: another request, after a pause, or the last error.
AfterError(try) == IF try < Tries THEN "asleep" ELSE "failed"

\* The receiver has the event and answers, with a status of success or not.
Answered(p) ==
  /\ calls[p].webhook = "sent"
  /\ log' = Append(log, calls[p].event)
  /\ \E place \in {"done", AfterError(calls[p].try)} : calls' = [calls EXCEPT ![p].webhook = place]
  /\ UNCHANGED <<results, stored, wire, bus, late, slow>>

\* The request fails before it reaches the receiver.
Unreachable(p) ==
  /\ calls[p].webhook = "sent"
  /\ calls' = [calls EXCEPT ![p].webhook = AfterError(calls[p].try)]
  /\ UNCHANGED <<results, stored, wire, bus, late, log, slow>>

\* The client's timeout: nobody knows whether the request arrives.
TimesOut(p) ==
  /\ calls[p].webhook = "sent"
  /\ calls' = [calls EXCEPT ![p].webhook = AfterError(calls[p].try)]
  /\ late' = late \union {<<calls[p].event, calls[p].try>>}
  /\ slow' = slow \union {p}
  /\ UNCHANGED <<results, stored, wire, bus, log>>

\* The pause of 100 or 500 ms.
Awake(p) ==
  /\ calls[p].webhook = "asleep"
  /\ calls' = [calls EXCEPT ![p].webhook = "due"]
  /\ UNCHANGED <<results, stored, wire, bus, late, log, slow>>

-----------------------------------------------------------------------------
(* The subscribers' side.                                                  *)

ArrivesLate ==
  \E r \in late :
    /\ late' = late \ {r}
    /\ log' = Append(log, r[1]) \/ UNCHANGED log
    /\ UNCHANGED <<calls, results, stored, wire, bus, slow>>

OnTheBus ==
  /\ wire # <<>>
  /\ wire' = Tail(wire) /\ bus' = Append(bus, Head(wire))
  /\ UNCHANGED <<calls, results, stored, late, log, slow>>

ConnectionLost ==
  /\ wire # <<>> /\ wire' = <<>>
  /\ UNCHANGED <<calls, results, stored, bus, late, log, slow>>

\* What the process does, whatever the receiver does.
PublisherStep(p) ==
  Begin(p) \/ Return(p) \/ Store(p) \/ PublishNats(p) \/ Send(p) \/ TimesOut(p) \/ Awake(p)

Next ==
  \/ \E p \in Publishers : PublisherStep(p) \/ Answered(p) \/ Unreachable(p)
  \/ ArrivesLate \/ OnTheBus \/ ConnectionLost

Spec == Init /\ [][Next]_vars

\* Every leg of every publish runs; no receiver has to answer.
Fairness ==
  /\ \A p \in Publishers :
       /\ WF_vars(Begin(p)) /\ WF_vars(Return(p))
       /\ WF_vars(Store(p)) /\ WF_vars(PublishNats(p))
       /\ WF_vars(Send(p)) /\ WF_vars(TimesOut(p)) /\ WF_vars(Awake(p))

FairSpec == Spec /\ Fairness

-----------------------------------------------------------------------------
(* Properties.                                                             *)

\* The events of p that s holds are in the order of p's script; without a copy.
InOrder(p, s) ==
  \A i, j \in DOMAIN s, k, l \in DOMAIN Script[p] :
    i < j /\ s[i] = Script[p][k] /\ s[j] = Script[p][l] => k <= l
InOrderOnce(p, s) ==
  \A i, j \in DOMAIN s, k, l \in DOMAIN Script[p] :
    i < j /\ s[i] = Script[p][k] /\ s[j] = Script[p][l] => k < l

\* As long as no request of a publisher times out, the receiver of the webhook
\* gets its events in the order they happened, retries included: a publish ends
\* only with its last request. (After a timeout an old event may still arrive.)
WebhookInOrder ==
  \A p \in Publishers \ slow : InOrder(p, log)

\* The stored events and those on the bus are in order without a copy, although
\* some may be missing; and no event is on the bus before its predecessors have
\* been stored or refused.
StoredInOrder ==
  \A p \in Publishers :
    /\ InOrderOnce(p, stored) /\ InOrderOnce(p, bus)
    /\ \A i \in DOMAIN bus, k \in DOMAIN Script[p] :
         bus[i] = Script[p][k] => k <= Len(results[p]) + 1

\* An event whose publish succeeded can be listed, and the publish of one that cannot
\* has failed: no subscriber that is up hides that the storage lost an event. (One
\* that can be listed may have failed, when only the answer was lost.)
SuccessIsListed ==
  \A p \in Publishers : \A k \in DOMAIN results[p] :
    results[p][k] = "ok" => Script[p][k] \in ToSet(stored)

\* The receiver gets an event at most once per request, late ones included.
CopiesBounded ==
  \A e \in Events : Cardinality({i \in DOMAIN log : log[i] = e}) <= Tries

\* A receiver that hangs delays submissions and tasks, and no more: every
\* publish returns.
AllReturn == <>(\A p \in Publishers : Len(results[p]) = Len(Script[p]))
=============================================================================
