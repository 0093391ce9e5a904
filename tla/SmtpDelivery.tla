------------------------------ MODULE SmtpDelivery ------------------------------
(***************************************************************************)
(* The SMTP transports (adapter/outbound-smtp) under concurrent sends: how *)
(* a transport is built from its settings, the message and its recipients, *)
(* the connections that it keeps, and the dialogue with a server. A send   *)
(* goes through the configured senders until one delivers (RoutedSender    *)
(* has their choice) and a task through its attempts (Delivery has the     *)
(* queue).                                                                 *)
(*                                                                         *)
(* A fault is a server that cannot be reached, an idle connection that the *)
(* server drops, or an acceptance whose answer is lost.                    *)
(***************************************************************************)
EXTENDS Naturals, Sequences

CONSTANTS Emails,
          Slots,         \* permits of the worker
          Senders,       \* the configured senders, in the order of a send
          Setup,         \* settings of a sender
          Server,        \* what its server speaks, wants and refuses
          From,          \* sender address of an e-mail
          Recipients,    \* recipients of an e-mail: kinds and addresses
          Attached,      \* content types of an e-mail's attachments
          Parsable,      \* what lettre reads, as an address or as a content type
          MAX_ATTEMPTS,  \* MAX_ATTEMPTS of worker.rs (3)
          MaxFaults,     \* bound: faults in a behaviour
          NoEmail

Names == {Senders[i] : i \in DOMAIN Senders}
Ways  == {"starttls", "tls", "none"}
Kinds == {"to", "cc", "bcc"}
Addressed(e) == {Recipients[e][i].address : i \in DOMAIN Recipients[e]}
Addresses    == UNION {Addressed(e) : e \in Emails}

\* (Without a sender there is no route either, and no send.)
SmtpDeliveryAssumption ==
  /\ Senders \in Seq(Names) /\ Senders # <<>>
  /\ Setup \in [Names -> [tls : Ways, named : BOOLEAN, username : BOOLEAN, password : BOOLEAN]]
  /\ Server \in [Names -> [speaks : SUBSET Ways, login : BOOLEAN, refuses : SUBSET Addresses]]
  /\ \A e \in Emails : Recipients[e] \in Seq([kind : Kinds, address : Addresses])
  /\ MAX_ATTEMPTS \in Nat \ {0} /\ MaxFaults \in Nat
  /\ NoEmail \notin Emails

VARIABLES process,  \* building, up, or refused to start
          pool,     \* idle connections of a sender, and how many of them are broken
          task,     \* the send in each slot
          queue,    \* waiting, claimed, sent or failed
          attempt,
          copies,   \* copies that servers took, for each recipient
          shown,    \* addresses in the headers of those copies
          faults

vars == <<process, pool, task, queue, attempt, copies, shown, faults>>

Idle == [at |-> "idle", email |-> NoEmail, nth |-> 0, link |-> "none"]

\* The type invariant; what is broken is idle.
TypeOK ==
  /\ process \in {"building", "up", "refused"}
  /\ pool \in [Names -> [idle : Nat, broken : Nat]]
  /\ \A n \in Names : pool[n].broken <= pool[n].idle
  /\ task \in [Slots -> [at : {"idle", "compose", "connect", "transact", "sent", "error"},
                         email : Emails \union {NoEmail}, nth : 0..Len(Senders),
                         link : {"none", "live", "broken"}]]
  /\ queue \in [Emails -> {"waiting", "claimed", "sent", "failed"}]
  /\ attempt \in [Emails -> 0..MAX_ATTEMPTS]
  /\ \A e \in Emails : copies[e] \in [Addressed(e) -> Nat]
  /\ shown \in [Emails -> SUBSET Addresses]
  /\ faults \in 0..MaxFaults

Init ==
  /\ process = "building"
  /\ pool = [n \in Names |-> [idle |-> 0, broken |-> 0]]
  /\ task = [s \in Slots |-> Idle]
  /\ queue = [e \in Emails |-> "waiting"]
  /\ attempt = [e \in Emails |-> 0]
  /\ copies = [e \in Emails |-> [a \in Addressed(e) |-> 0]]
  /\ shown = [e \in Emails |-> {}]
  /\ faults = 0

NoFault == UNCHANGED faults
Fault   == faults < MaxFaults /\ faults' = faults + 1

At(s, place) == task[s].at = place
By(s)        == Senders[task[s].nth]

-----------------------------------------------------------------------------
(* Building the transports.                                                *)

\* starttls_relay and relay need a host that can be the name in a certificate.
build_transport_builder(n) == Setup[n].tls = "none" \/ Setup[n].named

\* Credentials need both; one of them alone is dropped.
apply_credentials(n) == Setup[n].username /\ Setup[n].password

\* MultiSenderConfig::build: one transport that cannot be built stops the start.
Build ==
  /\ process = "building"
  /\ process' = IF \A n \in Names : build_transport_builder(n) THEN "up" ELSE "refused"
  /\ UNCHANGED <<pool, task, queue, attempt, copies, shown, faults>>

-----------------------------------------------------------------------------
(* A message.                                                              *)

parse_mailbox(a) == a \in Parsable

\* The header that an address goes into.
add_recipient(kind) == kind

\* Faulty variant of apply_recipients: what does not parse is left out.
apply_recipients_Lenient(e) ==
  LET rs == {i \in DOMAIN Recipients[e] : parse_mailbox(Recipients[e][i].address)}
  IN {[header |-> add_recipient(Recipients[e][i].kind), address |-> Recipients[e][i].address] :
        i \in rs}

\* The recipients of the builder, or none at all when an address does not parse.
apply_recipients(e) ==
  LET rs == Recipients[e]
  IN IF \A i \in DOMAIN rs : parse_mailbox(rs[i].address)
     THEN {[header |-> add_recipient(rs[i].kind), address |-> rs[i].address] : i \in DOMAIN rs}
     ELSE {}

\* finalize_message: without attachments the parts have types of their own.
finalize_message(e) == \A type \in Attached[e] : type \in Parsable

\* lettre: the envelope is for all of them, and the Bcc header is not sent.
Envelope(e) == {r.address : r \in apply_recipients(e)}
Headers(e)  == {r.address : r \in {r \in apply_recipients(e) : r.header # "bcc"}}

-----------------------------------------------------------------------------
(* The senders and the worker around them.                                 *)

Begin(s, e) ==
  /\ process = "up"
  /\ At(s, "idle")
  /\ queue[e] = "waiting"
  /\ queue' = [queue EXCEPT ![e] = "claimed"]
  /\ attempt' = [attempt EXCEPT ![e] = @ + 1]
  /\ task' = [task EXCEPT ![s] = [at |-> "compose", email |-> e, nth |-> 1, link |-> "none"]]
  /\ UNCHANGED <<process, pool, copies, shown, faults>>

\* send_inner up to the message, which needs a recipient and types of its parts.
Compose(s) ==
  LET e == task[s].email
  IN /\ At(s, "compose")
     /\ task' = [task EXCEPT ![s].at =
                   IF parse_mailbox(From[e]) /\ apply_recipients(e) # {} /\ finalize_message(e)
                   THEN "connect" ELSE "error"]
     /\ UNCHANGED <<process, pool, queue, attempt, copies, shown, faults>>

\* Whether the server takes what the transport is set to.
Compatible(n) ==
  /\ Setup[n].tls \in Server[n].speaks
  /\ Server[n].login => apply_credentials(n)

\* The pool of lettre: an idle connection, live or not, is used again.
Reuse(s, kind) ==
  LET n == By(s)
  IN /\ At(s, "connect")
     /\ IF kind = "broken" THEN pool[n].broken > 0 ELSE pool[n].idle > pool[n].broken
     /\ pool' = [pool EXCEPT ![n].idle = @ - 1,
                             ![n].broken = IF kind = "broken" THEN @ - 1 ELSE @]
     /\ task' = [task EXCEPT ![s].at = "transact", ![s].link = kind]
     /\ UNCHANGED <<process, queue, attempt, copies, shown, faults>>

\* Without an idle connection another one is made, encrypted and logged in.
Dial(s) ==
  LET Made(place, link) == task' = [task EXCEPT ![s].at = place, ![s].link = link]
  IN /\ At(s, "connect")
     /\ pool[By(s)].idle = 0
     /\ \/ NoFault /\ IF Compatible(By(s)) THEN Made("transact", "live") ELSE Made("error", "none")
        \/ Fault /\ Made("error", "none")
     /\ UNCHANGED <<process, pool, queue, attempt, copies, shown>>

\* The server takes a message for every recipient of the envelope or refuses it;
\* after an error or a lost answer the connection is not kept.
Transact(s) ==
  LET e  == task[s].email
      n  == By(s)
      Ok == task[s].link = "live" /\ Envelope(e) \intersect Server[n].refuses = {}
      Take ==
        /\ copies' = [copies EXCEPT ![e] =
                        [a \in Addressed(e) |-> @[a] + (IF a \in Envelope(e) THEN 1 ELSE 0)]]
        /\ shown' = [shown EXCEPT ![e] = @ \union Headers(e)]
      End(place) == task' = [task EXCEPT ![s].at = place, ![s].link = "none"]
  IN /\ At(s, "transact")
     /\ \/ /\ Ok /\ Take /\ End("sent") /\ NoFault
           /\ pool' = [pool EXCEPT ![n].idle = @ + 1]
        \/ Ok /\ Take /\ End("error") /\ Fault /\ UNCHANGED pool
        \/ ~Ok /\ End("error") /\ UNCHANGED <<copies, shown, pool, faults>>
     /\ UNCHANGED <<process, queue, attempt>>

\* Faulty variant of AfterError: the last attempt comes one too early.
AfterError_Early(e) == IF attempt[e] + 1 >= MAX_ATTEMPTS THEN "failed" ELSE "waiting"

\* process_one: every error of a transport is transient.
AfterError(e) == IF attempt[e] >= MAX_ATTEMPTS THEN "failed" ELSE "waiting"

\* deliver of the next sender, or the end of the attempt.
Failover(s) ==
  LET e == task[s].email
  IN /\ At(s, "error")
     /\ \/ /\ task[s].nth < Len(Senders)
           /\ task' = [task EXCEPT ![s].at = "compose", ![s].nth = @ + 1]
           /\ UNCHANGED queue
        \/ /\ task[s].nth = Len(Senders)
           /\ task' = [task EXCEPT ![s] = Idle]
           /\ queue' = [queue EXCEPT ![e] = AfterError(e)]
     /\ UNCHANGED <<process, pool, attempt, copies, shown, faults>>

Finish(s) ==
  /\ At(s, "sent")
  /\ queue' = [queue EXCEPT ![task[s].email] = "sent"]
  /\ task' = [task EXCEPT ![s] = Idle]
  /\ UNCHANGED <<process, pool, attempt, copies, shown, faults>>

-----------------------------------------------------------------------------
(* Idle connections.                                                       *)

Drop(n) ==
  /\ pool[n].idle > pool[n].broken
  /\ Fault
  /\ pool' = [pool EXCEPT ![n].broken = @ + 1]
  /\ UNCHANGED <<process, task, queue, attempt, copies, shown>>

\* The idle timeout of the pool.
Expire(n, kind) ==
  /\ IF kind = "broken" THEN pool[n].broken > 0 ELSE pool[n].idle > pool[n].broken
  /\ pool' = [pool EXCEPT ![n].idle = @ - 1,
                          ![n].broken = IF kind = "broken" THEN @ - 1 ELSE @]
  /\ UNCHANGED <<process, task, queue, attempt, copies, shown, faults>>

SendStep(s) ==
  \/ Compose(s) \/ Dial(s) \/ Transact(s) \/ Failover(s) \/ Finish(s)
  \/ \E kind \in {"live", "broken"} : Reuse(s, kind)

Next ==
  \/ Build
  \/ \E s \in Slots : SendStep(s) \/ \E e \in Emails : Begin(s, e)
  \/ \E n \in Names : Drop(n) \/ \E kind \in {"live", "broken"} : Expire(n, kind)

Spec == Init /\ [][Next]_vars

\* The start, the sends and the polls of the worker go on: an SMTP command has
\* a timeout, and a free slot takes each e-mail that waits at some time.
Fairness ==
  /\ WF_vars(Build)
  /\ \A s \in Slots : WF_vars(SendStep(s))
  /\ \A e \in Emails : SF_vars(\E s \in Slots : Begin(s, e))

FairSpec == Spec /\ Fairness

-----------------------------------------------------------------------------
(* Properties.                                                             *)

\* An e-mail reaches all of its recipients or none of them, as often each,
\* whatever does not parse and whoever is refused (send_inner).
AllOrNobody ==
  \A e \in Emails : \A a, b \in Addressed(e) : copies[e][a] = copies[e][b]

\* No copy names an address that the e-mail has as a blind copy only
\* (add_recipient).
BlindStaysBlind ==
  \A e \in Emails : \A a \in shown[e] :
    \E i \in DOMAIN Recipients[e] :
      Recipients[e][i].address = a /\ Recipients[e][i].kind # "bcc"

\* Recipients are served as the e-mail asks.
SentAsAsked == TypeOK /\ AllOrNobody /\ BlindStaysBlind

\* Somebody accepts the whole e-mail and its transport can talk to them.
Deliverable(e) ==
  /\ \A a \in Addressed(e) \union {From[e]} \union Attached[e] : a \in Parsable
  /\ \E n \in Names : Compatible(n) /\ Addressed(e) \intersect Server[n].refuses = {}

\* Fewer faults than attempts delay an e-mail and never fail it: a connection
\* that was dropped while idle is absorbed by the attempts and the other senders
\* (process_one, RoutedEmailSender::send).
FaultsAbsorbed ==
  \A e \in Emails : (process = "up" /\ Deliverable(e)) ~> queue[e] = "sent"
=================================================================================
