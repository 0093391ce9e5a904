------------------------------ MODULE MCSending ------------------------------
(***************************************************************************)
(* Instances for TLC of the parts of one delivery: its rendering, the      *)
(* choice of a sender and what counts against its quota, and the dialogue  *)
(* with the server. They share no state here, so each behaviour is one of  *)
(* a single part, which part picks; the others stay as they start. A       *)
(* liveness property is implied by the fairness of its part.               *)
(***************************************************************************)
EXTENDS RoutedSender, Sequences, TLC

CONSTANTS None,
          Configs, Length, MaxTime, MaxEvents,                                  \* SenderUsage
          primary, backup, anyone, here, elsewhere, daily, hourly,
          Emails, Senders, Setup, Server, From, Recipients, Attached, Parsable,
          MAX_ATTEMPTS, MaxSmtpFaults, NoEmail,                                 \* SmtpDelivery
          Bodies, Source, Parts, Files, Loaded, Allowed, Includes, Spoilt,
          Unroutable, MaxTries, MaxLapses                                       \* Rendering

VARIABLES part,
          now, events, accepted, attempt_to_send, list,                         \* SenderUsage
          process, pool, task, queue, attempt, copies, shown, smtp_faults,      \* SmtpDelivery
          entry, attempts, renderer, blobs, sent, failed, lapses                \* Rendering

quotas    == <<now, events, accepted, attempt_to_send, list>>
smtp      == <<process, pool, task, queue, attempt, copies, shown, smtp_faults>>
rendering == <<entry, attempts, renderer, blobs, sent, failed, lapses>>
allVars   == <<part, vars, quotas, smtp, rendering>>

-----------------------------------------------------------------------------

\* Two routes of one domain, of which one has a daily quota, and a catch-all with
\* an hourly one; mail of one other domain reaches the catch-all only.
Domain1   == primary :> here @@ backup :> here @@ anyone :> CatchAll
Priority1 == primary :> 1 @@ backup :> 1 @@ anyone :> 0
Position1 == primary :> 1 @@ backup :> 2 @@ anyone :> 3
Quota1    == primary :> 1 @@ backup :> 1 @@ anyone :> 1
Window1   == primary :> daily @@ backup :> hourly @@ anyone :> hourly

\* An hourly quota, a daily one, and a sender without.
ThreeSenders ==
  <<[name |-> "a", count |-> 1, range |-> "hourly"],
    [name |-> "b", count |-> 1, range |-> "daily"],
    [name |-> "c", count |-> Unlimited, range |-> Unlimited]>>
LengthOf == [hourly |-> 1, daily |-> 2]

Usage == INSTANCE SenderUsage WITH Backend <- "sqlite", send <- attempt_to_send

To(a)  == [kind |-> "to", address |-> a]
Cc(a)  == [kind |-> "cc", address |-> a]
Bcc(a) == [kind |-> "bcc", address |-> a]

Smtp == INSTANCE SmtpDelivery WITH MaxFaults <- MaxSmtpFaults, faults <- smtp_faults

\* A first server that refuses bob, and a second one that wants a login; e2 has an
\* address that intake accepts and lettre does not parse. (A content type that lettre
\* does not parse ends a send at the same place; a fourth e-mail for it is too many.)
TwoServers == <<"m1", "m2">>
SetupOf ==
  [m1 |-> [tls |-> "none", named |-> FALSE, username |-> FALSE, password |-> FALSE],
   m2 |-> [tls |-> "starttls", named |-> TRUE, username |-> TRUE, password |-> TRUE]]
ServerOf ==
  [m1 |-> [speaks |-> {"none", "starttls"}, login |-> FALSE, refuses |-> {"bob"}],
   m2 |-> [speaks |-> {"starttls"}, login |-> TRUE, refuses |-> {}]]
FromOf == [e1 |-> "alice", e2 |-> "alice", e3 |-> "alice"]
RecipientsOf ==
  [e1 |-> <<To("alice"), Bcc("bob")>>, e2 |-> <<To("carol"), Cc("named")>>, e3 |-> <<To("carol")>>]
AttachedTo == [e1 |-> {"text/plain"}, e2 |-> {}, e3 |-> {}]

Whole == INSTANCE Rendering WITH
  Emails <- Bodies, MAX_ATTEMPTS <- MaxTries, queue <- entry, task <- renderer

\* A plain body with two attachments beside a remote template with includes.
SourceOf == [e1 |-> "plain", e2 |-> "remote"]
PartsOf  == [e1 |-> {"text", "html"}, e2 |-> {}]
FilesOf  == [e1 |-> <<"b1", "b2">>, e2 |-> <<>>]
SpoiltOf == [e1 |-> "none", e2 |-> "none"]

\* Templates that fail at different stages: a variable it lacks, a host, a route.
Failing == INSTANCE Rendering WITH
  Emails <- {"e1", "e2"}, Source <- [e1 |-> "inline", e2 |-> "remote"],
  Parts <- [e1 |-> {"text"}, e2 |-> {}], Files <- [e1 |-> <<"b1">>, e2 |-> <<>>],
  Spoilt <- [e1 |-> "interpolate", e2 |-> "none"],
  Loaded <- {}, Allowed <- {"e2"}, Includes <- {"e2"}, Unroutable <- {"e2"},
  MAX_ATTEMPTS <- 2, MaxLapses <- 1, queue <- entry, task <- renderer

\* Named templates: one that is not there and has no valid variables, one that
\* MJML rejects.
Named == INSTANCE Rendering WITH
  Emails <- {"e1", "e2"}, Source <- [e1 |-> "named", e2 |-> "named"],
  Parts <- [e1 |-> {}, e2 |-> {"text"}], Files <- [e1 |-> <<>>, e2 |-> <<"b1">>],
  Spoilt <- [e1 |-> "interpolate", e2 |-> "render"],
  Loaded <- {"e2"}, Allowed <- {}, Includes <- {}, Unroutable <- {},
  MAX_ATTEMPTS <- 2, MaxLapses <- 1, queue <- entry, task <- renderer

-----------------------------------------------------------------------------

ASSUME PartsAssumption ==
  /\ Usage!UsageAssumption /\ Smtp!SmtpDeliveryAssumption
  /\ Whole!RenderingAssumption /\ Failing!RenderingAssumption /\ Named!RenderingAssumption

PartsInit ==
  /\ part \in {"routing", "quotas", "smtp", "whole", "failing", "named"}
  /\ Init /\ (part # "routing" => \A s \in Slots : send[s].domain = here)
  /\ Usage!Init /\ Smtp!Init
  /\ CASE part = "failing" -> Failing!Init
       [] part = "named" -> Named!Init
       [] OTHER -> Whole!Init /\ (part # "whole" => blobs = {"b1", "b2"})

PartsNext ==
  /\ UNCHANGED part
  /\ \/ part = "routing" /\ Next        /\ UNCHANGED <<quotas, smtp, rendering>>
     \/ part = "quotas"  /\ Usage!Next  /\ UNCHANGED <<vars, smtp, rendering>>
     \/ part = "smtp"    /\ Smtp!Next   /\ UNCHANGED <<vars, quotas, rendering>>
     \/ part = "whole"   /\ Whole!Next  /\ UNCHANGED <<vars, quotas, smtp>>
     \/ part = "failing"  /\ Failing!Next /\ UNCHANGED <<vars, quotas, smtp>>
     \/ part = "named"   /\ Named!Next  /\ UNCHANGED <<vars, quotas, smtp>>

PartsSpec == PartsInit /\ [][PartsNext]_allVars

-----------------------------------------------------------------------------
(* Properties of the other parts, under names that tell them apart.        *)

\* What the quotas count: wherever the window of its range is put, a sender's quota
\* allowed at most that many of the deliveries in it (with one worker the counts do
\* not drift), and a listed count is one that was true while the call ran.
UsageIsTrue == TypeOK /\ Usage!TypeOK /\ Usage!QuotaInWindow /\ Usage!ListedWasTrue

\* What is sent is what was asked. By the dialogue with the server (send_inner) an
\* e-mail reaches all of its recipients or none of them, as often each, whatever does
\* not parse and whoever is refused, and no copy names an address that the e-mail has
\* as a blind copy only. By the rendering whatever reaches a server has every part of
\* the body and every attachment, although another task of the same e-mail may delete
\* its blobs meanwhile, and the class of a failure names the first stage that rejects
\* the e-mail, except that a remote host may fail before it.
SentAsAsked ==
  /\ Smtp!SentAsAsked
  /\ part \notin {"failing", "named"} => Whole!SentAsAsked

\* Fewer faults than attempts delay an e-mail and never fail it; every e-mail is sent
\* or failed with a class, if the hosts of templates answer; and with templates that
\* fail at every stage what is sent is still what was asked, and the class true.
SendingSettles ==
  /\ [](part = "failing" => Failing!SentAsAsked)
  /\ [](part = "named"   => Named!SentAsAsked)
  /\ part = "smtp"  /\ Smtp!Fairness                     => Smtp!FaultsAbsorbed
  /\ part = "whole" /\ Whole!Fairness /\ Whole!Answering => Whole!Settled
==============================================================================
