------------------------------ MODULE EventLog ------------------------------
(***************************************************************************)
(* What the lifecycle events tell of an e-mail: the worker reports every   *)
(* attempt as an event; an event becomes a row of lifecycle_events, with   *)
(* the columns that GET /events filters by, and a payload. Type, columns,  *)
(* payload and the vocabulary of error classes are each a table of their   *)
(* own in the code.                                                        *)
(*                                                                         *)
(* One worker has an e-mail at a time here; claims that lapse under a      *)
(* worker are in Delivery, the calls of the publishers in EventFanout.     *)
(***************************************************************************)
EXTENDS Naturals, Sequences

CONSTANTS Emails,
          Senders,       \* names of SMTP senders
          MAX_ATTEMPTS,  \* of the worker
          MaxAttempts,   \* bound on the attempts, crashes included
          Null

\* ErrorClass.
Classes == {"TemplateResolve", "TemplateInterpolate", "TemplateRender", "Attachment", "Delivery",
            "Routing"}

EventLogAssumption ==
  /\ MAX_ATTEMPTS \in Nat \ {0} /\ MaxAttempts \in Nat
  /\ Null \notin Senders \union Classes

VARIABLES phase,    \* where each e-mail is
          attempt,  \* the attempt its queue entry has reached
          log       \* rows of lifecycle_events, in order

vars == <<phase, attempt, log>>

Phases == {"new", "waiting", "sending", "done"}

Init ==
  /\ phase = [e \in Emails |-> "new"] /\ attempt = [e \in Emails |-> 0]
  /\ log = <<>>

-----------------------------------------------------------------------------
(* Errors of an attempt.                                                   *)

\* ProcessQueuedEmailError, with the two kinds of SendError.
Errors ==
  [kind : {"Resolve", "Interpolate", "Render", "AttachmentResolve", "NoMatchingRoute"},
   sender : {Null}]
  \union [kind : {"Send"}, sender : Senders]

class_of(err) ==
  CASE err.kind = "Resolve"           -> "TemplateResolve"
    [] err.kind = "Interpolate"       -> "TemplateInterpolate"
    [] err.kind = "Render"            -> "TemplateRender"
    [] err.kind = "AttachmentResolve" -> "Attachment"
    [] err.kind = "Send"              -> "Delivery"
    [] err.kind = "NoMatchingRoute"   -> "Routing"

as_str(class) ==
  CASE class = "TemplateResolve"     -> "template_resolve"
    [] class = "TemplateInterpolate" -> "template_interpolate"
    [] class = "TemplateRender"      -> "template_render"
    [] class = "Attachment"          -> "attachment"
    [] class = "Delivery"            -> "delivery"
    [] class = "Routing"             -> "routing"

\* Null is an unknown class.
from_str(s) ==
  CASE s = "template_resolve"     -> "TemplateResolve"
    [] s = "template_interpolate" -> "TemplateInterpolate"
    [] s = "template_render"      -> "TemplateRender"
    [] s = "attachment"           -> "Attachment"
    [] s = "delivery"             -> "Delivery"
    [] s = "routing"              -> "Routing"
    [] OTHER                      -> Null

is_transient(err) == err.kind # "NoMatchingRoute"

is_terminal(err, n) == ~is_transient(err) \/ n >= MAX_ATTEMPTS

-----------------------------------------------------------------------------
(* Events. A field that a kind of event does not have is not in its record.*)

Has(event, field) == field \in DOMAIN event

event_type(event) ==
  [Queued |-> "queued", Sending |-> "sending", Sent |-> "delivery.succeeded",
   Retrying |-> "retrying", Failed |-> "delivery.failed"][event.kind]

sender_name(event) == IF Has(event, "sender") THEN event.sender ELSE Null

error_class(event) == IF Has(event, "class") THEN as_str(event.class) ELSE Null

\* The fields of a payload that are Null in an event are written as null.
payload(event) ==
  CASE event.kind = "Queued"  -> [correlation_id |-> event.id]
    [] event.kind = "Sending" -> [attempt |-> event.attempt, correlation_id |-> event.id]
    [] event.kind = "Sent"    -> [sender_name |-> event.sender, correlation_id |-> event.id]
    [] event.kind \in {"Retrying", "Failed"} ->
         [attempt |-> event.attempt, reason |-> event.reason,
          error_class |-> as_str(event.class), sender_name |-> event.sender,
          correlation_id |-> event.id]

Row(event) ==
  [email |-> event.id, event_type |-> event_type(event), payload |-> payload(event),
   sender_name |-> sender_name(event), error_class |-> error_class(event)]

\* A row that cannot be stored is only logged.
Publish(event) == log' = Append(log, Row(event)) \/ UNCHANGED log

-----------------------------------------------------------------------------
(* The submission and the worker.                                          *)

Submit(e) ==
  /\ phase[e] = "new"
  /\ phase' = [phase EXCEPT ![e] = "waiting"]
  /\ UNCHANGED attempt
  /\ Publish([kind |-> "Queued", id |-> e])

Dequeue(e) ==
  /\ phase[e] = "waiting" /\ attempt[e] < MaxAttempts
  /\ phase' = [phase EXCEPT ![e] = "sending"]
  /\ attempt' = [attempt EXCEPT ![e] = @ + 1]
  /\ Publish([kind |-> "Sending", id |-> e, attempt |-> attempt'[e]])

\* The worker dies; the claim lapses.
Crash(e) ==
  /\ phase[e] = "sending"
  /\ phase' = [phase EXCEPT ![e] = "waiting"]
  /\ UNCHANGED <<attempt, log>>

Sent(e, s) ==
  /\ phase[e] = "sending"
  /\ phase' = [phase EXCEPT ![e] = "done"]
  /\ UNCHANGED attempt
  /\ Publish([kind |-> "Sent", id |-> e, sender |-> s])

ReportFailure(kind, e, err) ==
  Publish([kind |-> kind, id |-> e, attempt |-> attempt[e], reason |-> err.kind,
           class |-> class_of(err), sender |-> err.sender])

Failed(e, err) ==
  /\ phase[e] = "sending" /\ is_terminal(err, attempt[e])
  /\ phase' = [phase EXCEPT ![e] = "done"]
  /\ UNCHANGED attempt
  /\ ReportFailure("Failed", e, err)

Retrying(e, err) ==
  /\ phase[e] = "sending" /\ ~is_terminal(err, attempt[e])
  /\ phase' = [phase EXCEPT ![e] = "waiting"]
  /\ UNCHANGED attempt
  /\ ReportFailure("Retrying", e, err)

Next ==
  \E e \in Emails :
    \/ Submit(e) \/ Dequeue(e) \/ Crash(e)
    \/ \E s \in Senders : Sent(e, s)
    \/ \E err \in Errors : Failed(e, err) \/ Retrying(e, err)

Spec == Init /\ [][Next]_vars

-----------------------------------------------------------------------------
(* GET /events: the indices of the rows that match.                        *)

\* parse_error_class refuses a class that is not in the vocabulary.
Accepts(query) == query.error_class = Null \/ from_str(query.error_class) # Null

list_events(query) ==
  IF ~Accepts(query) THEN {}
  ELSE {i \in DOMAIN log :
          /\ query.sender_name # Null => log[i].sender_name = query.sender_name
          /\ query.error_class # Null =>
               log[i].error_class = as_str(from_str(query.error_class))}

-----------------------------------------------------------------------------
(* Properties.                                                             *)

\* The variables keep their types, and an event tells of an attempt that was made.
TypeOK ==
  /\ phase \in [Emails -> Phases] /\ attempt \in [Emails -> 0..MaxAttempts]
  /\ \A i \in DOMAIN log : LET p == log[i].payload IN
       "attempt" \in DOMAIN p => p.attempt \in 1..attempt[log[i].email]

Of(p, field) == IF field \in DOMAIN p THEN p[field] ELSE Null

\* A filter finds exactly the events whose payload shows what was filtered by: the
\* two columns and the payload are taken from the event by different matches.
FoundByWhatItShows ==
  /\ \A s \in Senders : list_events([sender_name |-> s, error_class |-> Null])
                          = {i \in DOMAIN log : Of(log[i].payload, "sender_name") = s}
  /\ \A i \in DOMAIN log :
       LET class == Of(log[i].payload, "error_class")
       IN  class # Null => i \in list_events([sender_name |-> Null, error_class |-> class])

Failures == {"retrying", "delivery.failed"}

\* Every attempt that is reported as failed can be told by its class: it names a
\* sender when the senders were tried and only then, and it is the last one when no
\* route matched or the attempts are used up, and only then.
FailuresExplained ==
  \A i \in DOMAIN log : LET row == log[i] IN
    row.event_type \in Failures =>
      /\ (row.sender_name # Null) <=> (row.error_class = "delivery")
      /\ (row.event_type = "delivery.failed")
           <=> (row.error_class = "routing" \/ row.payload.attempt >= MAX_ATTEMPTS)
=============================================================================
