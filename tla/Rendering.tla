------------------------------- MODULE Rendering -------------------------------
(***************************************************************************)
(* Processing of a queued e-mail: the tasks of one worker resolve the body *)
(* of an e-mail, interpolate and render it, read its attachments from the  *)
(* store, build a message and hand it to the sender, one action per await. *)
(* The queue is kept to claims, lapses of claims and settlements; module   *)
(* Delivery has the rest of a task, RoutedSender the choice of a sender.   *)
(*                                                                         *)
(* Of a template only what makes a stage fail is kept; of a body, which of *)
(* the parts text and html it has.                                         *)
(***************************************************************************)
EXTENDS Naturals, Sequences

CONSTANTS Emails,
          Slots,         \* permits of the worker
          Source,        \* body of an e-mail: plain, or an inline, named or
                         \* remote MJML template
          Parts,         \* of a plain body: text, html; of MJML: text if it has
                         \* a preview
          Files,         \* its attachment refs, in order
          Loaded,        \* e-mails whose named template was loaded at the start
          Allowed,       \* e-mails whose remote host is in the configuration
          Includes,      \* MJML that includes from a remote host
          Spoilt,        \* the first of "interpolate", "render" that rejects it,
                         \* or "none"
          Unroutable,    \* e-mails without a route
          MAX_ATTEMPTS,
          MaxLapses,     \* bound: claims that lapse under a task
          NoEmail

Sources == {"plain", "inline", "named", "remote"}
Blobs   == UNION {{Files[e][i] : i \in DOMAIN Files[e]} : e \in Emails}

RenderingAssumption ==
  /\ Source \in [Emails -> Sources]
  /\ Parts \in [Emails -> SUBSET {"text", "html"}]
  /\ \A e \in Emails : Source[e] = "plain" => Parts[e] # {}
  /\ \A e \in Emails : Files[e] \in Seq(Blobs)
  /\ Spoilt \in [Emails -> {"none", "interpolate", "render"}]
  /\ MAX_ATTEMPTS \in Nat \ {0} /\ MaxLapses \in Nat
  /\ NoEmail \notin Emails

VARIABLES queue,     \* visible, hidden by a claim or a delay, or gone
          attempts,  \* attempt_count
          task,      \* the task that holds each permit
          blobs,     \* the attachment store
          sent,      \* messages that a server has accepted
          failed,    \* error classes of delivery.failed events
          lapses

vars == <<queue, attempts, task, blobs, sent, failed, lapses>>

Stages  == {"resolve", "fetch", "interpolate", "render", "include", "attach",
            "send", "sent"}
Classes == {"template_resolve", "template_interpolate", "template_render",
            "attachment", "delivery", "routing"}

Free == [at |-> "free", email |-> NoEmail, attempt |-> 0, parts |-> {}, files |-> <<>>]

\* The type invariant.
TypeOK ==
  /\ queue \in [Emails -> {"visible", "hidden", "gone"}]
  /\ attempts \in [Emails -> Nat]
  /\ \A s \in Slots :
       /\ task[s].at \in {"free"} \union Stages
       /\ task[s].at = "free" <=> task[s] = Free
       /\ task[s].at # "free" => task[s].email \in Emails /\ task[s].attempt \in Nat \ {0}
       /\ task[s].parts \subseteq {"text", "html"}
       /\ task[s].at \in {"attach", "send"} => task[s].parts # {}
  /\ blobs \subseteq Blobs
  /\ \A e \in Emails : failed[e] \subseteq Classes
  /\ lapses \in 0..MaxLapses

Init ==
  /\ queue = [e \in Emails |-> "visible"]
  /\ attempts = [e \in Emails |-> 0]
  /\ task = [s \in Slots |-> Free]
  /\ blobs \in {Blobs} \union {Blobs \ {b} : b \in Blobs}
  /\ sent = [e \in Emails |-> {}]
  /\ failed = [e \in Emails |-> {}]
  /\ lapses = 0

-----------------------------------------------------------------------------
(* The queue.                                                              *)

Held(e) == \E s \in Slots : task[s].email = e

Claim(s, e) ==
  /\ task[s] = Free /\ queue[e] = "visible"
  /\ queue' = [queue EXCEPT ![e] = "hidden"]
  /\ attempts' = [attempts EXCEPT ![e] = @ + 1]
  /\ task' = [task EXCEPT ![s] = [Free EXCEPT !.at = "resolve", !.email = e,
                                              !.attempt = attempts[e] + 1]]
  /\ UNCHANGED <<blobs, sent, failed, lapses>>

\* A retry is due; or a claim lapses while its task is still busy.
Reappear(e) ==
  /\ queue[e] = "hidden"
  /\ queue' = [queue EXCEPT ![e] = "visible"]
  /\ \/ ~Held(e) /\ UNCHANGED lapses
     \/ Held(e) /\ lapses < MaxLapses /\ lapses' = lapses + 1
  /\ UNCHANGED <<attempts, task, blobs, sent, failed>>

-----------------------------------------------------------------------------
(* execute.                                                                *)

At(s, stage) == task[s].at = stage

Goto(s, stage) == task' = [task EXCEPT ![s].at = stage]

Go(s, stage) ==
  Goto(s, stage) /\ UNCHANGED <<queue, attempts, blobs, sent, failed, lapses>>

\* error_class of the errors of execute.
ClassOf == [Resolve |-> "template_resolve", Interpolate |-> "template_interpolate",
            Render |-> "template_render", AttachmentResolve |-> "attachment",
            Send |-> "delivery", NoMatchingRoute |-> "routing"]

\* The task's way out of an error: only a missing route is final at once, the errors
\* of a template are retried like those of a server.
Fail(s, error) ==
  LET e     == task[s].email
      class == ClassOf[error]
      Final == class = "routing" \/ task[s].attempt >= MAX_ATTEMPTS
  IN /\ task' = [task EXCEPT ![s] = Free]
     /\ \/ /\ Final
           /\ queue' = [queue EXCEPT ![e] = "gone"]
           /\ failed' = [failed EXCEPT ![e] = @ \union {class}]
        \/ /\ ~Final
           /\ queue' = [queue EXCEPT ![e] = IF @ = "gone" THEN @ ELSE "hidden"]
           /\ UNCHANGED failed
     /\ UNCHANGED <<attempts, blobs, sent, lapses>>

check_domain(e) == e \in Allowed

Resolve(s) ==
  LET e == task[s].email
  IN /\ At(s, "resolve")
     /\ CASE Source[e] \in {"plain", "inline"} -> Go(s, "interpolate")
          [] Source[e] = "named" ->
               IF e \in Loaded THEN Go(s, "interpolate") ELSE Fail(s, "Resolve")
          [] Source[e] = "remote" ->
               IF check_domain(e) THEN Go(s, "fetch") ELSE Fail(s, "Resolve")

\* The remote host answers with the template, with an error, or breaks off. The
\* client waits for it without a timeout.
Fetch(s) ==
  /\ At(s, "fetch")
  /\ Go(s, "interpolate") \/ Fail(s, "Resolve")

Interpolate(s) ==
  /\ At(s, "interpolate")
  /\ IF Spoilt[task[s].email] = "interpolate" THEN Fail(s, "Interpolate")
     ELSE Go(s, "render")

\* A plain body keeps its parts; MJML gives html, and text when it has a preview.
Rendered(e) ==
  IF Source[e] = "plain" THEN Parts[e] ELSE {"html"} \union (Parts[e] \intersect {"text"})

ToAttach(s) ==
  /\ task' = [task EXCEPT ![s].at = "attach", ![s].parts = Rendered(task[s].email)]
  /\ UNCHANGED <<queue, attempts, blobs, sent, failed, lapses>>

Render(s) ==
  LET e == task[s].email
  IN /\ At(s, "render")
     /\ IF Source[e] # "plain" /\ Spoilt[e] = "render" THEN Fail(s, "Render")
        ELSE IF Source[e] # "plain" /\ e \in Includes THEN Go(s, "include")
        ELSE ToAttach(s)

\* The host of an include answers or fails; no timeout here either.
Include(s) ==
  /\ At(s, "include")
  /\ ToAttach(s) \/ Fail(s, "Render")

\* resolve_attachments, one blob after the other, each read to its end.
Attach(s) ==
  LET e == task[s].email
      n == Len(task[s].files) + 1
  IN /\ At(s, "attach")
     /\ \/ n > Len(Files[e]) /\ Go(s, "send")
        \/ /\ n <= Len(Files[e]) /\ Files[e][n] \in blobs
           /\ task' = [task EXCEPT ![s].files = Append(@, Files[e][n])]
           /\ UNCHANGED <<queue, attempts, blobs, sent, failed, lapses>>
        \/ n <= Len(Files[e]) /\ Files[e][n] \notin blobs /\ Fail(s, "AttachmentResolve")

\* The alternatives of the body and the attachments after them.
Message(s) == [parts |-> task[s].parts, files |-> task[s].files]

Send(s) ==
  LET e == task[s].email
  IN /\ At(s, "send")
     /\ \/ e \in Unroutable /\ Fail(s, "NoMatchingRoute")
        \/ /\ e \notin Unroutable
           /\ \/ /\ sent' = [sent EXCEPT ![e] = @ \union {Message(s)}]
                 /\ Goto(s, "sent")
                 /\ UNCHANGED <<queue, attempts, blobs, failed, lapses>>
              \/ Fail(s, "Send")

\* ack, whoever holds the claim by now, and the deletion of the blobs.
Finish(s) ==
  LET e == task[s].email
  IN /\ At(s, "sent")
     /\ queue' = [queue EXCEPT ![e] = "gone"]
     /\ blobs' = blobs \ {Files[e][i] : i \in DOMAIN Files[e]}
     /\ task' = [task EXCEPT ![s] = Free]
     /\ UNCHANGED <<attempts, sent, failed, lapses>>

-----------------------------------------------------------------------------

Own(s) ==
  \/ Resolve(s) \/ Interpolate(s) \/ Render(s) \/ Attach(s) \/ Send(s) \/ Finish(s)

Remote(s) == Fetch(s) \/ Include(s)

Next ==
  \/ \E s \in Slots : Own(s) \/ Remote(s) \/ \E e \in Emails : Claim(s, e)
  \/ \E e \in Emails : Reappear(e)

Spec == Init /\ [][Next]_vars

\* The worker's loop and its tasks run, delays pass, SMTP servers answer. The queue
\* hands out the oldest visible entry: none waits for ever. Nothing is assumed of
\* the hosts of templates.
Fairness ==
  /\ \A s \in Slots : WF_vars(Own(s))
  /\ \A e \in Emails :
       WF_vars(Reappear(e)) /\ SF_vars(\E s \in Slots : Claim(s, e))

FairSpec == Spec /\ Fairness

\* They answer too, if only with an error.
Answering == \A s \in Slots : WF_vars(Remote(s))

-----------------------------------------------------------------------------
(* Properties.                                                             *)

\* Whatever reaches a server is whole: every part of the body and every attachment,
\* in order, although another task of the same e-mail, whose claim had lapsed, may
\* delete its blobs while they are read.
SentIsWhole ==
  \A e \in Emails : \A m \in sent[e] :
    /\ m.files = Files[e]
    /\ m.parts = IF Source[e] = "plain" THEN Parts[e]
                 ELSE {"html"} \union (Parts[e] \intersect {"text"})

\* The stages that an e-mail cannot pass.
Rejects(e) ==
  IF (Source[e] = "named" /\ e \notin Loaded) \/ (Source[e] = "remote" /\ e \notin Allowed)
  THEN "template_resolve"
  ELSE IF Spoilt[e] = "interpolate" THEN "template_interpolate"
  ELSE IF Spoilt[e] = "render" /\ Source[e] # "plain" THEN "template_render"
  ELSE "none"

\* An e-mail that some stage rejects is never sent, and the class of its failure names
\* the first such stage, except that a remote host may fail before it; and a sound
\* one is not blamed on its template unless it depends on a remote host.
ClassNamesCause ==
  \A e \in Emails :
    /\ Rejects(e) # "none" => sent[e] = {}
    /\ \A c \in failed[e] :
         \/ c = Rejects(e)
         \/ c = "template_resolve" /\ Source[e] = "remote" /\ e \in Allowed
         \/ /\ Rejects(e) = "none"
            /\ \/ c = "template_render" /\ e \in Includes
               \/ c = "routing" /\ e \in Unroutable
               \/ c \in {"attachment", "delivery"}

\* What is sent is the e-mail that was asked for, and a failure is told truly.
SentAsAsked == TypeOK /\ SentIsWhole /\ ClassNamesCause

\* Every e-mail is settled, sent or failed with a class, if the hosts of templates
\* answer: no stage blocks, and retries end.
Settled == \A e \in Emails : <>(queue[e] = "gone" /\ (sent[e] # {} \/ failed[e] # {}))
=============================================================================
