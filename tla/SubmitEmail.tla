----------------------------- MODULE SubmitEmail -----------------------------
(***************************************************************************)
(* Submissions: concurrent calls of SubmitEmailService::execute, await by  *)
(* await, over the tables emails, email_queue and lifecycle_events and the *)
(* attachment store, with the garbage collector of binary/src/gc.rs        *)
(* sweeping the store meanwhile. What workers do to an accepted e-mail is  *)
(* kept to its effect on this shared state; module Delivery has the steps. *)
(*                                                                         *)
(* Each request generates a fresh id, so an e-mail is named by its request *)
(* and its blobs, whose keys are random, belong to it alone.               *)
(***************************************************************************)
EXTENDS Naturals

CONSTANTS Requests,   \* calls of execute
          Key,        \* the idempotency key of each, or NoKey
          NoKey,
          Blobs,      \* keys in the attachment store
          Uploads,    \* the blobs that store a request's attachments
          NoRequest

ASSUME SubmitAssumption ==
  /\ DOMAIN Key = Requests
  /\ Uploads \in [Requests -> SUBSET Blobs]
  /\ \A q, r \in Requests : q # r => Uploads[q] \intersect Uploads[r] = {}
  /\ Blobs = UNION {Uploads[r] : r \in Requests}
  /\ NoRequest \notin Requests

VARIABLES emails,   \* the emails row of each request and the refs in its body
          queue,    \* its email_queue row: none, queued, or settled by a worker
          status,   \* its latest lifecycle event: none, pending or terminal
          blobs,    \* the attachment store
          aged,     \* blobs older than the grace period
          req,      \* where each call is, the refs in written_refs, its answer
          gc        \* where the sweep is, its live set, the keys left to delete

tables == <<emails, queue, status>>
vars   == <<emails, queue, status, blobs, aged, req, gc>>

Ends   == {"answered", "refused", "abandoned"}
Places == {"save", "lookup", "upload", "set_refs", "enqueue", "announce", "undo"}
            \union Ends

EmailRecs == [row : {"none", "present", "gone"}, refs : SUBSET Blobs]
ReqRecs   == [at : Places, written : SUBSET Blobs, of : Requests \union {NoRequest}]
GcRecs    == [at : {"idle", "list", "delete"}, live : SUBSET Blobs,
              doomed : SUBSET Blobs]

\* The type invariant.
TypeOK ==
  /\ emails \in [Requests -> EmailRecs]
  /\ queue \in [Requests -> {"none", "queued", "settled"}]
  /\ status \in [Requests -> {"none", "pending", "terminal"}]
  /\ blobs \in SUBSET Blobs
  /\ aged \in SUBSET Blobs
  /\ req \in [Requests -> ReqRecs]
  /\ \A r \in Requests :
       /\ req[r].written \subseteq Uploads[r]
       /\ req[r].at = "answered" <=> req[r].of \in Requests
  /\ gc \in GcRecs

Sleeping == [at |-> "idle", live |-> {}, doomed |-> {}]

Init ==
  /\ emails = [r \in Requests |-> [row |-> "none", refs |-> {}]]
  /\ queue  = [r \in Requests |-> "none"]
  /\ status = [r \in Requests |-> "none"]
  /\ blobs  = {}
  /\ aged   = {}
  /\ req    = [r \in Requests |-> [at |-> "save", written |-> {}, of |-> NoRequest]]
  /\ gc     = Sleeping

Present(r) == emails[r].row = "present"
Ended(r)   == req[r].at \in Ends

SameKey(q, r) == q # r /\ Key[q] = Key[r] /\ Key[r] # NoKey

\* The UNIQUE index on idempotency_key.
Holders(r) == {q \in Requests : SameKey(q, r) /\ Present(q)}

Goto(r, place) == req' = [req EXCEPT ![r].at = place]

Answer(r, id) == req' = [req EXCEPT ![r].at = "answered", ![r].of = id]

-----------------------------------------------------------------------------
(* execute, up to the enqueue.                                             *)

\* INSERT OR IGNORE of the reservation, with no refs. An error may hide an
\* insert that took effect.
Save(r) ==
  /\ req[r].at = "save"
  /\ \/ /\ Holders(r) = {}
        /\ emails' = [emails EXCEPT ![r].row = "present"]
        /\ \/ Goto(r, IF Uploads[r] = {} THEN "enqueue" ELSE "upload")
           \/ Goto(r, "refused")
     \/ /\ Holders(r) # {} /\ Goto(r, "lookup")
        /\ UNCHANGED emails
     \/ Goto(r, "refused") /\ UNCHANGED emails
  /\ UNCHANGED <<queue, status, blobs, aged, gc>>

\* The SELECT that follows an ignored insert: the holder's id is the answer,
\* an error if it is gone by now.
Lookup(r) ==
  /\ req[r].at = "lookup"
  /\ \/ \E q \in Holders(r) : Answer(r, q)
     \/ Goto(r, "refused")
  /\ UNCHANGED <<tables, blobs, aged, gc>>

\* One turn of the loop over the attachments: fetch if remote, then put. A put
\* that fails may have stored its blob.
Upload(r) ==
  /\ req[r].at = "upload"
  /\ \E b \in Uploads[r] \ req[r].written :
       \/ /\ blobs' = blobs \union {b}
          /\ LET written == req[r].written \union {b}
             IN req' = [req EXCEPT
                  ![r].written = written,
                  ![r].at = IF written = Uploads[r] THEN "set_refs" ELSE "upload"]
       \/ blobs' \in {blobs, blobs \union {b}} /\ Goto(r, "undo")
  /\ UNCHANGED <<tables, aged, gc>>

\* Faulty variant of SetRefs: its failure is logged and the request goes on.
SetRefs_IgnoresFailure(r) ==
  /\ req[r].at = "set_refs"
  /\ Goto(r, "enqueue")
  /\ \/ emails' = [emails EXCEPT ![r].refs = req[r].written]
     \/ UNCHANGED emails
  /\ UNCHANGED <<queue, status, blobs, aged, gc>>

\* set_attachments, one transaction.
SetRefs(r) ==
  LET Patch == emails' = [emails EXCEPT ![r].refs = req[r].written]
  IN /\ req[r].at = "set_refs"
     /\ \/ Patch /\ Goto(r, "enqueue")
        \/ (Patch \/ UNCHANGED emails) /\ Goto(r, "undo")
     /\ UNCHANGED <<queue, status, blobs, aged, gc>>

\* queue.enqueue.
Enqueue(r) ==
  LET Insert == queue' = [queue EXCEPT ![r] = "queued"]
  IN /\ req[r].at = "enqueue"
     /\ \/ Insert /\ Goto(r, "announce")
        \/ (Insert \/ UNCHANGED queue) /\ Goto(r, "undo")
     /\ UNCHANGED <<emails, status, blobs, aged, gc>>

-----------------------------------------------------------------------------
(* The three ways out.                                                     *)

\* Queued is published, or the failure to is logged; the id is the answer.
Announce(r) ==
  /\ req[r].at = "announce"
  /\ status' \in {status, [status EXCEPT ![r] = "pending"]}
  /\ Answer(r, r)
  /\ UNCHANGED <<emails, queue, blobs, aged, gc>>

\* Compensation deletes the blobs in written_refs, one by one, ignoring errors ...
UndoBlob(r) ==
  /\ req[r].at = "undo"
  /\ \E b \in req[r].written :
       /\ req' = [req EXCEPT ![r].written = @ \ {b}]
       /\ blobs' \in {blobs, blobs \ {b}}
  /\ UNCHANGED <<tables, aged, gc>>

\* Faulty variant of UndoRow: nothing keeps a row that others refer to.
UndoRow_NoForeignKey(r) ==
  /\ req[r].at = "undo" /\ req[r].written = {}
  /\ emails' \in {emails, [emails EXCEPT ![r].row = "gone", ![r].refs = {}]}
  /\ Goto(r, "refused")
  /\ UNCHANGED <<queue, status, blobs, aged, gc>>

\* Foreign keys of email_queue and lifecycle_events.
ReferredTo(r) == queue[r] = "queued" \/ status[r] # "none"

\* ... and then the row, ignoring an error too.
UndoRow(r) ==
  /\ req[r].at = "undo" /\ req[r].written = {}
  /\ \/ /\ ~ReferredTo(r)
        /\ emails' = [emails EXCEPT ![r].row = "gone", ![r].refs = {}]
     \/ UNCHANGED emails
  /\ Goto(r, "refused")
  /\ UNCHANGED <<queue, status, blobs, aged, gc>>

\* The process dies, or the handler's future is dropped with its connection,
\* at any await: nothing is compensated.
Abandon(r) ==
  /\ ~Ended(r)
  /\ Goto(r, "abandoned")
  /\ UNCHANGED <<tables, blobs, aged, gc>>

-----------------------------------------------------------------------------
(* What a worker does to a queued e-mail.                                  *)

\* A Sending or a Retrying event.
Attempt(r) ==
  /\ queue[r] = "queued"
  /\ status' = [status EXCEPT ![r] = "pending"]
  /\ UNCHANGED <<emails, queue, blobs, aged, req, gc>>

\* ack, and the terminal event unless its publication fails.
Settle(r) ==
  /\ queue[r] = "queued"
  /\ queue' = [queue EXCEPT ![r] = "settled"]
  /\ status' \in {status, [status EXCEPT ![r] = "terminal"]}

\* After a send, which needs every blob, refs and blobs are deleted at best.
Deliver(r) ==
  /\ emails[r].refs \subseteq blobs
  /\ Settle(r)
  /\ emails' \in {emails, [emails EXCEPT ![r].refs = {}]}
  /\ \E deleted \in SUBSET emails[r].refs : blobs' = blobs \ deleted
  /\ UNCHANGED <<aged, req, gc>>

\* After the last attempt they are left to the collector.
GiveUp(r) ==
  /\ Settle(r)
  /\ UNCHANGED <<emails, blobs, aged, req, gc>>

-----------------------------------------------------------------------------
(* The collector.                                                          *)

\* Faulty variants of LiveBlobs: rows without an event are missed; rows of
\* e-mails that are settled count.
LiveBlobs_AnnouncedOnly ==
  UNION {emails[r].refs : r \in {r \in Requests : Present(r) /\ status[r] = "pending"}}

LiveBlobs_AnyStatus ==
  UNION {emails[r].refs : r \in {r \in Requests : Present(r)}}

\* list_all_attachment_blobs: rows whose latest event is not a terminal one.
LiveBlobs ==
  UNION {emails[r].refs : r \in {r \in Requests : Present(r) /\ status[r] # "terminal"}}

Snapshot ==
  /\ gc.at = "idle"
  /\ gc' = [gc EXCEPT !.at = "list", !.live = LiveBlobs]
  /\ UNCHANGED <<tables, blobs, aged, req>>

\* list_keys_older_than, and the keys that are not live.
List ==
  /\ gc.at = "list"
  /\ gc' = [at |-> "delete", live |-> {}, doomed |-> (aged \intersect blobs) \ gc.live]
  /\ UNCHANGED <<tables, blobs, aged, req>>

Collect(b) ==
  /\ b \in gc.doomed
  /\ gc' = [gc EXCEPT !.doomed = @ \ {b}]
  /\ blobs' = blobs \ {b}
  /\ UNCHANGED <<tables, aged, req>>

\* The store fails to delete b.
Spare(b) ==
  /\ b \in gc.doomed
  /\ gc' = [gc EXCEPT !.doomed = @ \ {b}]
  /\ UNCHANGED <<tables, blobs, aged, req>>

\* The sweep is over, failed, was cancelled, or died with its process.
EndSweep ==
  /\ gc.at # "idle"
  /\ gc' = Sleeping
  /\ UNCHANGED <<tables, blobs, aged, req>>

\* A blob passes the grace period. The period (an hour) outlasts what a request
\* may need after its first put (ten fetches of 30 s) and a sweep between its two
\* queries: b ages only when its refs are in the row or its request has ended,
\* and had been when the sweep under way made its snapshot.
Age(b) ==
  /\ b \in blobs \ aged
  /\ \E r \in Requests : b \in Uploads[r] /\ req[r].at \notin {"upload", "set_refs"}
  /\ gc.at # "list"
  /\ aged' = aged \union {b}
  /\ UNCHANGED <<tables, blobs, req, gc>>

-----------------------------------------------------------------------------

Submission(r) ==
  \/ Save(r) \/ Lookup(r) \/ Upload(r) \/ SetRefs(r) \/ Enqueue(r) \/ Announce(r)
  \/ UndoBlob(r) \/ UndoRow(r) \/ Abandon(r)

Worker(r) == Attempt(r) \/ Deliver(r) \/ GiveUp(r)

Collector ==
  \/ Snapshot \/ List \/ EndSweep
  \/ \E b \in Blobs : Collect(b) \/ Spare(b) \/ Age(b)

Next ==
  \/ \E r \in Requests : Submission(r) \/ Worker(r)
  \/ Collector

Spec == Init /\ [][Next]_vars

\* Sweeps end, recur and get through, the store does not fail to delete a blob for
\* ever, and time passes. Nothing is assumed of requests or workers.
Fairness ==
  /\ WF_vars(Snapshot) /\ SF_vars(List) /\ WF_vars(EndSweep)
  /\ \A b \in Blobs : SF_vars(Collect(b)) /\ SF_vars(Age(b))

FairSpec == Spec /\ Fairness

-----------------------------------------------------------------------------
(* Properties.                                                             *)

\* A worker never sees an e-mail without its row or with refs missing: execute
\* patches the refs in before it enqueues, and the foreign key keeps the row of
\* an e-mail whose enqueue took effect although it failed.
WorkerSeesAllRefs ==
  \A r \in Requests :
    queue[r] = "queued" => Present(r) /\ emails[r].refs = Uploads[r]

\* An accepted e-mail keeps its row, and its blobs as long as it is queued:
\* neither the compensation of other requests nor a sweep takes them.
AcceptedKeepsBlobs ==
  \A r \in Requests :
    (req[r].at = "announce" \/ req[r].of = r) =>
      /\ Present(r)
      /\ queue[r] = "queued" => Uploads[r] \subseteq blobs

\* Two e-mails with one key are queued, at once or in turn, only if the row of
\* one was rolled back after a worker had settled it without storing an event.
OneEmailPerKey ==
  \A q, r \in Requests :
    SameKey(q, r) /\ queue[q] # "none" /\ queue[r] # "none" =>
      \E x \in {q, r} : emails[x].row = "gone" /\ queue[x] = "settled" /\ status[x] = "none"

Pending(r) == Present(r) /\ status[r] # "terminal"

Orphan(b) ==
  /\ b \in blobs
  /\ ~\E r \in Requests : Pending(r) /\ b \in emails[r].refs
  /\ \E r \in Requests : b \in Uploads[r] /\ Ended(r)

\* A blob whose request has ended and which no pending e-mail refers to is
\* deleted eventually, whatever step left it behind.
OrphansCollected == \A b \in Blobs : Orphan(b) ~> b \notin blobs

\* The e-mail a resubmission is answered with has been queued, once the request
\* that submitted it has ended. (The code breaks this: the reservation it found
\* may be rolled back, or stay for ever without an enqueue.)
DuplicateIsQueued ==
  \A r \in Requests :
    LET d == req[r].of
    IN d \in Requests \ {r} /\ Ended(d) => queue[d] # "none"
=============================================================================
