------------------------------ MODULE Delivery ------------------------------
(***************************************************************************)
(* Delivery of queued e-mails: gateway processes that share one storage    *)
(* (adapter/outbound-sqlite or -postgres), each running the loop of        *)
(* Worker::run, which takes a permit, dequeues and spawns one task per     *)
(* e-mail, and the tasks, which run process_one await by await.            *)
(*                                                                         *)
(* Whatever the environment does wrong (a crash, a shutdown, a call that   *)
(* fails, an SMTP answer that is lost, a claim that lapses while its task  *)
(* is still busy) is a fault; MaxFaults bounds how many there are.         *)
(***************************************************************************)
EXTENDS StorageQueue, FiniteSets

CONSTANTS Processes,     \* gateway processes on the shared storage
          CONCURRENCY,   \* CATAPULTE_WORKER_CONCURRENCY of each
          MAX_ATTEMPTS,  \* MAX_ATTEMPTS of worker.rs (3)
          Blobs,         \* keys in the attachment store
          Attached,      \* the blobs each e-mail was submitted with
          Routable,      \* the e-mails for which some route matches
          MaxFaults,     \* bound: faults in a behaviour
          NoEmail

ASSUME DeliveryAssumption ==
  /\ CONCURRENCY \in Nat \ {0}
  /\ MAX_ATTEMPTS \in Nat \ {0}
  /\ Attached \in [Emails -> SUBSET Blobs]
  /\ \A e, f \in Emails : e # f => Attached[e] \intersect Attached[f] = {}
  /\ Routable \subseteq Emails
  /\ MaxFaults \in Nat
  /\ NoEmail \notin Emails

VARIABLES attachments,  \* attachment refs in the body of the emails row
          blobs,        \* blobs in the attachment store
          events,       \* lifecycle_events: the latest one and all of them
          announcing,   \* submissions that have yet to publish Queued
          accepted,     \* copies SMTP servers have accepted
          loop,         \* where Worker::run of each process is
          permits,      \* free permits of each process's semaphore
          tasks,        \* the spawned process_one tasks, by permit slot
          faults

store == <<email_queue, attachments, blobs, events>>
vars  == <<email_queue, attachments, blobs, events, announcing, accepted,
           loop, permits, tasks, faults>>

Slots      == 1..CONCURRENCY
EventTypes == {"queued", "sending", "retrying",
               "delivery.succeeded", "delivery.failed"}
Terminal   == {"delivery.succeeded", "delivery.failed"}

LoopPlaces == {"acquire", "dequeue", "fetch", "sleep", "drain", "stopped"}
TaskPlaces == {"idle", "publish_sending", "execute", "send",
               "ack", "set_attachments", "delete_blobs", "publish_sent",
               "ack_failed", "publish_failed", "nack", "publish_retrying"}

NoTask == [at |-> "idle", email |-> NoEmail, attempt |-> 0, cleanup |-> {}]
LoopAt(place) == [at |-> place, email |-> NoEmail, attempt |-> 0]

EventRecs == [latest : EventTypes, published : SUBSET EventTypes]
LoopRecs  == [at : LoopPlaces, email : Emails \union {NoEmail}, attempt : Nat]
TaskRecs  == [at : TaskPlaces, email : Emails \union {NoEmail}, attempt : Nat,
              cleanup : SUBSET Blobs]

\* The type invariant.
TypeOK ==
  /\ QueueTypeOK
  /\ attachments \in [Emails -> SUBSET Blobs]
  /\ blobs \in SUBSET Blobs
  /\ events \in [Emails -> EventRecs]
  /\ announcing \in SUBSET Emails
  /\ accepted \in [Emails -> Nat]
  /\ loop \in [Processes -> LoopRecs]
  /\ permits \in [Processes -> Nat]
  /\ tasks \in [Processes -> [Slots -> TaskRecs]]
  /\ faults \in 0..MaxFaults

\* Before its first event an e-mail's status reads 'queued' (COALESCE).
Init ==
  /\ QueueInit
  /\ attachments = Attached
  /\ blobs = UNION {Attached[e] : e \in Emails}
  /\ events = [e \in Emails |-> [latest |-> "queued", published |-> {}]]
  /\ announcing = {}
  /\ accepted = [e \in Emails |-> 0]
  /\ loop = [p \in Processes |-> LoopAt("acquire")]
  /\ permits = [p \in Processes |-> CONCURRENCY]
  /\ tasks = [p \in Processes |-> [s \in Slots |-> NoTask]]
  /\ faults = 0

\* A process has claim number n of the e-mail in hand: its loop has made it or
\* a task works on it.
HoldsClaim(e, n) ==
  \E p \in Processes :
    \/ loop[p].email = e /\ loop[p].attempt = n
    \/ \E s \in Slots : tasks[p][s].email = e /\ tasks[p][s].attempt = n

Held(e) == \E n \in 1..email_queue[e].attempt_count : HoldsClaim(e, n)

NoFault == UNCHANGED faults
Fault   == faults < MaxFaults /\ faults' = faults + 1

Publish(e, type) ==
  events' = [events EXCEPT ![e].latest = type,
                           ![e].published = @ \union {type}]

\* publish whose error is logged and otherwise ignored.
TryPublish(e, type) ==
  \/ Publish(e, type) /\ NoFault
  \/ Fault /\ UNCHANGED events

-----------------------------------------------------------------------------
(* The end of a submission: enqueue, then the Queued event.                *)

Enqueue(e, t) ==
  /\ Insert(e, t)
  /\ announcing' = announcing \union {e}
  /\ UNCHANGED <<attachments, blobs, events, accepted, loop, permits, tasks, faults>>

PublishQueued(e) ==
  /\ e \in announcing
  /\ announcing' = announcing \ {e}
  /\ TryPublish(e, "queued")
  /\ UNCHANGED <<email_queue, attachments, blobs, accepted, loop, permits, tasks>>

-----------------------------------------------------------------------------
(* Worker::run.                                                            *)

Acquire(p) ==
  /\ loop[p].at = "acquire"
  /\ permits[p] > 0
  /\ permits' = [permits EXCEPT ![p] = @ - 1]
  /\ loop' = [loop EXCEPT ![p] = LoopAt("dequeue")]
  /\ UNCHANGED <<store, announcing, accepted, tasks, faults>>

\* The UPDATE of try_dequeue, whose RETURNING yields the attempt.
TryDequeue(p, e) ==
  /\ loop[p].at = "dequeue"
  /\ Claim(e)
  /\ loop' = [loop EXCEPT ![p] = [at |-> "fetch", email |-> e,
                                  attempt |-> email_queue[e].attempt_count + 1]]
  /\ UNCHANGED <<attachments, blobs, events, announcing, accepted, permits,
                 tasks, faults>>

\* Its SELECT of the emails row, and the spawn of process_one with the permit.
Spawn(p, s) ==
  /\ loop[p].at = "fetch"
  /\ tasks[p][s].at = "idle"
  /\ \A r \in Slots : r < s => tasks[p][r].at # "idle"
  /\ tasks' = [tasks EXCEPT ![p][s] =
                 [at |-> "publish_sending", email |-> loop[p].email,
                  attempt |-> loop[p].attempt,
                  cleanup |-> attachments[loop[p].email]]]
  /\ loop' = [loop EXCEPT ![p] = LoopAt("acquire")]
  /\ UNCHANGED <<store, announcing, accepted, permits, faults>>

\* Faulty variant of DequeueFails: the error path does not drop the permit.
DequeueFails_KeepsPermit(p) ==
  /\ loop[p].at \in {"dequeue", "fetch"}
  /\ Fault
  /\ loop' = [loop EXCEPT ![p] = LoopAt("sleep")]
  /\ UNCHANGED <<store, announcing, accepted, permits, tasks>>

\* Either statement fails, or the row does not parse: the claim, if it was
\* made, stays; the permit is dropped and the loop sleeps.
DequeueFails(p) ==
  /\ loop[p].at \in {"dequeue", "fetch"}
  /\ Fault
  /\ permits' = [permits EXCEPT ![p] = @ + 1]
  /\ loop' = [loop EXCEPT ![p] = LoopAt("sleep")]
  /\ UNCHANGED <<store, announcing, accepted, tasks>>

WakeUp(p) ==
  /\ loop[p].at = "sleep"
  /\ loop' = [loop EXCEPT ![p] = LoopAt("acquire")]
  /\ UNCHANGED <<store, announcing, accepted, permits, tasks, faults>>

\* Shutdown is requested: every select! prefers cancelled(), and a dequeue in
\* progress is dropped with its permit, its claim notwithstanding.
Cancel(p) ==
  /\ loop[p].at \notin {"drain", "stopped"}
  /\ Fault
  /\ permits' = [permits EXCEPT
                   ![p] = IF loop[p].at \in {"dequeue", "fetch"} THEN @ + 1 ELSE @]
  /\ loop' = [loop EXCEPT ![p] = LoopAt("drain")]
  /\ UNCHANGED <<store, announcing, accepted, tasks>>

Drained(p) ==
  /\ loop[p].at = "drain"
  /\ \A s \in Slots : tasks[p][s].at = "idle"
  /\ loop' = [loop EXCEPT ![p] = LoopAt("stopped")]
  /\ UNCHANGED <<store, announcing, accepted, permits, tasks, faults>>

\* A replacement process starts where the stopped one was.
Restart(p) ==
  /\ loop[p].at = "stopped"
  /\ loop' = [loop EXCEPT ![p] = LoopAt("acquire")]
  /\ permits' = [permits EXCEPT ![p] = CONCURRENCY]
  /\ UNCHANGED <<store, announcing, accepted, tasks, faults>>

\* The process dies (or the drain exceeds its budget and is aborted) and is
\* started again: only the storage survives.
Crash(p) ==
  /\ loop[p].at # "stopped"
  /\ Fault
  /\ loop' = [loop EXCEPT ![p] = LoopAt("acquire")]
  /\ permits' = [permits EXCEPT ![p] = CONCURRENCY]
  /\ tasks' = [tasks EXCEPT ![p] = [s \in Slots |-> NoTask]]
  /\ UNCHANGED <<store, announcing, accepted>>

-----------------------------------------------------------------------------
(* process_one. Each action below is one await of the task in slot s of p. *)

At(p, s, place) == tasks[p][s].at = place

Goto(p, s, place) ==
  /\ tasks' = [tasks EXCEPT ![p][s].at = place]
  /\ UNCHANGED permits

\* Faulty variants of Finish: the permit is leaked, or taken a second time.
Finish_KeepsPermit(p, s) ==
  /\ tasks' = [tasks EXCEPT ![p][s] = NoTask]
  /\ UNCHANGED permits

Finish_TakesPermit(p, s) ==
  /\ tasks' = [tasks EXCEPT ![p][s] = NoTask]
  /\ permits' = [permits EXCEPT ![p] = @ - 1]

\* The task returns, which drops its permit.
Finish(p, s) ==
  /\ tasks' = [tasks EXCEPT ![p][s] = NoTask]
  /\ permits' = [permits EXCEPT ![p] = @ + 1]

\* Faulty variant of AfterError: off by one, too early.
AfterError_Early(attempt) ==
  IF attempt + 1 >= MAX_ATTEMPTS THEN "ack_failed" ELSE "nack"

\* is_terminal for errors other than NoMatchingRoute.
AfterError(attempt) ==
  IF attempt >= MAX_ATTEMPTS THEN "ack_failed" ELSE "nack"

PublishSending(p, s) ==
  /\ At(p, s, "publish_sending")
  /\ TryPublish(tasks[p][s].email, "sending")
  /\ Goto(p, s, "execute")
  /\ UNCHANGED <<email_queue, attachments, blobs, announcing, accepted, loop>>

\* Resolve, interpolate, render and read the attachments, all of which may
\* fail; reading them must fail when a blob is gone.
Execute(p, s) ==
  /\ At(p, s, "execute")
  /\ \/ tasks[p][s].cleanup \subseteq blobs /\ Goto(p, s, "send")
     \/ Goto(p, s, AfterError(tasks[p][s].attempt))
  /\ UNCHANGED <<store, announcing, accepted, loop, faults>>

\* EmailSender::send: no route; a server accepts; every server refuses; or a
\* server accepts but its answer is lost, and the next route is tried or none.
Send(p, s) ==
  LET e == tasks[p][s].email
      error == AfterError(tasks[p][s].attempt)
      Accept == accepted' = [accepted EXCEPT ![e] = @ + 1]
  IN /\ At(p, s, "send")
     /\ \/ e \notin Routable /\ Goto(p, s, "ack_failed") /\ NoFault /\ UNCHANGED accepted
        \/ e \in Routable /\ Goto(p, s, "ack") /\ NoFault /\ Accept
        \/ e \in Routable /\ Goto(p, s, error) /\ NoFault /\ UNCHANGED accepted
        \/ /\ e \in Routable
           /\ \E place \in {"send", error} : Goto(p, s, place)
           /\ Fault
           /\ Accept
     /\ UNCHANGED <<store, announcing, loop>>

\* Faulty variant of Ack: a failed ack is logged and the task goes on.
Ack_IgnoresFailure(p, s) ==
  /\ At(p, s, "ack") \/ At(p, s, "ack_failed")
  /\ Goto(p, s, IF At(p, s, "ack") THEN "set_attachments" ELSE "publish_failed")
  /\ \/ Delete(tasks[p][s].email) /\ NoFault
     \/ UNCHANGED email_queue /\ Fault
  /\ UNCHANGED <<attachments, blobs, events, announcing, accepted, loop>>

\* ack after a successful send or a terminal error. When it fails, whether
\* or not the DELETE took effect, the task returns and publishes nothing.
Ack(p, s) ==
  /\ At(p, s, "ack") \/ At(p, s, "ack_failed")
  /\ \/ /\ Delete(tasks[p][s].email)
        /\ Goto(p, s, IF At(p, s, "ack") THEN "set_attachments" ELSE "publish_failed")
        /\ NoFault
     \/ /\ Delete(tasks[p][s].email) \/ UNCHANGED email_queue
        /\ Finish(p, s)
        /\ Fault
  /\ UNCHANGED <<attachments, blobs, events, announcing, accepted, loop>>

\* Faulty variant of ClearRefs: the refs of a sent e-mail stay in its row.
ClearRefs_Skipped(p, s) ==
  /\ At(p, s, "set_attachments")
  /\ Goto(p, s, "delete_blobs")
  /\ UNCHANGED <<store, announcing, accepted, loop, faults>>

\* set_attachments(id, &[]), a failure of which is logged.
ClearRefs(p, s) ==
  /\ At(p, s, "set_attachments")
  /\ Goto(p, s, "delete_blobs")
  /\ \/ attachments' = [attachments EXCEPT ![tasks[p][s].email] = {}] /\ NoFault
     \/ Fault /\ UNCHANGED attachments
  /\ UNCHANGED <<email_queue, blobs, events, announcing, accepted, loop>>

\* One turn of the loop over attachments_for_cleanup, or its end.
DeleteBlob(p, s) ==
  /\ At(p, s, "delete_blobs")
  /\ \/ \E b \in tasks[p][s].cleanup :
          /\ tasks' = [tasks EXCEPT ![p][s].cleanup = @ \ {b}]
          /\ UNCHANGED permits
          /\ \/ blobs' = blobs \ {b} /\ NoFault
             \/ Fault /\ UNCHANGED blobs
     \/ /\ tasks[p][s].cleanup = {}
        /\ Goto(p, s, "publish_sent")
        /\ NoFault
        /\ UNCHANGED blobs
  /\ UNCHANGED <<email_queue, attachments, events, announcing, accepted, loop>>

\* nack for the backoff; when it fails the task returns and publishes nothing.
Nack(p, s) ==
  /\ At(p, s, "nack")
  /\ \/ Hide(tasks[p][s].email) /\ Goto(p, s, "publish_retrying") /\ NoFault
     \/ /\ Hide(tasks[p][s].email) \/ UNCHANGED email_queue
        /\ Finish(p, s)
        /\ Fault
  /\ UNCHANGED <<attachments, blobs, events, announcing, accepted, loop>>

\* The event a task publishes last.
LastEvent == [publish_sent     |-> "delivery.succeeded",
              publish_failed   |-> "delivery.failed",
              publish_retrying |-> "retrying"]

PublishOutcome(p, s) ==
  /\ tasks[p][s].at \in DOMAIN LastEvent
  /\ TryPublish(tasks[p][s].email, LastEvent[tasks[p][s].at])
  /\ Finish(p, s)
  /\ UNCHANGED <<email_queue, attachments, blobs, announcing, accepted, loop>>

-----------------------------------------------------------------------------
(* Time.                                                                   *)

\* claimed_until passes: the backoff is over, or nobody holds the last claim
\* any more. A claim that lapses on a task that is still busy is a fault.
Lapse(e) ==
  /\ Reappear(e)
  /\ IF email_queue[e].hidden = "claim" /\ HoldsClaim(e, email_queue[e].attempt_count)
       THEN Fault ELSE NoFault
  /\ UNCHANGED <<attachments, blobs, events, announcing, accepted, loop,
                 permits, tasks>>

-----------------------------------------------------------------------------

LoopStep(p) ==
  \/ Acquire(p) \/ DequeueFails(p) \/ WakeUp(p) \/ Drained(p) \/ Restart(p)
  \/ \E e \in Emails : TryDequeue(p, e)
  \/ \E s \in Slots : Spawn(p, s)

TaskStep(p, s) ==
  \/ PublishSending(p, s) \/ Execute(p, s) \/ Send(p, s) \/ Ack(p, s)
  \/ ClearRefs(p, s) \/ DeleteBlob(p, s) \/ Nack(p, s) \/ PublishOutcome(p, s)

Next ==
  \/ \E e \in Emails : PublishQueued(e) \/ Lapse(e) \/ \E t \in Times : Enqueue(e, t)
  \/ \E p \in Processes : LoopStep(p) \/ Cancel(p) \/ Crash(p)
  \/ \E p \in Processes, s \in Slots : TaskStep(p, s)

Spec == Init /\ [][Next]_vars

\* The runtime keeps polling the loop and the tasks, and time passes.
Fairness ==
  /\ \A p \in Processes : WF_vars(LoopStep(p))
  /\ \A p \in Processes, s \in Slots : WF_vars(TaskStep(p, s))
  /\ \A e \in Emails : WF_vars(Lapse(e))

FairSpec == Spec /\ Fairness

-----------------------------------------------------------------------------
(* Properties.                                                             *)

Exhausted(e) == email_queue[e].attempt_count >= MAX_ATTEMPTS \/ e \notin Routable

\* An e-mail leaves the queue only once an SMTP server has accepted it, or its
\* attempts are used up, or no route matches it: no interleaving of workers,
\* crash, lapsed claim or late ack of another worker's claim loses one.
NothingLost ==
  \A e \in Emails : Deleted(e) => accepted[e] > 0 \/ Exhausted(e)

\* try_dequeue claims an e-mail at most MAX_ATTEMPTS times, and once more for
\* each fault: nack hides it only below the limit, so every further claim
\* follows a crash, a lapse or a failed ack or nack.
AttemptsBounded ==
  \A e \in Emails : email_queue[e].attempt_count <= MAX_ATTEMPTS + faults

\* Recipients get one copy, and at most one more for each fault: process_one
\* acks as soon as a server has accepted and never nacks after that.
CopiesBounded ==
  \A e \in Emails : accepted[e] <= 1 + faults

\* What faults repeat is bounded by their number: no interleaving of two workers
\* claims or sends an e-mail once more than the faults explain.
RepeatsBounded == AttemptsBounded /\ CopiesBounded

\* While an e-mail is queued its row refers to all its blobs and the store has
\* them, so a retry never finds an attachment deleted by the cleanup of
\* another task: the cleanup comes after the ack.
QueuedKeepsAttachments ==
  \A e \in Emails :
    Queued(e) => attachments[e] = Attached[e] /\ Attached[e] \subseteq blobs

\* A terminal event is published only of an e-mail that has left the queue,
\* delivery.succeeded only after an acceptance and delivery.failed only when
\* attempts or routes are exhausted: process_one acks before it publishes and
\* publishes nothing when the ack fails.
TerminalEventsTrue ==
  \A e \in Emails :
    LET published == events[e].published
    IN /\ "delivery.succeeded" \in published => Deleted(e) /\ accepted[e] > 0
       /\ "delivery.failed" \in published => Deleted(e) /\ Exhausted(e)

\* As long as nothing has failed, an e-mail that has left the queue and is in
\* nobody's hands has exactly one terminal event, and if it was delivered its
\* refs and its blobs are gone.
CleanOutcome ==
  faults = 0 =>
    \A e \in Emails :
      Deleted(e) /\ ~Held(e) =>
        \/ /\ events[e].published \intersect Terminal = {"delivery.succeeded"}
           /\ attachments[e] = {}
           /\ Attached[e] \intersect blobs = {}
        \/ events[e].published \intersect Terminal = {"delivery.failed"}

\* As long as nothing has failed, a task that has yet to settle its e-mail made
\* the latest claim of it: nobody sends, acks or cleans up under another worker.
\* (After its nack a task still publishes Retrying, while the next one starts.)
NoStaleTask ==
  faults = 0 =>
    \A p \in Processes, s \in Slots :
      tasks[p][s].at \notin {"idle", "publish_retrying"} =>
        tasks[p][s].attempt = email_queue[tasks[p][s].email].attempt_count

\* Without a fault the tasks of all processes keep out of each other's way: each
\* e-mail has one task at a time and exactly one outcome, and leaves nothing.
OneOutcome == CleanOutcome /\ NoStaleTask

\* Permits are conserved: those that are free, the one the loop holds while it
\* dequeues and one per running task make up CONCURRENCY on every path out of
\* the loop and of process_one.
PermitsConserved ==
  \A p \in Processes :
    permits[p] + Cardinality({s \in Slots : tasks[p][s].at # "idle"})
      + (IF loop[p].at \in {"dequeue", "fetch"} THEN 1 ELSE 0) = CONCURRENCY

\* The status list_emails derives from the latest event leaves 'sent' or
\* 'failed' only for an event published late, the 'queued' of the submission or
\* the 'retrying' of an earlier attempt, as long as nothing has failed.
StatusSettles ==
  [][\A e \in Emails :
       events[e].latest \in Terminal /\ faults = 0 =>
         events'[e].latest \in {events[e].latest, "queued", "retrying"}]_vars

\* Once a submission is announced, its e-mail settled and every task done, the
\* status is the outcome, as long as nothing has failed. (The code breaks this:
\* the 'queued' event of execute can be the last one.)
StatusIsOutcome ==
  faults = 0 =>
    \A e \in Emails :
      Deleted(e) /\ ~Held(e) /\ e \notin announcing => events[e].latest \in Terminal

\* Once an e-mail was given up and nobody has it in hand, subscribers have been
\* told so. (The code breaks this: the ack precedes the event.)
FailureIsAnnounced ==
  \A e \in Emails :
    Deleted(e) /\ ~Held(e) /\ accepted[e] = 0 =>
      "delivery.failed" \in events[e].published

\* Every e-mail that is queued eventually leaves the queue.
Drains == \A e \in Emails : Queued(e) ~> Deleted(e)

\* Every queued e-mail is settled, and its status with it, but for late events.
Settles == Drains /\ StatusSettles

\* The queue and its workers keep the gateway's promise.
Promise == INSTANCE AtLeastOnce WITH
  owed    <- {e \in Emails : Queued(e)},
  sentOut <- {e \in Emails : accepted[e] > 0},
  excused <- {e \in Emails : email_queue[e].row # "none" /\ Exhausted(e)},
  settled <- {e \in Emails : Deleted(e)}

KeepsPromise == Promise!Spec
=============================================================================
