---------------------------- MODULE Redeployment ----------------------------
(***************************************************************************)
(* A gateway that is stopped and started again with other backends while   *)
(* e-mails wait: StorageAdapter, QueueAdapter and AttachmentStoreAdapter   *)
(* send every operation to the backend that is configured now, whatever    *)
(* backend an e-mail, its queue entry or its attachment came from. What is *)
(* in the other backends stays there, but for the memory queue.            *)
(*                                                                         *)
(* An e-mail has one attachment, put when it is submitted; its key is the  *)
(* e-mail and the prefix of the store. A submission, an attempt and the    *)
(* sweep of one key are steps; their interleavings are in SubmitEmail,     *)
(* Delivery and AttachmentStores.                                          *)
(* A store keeps what its put returned; what an S3 server may do to that   *)
(* is in AttachmentStores.                                                 *)
(***************************************************************************)
EXTENDS Naturals, FiniteSets

CONSTANTS Emails,
          Databases,     \* storage backends
          Queues,        \* queue backends
          Stores,        \* attachment stores that may be configured
          Backend,       \* store -> "fs", "s3" or "redis"
          Space,         \* store -> directory, bucket or Redis database
          Prefix,        \* store -> prefix of its keys
          MAX_ATTEMPTS,  \* of the worker
          MaxStarts,     \* bound on starts of the program
          None

Settings == [storage : Databases, queue : Queues, store : Stores]

RedeploymentAssumption ==
  /\ Queues \subseteq {"storage", "memory", "nats"}
  /\ Databases \subseteq {"sqlite", "postgres"}
  /\ Backend \in [Stores -> {"fs", "s3", "redis"}]
  /\ \A s, t \in Stores : Space[s] = Space[t] => Backend[s] = Backend[t]
  /\ MAX_ATTEMPTS \in Nat \ {0} /\ MaxStarts \in Nat
  /\ None \notin Databases \union Stores

VARIABLES running,   \* the settings of the running program, or None
          starts,
          queued,    \* queue -> e-mails that wait in it
          row,       \* e-mail -> database that has its row, or None
          status,    \* e-mail -> what its latest event means
          refs,      \* e-mails whose row refers to the attachment
          origin,    \* e-mail -> store its attachment was put in, or None
          blobs,     \* <<space, e-mail>> that exist
          index,     \* <<store, e-mail>> in the sorted sets of Redis
          attempts,
          aged,      \* attachments past the grace period
          widowed    \* e-mails whose attachment was swept under another database

stored == <<blobs, index>>
mail   == <<queued, row, status, refs, origin, attempts>>
vars   == <<running, starts, mail, stored, aged, widowed>>

Terminal == {"sent", "failed"}

TypeOK ==
  /\ running \in Settings \union {None} /\ starts \in 0..MaxStarts
  /\ queued \in [Databases \union (Queues \ {"storage"}) -> SUBSET Emails]
  /\ row \in [Emails -> Databases \union {None}]
  /\ status \in [Emails -> {"queued"} \union Terminal]
  /\ origin \in [Emails -> Stores \union {None}]
  /\ blobs \subseteq {Space[s] : s \in Stores} \X Emails
  /\ index \subseteq Stores \X Emails
  /\ attempts \in [Emails -> 0..MAX_ATTEMPTS]
  /\ refs \union aged \union widowed \subseteq Emails

Init ==
  /\ running = None /\ starts = 0
  /\ queued = [q \in Databases \union (Queues \ {"storage"}) |-> {}]
  /\ row = [e \in Emails |-> None] /\ origin = [e \in Emails |-> None]
  /\ status = [e \in Emails |-> "queued"]
  /\ attempts = [e \in Emails |-> 0]
  /\ refs = {} /\ blobs = {} /\ index = {} /\ aged = {} /\ widowed = {}

Up == running # None

-----------------------------------------------------------------------------
(* What the adapters do with the configured backends.                      *)

\* The storage queue is a table of the configured database.
QueueName == IF running.queue = "storage" THEN running.storage ELSE running.queue

\* Faulty variant of Label: a put names the place and not the backend.
Label_ByPlace(s) == Space[s]

\* The backend a put writes into the reference.
Label(s) == Backend[s]

\* put: one store, one key; Redis indexes it under the prefix.
Stored(s, e) ==
  /\ blobs' = blobs \union {<<Space[s], e>>}
  /\ index' = IF Backend[s] = "redis" THEN index \union {<<s, e>>} ELSE index

\* get of a store: a prefix is part of the key.
Found(s, e) == <<Space[s], e>> \in blobs

\* get of the adapter, in the configured store, whatever backend the reference names.
Gets(e) == Found(running.store, e)

\* delete of a store: a missing blob is no error.
Removed(s, e) ==
  /\ blobs' = blobs \ {<<Space[s], e>>}
  /\ index' = index \ {<<s, e>>}

\* delete of the adapter, in the configured store.
Deleted(e) == Removed(running.store, e)

\* list_keys_older_than, but for the age.
Lists(s, e) ==
  CASE Backend[s] = "redis" -> <<s, e>> \in index
    [] Backend[s] = "s3"    -> /\ <<Space[s], e>> \in blobs
                               /\ Prefix[s] \in {"", Prefix[origin[e]]}
    [] OTHER                -> <<Space[s], e>> \in blobs

\* list_all_attachment_blobs of one database.
Referred(database) == {e \in refs : row[e] = database /\ status[e] \notin Terminal}

-----------------------------------------------------------------------------
(* The program.                                                            *)

Start(s) ==
  /\ ~Up /\ starts < MaxStarts
  /\ running' = s /\ starts' = starts + 1
  /\ UNCHANGED <<mail, stored, aged, widowed>>

\* Stopped or killed: the memory queue goes with it.
Stop ==
  /\ Up /\ running' = None
  /\ queued' = [q \in DOMAIN queued |-> IF q = "memory" THEN {} ELSE queued[q]]
  /\ UNCHANGED <<starts, row, status, refs, origin, attempts, stored, aged, widowed>>

Put(e) ==
  /\ Up /\ origin[e] = None
  /\ origin' = [origin EXCEPT ![e] = running.store]
  /\ Stored(running.store, e)

Submit(e) ==
  /\ Put(e)
  /\ row' = [row EXCEPT ![e] = running.storage]
  /\ refs' = refs \union {e}
  /\ queued' = [queued EXCEPT ![QueueName] = @ \union {e}]
  /\ UNCHANGED <<running, starts, status, attempts, aged, widowed>>

\* A submission that ends after the upload: no row refers to the blob.
Abandon(e) ==
  /\ Put(e)
  /\ UNCHANGED <<running, starts, queued, row, status, refs, attempts, aged, widowed>>

Acked(e) == queued' = [queued EXCEPT ![QueueName] = @ \ {e}]

\* An event needs the row of its e-mail in the configured database; one that is not
\* stored is only logged.
Published(e, s) ==
  \/ row[e] = running.storage /\ status' = [status EXCEPT ![e] = s]
  \/ UNCHANGED status

\* set_attachments of no attachment, likewise.
Cleared(e) ==
  \/ row[e] = running.storage /\ refs' = refs \ {e}
  \/ UNCHANGED refs

\* The attachment is read and the e-mail sent; the blob is deleted, or left to the
\* collector.
Deliver(e) ==
  /\ Up /\ e \in queued[QueueName] /\ Gets(e)
  /\ Acked(e)
  /\ Cleared(e)
  /\ Deleted(e) \/ UNCHANGED stored
  /\ Published(e, "sent")
  /\ UNCHANGED <<running, starts, row, origin, attempts, aged, widowed>>

Attempted(e) == attempts' = [attempts EXCEPT ![e] = @ + 1]

\* The attachment is not found, or the e-mail is not sent: a retry, as attempts
\* are left.
Retry(e) ==
  /\ Up /\ e \in queued[QueueName] /\ attempts[e] + 1 < MAX_ATTEMPTS
  /\ Attempted(e)
  /\ UNCHANGED <<running, starts, queued, row, status, refs, origin, stored, aged, widowed>>

\* The last attempt fails, or the sender refuses the e-mail for good.
Fail(e) ==
  /\ Up /\ e \in queued[QueueName]
  /\ attempts[e] + 1 = MAX_ATTEMPTS \/ Gets(e)
  /\ Attempted(e)
  /\ Acked(e)
  /\ Published(e, "failed")
  /\ UNCHANGED <<running, starts, row, refs, origin, stored, aged, widowed>>

Live(s) == {e \in Referred(s.storage) : Label(origin[e]) = Backend[s.store]}

\* The collector finds a key that no reference to this backend names.
Collect(e) ==
  /\ Up /\ e \in aged /\ Lists(running.store, e)
  /\ e \notin Live(running)
  /\ Deleted(e)
  /\ widowed' = IF row[e] \in {running.storage, None} THEN widowed ELSE widowed \union {e}
  /\ UNCHANGED <<running, starts, mail, aged>>

Age(e) ==
  /\ origin[e] # None /\ e \notin aged
  /\ aged' = aged \union {e}
  /\ UNCHANGED <<running, starts, mail, stored, widowed>>

Next ==
  \/ \E s \in Settings : Start(s)
  \/ Stop
  \/ \E e \in Emails : \/ Submit(e) \/ Abandon(e) \/ Deliver(e) \/ Retry(e) \/ Fail(e)
                       \/ Collect(e) \/ Age(e)

Spec == Init /\ [][Next]_vars

\* Time passes, sweeps recur and a backend does not fail to delete a key for ever.
Fairness ==
  /\ WF_vars(\E s \in Settings : Start(s))
  /\ \A e \in Emails : WF_vars(Age(e)) /\ SF_vars(Collect(e))

FairSpec == Spec /\ Fairness

-----------------------------------------------------------------------------
(* Properties.                                                             *)

Waiting == UNION {queued[q] : q \in DOMAIN queued}

\* A waiting e-mail's attachment is found by the worker whenever the program runs
\* with the directory, bucket or Redis database it was put in, whatever else was
\* configured meanwhile and whatever the prefix is now. Only a sweep under another
\* database, which has no row of the e-mail, takes it.
WaitingIsReadable ==
  Up => \A e \in Waiting \ widowed :
           Space[running.store] = Space[origin[e]] => Gets(e)

\* No row of the database refers to the attachment any more.
Orphan(database, e) == e \notin refs \/ row[e] # database \/ status[e] \in Terminal

\* A program that stays up collects what its own store lists and its own database
\* does not refer to, also what was put there before other backends were configured.
OrphansCollected ==
  \A s \in Settings : \A e \in Emails :
     <>[](running = s) =>
        [](running = s /\ Lists(s.store, e) /\ Orphan(s.storage, e) => <>~Lists(s.store, e))
=============================================================================
