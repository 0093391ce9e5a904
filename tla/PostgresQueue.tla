----------------------------- MODULE PostgresQueue -----------------------------
(***************************************************************************)
(* The e-mail queue and the rows of e-mails on PostgreSQL: the dequeue as  *)
(* a transaction that locks a row with FOR UPDATE SKIP LOCKED,             *)
(* set_attachments as one that locks the e-mail, the other calls as single *)
(* statements, all on connections of one pool and at READ COMMITTED.       *)
(*                                                                         *)
(* An e-mail and its queue entry have one name. A fault is a transaction   *)
(* that rolls back (an error, a dropped future), a statement that fails,   *)
(* or one whose answer is lost; MaxFaults bounds them. An entry reappears  *)
(* until its MaxAttempts-th claim, a bound of the model.                   *)
(***************************************************************************)
EXTENDS Naturals, FiniteSets

CONSTANTS Entries, Workers,
          Connections,  \* max_connections of the pool
          MaxAttempts, MaxFaults,
          None

ASSUME PostgresAssumption ==
  /\ IsFiniteSet(Entries) /\ IsFiniteSet(Workers)
  /\ Connections \in Nat \ {0} /\ MaxAttempts \in Nat \ {0} /\ MaxFaults \in Nat
  /\ None \notin Entries

VARIABLES emails,       \* the row of each e-mail
          email_queue,  \* committed rows, and the order of their enqueued_at
          submit,       \* the submission of each e-mail
          work,         \* the loop of each worker
          faults

vars == <<emails, email_queue, submit, work, faults>>

Fault   == faults < MaxFaults /\ faults' = faults + 1
NoFault == UNCHANGED faults

\* Steps during which a call has a connection.
InTx   == {"begun", "locked", "claimed", "read"}
OnConn == InTx \union {"ack", "nack"}
Used   == Cardinality({w \in Workers : work[w].at \in OnConn})
            + Cardinality({e \in Entries : submit[e] \in {"refs_read", "refs_written"}})
Free   == Used < Connections

TypeOK ==
  /\ emails \in [Entries -> {"none", "saved", "complete", "deleted"}]
  /\ email_queue \in [Entries -> [row : {"none", "queued", "gone"}, hidden : BOOLEAN,
                                  attempt : 0..MaxAttempts, place : 0..Cardinality(Entries)]]
  /\ submit \in [Entries -> {"save", "refs", "refs_read", "refs_written", "enqueue",
                             "undo", "done"}]
  /\ work \in [Workers -> [at : {"idle", "hold"} \union OnConn,
                           entry : Entries \union {None}, attempt : 0..MaxAttempts]]
  /\ \A w \in Workers : work[w].entry = None <=> work[w].at \in {"idle", "begun"}
  /\ Used <= Connections
  /\ faults \in 0..MaxFaults

Idle  == [at |-> "idle", entry |-> None, attempt |-> 0]
NoRow == [row |-> "none", hidden |-> FALSE, attempt |-> 0, place |-> 0]

Init ==
  /\ emails = [e \in Entries |-> "none"] /\ email_queue = [e \in Entries |-> NoRow]
  /\ submit = [e \in Entries |-> "save"] /\ work = [w \in Workers |-> Idle]
  /\ faults = 0

Present(e) == emails[e] \in {"saved", "complete"}
Queued(e)  == email_queue[e].row = "queued"
Visible(e) == Queued(e) /\ ~email_queue[e].hidden

\* Workers whose transaction has the row lock of entry e.
Locking(e) == {w \in Workers : work[w].entry = e /\ work[w].at \in InTx}

-----------------------------------------------------------------------------
(* A submission.                                                           *)

\* INSERT ... ON CONFLICT DO NOTHING, with a new id.
Save(e) ==
  /\ submit[e] = "save" /\ Free
  /\ emails' = [emails EXCEPT ![e] = "saved"]
  /\ submit' = [submit EXCEPT ![e] = "refs"]
  /\ UNCHANGED <<email_queue, work, faults>>

\* set_attachments: BEGIN and SELECT ... FOR UPDATE.
ReadRefs(e) ==
  /\ submit[e] = "refs" /\ Free
  /\ submit' = [submit EXCEPT ![e] = IF Present(e) THEN "refs_read" ELSE "undo"]
  /\ UNCHANGED <<emails, email_queue, work, faults>>

WriteRefs(e) ==
  /\ submit[e] = "refs_read"
  /\ submit' = [submit EXCEPT ![e] = "refs_written"]
  /\ UNCHANGED <<emails, email_queue, work, faults>>

CommitRefs(e) ==
  /\ submit[e] = "refs_written"
  /\ emails' = [emails EXCEPT ![e] = "complete"]
  /\ \/ submit' = [submit EXCEPT ![e] = "enqueue"] /\ NoFault
     \/ submit' = [submit EXCEPT ![e] = "undo"] /\ Fault
  /\ UNCHANGED <<email_queue, work>>

RollbackRefs(e) ==
  /\ submit[e] \in {"refs_read", "refs_written"}
  /\ submit' = [submit EXCEPT ![e] = "undo"] /\ Fault
  /\ UNCHANGED <<emails, email_queue, work>>

Insert(e) ==
  email_queue' = [email_queue EXCEPT ![e] =
    [NoRow EXCEPT !.row = "queued",
                  !.place = Cardinality({f \in Entries : email_queue[f].row # "none"})]]

\* enqueue: INSERT, which may take effect although the caller sees an error.
Enqueue(e) ==
  /\ submit[e] = "enqueue" /\ Free
  /\ \/ Insert(e) /\ submit' = [submit EXCEPT ![e] = "done"] /\ NoFault
     \/ /\ Insert(e) \/ UNCHANGED email_queue
        /\ submit' = [submit EXCEPT ![e] = "undo"] /\ Fault
  /\ UNCHANGED <<emails, work>>

\* Faulty variant of Restricts: the table has no foreign key.
Restricts_Not(e) == FALSE

\* The rows of email_queue reference their e-mail.
Restricts(e) == Queued(e)

\* The compensation deletes the row; its errors are ignored.
Undo(e) ==
  /\ submit[e] = "undo" /\ Free
  /\ submit' = [submit EXCEPT ![e] = "done"]
  /\ IF Restricts(e) THEN UNCHANGED emails
     ELSE emails' \in {emails, [emails EXCEPT ![e] = "deleted"]}
  /\ UNCHANGED <<email_queue, work, faults>>

-----------------------------------------------------------------------------
(* A worker.                                                               *)

Begin(w) ==
  /\ work[w].at = "idle" /\ Free
  /\ work' = [work EXCEPT ![w].at = "begun"]
  /\ UNCHANGED <<emails, email_queue, submit, faults>>

\* Faulty variant of Lock: SELECT ... without FOR UPDATE SKIP LOCKED.
Lock_Not(w, e) ==
  /\ work[w].at = "begun" /\ Visible(e)
  /\ \A f \in Entries : Visible(f) => email_queue[e].place <= email_queue[f].place
  /\ work' = [work EXCEPT ![w] = [at |-> "locked", entry |-> e,
                                  attempt |-> email_queue[e].attempt]]
  /\ UNCHANGED <<emails, email_queue, submit, faults>>

\* The oldest visible entry that no transaction has locked.
Lock(w, e) ==
  /\ work[w].at = "begun"
  /\ Visible(e) /\ Locking(e) = {}
  /\ \A f \in Entries :
       Visible(f) /\ Locking(f) = {} => email_queue[e].place <= email_queue[f].place
  /\ work' = [work EXCEPT ![w] = [at |-> "locked", entry |-> e,
                                  attempt |-> email_queue[e].attempt]]
  /\ UNCHANGED <<emails, email_queue, submit, faults>>

\* Faulty variant of Empty: it polls without ending the transaction.
Empty_InTx(w) ==
  /\ work[w].at = "begun"
  /\ \A e \in Entries : Visible(e) => Locking(e) # {}
  /\ UNCHANGED vars

\* No row: the transaction is rolled back and the loop polls again.
Empty(w) ==
  /\ work[w].at = "begun"
  /\ \A e \in Entries : Visible(e) => Locking(e) # {}
  /\ work' = [work EXCEPT ![w] = Idle]
  /\ UNCHANGED <<emails, email_queue, submit, faults>>

\* UPDATE, which waits for another writer of the row.
Claim(w) ==
  /\ work[w].at = "locked"
  /\ \A v \in Locking(work[w].entry) \ {w} : work[v].at = "locked"
  /\ work' = [work EXCEPT ![w].at = "claimed"]
  /\ UNCHANGED <<emails, email_queue, submit, faults>>

\* SELECT of the e-mail.
Read(w) ==
  /\ work[w].at = "claimed"
  /\ work' = [work EXCEPT ![w].at = "read"]
  /\ UNCHANGED <<emails, email_queue, submit, faults>>

\* COMMIT of the claim, or of the deletion of an entry without an e-mail; the
\* answer may be lost.
Commit(w) ==
  LET e == work[w].entry IN
  /\ work[w].at = "read"
  /\ email_queue' =
       IF Present(e) THEN [email_queue EXCEPT ![e].hidden = TRUE, ![e].attempt = @ + 1]
       ELSE [email_queue EXCEPT ![e].row = "gone", ![e].hidden = FALSE]
  /\ \/ /\ work' = [work EXCEPT ![w] = IF Present(e)
                      THEN [at |-> "hold", entry |-> e, attempt |-> @.attempt + 1] ELSE Idle]
        /\ NoFault
     \/ work' = [work EXCEPT ![w] = Idle] /\ Fault
  /\ UNCHANGED <<emails, submit>>

Rollback(w) ==
  /\ work[w].at \in InTx
  /\ work' = [work EXCEPT ![w] = Idle] /\ Fault
  /\ UNCHANGED <<emails, email_queue, submit>>

\* The worker is done with the e-mail.
Answer(w, a) ==
  /\ work[w].at = "hold" /\ Free
  /\ work' = [work EXCEPT ![w].at = a]
  /\ UNCHANGED <<emails, email_queue, submit, faults>>

\* DELETE and UPDATE wait for the transaction that has the row, and may find none.
Ack(w) ==
  LET e == work[w].entry IN
  /\ work[w].at = "ack" /\ Locking(e) = {}
  /\ \/ /\ email_queue' = [email_queue EXCEPT ![e].row = "gone", ![e].hidden = FALSE]
        /\ NoFault
     \/ Fault /\ UNCHANGED email_queue
  /\ work' = [work EXCEPT ![w] = Idle]
  /\ UNCHANGED <<emails, submit>>

Nack(w) ==
  LET e == work[w].entry IN
  /\ work[w].at = "nack" /\ Locking(e) = {}
  /\ \/ email_queue' = [email_queue EXCEPT ![e].hidden = Queued(e)] /\ NoFault
     \/ Fault /\ UNCHANGED email_queue
  /\ work' = [work EXCEPT ![w] = Idle]
  /\ UNCHANGED <<emails, submit>>

\* The clock passes claimed_until.
Lapse(e) ==
  /\ Queued(e) /\ email_queue[e].hidden /\ email_queue[e].attempt < MaxAttempts
  /\ email_queue' = [email_queue EXCEPT ![e].hidden = FALSE]
  /\ UNCHANGED <<emails, submit, work, faults>>

-----------------------------------------------------------------------------

Submission(e) ==
  Save(e) \/ ReadRefs(e) \/ WriteRefs(e) \/ CommitRefs(e) \/ Enqueue(e) \/ Undo(e)

Transaction(w) == (\E e \in Entries : Lock(w, e)) \/ Empty(w) \/ Claim(w) \/ Read(w) \/ Commit(w)

Reply(w) == Ack(w) \/ Nack(w)

Next ==
  \/ \E e \in Entries : Submission(e) \/ RollbackRefs(e) \/ Lapse(e)
  \/ \E w \in Workers :
       Begin(w) \/ Transaction(w) \/ Rollback(w)
         \/ (\E a \in {"ack", "nack"} : Answer(w, a)) \/ Reply(w)

Spec == Init /\ [][Next]_vars

\* Statements are executed, and a free connection goes to whoever waits longest.
\* Workers answer for the e-mails they hold; an entry's claim lapses.
Fairness ==
  /\ \A e \in Entries : SF_vars(Submission(e)) /\ WF_vars(Lapse(e))
  /\ \A w \in Workers :
       /\ SF_vars(Begin(w) \/ (\E a \in {"ack", "nack"} : Answer(w, a)) \/ Reply(w))
       /\ WF_vars(Transaction(w))

FairSpec == Spec /\ Fairness

-----------------------------------------------------------------------------
(* Properties.                                                             *)

\* The transactions keep what the port promises: a dequeue is one step on an
\* entry that is visible, for every interleaving and every lost answer.
Port ==
  INSTANCE QueuePort WITH
    entries <- [e \in Entries |->
                  [row |-> email_queue[e].row, hidden |-> email_queue[e].hidden,
                   attempt |-> email_queue[e].attempt]]
KeepsPort == Port!Spec

\* The attempt number a worker gets, computed from what it read, is the one that
\* is stored when it gets it: MAX_ATTEMPTS counts what the table counts.
HandsOutCount ==
  [][\A w \in Workers :
       work'[w].at = "hold" /\ work[w].at # "hold" =>
         work'[w].attempt = email_queue'[work'[w].entry].attempt]_vars

\* Every queued entry has its e-mail with the attachments in place, whatever
\* failed on the way: no dequeue finds an orphan.
QueuedIsComplete == \A e \in Entries : Queued(e) => emails[e] = "complete"

\* The queue on PostgreSQL: whatever failed on the way, a queued entry has its
\* e-mail with the attachments in place; and the attempt number a worker gets is the
\* one that is stored when it gets it.
QueueIsSound == [](TypeOK /\ QueuedIsComplete) /\ HandsOutCount

\* Every call comes back, even on a pool of one connection: no call that has a
\* connection or a row waits for another.
CallsReturn ==
  /\ \A w \in Workers : work[w].at \in OnConn ~> work[w].at \notin OnConn
  /\ \A e \in Entries : submit[e] = "refs" ~> submit[e] = "done"

\* A visible entry is claimed, although workers skip rows that are locked.
EveryEntryClaimed == \A e \in Entries : Visible(e) ~> ~Visible(e)
=============================================================================
