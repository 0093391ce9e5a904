---------------------------- MODULE StorageQueue ----------------------------
(***************************************************************************)
(* The e-mail queue kept in the table email_queue by the SQLite and the    *)
(* PostgreSQL adapters. A row is inserted once per e-mail; a dequeue hides *)
(* it by moving claimed_until into the future and counts the attempt; ack  *)
(* deletes it; nack hides it for the backoff. The token handed to a worker *)
(* is the row's id, the same for every claim of that row.                  *)
(*                                                                         *)
(* claimed_until against the wall clock is kept as "hidden": "no" when it  *)
(* is NULL or past, "claim" or "backoff" when a claim or a nack put it in  *)
(* the future. The row of a deleted entry stays in the model, marked       *)
(* "deleted", so that properties can speak of its last attempt_count.      *)
(***************************************************************************)
EXTENDS Naturals

CONSTANTS Emails,   \* e-mails that are submitted
          Times     \* wall-clock instants at which a row may be inserted

ASSUME TimesAssumption == Times \subseteq Nat

VARIABLE email_queue

RowStates == {"none", "queued", "deleted"}
Hidings   == {"no", "claim", "backoff"}
Rows      == [row : RowStates, enqueued_at : Nat, hidden : Hidings,
              attempt_count : Nat]

QueueTypeOK == email_queue \in [Emails -> Rows]

NoRow == [row |-> "none", enqueued_at |-> 0, hidden |-> "no", attempt_count |-> 0]

QueueInit == email_queue = [e \in Emails |-> NoRow]

Queued(e)  == email_queue[e].row = "queued"
Deleted(e) == email_queue[e].row = "deleted"

\* claimed_until IS NULL OR claimed_until < now
Visible(e) == Queued(e) /\ email_queue[e].hidden = "no"

\* ORDER BY enqueued_at ASC LIMIT 1: rows of the same millisecond tie.
NextUp(e) ==
  /\ Visible(e)
  /\ \A f \in Emails :
       Visible(f) => email_queue[e].enqueued_at <= email_queue[f].enqueued_at

\* enqueue: INSERT with the clock's time, which no earlier row exceeds.
Insert(e, t) ==
  /\ email_queue[e] = NoRow
  /\ \A f \in Emails : email_queue[f].enqueued_at <= t
  /\ email_queue' = [email_queue EXCEPT ![e] =
                       [NoRow EXCEPT !.row = "queued", !.enqueued_at = t]]

\* Faulty variant of Claim: the attempt is counted, the row is not hidden.
Claim_NoLease(e) ==
  /\ NextUp(e)
  /\ email_queue' = [email_queue EXCEPT ![e].attempt_count = @ + 1]

\* try_dequeue: UPDATE ... SET attempt_count = attempt_count + 1, claimed_until.
Claim(e) ==
  /\ NextUp(e)
  /\ email_queue' = [email_queue EXCEPT ![e].hidden = "claim",
                                        ![e].attempt_count = @ + 1]

\* ack: DELETE ... WHERE id, which may match no row.
Delete(e) ==
  email_queue' = [email_queue EXCEPT
                    ![e].row = IF Queued(e) THEN "deleted" ELSE @,
                    ![e].hidden = IF Queued(e) THEN "no" ELSE @]

\* nack: UPDATE ... SET claimed_until = now + delay WHERE id; no row, no change.
Hide(e) ==
  email_queue' = [email_queue EXCEPT
                    ![e].hidden = IF Queued(e) THEN "backoff" ELSE @]

\* The clock passes claimed_until.
Reappear(e) ==
  /\ Queued(e)
  /\ email_queue[e].hidden # "no"
  /\ email_queue' = [email_queue EXCEPT ![e].hidden = "no"]
=============================================================================
