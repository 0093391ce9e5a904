---------------------------- MODULE AtLeastOnce ----------------------------
(***************************************************************************)
(* What the gateway promises of an accepted e-mail, whatever queue backend *)
(* carries it: from the moment it is queued it stays owed until an SMTP    *)
(* server has accepted it or the gateway has a reason to give it up.       *)
(* Copies may go out more than once, and even after the e-mail is settled  *)
(* (a second worker may still be sending it), but an e-mail that is        *)
(* settled is never owed again and nothing settles silently.               *)
(***************************************************************************)
CONSTANT Emails

VARIABLES owed,       \* queued and not yet settled
          sentOut,    \* accepted by an SMTP server at least once
          excused,    \* the gateway is entitled to give it up
          settled     \* removed from the queue for good

vars == <<owed, sentOut, excused, settled>>

Init == owed = {} /\ sentOut = {} /\ excused = {} /\ settled = {}

\* A submission is queued. Routes are fixed by the configuration: an e-mail
\* none of them matches is excused from the start.
Accept(e) ==
  /\ e \notin owed \union settled
  /\ owed' = owed \union {e}
  /\ excused' \in {excused, excused \union {e}}
  /\ UNCHANGED <<sentOut, settled>>

\* A worker learns that the e-mail has used up its attempts.
Excuse(e) ==
  /\ e \in owed \union settled
  /\ excused' = excused \union {e}
  /\ UNCHANGED <<owed, sentOut, settled>>

\* An SMTP server takes a copy, perhaps one more than it should.
Deliver(e) ==
  /\ e \in owed \union settled
  /\ sentOut' = sentOut \union {e}
  /\ UNCHANGED <<owed, excused, settled>>

\* The queue forgets the e-mail.
Settle(e) ==
  /\ e \in owed
  /\ e \in sentOut \union excused
  /\ owed' = owed \ {e}
  /\ settled' = settled \union {e}
  /\ UNCHANGED <<sentOut, excused>>

Next == \E e \in Emails : Accept(e) \/ Excuse(e) \/ Deliver(e) \/ Settle(e)

Spec == Init /\ [][Next]_vars
============================================================================
