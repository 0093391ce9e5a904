------------------------------ MODULE QueuePort ------------------------------
(***************************************************************************)
(* What a caller of the EmailQueue port may rely on, whatever transactions *)
(* it takes: a dequeue hides one entry that was visible and counts the     *)
(* attempt in one step, so that no attempt of an entry is handed out       *)
(* twice; an entry comes back after a nack or a lapsed claim, and goes     *)
(* only when it is acked.                                                  *)
(***************************************************************************)
EXTENDS Naturals

CONSTANT Entries

VARIABLE entries

Absent == [row |-> "none", hidden |-> FALSE, attempt |-> 0]

Init == entries = [e \in Entries |-> Absent]

Enqueue(e) ==
  /\ entries[e] = Absent
  /\ entries' = [entries EXCEPT ![e].row = "queued"]

Dequeue(e) ==
  /\ entries[e].row = "queued" /\ ~entries[e].hidden
  /\ entries' = [entries EXCEPT ![e].hidden = TRUE, ![e].attempt = @ + 1]

Nack(e) ==
  /\ entries[e].row = "queued"
  /\ entries' = [entries EXCEPT ![e].hidden = TRUE]

Reappear(e) ==
  /\ entries[e].row = "queued"
  /\ entries' = [entries EXCEPT ![e].hidden = FALSE]

Ack(e) ==
  /\ entries[e].row = "queued" /\ entries[e].attempt > 0
  /\ entries' = [entries EXCEPT ![e].row = "gone", ![e].hidden = FALSE]

Next == \E e \in Entries : Enqueue(e) \/ Dequeue(e) \/ Nack(e) \/ Reappear(e) \/ Ack(e)

Spec == Init /\ [][Next]_entries
=============================================================================
