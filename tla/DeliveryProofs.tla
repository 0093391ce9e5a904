--------------------------- MODULE DeliveryProofs ---------------------------
(***************************************************************************)
(* Proofs about Delivery, for any numbers of e-mails, processes, permits,  *)
(* attempts and faults.                                                    *)
(***************************************************************************)
EXTENDS Delivery, FiniteSetTheorems, TLAPS

-----------------------------------------------------------------------------
(* Types.                                                                  *)

TaskMap == [Processes -> [Slots -> TaskRecs]]

\* A place of a task that has an e-mail.
Busy(p, s) == tasks[p][s].at # "idle"

\* What the type invariant leaves open: an e-mail in hand is an e-mail.
InHand ==
  /\ \A p \in Processes : loop[p].at = "fetch" => loop[p].email \in Emails
  /\ \A p \in Processes, s \in Slots : Busy(p, s) => tasks[p][s].email \in Emails

Typed == TypeOK /\ InHand

\* Updating one task keeps the table of tasks typed.
LEMMA TaskUpdate ==
  ASSUME NEW m \in TaskMap, NEW p \in Processes, NEW s \in Slots, NEW r \in TaskRecs
  PROVE  [m EXCEPT ![p][s] = r] \in TaskMap
  BY DEF TaskMap

\* Moving one task to another place keeps the table of tasks typed.
LEMMA PlaceUpdate ==
  ASSUME NEW m \in TaskMap, NEW p \in Processes, NEW s \in Slots,
         NEW place \in TaskPlaces
  PROVE  [m EXCEPT ![p][s].at = place] \in TaskMap
  <1> DEFINE r == m[p][s]
  <1>1. r \in TaskRecs
    BY DEF TaskMap
  <1>2. [r EXCEPT !.at = place] \in TaskRecs
    <2> HIDE DEF r
    <2> QED
      BY <1>1 DEF TaskRecs
  <1>3. [m EXCEPT ![p][s].at = place] = [m EXCEPT ![p][s] = [r EXCEPT !.at = place]]
    OBVIOUS
  <1> QED
    BY <1>2, <1>3, TaskUpdate

\* The record of an idle task is a task record.
LEMMA NoTaskType == NoTask \in TaskRecs
  BY DEF NoTask, TaskRecs, TaskPlaces

\* The record of a loop without an e-mail is a loop record.
LEMMA LoopAtType == \A place \in LoopPlaces : LoopAt(place) \in LoopRecs
  BY DEF LoopAt, LoopRecs

\* Every statement the adapters run on email_queue keeps its rows well formed.
LEMMA QueueTypes ==
  ASSUME QueueTypeOK, NEW e \in Emails,
         \/ \E t \in Times : Insert(e, t)
         \/ Claim(e) \/ Delete(e) \/ Hide(e) \/ Reappear(e)
         \/ UNCHANGED email_queue
  PROVE  QueueTypeOK'
  <1> DEFINE q == email_queue[e]
  <1>0. q \in Rows
    BY DEF QueueTypeOK
  <1>r. ASSUME NEW r \in Rows, email_queue' = [email_queue EXCEPT ![e] = r]
        PROVE  QueueTypeOK'
    BY <1>r DEF QueueTypeOK
  <1>1. CASE \E t \in Times : Insert(e, t)
    <2>1. PICK t \in Times : Insert(e, t)
      BY <1>1
    <2>2. t \in Nat
      BY TimesAssumption
    <2>3. [NoRow EXCEPT !.row = "queued", !.enqueued_at = t] \in Rows
      BY <2>2 DEF NoRow, Rows, RowStates, Hidings
    <2> QED
      BY <2>1, <2>3, <1>r DEF Insert
  <1>2. CASE Claim(e)
    <2>1. [q EXCEPT !.hidden = "claim", !.attempt_count = @ + 1] \in Rows
      <3> DEFINE n == q.attempt_count + 1
      <3> HIDE DEF q
      <3>1. n \in Nat
        BY <1>0 DEF Rows
      <3>2. [q EXCEPT !.hidden = "claim", !.attempt_count = n] \in Rows
        <4> HIDE DEF n
        <4> QED
          BY <1>0, <3>1 DEF Rows, Hidings
      <3> QED
        BY <3>2
    <2>2. email_queue' = [email_queue EXCEPT ![e] =
                            [q EXCEPT !.hidden = "claim", !.attempt_count = @ + 1]]
      BY <1>2 DEF Claim, QueueTypeOK
    <2> QED
      BY <2>1, <2>2, <1>r
  <1>3. CASE Delete(e)
    <2> DEFINE d == [q EXCEPT !.row = IF Queued(e) THEN "deleted" ELSE @,
                              !.hidden = IF Queued(e) THEN "no" ELSE @]
    <2>1. d \in Rows
      <3> HIDE DEF q
      <3> QED
        BY <1>0 DEF Rows, RowStates, Hidings
    <2>2. email_queue' = [email_queue EXCEPT ![e] = d]
      BY <1>3 DEF Delete, QueueTypeOK
    <2> HIDE DEF d
    <2> QED
      BY <2>1, <2>2, <1>r
  <1>4. CASE Hide(e)
    BY <1>4 DEF Hide, QueueTypeOK, Rows, Hidings
  <1>5. CASE Reappear(e)
    BY <1>5 DEF Reappear, QueueTypeOK, Rows, Hidings
  <1>6. CASE UNCHANGED email_queue
    BY <1>6 DEF QueueTypeOK
  <1> QED
    BY <1>1, <1>2, <1>3, <1>4, <1>5, <1>6

\* The counter of faults stays within its bound.
LEMMA FaultTypes ==
  ASSUME faults \in 0..MaxFaults, Fault \/ NoFault
  PROVE  faults' \in 0..MaxFaults
  BY DeliveryAssumption DEF Fault, NoFault

\* Publishing an event keeps the log well formed.
LEMMA EventTypesKept ==
  ASSUME events \in [Emails -> EventRecs], NEW e, NEW type \in EventTypes,
         faults \in 0..MaxFaults, TryPublish(e, type)
  PROVE  /\ events' \in [Emails -> EventRecs]
         /\ faults' \in 0..MaxFaults
  <1>1. CASE Publish(e, type) /\ NoFault
    BY <1>1, FaultTypes, ZenonT(30) DEF Publish, EventRecs, EventTypes
  <1>2. CASE Fault /\ UNCHANGED events
    BY <1>2, FaultTypes
  <1> QED
    BY <1>1, <1>2 DEF TryPublish

\* Moving a task, or ending it, keeps tasks and permits well formed and every
\* task's e-mail in place.
LEMMA MoveTypes ==
  ASSUME TypeOK, InHand, NEW p \in Processes, NEW s \in Slots, Busy(p, s),
         \/ \E place \in TaskPlaces : Goto(p, s, place)
         \/ Finish(p, s)
  PROVE  /\ tasks' \in TaskMap
         /\ permits' \in [Processes -> Nat]
         /\ \A q \in Processes, r \in Slots : Busy(q, r)' => tasks'[q][r].email \in Emails
  <1>1. tasks \in TaskMap
    BY DEF TypeOK, TaskMap
  <1>2. CASE \E place \in TaskPlaces : Goto(p, s, place)
    <2>1. PICK place \in TaskPlaces : Goto(p, s, place)
      BY <1>2
    <2>2. tasks' \in TaskMap
      BY <1>1, <2>1, PlaceUpdate DEF Goto
    <2>3. \A q \in Processes, r \in Slots :
            /\ tasks'[q][r].email = tasks[q][r].email
            /\ q # p \/ r # s => tasks'[q][r] = tasks[q][r]
      BY <1>1, <2>1 DEF Goto, TaskMap, TaskRecs
    <2> QED
      BY <2>1, <2>2, <2>3 DEF Goto, TypeOK, InHand, Busy
  <1>3. CASE Finish(p, s)
    <2>1. tasks' \in TaskMap
      BY <1>1, <1>3, TaskUpdate, NoTaskType DEF Finish
    <2>2. \A q \in Processes, r \in Slots :
            tasks'[q][r] = IF q = p /\ r = s THEN NoTask ELSE tasks[q][r]
      BY <1>1, <1>3 DEF Finish, TaskMap
    <2>3. permits' \in [Processes -> Nat]
      BY <1>3 DEF Finish, TypeOK
    <2> QED
      BY <2>1, <2>2, <2>3 DEF InHand, Busy, NoTask
  <1> QED
    BY <1>2, <1>3

\* The initial states are well typed.
LEMMA TypedInit == Init => TypeOK /\ InHand
  <1> SUFFICES ASSUME Init PROVE TypeOK /\ InHand
    OBVIOUS
  <1>1. QueueTypeOK
    BY DEF Init, QueueInit, QueueTypeOK, NoRow, Rows, RowStates, Hidings
  <1>2. /\ attachments \in [Emails -> SUBSET Blobs]
        /\ blobs \in SUBSET Blobs
        /\ faults \in 0..MaxFaults
    BY DeliveryAssumption DEF Init
  <1>3. events \in [Emails -> EventRecs]
    BY DEF Init, EventRecs, EventTypes
  <1>4. /\ loop \in [Processes -> LoopRecs]
        /\ permits \in [Processes -> Nat]
        /\ tasks \in [Processes -> [Slots -> TaskRecs]]
    BY NoTaskType, LoopAtType, DeliveryAssumption DEF Init, LoopPlaces
  <1>5. InHand
    BY DEF Init, InHand, Busy, NoTask, LoopAt
  <1> QED
    BY <1>1, <1>2, <1>3, <1>4, <1>5 DEF TypeOK, Init

\* Every step keeps the types.
LEMMA TypedNext == TypeOK /\ InHand /\ [Next]_vars => TypeOK' /\ InHand'
  <1> SUFFICES ASSUME TypeOK, InHand, [Next]_vars
               PROVE  TypeOK' /\ InHand'
    OBVIOUS
  <1>t. tasks \in TaskMap
    BY DEF TypeOK, TaskMap
  <1>loop. ASSUME NEW p \in Processes, NEW place \in LoopPlaces,
                  place # "fetch", loop' = [loop EXCEPT ![p] = LoopAt(place)]
           PROVE  /\ loop' \in [Processes -> LoopRecs]
                  /\ \A q \in Processes :
                       loop'[q].at = "fetch" => loop'[q].email \in Emails
    <2>1. LoopAt(place) \in LoopRecs /\ LoopAt(place).at # "fetch"
      BY <1>loop, LoopAtType DEF LoopAt
    <2> QED
      BY <1>loop, <2>1 DEF TypeOK, InHand
  <1>1. ASSUME NEW e \in Emails, PublishQueued(e)
        PROVE  TypeOK' /\ InHand'
    BY <1>1, EventTypesKept
    DEF PublishQueued, TypeOK, InHand, Busy, EventTypes, QueueTypeOK
  <1>2. ASSUME NEW e \in Emails, Lapse(e)
        PROVE  TypeOK' /\ InHand'
    <2>1. QueueTypeOK' /\ faults' \in 0..MaxFaults
      BY <1>2, QueueTypes, FaultTypes DEF Lapse, TypeOK
    <2> QED
      BY <1>2, <2>1 DEF Lapse, TypeOK, InHand, Busy
  <1>3. ASSUME NEW e \in Emails, NEW t \in Times, Enqueue(e, t)
        PROVE  TypeOK' /\ InHand'
    <2>1. QueueTypeOK'
      BY <1>3, QueueTypes DEF Enqueue, TypeOK
    <2> QED
      BY <1>3, <2>1 DEF Enqueue, TypeOK, InHand, Busy
  <1>4. ASSUME NEW p \in Processes, Acquire(p)
        PROVE  TypeOK' /\ InHand'
    <2>1. permits' \in [Processes -> Nat]
      BY <1>4 DEF Acquire, TypeOK
    <2>2. /\ loop' \in [Processes -> LoopRecs]
          /\ \A q \in Processes : loop'[q].at = "fetch" => loop'[q].email \in Emails
      BY <1>4, <1>loop DEF Acquire, LoopPlaces
    <2> QED
      BY <1>4, <2>1, <2>2
      DEF Acquire, store, TypeOK, InHand, Busy, QueueTypeOK
  <1>5. ASSUME NEW p \in Processes, NEW e \in Emails, TryDequeue(p, e)
        PROVE  TypeOK' /\ InHand'
    <2>1. QueueTypeOK'
      BY <1>5, QueueTypes DEF TryDequeue, TypeOK
    <2> DEFINE r == [at |-> "fetch", email |-> e,
                     attempt |-> email_queue[e].attempt_count + 1]
    <2>2. r \in LoopRecs
      BY DEF LoopRecs, LoopPlaces, TypeOK, QueueTypeOK, Rows
    <2>3. loop' = [loop EXCEPT ![p] = r] /\ r.email \in Emails
      BY <1>5 DEF TryDequeue
    <2>4. /\ loop' \in [Processes -> LoopRecs]
          /\ \A q \in Processes : loop'[q].at = "fetch" => loop'[q].email \in Emails
      <3> HIDE DEF r
      <3> QED
        BY <2>2, <2>3 DEF TypeOK, InHand
    <2> QED
      BY <1>5, <2>1, <2>4 DEF TryDequeue, TypeOK, InHand, Busy
  <1>6. ASSUME NEW p \in Processes, NEW s \in Slots, Spawn(p, s)
        PROVE  TypeOK' /\ InHand'
    <2> DEFINE r == [at |-> "publish_sending", email |-> loop[p].email,
                     attempt |-> loop[p].attempt,
                     cleanup |-> attachments[loop[p].email]]
    <2>1. loop[p].email \in Emails /\ loop[p].attempt \in Nat
      BY <1>6 DEF Spawn, InHand, TypeOK, LoopRecs
    <2>2. r \in TaskRecs /\ r.email \in Emails
      BY <2>1 DEF TypeOK, TaskRecs, TaskPlaces
    <2>3. tasks' = [tasks EXCEPT ![p][s] = r]
      BY <1>6 DEF Spawn
    <2>4. /\ tasks' \in TaskMap
          /\ \A q \in Processes, i \in Slots :
               Busy(q, i)' => tasks'[q][i].email \in Emails
      <3> HIDE DEF r
      <3> QED
        BY <1>t, <2>2, <2>3, TaskUpdate DEF InHand, Busy, TaskMap
    <2>5. /\ loop' \in [Processes -> LoopRecs]
          /\ \A q \in Processes : loop'[q].at = "fetch" => loop'[q].email \in Emails
      BY <1>6, <1>loop DEF Spawn, LoopPlaces
    <2> QED
      BY <1>6, <2>4, <2>5 DEF Spawn, store, TypeOK, InHand, TaskMap, QueueTypeOK
  <1>7. ASSUME NEW p \in Processes, DequeueFails(p)
        PROVE  TypeOK' /\ InHand'
    <2>1. permits' \in [Processes -> Nat]
      BY <1>7 DEF DequeueFails, TypeOK
    <2>2. /\ loop' \in [Processes -> LoopRecs]
          /\ \A q \in Processes : loop'[q].at = "fetch" => loop'[q].email \in Emails
      BY <1>7, <1>loop DEF DequeueFails, LoopPlaces
    <2> QED
      BY <1>7, <2>1, <2>2, FaultTypes
      DEF DequeueFails, store, TypeOK, InHand, Busy, QueueTypeOK
  <1>8. ASSUME NEW p \in Processes, WakeUp(p) \/ Drained(p)
        PROVE  TypeOK' /\ InHand'
    BY <1>8, <1>loop
    DEF WakeUp, Drained, store, TypeOK, InHand, Busy, QueueTypeOK, LoopPlaces
  <1>9. ASSUME NEW p \in Processes, Cancel(p)
        PROVE  TypeOK' /\ InHand'
    <2>1. permits' \in [Processes -> Nat]
      BY <1>9 DEF Cancel, TypeOK
    <2>2. /\ loop' \in [Processes -> LoopRecs]
          /\ \A q \in Processes : loop'[q].at = "fetch" => loop'[q].email \in Emails
      BY <1>9, <1>loop DEF Cancel, LoopPlaces
    <2> QED
      BY <1>9, <2>1, <2>2, FaultTypes
      DEF Cancel, store, TypeOK, InHand, Busy, QueueTypeOK
  <1>10. ASSUME NEW p \in Processes, Restart(p)
         PROVE  TypeOK' /\ InHand'
    BY <1>10, <1>loop, DeliveryAssumption
    DEF Restart, store, TypeOK, InHand, Busy, QueueTypeOK, LoopPlaces
  <1>11. ASSUME NEW p \in Processes, Crash(p)
         PROVE  TypeOK' /\ InHand'
    <2>1. /\ tasks' \in TaskMap
          /\ \A q \in Processes, i \in Slots :
               Busy(q, i)' => tasks'[q][i].email \in Emails
      BY <1>11, <1>t, NoTaskType DEF Crash, TaskMap, InHand, Busy, NoTask
    <2> QED
      BY <1>11, <2>1, <1>loop, FaultTypes, DeliveryAssumption
      DEF Crash, store, TypeOK, InHand, TaskMap, QueueTypeOK, LoopPlaces
  <1>12. ASSUME NEW p \in Processes, NEW s \in Slots, TaskStep(p, s)
         PROVE  TypeOK' /\ InHand'
    <2>1. Busy(p, s) /\ tasks[p][s].email \in Emails
      <3>1. Busy(p, s)
        BY <1>12 DEF TaskStep, PublishSending, Execute, Send, Ack, ClearRefs,
                     DeleteBlob, Nack, PublishOutcome, LastEvent, At, Busy
      <3> QED
        BY <3>1 DEF InHand
    <2> DEFINE TasksOK ==
                 /\ tasks' \in TaskMap
                 /\ permits' \in [Processes -> Nat]
                 /\ \A q \in Processes, i \in Slots :
                      Busy(q, i)' => tasks'[q][i].email \in Emails
    <2> USE DEF At
    <2>m. ASSUME \/ \E place \in TaskPlaces : Goto(p, s, place)
                 \/ Finish(p, s)
          PROVE  TasksOK
      BY <2>1, <2>m, MoveTypes
    <2>e. AfterError(tasks[p][s].attempt) \in TaskPlaces
      BY DEF AfterError, TaskPlaces
    <2>2. CASE PublishSending(p, s)
      <3>1. TasksOK
        BY <2>2, <2>m DEF PublishSending, TaskPlaces
      <3>2. events' \in [Emails -> EventRecs] /\ faults' \in 0..MaxFaults
        BY <2>2, EventTypesKept DEF PublishSending, TypeOK, EventTypes
      <3> QED
        BY <2>2, <3>1, <3>2 DEF PublishSending, TypeOK, InHand, TaskMap, QueueTypeOK
    <2>3. CASE Execute(p, s)
      <3>1. TasksOK
        BY <2>3, <2>e, <2>m DEF Execute, TaskPlaces
      <3> QED
        BY <2>3, <3>1 DEF Execute, store, TypeOK, InHand, TaskMap, QueueTypeOK
    <2>4. CASE Send(p, s)
      <3>1. TasksOK
        BY <2>4, <2>e, <2>m DEF Send, TaskPlaces
      <3>2. accepted' \in [Emails -> Nat] /\ faults' \in 0..MaxFaults
        BY <2>4, FaultTypes DEF Send, TypeOK
      <3> QED
        BY <2>4, <3>1, <3>2 DEF Send, store, TypeOK, InHand, TaskMap, QueueTypeOK
    <2>5. CASE Ack(p, s)
      <3>1. TasksOK
        BY <2>5, <2>m DEF Ack, TaskPlaces
      <3>2. QueueTypeOK' /\ faults' \in 0..MaxFaults
        BY <2>1, <2>5, QueueTypes, FaultTypes DEF Ack, TypeOK
      <3> QED
        BY <2>5, <3>1, <3>2 DEF Ack, TypeOK, InHand, TaskMap
    <2>6. CASE ClearRefs(p, s)
      <3>1. TasksOK
        BY <2>6, <2>m DEF ClearRefs, TaskPlaces
      <3>2. attachments' \in [Emails -> SUBSET Blobs] /\ faults' \in 0..MaxFaults
        BY <2>6, FaultTypes DEF ClearRefs, TypeOK
      <3> QED
        BY <2>6, <3>1, <3>2 DEF ClearRefs, TypeOK, InHand, TaskMap, QueueTypeOK
    <2>7. CASE DeleteBlob(p, s)
      <3>1. TasksOK
        <4>1. CASE Goto(p, s, "publish_sent")
          BY <4>1, <2>m DEF TaskPlaces
        <4>2. ASSUME NEW b, UNCHANGED permits,
                     tasks' = [tasks EXCEPT ![p][s].cleanup = @ \ {b}]
              PROVE  TasksOK
          <5> DEFINE r == tasks[p][s]
                     c == r.cleanup \ {b}
          <5>1. r \in TaskRecs /\ r.email \in Emails /\ c \in SUBSET Blobs
            BY <1>t, <2>1 DEF TaskMap, TaskRecs
          <5>2. [r EXCEPT !.cleanup = c] \in TaskRecs
            <6> HIDE DEF r, c
            <6> QED
              BY <5>1 DEF TaskRecs
          <5>3. tasks' = [tasks EXCEPT ![p][s] = [r EXCEPT !.cleanup = c]]
            BY <4>2
          <5>4. tasks' \in TaskMap
            BY <1>t, <5>2, <5>3, TaskUpdate
          <5>5. \A q \in Processes, i \in Slots :
                  tasks'[q][i].email = tasks[q][i].email /\ tasks'[q][i].at = tasks[q][i].at
            BY <1>t, <4>2 DEF TaskMap, TaskRecs
          <5> QED
            BY <4>2, <5>4, <5>5 DEF InHand, Busy, TypeOK
        <4> QED
          BY <2>7, <4>1, <4>2 DEF DeleteBlob
      <3>2. blobs' \in SUBSET Blobs /\ faults' \in 0..MaxFaults
        BY <2>7, FaultTypes DEF DeleteBlob, TypeOK
      <3> QED
        BY <2>7, <3>1, <3>2 DEF DeleteBlob, TypeOK, InHand, TaskMap, QueueTypeOK
    <2>8. CASE Nack(p, s)
      <3>1. TasksOK
        BY <2>8, <2>m DEF Nack, TaskPlaces
      <3>2. QueueTypeOK' /\ faults' \in 0..MaxFaults
        BY <2>1, <2>8, QueueTypes, FaultTypes DEF Nack, TypeOK
      <3> QED
        BY <2>8, <3>1, <3>2 DEF Nack, TypeOK, InHand, TaskMap
    <2>9. CASE PublishOutcome(p, s)
      <3>1. TasksOK
        BY <2>9, <2>m DEF PublishOutcome
      <3>2. events' \in [Emails -> EventRecs] /\ faults' \in 0..MaxFaults
        BY <2>9, EventTypesKept DEF PublishOutcome, LastEvent, TypeOK, EventTypes
      <3> QED
        BY <2>9, <3>1, <3>2 DEF PublishOutcome, TypeOK, InHand, TaskMap, QueueTypeOK
    <2> QED
      BY <1>12, <2>2, <2>3, <2>4, <2>5, <2>6, <2>7, <2>8, <2>9 DEF TaskStep
  <1>13. CASE UNCHANGED vars
    BY <1>13 DEF vars, TypeOK, InHand, Busy, QueueTypeOK
  <1> QED
    BY <1>1, <1>2, <1>3, <1>4, <1>5, <1>6, <1>7, <1>8, <1>9, <1>10, <1>11,
       <1>12, <1>13
    DEF Next, LoopStep

\* Delivery is well typed: every statement of the queue, of Worker::run and of
\* process_one keeps every variable within its type.
THEOREM TypeCorrect == Spec => []TypeOK
  <1>1. Spec => [](TypeOK /\ InHand)
    BY TypedInit, TypedNext, PTL DEF Spec
  <1> QED
    BY <1>1, PTL

-----------------------------------------------------------------------------
(* Safety. The invariant is inductive because it says what each place of a *)
(* task already knows of its e-mail, and because what it knows is never    *)
(* undone by another task: rows are not reinserted, and attempt_count and  *)
(* accepted only grow.                                                     *)

TaskInv(p, s) ==
  LET t == tasks[p][s]
      e == t.email
  IN t.at # "idle" =>
       /\ email_queue[e].row # "none"
       /\ t.attempt <= email_queue[e].attempt_count
       /\ t.cleanup \subseteq Attached[e]
       /\ t.at = "ack" => accepted[e] > 0
       /\ t.at = "ack_failed" => Exhausted(e)
       /\ t.at \in {"set_attachments", "delete_blobs", "publish_sent"} =>
            Deleted(e) /\ accepted[e] > 0
       /\ t.at = "publish_failed" => Deleted(e) /\ Exhausted(e)

LoopInv(p) ==
  loop[p].at = "fetch" =>
    /\ email_queue[loop[p].email].row # "none"
    /\ loop[p].attempt <= email_queue[loop[p].email].attempt_count

RefsInv(e) ==
  /\ attachments[e] \subseteq Attached[e]
  /\ ~Deleted(e) => attachments[e] = Attached[e] /\ Attached[e] \subseteq blobs

OutcomeInv(e) ==
  /\ Deleted(e) => accepted[e] > 0 \/ Exhausted(e)
  /\ "delivery.succeeded" \in events[e].published => Deleted(e) /\ accepted[e] > 0
  /\ "delivery.failed" \in events[e].published => Deleted(e) /\ Exhausted(e)

SafetyInv ==
  /\ \A p \in Processes, s \in Slots : TaskInv(p, s)
  /\ \A p \in Processes : LoopInv(p)
  /\ \A e \in Emails : RefsInv(e) /\ OutcomeInv(e)

\* What no step undoes about an e-mail.
Forward(e) ==
  /\ email_queue[e].row # "none" => email_queue'[e].row # "none"
  /\ Deleted(e) => Deleted(e)'
  /\ email_queue[e].attempt_count <= email_queue'[e].attempt_count
  /\ accepted[e] <= accepted'[e]
  /\ Exhausted(e) => Exhausted(e)'

\* What each statement on email_queue does to the row of any e-mail f.
LEMMA RowEffects ==
  ASSUME QueueTypeOK, NEW e \in Emails, NEW f \in Emails
  PROVE  /\ (\E t \in Times : Insert(e, t)) =>
              IF f = e THEN email_queue[f] = NoRow /\ email_queue'[f].row = "queued"
                            /\ email_queue'[f].attempt_count = 0
              ELSE email_queue'[f] = email_queue[f]
         /\ Claim(e) \/ Hide(e) \/ Reappear(e) =>
              /\ email_queue'[f].row = email_queue[f].row
              /\ email_queue'[f].attempt_count \in
                   {email_queue[f].attempt_count, email_queue[f].attempt_count + 1}
         /\ Delete(e) =>
              /\ email_queue'[f].attempt_count = email_queue[f].attempt_count
              /\ email_queue'[f].row = IF f = e /\ email_queue[f].row = "queued"
                                         THEN "deleted" ELSE email_queue[f].row
         /\ Claim(e) =>
              /\ email_queue[e].row = "queued"
              /\ email_queue'[e].attempt_count = email_queue[e].attempt_count + 1
  <1> USE DEF QueueTypeOK, Rows
  <1>1. ASSUME \E t \in Times : Insert(e, t)
        PROVE  IF f = e THEN email_queue[f] = NoRow /\ email_queue'[f].row = "queued"
                              /\ email_queue'[f].attempt_count = 0
               ELSE email_queue'[f] = email_queue[f]
    BY <1>1 DEF Insert, NoRow
  <1>2. ASSUME Claim(e)
        PROVE  /\ email_queue[e].row = "queued"
               /\ email_queue'[e].attempt_count = email_queue[e].attempt_count + 1
               /\ email_queue'[f].row = email_queue[f].row
               /\ email_queue'[f].attempt_count \in
                    {email_queue[f].attempt_count, email_queue[f].attempt_count + 1}
    BY <1>2 DEF Claim, NextUp, Visible, Queued
  <1>3. ASSUME Hide(e) \/ Reappear(e)
        PROVE  /\ email_queue'[f].row = email_queue[f].row
               /\ email_queue'[f].attempt_count = email_queue[f].attempt_count
    BY <1>3 DEF Hide, Reappear
  <1>4. ASSUME Delete(e)
        PROVE  /\ email_queue'[f].attempt_count = email_queue[f].attempt_count
               /\ email_queue'[f].row = IF f = e /\ email_queue[f].row = "queued"
                                          THEN "deleted" ELSE email_queue[f].row
    BY <1>4 DEF Delete, Queued
  <1> QED
    BY <1>1, <1>2, <1>3, <1>4

QueueChange(e) ==
  \/ \E t \in Times : Insert(e, t)
  \/ Claim(e)
  \/ Delete(e)
  \/ Hide(e)
  \/ Reappear(e)

\* A task of the e-mail hands it to an SMTP server.
Acceptance(e) ==
  /\ accepted' = [accepted EXCEPT ![e] = @ + 1]
  /\ UNCHANGED email_queue
  /\ \E p \in Processes, s \in Slots : Busy(p, s) /\ tasks[p][s].email = e

QueueOrAccept ==
  \/ UNCHANGED <<email_queue, accepted>>
  \/ \E e \in Emails : (QueueChange(e) /\ UNCHANGED accepted) \/ Acceptance(e)

\* A step runs at most one statement on the queue or has at most one copy
\* accepted, never both.
LEMMA QueueSteps ==
  ASSUME TypeOK, InHand, [Next]_vars
  PROVE  QueueOrAccept
  <1>1. ASSUME NEW p \in Processes, NEW s \in Slots, TaskStep(p, s)
        PROVE  QueueOrAccept
    <2>1. Busy(p, s)
      BY <1>1 DEF TaskStep, PublishSending, Execute, Send, Ack, ClearRefs,
                  DeleteBlob, Nack, PublishOutcome, LastEvent, At, Busy
    <2>2. tasks[p][s].email \in Emails
      BY <2>1 DEF InHand
    <2>3. CASE Send(p, s)
      BY <2>1, <2>2, <2>3 DEF Send, store, QueueOrAccept, Acceptance
    <2>4. CASE Ack(p, s)
      <3>1. UNCHANGED accepted /\ (UNCHANGED email_queue \/ Delete(tasks[p][s].email))
        BY <2>4 DEF Ack
      <3> QED
        BY <2>2, <3>1 DEF QueueOrAccept, QueueChange
    <2>5. CASE Nack(p, s)
      <3>1. UNCHANGED accepted /\ (UNCHANGED email_queue \/ Hide(tasks[p][s].email))
        BY <2>5 DEF Nack
      <3> QED
        BY <2>2, <3>1 DEF QueueOrAccept, QueueChange
    <2>6. CASE \/ PublishSending(p, s) \/ Execute(p, s) \/ ClearRefs(p, s)
               \/ DeleteBlob(p, s) \/ PublishOutcome(p, s)
      BY <2>6 DEF PublishSending, Execute, ClearRefs, DeleteBlob, PublishOutcome,
                  store, QueueOrAccept
    <2> QED
      BY <1>1, <2>3, <2>4, <2>5, <2>6 DEF TaskStep
  <1>2. ASSUME NEW p \in Processes, LoopStep(p) \/ Cancel(p) \/ Crash(p)
        PROVE  QueueOrAccept
    <2>1. CASE \E e \in Emails : TryDequeue(p, e)
      BY <2>1 DEF TryDequeue, QueueOrAccept, QueueChange
    <2>2. CASE \/ Acquire(p) \/ DequeueFails(p) \/ WakeUp(p) \/ Drained(p) \/ Restart(p)
               \/ \E s \in Slots : Spawn(p, s)
               \/ Cancel(p) \/ Crash(p)
      BY <2>2 DEF Acquire, DequeueFails, WakeUp, Drained, Restart, Spawn, Cancel, Crash,
                  store, QueueOrAccept
    <2> QED
      BY <1>2, <2>1, <2>2 DEF LoopStep
  <1>3. ASSUME NEW e \in Emails,
               PublishQueued(e) \/ Lapse(e) \/ \E t \in Times : Enqueue(e, t)
        PROVE  QueueOrAccept
    BY <1>3 DEF PublishQueued, Lapse, Enqueue, QueueOrAccept, QueueChange
  <1>4. CASE UNCHANGED vars
    BY <1>4 DEF vars, QueueOrAccept
  <1> QED
    BY <1>1, <1>2, <1>3, <1>4 DEF Next

\* No step undoes what is known of an e-mail.
LEMMA AlwaysForward ==
  ASSUME TypeOK, InHand, [Next]_vars, NEW f \in Emails
  PROVE  Forward(f)
  <1>0. /\ email_queue[f].attempt_count \in Nat
        /\ email_queue[f].row \in RowStates
        /\ accepted[f] \in Nat
    BY DEF TypeOK, QueueTypeOK, Rows
  <1>1. accepted[f] <= accepted'[f]
    BY <1>0, QueueSteps DEF QueueOrAccept, Acceptance, TypeOK
  <1>2. /\ email_queue[f].row # "none" => email_queue'[f].row # "none"
        /\ Deleted(f) => Deleted(f)'
        /\ email_queue[f].attempt_count <= email_queue'[f].attempt_count
    <2>1. CASE UNCHANGED email_queue
      BY <1>0, <2>1 DEF Deleted
    <2>2. ASSUME NEW e \in Emails, QueueChange(e)
          PROVE  /\ email_queue[f].row # "none" => email_queue'[f].row # "none"
                 /\ Deleted(f) => Deleted(f)'
                 /\ email_queue[f].attempt_count <= email_queue'[f].attempt_count
      BY <1>0, <2>2, RowEffects DEF QueueChange, Deleted, NoRow, TypeOK
    <2> QED
      BY <2>1, <2>2, QueueSteps DEF QueueOrAccept, Acceptance
  <1>3. email_queue'[f].attempt_count \in Nat
    BY TypedNext DEF TypeOK, QueueTypeOK, Rows
  <1>4. Exhausted(f) => Exhausted(f)'
    BY <1>0, <1>2, <1>3, DeliveryAssumption DEF Exhausted
  <1> QED
    BY <1>1, <1>2, <1>4 DEF Forward

\* Goto changes the place of one task, and nothing else of any task.
LEMMA GotoEffect ==
  ASSUME tasks \in TaskMap, NEW p \in Processes, NEW s \in Slots, NEW place, Goto(p, s, place)
  PROVE  /\ tasks'[p][s].at = place
         /\ tasks'[p][s].email = tasks[p][s].email
         /\ tasks'[p][s].attempt = tasks[p][s].attempt
         /\ tasks'[p][s].cleanup = tasks[p][s].cleanup
         /\ \A q \in Processes, i \in Slots :
              q # p \/ i # s => tasks'[q][i] = tasks[q][i]
  BY DEF Goto, TaskMap, TaskRecs

\* Finish makes one task idle and leaves the others alone.
LEMMA FinishEffect ==
  ASSUME tasks \in TaskMap, NEW p \in Processes, NEW s \in Slots, Finish(p, s)
  PROVE  /\ tasks'[p][s].at = "idle"
         /\ \A q \in Processes, i \in Slots :
              q # p \/ i # s => tasks'[q][i] = tasks[q][i]
  BY DEF Finish, TaskMap, NoTask

\* What a task and a loop know of their e-mails survives every step that does
\* not touch them.
LEMMA Untouched ==
  ASSUME TypeOK, InHand, SafetyInv, [Next]_vars, NEW p \in Processes
  PROVE  /\ \A s \in Slots : tasks'[p][s] = tasks[p][s] => TaskInv(p, s)'
         /\ \A s \in Slots : tasks'[p][s].at = "idle" => TaskInv(p, s)'
         /\ loop'[p] = loop[p] => LoopInv(p)'
         /\ loop'[p].at # "fetch" => LoopInv(p)'
  <1>1. ASSUME NEW s \in Slots, tasks'[p][s] = tasks[p][s]
        PROVE  TaskInv(p, s)'
    <2> DEFINE e == tasks[p][s].email
    <2>1. CASE tasks[p][s].at = "idle"
      BY <1>1, <2>1 DEF TaskInv
    <2>2. CASE tasks[p][s].at # "idle"
      <3>1. e \in Emails
        BY <2>2 DEF InHand, Busy
      <3>2. Forward(e)
        BY <3>1, AlwaysForward
      <3>3. /\ tasks[p][s].attempt \in Nat
            /\ email_queue[e].attempt_count \in Nat
            /\ email_queue'[e].attempt_count \in Nat
            /\ accepted[e] \in Nat /\ accepted'[e] \in Nat
        BY <3>1, TypedNext DEF TypeOK, QueueTypeOK, Rows, TaskRecs
      <3>4. TaskInv(p, s)
        BY DEF SafetyInv
      <3>5. /\ email_queue'[e].row # "none"
            /\ tasks[p][s].attempt <= email_queue'[e].attempt_count
            /\ tasks[p][s].cleanup \subseteq Attached[e]
            /\ accepted[e] > 0 => accepted'[e] > 0
        BY <2>2, <3>2, <3>3, <3>4 DEF Forward, TaskInv
      <3> QED
        BY <1>1, <2>2, <3>2, <3>4, <3>5 DEF Forward, TaskInv
    <2> QED
      BY <2>1, <2>2
  <1>2. ASSUME NEW s \in Slots, tasks'[p][s].at = "idle"
        PROVE  TaskInv(p, s)'
    BY <1>2 DEF TaskInv
  <1>3. ASSUME loop'[p] = loop[p], loop[p].at = "fetch"
        PROVE  LoopInv(p)'
    <2> DEFINE e == loop[p].email
    <2>1. e \in Emails /\ LoopInv(p)
      BY <1>3 DEF InHand, SafetyInv
    <2>2. Forward(e)
      BY <2>1, AlwaysForward
    <2>3. /\ loop[p].attempt \in Nat
          /\ email_queue[e].attempt_count \in Nat
          /\ email_queue'[e].attempt_count \in Nat
      BY <2>1, TypedNext DEF TypeOK, QueueTypeOK, Rows, LoopRecs
    <2> QED
      BY <1>3, <2>1, <2>2, <2>3 DEF Forward, LoopInv
  <1>4. ASSUME loop'[p].at # "fetch"
        PROVE  LoopInv(p)'
    BY <1>4 DEF LoopInv
  <1> QED
    BY <1>1, <1>2, <1>3, <1>4

\* What is known of an e-mail survives every step that neither deletes its row
\* nor publishes its outcome nor touches its attachments.
LEMMA UntouchedEmail ==
  ASSUME TypeOK, InHand, SafetyInv, [Next]_vars, NEW e \in Emails
  PROVE  /\ UNCHANGED <<attachments, blobs>> => RefsInv(e)'
         /\ /\ Deleted(e)' => Deleted(e)
            /\ events'[e].published \intersect Terminal
                 \subseteq events[e].published
            => OutcomeInv(e)'
  <1>1. Forward(e) /\ RefsInv(e) /\ OutcomeInv(e)
    BY AlwaysForward DEF SafetyInv
  <1>2. accepted[e] \in Nat /\ accepted'[e] \in Nat
    BY TypedNext DEF TypeOK
  <1>3. UNCHANGED <<attachments, blobs>> => RefsInv(e)'
    BY <1>1 DEF Forward, RefsInv
  <1>4. accepted[e] > 0 => accepted'[e] > 0
    BY <1>1, <1>2 DEF Forward
  <1>5. ASSUME Deleted(e)' => Deleted(e),
               events'[e].published \intersect Terminal \subseteq events[e].published
        PROVE  OutcomeInv(e)'
    BY <1>1, <1>4, <1>5 DEF Forward, OutcomeInv, Terminal
  <1> QED
    BY <1>3, <1>5

\* A publication adds its event to the log of its e-mail, or nothing.
LEMMA PublishEffect ==
  ASSUME TypeOK, NEW e \in Emails, NEW type, TryPublish(e, type), NEW f \in Emails
  PROVE  events'[f].published \subseteq
           events[f].published \union (IF f = e THEN {type} ELSE {})
  BY DEF TryPublish, Publish, TypeOK, EventRecs

\* The invariant holds initially.
LEMMA SafetyInit == Init => SafetyInv
  <1> SUFFICES ASSUME Init PROVE SafetyInv
    OBVIOUS
  <1>1. \A p \in Processes, s \in Slots : TaskInv(p, s)
    BY DEF Init, TaskInv, NoTask
  <1>2. \A p \in Processes : LoopInv(p)
    BY DEF Init, LoopInv, LoopAt
  <1>3. \A e \in Emails : RefsInv(e) /\ OutcomeInv(e)
    BY DeliveryAssumption DEF Init, QueueInit, NoRow, RefsInv, OutcomeInv, Deleted
  <1> QED
    BY <1>1, <1>2, <1>3 DEF SafetyInv

\* Submissions, the worker loops and time keep the invariant.
LEMMA SafetyOutside ==
  ASSUME TypeOK, InHand, SafetyInv, Next,
         \/ \E e \in Emails : PublishQueued(e) \/ Lapse(e) \/ \E t \in Times : Enqueue(e, t)
         \/ \E p \in Processes : LoopStep(p) \/ Cancel(p) \/ Crash(p)
  PROVE  SafetyInv'
  <1> USE Next
  <1>q. QueueTypeOK
    BY DEF TypeOK
  <1>1. ASSUME NEW e \in Emails, PublishQueued(e)
        PROVE  SafetyInv'
    <2>1. \A f \in Emails : events'[f].published \intersect Terminal \subseteq events[f].published
      BY <1>1, PublishEffect DEF PublishQueued, Terminal
    <2>2. \A f \in Emails : Deleted(f)' => Deleted(f)
      BY <1>1 DEF PublishQueued, Deleted
    <2>3. UNCHANGED <<attachments, blobs, tasks, loop>>
      BY <1>1 DEF PublishQueued
    <2> QED
      BY <2>1, <2>2, <2>3, Untouched, UntouchedEmail DEF SafetyInv
  <1>2. ASSUME NEW e \in Emails, Lapse(e) \/ \E t \in Times : Enqueue(e, t)
        PROVE  SafetyInv'
    <2>1. Reappear(e) \/ \E t \in Times : Insert(e, t)
      BY <1>2 DEF Lapse, Enqueue
    <2>2. \A f \in Emails : Deleted(f)' => Deleted(f)
      BY <1>q, <2>1, RowEffects DEF Deleted
    <2>3. UNCHANGED <<attachments, blobs, events, tasks, loop>>
      BY <1>2 DEF Lapse, Enqueue
    <2> QED
      BY <2>2, <2>3, Untouched, UntouchedEmail DEF SafetyInv
  <1>3. ASSUME NEW p \in Processes, NEW e \in Emails, TryDequeue(p, e)
        PROVE  SafetyInv'
    <2>1. /\ Claim(e)
          /\ UNCHANGED <<attachments, blobs, events, tasks>>
          /\ loop' = [loop EXCEPT ![p] = [at |-> "fetch", email |-> e,
                                         attempt |-> email_queue[e].attempt_count + 1]]
      BY <1>3 DEF TryDequeue
    <2>2. \A f \in Emails : Deleted(f)' => Deleted(f)
      BY <1>q, <2>1, RowEffects DEF Deleted
    <2>3. LoopInv(p)'
      <3>1. /\ loop'[p].email = e
            /\ loop'[p].attempt = email_queue[e].attempt_count + 1
        BY <2>1 DEF TypeOK
      <3>2. /\ email_queue'[e].row = "queued"
            /\ email_queue'[e].attempt_count = email_queue[e].attempt_count + 1
            /\ email_queue[e].attempt_count \in Nat
        BY <1>q, <2>1, RowEffects DEF QueueTypeOK, Rows
      <3> QED
        BY <3>1, <3>2 DEF LoopInv
    <2>4. \A q \in Processes : q # p => loop'[q] = loop[q]
      BY <2>1 DEF TypeOK
    <2> QED
      BY <2>1, <2>2, <2>3, <2>4, Untouched, UntouchedEmail DEF SafetyInv
  <1>4. ASSUME NEW p \in Processes, NEW s \in Slots, Spawn(p, s)
        PROVE  SafetyInv'
    <2>1. /\ loop[p].at = "fetch"
          /\ tasks' = [tasks EXCEPT ![p][s] =
                         [at |-> "publish_sending", email |-> loop[p].email,
                          attempt |-> loop[p].attempt,
                          cleanup |-> attachments[loop[p].email]]]
          /\ loop' = [loop EXCEPT ![p] = LoopAt("acquire")]
          /\ UNCHANGED <<email_queue, attachments, blobs, events, accepted>>
      BY <1>4 DEF Spawn, store
    <2>2. TaskInv(p, s)'
      <3>1. /\ loop[p].email \in Emails
            /\ LoopInv(p)
            /\ RefsInv(loop[p].email)
        BY <2>1 DEF InHand, SafetyInv
      <3>2. tasks'[p][s] = [at |-> "publish_sending", email |-> loop[p].email,
                            attempt |-> loop[p].attempt,
                            cleanup |-> attachments[loop[p].email]]
        BY <2>1 DEF TypeOK
      <3> QED
        BY <2>1, <3>1, <3>2 DEF TaskInv, LoopInv, RefsInv
    <2>3. \A q \in Processes, i \in Slots :
            q # p \/ i # s => tasks'[q][i] = tasks[q][i]
      BY <2>1 DEF TypeOK
    <2>4. \A q \in Processes : loop'[q] = loop[q] \/ loop'[q].at # "fetch"
      BY <2>1 DEF TypeOK, LoopAt
    <2>5. \A f \in Emails : Deleted(f)' => Deleted(f)
      BY <2>1 DEF Deleted
    <2> QED
      BY <2>1, <2>2, <2>3, <2>4, <2>5, Untouched, UntouchedEmail DEF SafetyInv
  <1>5. ASSUME NEW p \in Processes,
               \/ Acquire(p) \/ DequeueFails(p) \/ WakeUp(p) \/ Drained(p)
               \/ Restart(p) \/ Cancel(p) \/ Crash(p)
        PROVE  SafetyInv'
    <2>1. UNCHANGED <<email_queue, attachments, blobs, events>>
      BY <1>5 DEF Acquire, DequeueFails, WakeUp, Drained, Restart, Cancel, Crash, store
    <2>2. \A q \in Processes : loop'[q] = loop[q] \/ loop'[q].at # "fetch"
      BY <1>5 DEF Acquire, DequeueFails, WakeUp, Drained, Restart, Cancel, Crash,
                  LoopAt, TypeOK
    <2>3. \A q \in Processes, i \in Slots :
            tasks'[q][i] = tasks[q][i] \/ tasks'[q][i].at = "idle"
      BY <1>5 DEF Acquire, DequeueFails, WakeUp, Drained, Restart, Cancel, Crash,
                  NoTask, TypeOK
    <2>4. \A f \in Emails : Deleted(f)' => Deleted(f)
      BY <2>1 DEF Deleted
    <2> QED
      BY <2>1, <2>2, <2>3, <2>4, Untouched, UntouchedEmail DEF SafetyInv
  <1> QED
    BY <1>1, <1>2, <1>3, <1>4, <1>5 DEF LoopStep

\* A step of one task keeps the invariant if the task's new place knows what it
\* should and no e-mail suffers.
LEMMA OneTask ==
  ASSUME TypeOK, InHand, SafetyInv, Next, NEW p \in Processes, NEW s \in Slots,
         UNCHANGED loop,
         \A q \in Processes, i \in Slots : q # p \/ i # s => tasks'[q][i] = tasks[q][i],
         TaskInv(p, s)',
         \A e \in Emails : RefsInv(e)' /\ OutcomeInv(e)'
  PROVE  SafetyInv'
  BY Untouched DEF SafetyInv

\* Every await of process_one keeps the invariant.
LEMMA SafetyTask ==
  ASSUME TypeOK, InHand, SafetyInv, Next,
         NEW p \in Processes, NEW s \in Slots, TaskStep(p, s)
  PROVE  SafetyInv'
  <1> USE Next
  <1> DEFINE t == tasks[p][s]
  <1>b. Busy(p, s)
    BY DEF TaskStep, PublishSending, Execute, Send, Ack, ClearRefs, DeleteBlob, Nack,
           PublishOutcome, LastEvent, At, Busy
  <1>e. PICK e \in Emails : e = tasks[p][s].email
    BY <1>b DEF InHand
  <1>i. TaskInv(p, s) /\ RefsInv(e) /\ OutcomeInv(e)
    BY <1>e DEF SafetyInv
  <1>t. tasks \in TaskMap /\ QueueTypeOK
    BY DEF TypeOK, TaskMap
  <1>f. Forward(e)
    BY <1>e, AlwaysForward
  <1>n. /\ t.attempt \in Nat
        /\ email_queue[e].attempt_count \in Nat
        /\ email_queue'[e].attempt_count \in Nat
        /\ accepted[e] \in Nat /\ accepted'[e] \in Nat
    BY <1>e, TypedNext DEF TypeOK, QueueTypeOK, Rows, TaskRecs
  <1>k. /\ email_queue'[e].row # "none"
        /\ t.attempt <= email_queue'[e].attempt_count
        /\ t.cleanup \subseteq Attached[e]
        /\ accepted[e] > 0 => accepted'[e] > 0
    BY <1>e, <1>b, <1>f, <1>i, <1>n DEF Forward, TaskInv, Busy
  <1>g. ASSUME NEW place, Goto(p, s, place),
               place = "ack" => accepted'[e] > 0,
               place = "ack_failed" => Exhausted(e)',
               place \in {"set_attachments", "delete_blobs", "publish_sent"} =>
                 Deleted(e)' /\ accepted'[e] > 0,
               place = "publish_failed" => Deleted(e)' /\ Exhausted(e)'
        PROVE  /\ TaskInv(p, s)'
               /\ \A q \in Processes, i \in Slots :
                    q # p \/ i # s => tasks'[q][i] = tasks[q][i]
    BY <1>e, <1>t, <1>k, <1>g, GotoEffect DEF TaskInv
  <1>d. ASSUME Finish(p, s)
        PROVE  /\ TaskInv(p, s)'
               /\ \A q \in Processes, i \in Slots :
                    q # p \/ i # s => tasks'[q][i] = tasks[q][i]
    BY <1>t, <1>d, FinishEffect DEF TaskInv
  <1>x. ASSUME t.attempt >= MAX_ATTEMPTS
        PROVE  Exhausted(e)'
    BY <1>k, <1>n, <1>x, DeliveryAssumption DEF Exhausted
  <1>a. /\ AfterError(t.attempt) \in {"ack_failed", "nack"}
        /\ AfterError(t.attempt) = "ack_failed" => Exhausted(e)'
    BY <1>x DEF AfterError
  <1>u. ASSUME UNCHANGED <<email_queue, events>>
        PROVE  \A f \in Emails : OutcomeInv(f)'
    <2>1. \A f \in Emails : Deleted(f)' => Deleted(f)
      BY <1>u DEF Deleted
    <2> QED
      BY <1>u, <2>1, UntouchedEmail
  <1>1. CASE PublishSending(p, s)
    <2>1. /\ TryPublish(e, "sending") /\ Goto(p, s, "execute")
          /\ UNCHANGED <<email_queue, attachments, blobs, accepted, loop>>
      BY <1>e, <1>1 DEF PublishSending
    <2>2. \A f \in Emails :
            events'[f].published \intersect Terminal \subseteq events[f].published
      BY <1>e, <2>1, PublishEffect DEF Terminal
    <2>3. \A f \in Emails : Deleted(f)' => Deleted(f)
      BY <2>1 DEF Deleted
    <2> QED
      BY <2>1, <2>2, <2>3, <1>g, UntouchedEmail, OneTask
  <1>2. CASE Execute(p, s)
    <2>1. /\ Goto(p, s, "send") \/ Goto(p, s, AfterError(t.attempt))
          /\ UNCHANGED <<email_queue, attachments, blobs, events, accepted, loop>>
      BY <1>2 DEF Execute, store
    <2>2. /\ TaskInv(p, s)'
          /\ \A q \in Processes, i \in Slots :
               q # p \/ i # s => tasks'[q][i] = tasks[q][i]
      <3>1. CASE Goto(p, s, "send")
        BY <3>1, <1>g
      <3>2. CASE Goto(p, s, AfterError(t.attempt))
        BY <3>2, <1>a, <1>g
      <3> QED
        BY <2>1, <3>1, <3>2
    <2> QED
      BY <2>1, <2>2, <1>u, UntouchedEmail, OneTask
  <1>3. CASE Send(p, s)
    <2>1. /\ UNCHANGED <<email_queue, attachments, blobs, events, loop>>
          /\ \/ e \notin Routable /\ Goto(p, s, "ack_failed")
             \/ Goto(p, s, "ack") /\ accepted' = [accepted EXCEPT ![e] = @ + 1]
             \/ Goto(p, s, AfterError(t.attempt))
             \/ Goto(p, s, "send")
      BY <1>e, <1>3 DEF Send, store
    <2>2. /\ TaskInv(p, s)'
          /\ \A q \in Processes, i \in Slots :
               q # p \/ i # s => tasks'[q][i] = tasks[q][i]
      <3>1. CASE e \notin Routable /\ Goto(p, s, "ack_failed")
        BY <3>1, <1>g DEF Exhausted
      <3>2. CASE Goto(p, s, "ack") /\ accepted' = [accepted EXCEPT ![e] = @ + 1]
        <4>1. accepted'[e] > 0
          BY <3>2, <1>e, <1>n DEF TypeOK
        <4> QED
          BY <3>2, <4>1, <1>g
      <3>3. CASE Goto(p, s, AfterError(t.attempt))
        BY <3>3, <1>a, <1>g
      <3>4. CASE Goto(p, s, "send")
        BY <3>4, <1>g
      <3> QED
        BY <2>1, <3>1, <3>2, <3>3, <3>4
    <2> QED
      BY <2>1, <2>2, <1>u, UntouchedEmail, OneTask
  <1>4. CASE Ack(p, s)
    <2>1. /\ t.at = "ack" \/ t.at = "ack_failed"
          /\ UNCHANGED <<attachments, blobs, events, accepted, loop>>
          /\ \/ /\ Delete(e)
                /\ Goto(p, s, IF t.at = "ack" THEN "set_attachments" ELSE "publish_failed")
             \/ (Delete(e) \/ UNCHANGED email_queue) /\ Finish(p, s)
      BY <1>e, <1>4 DEF Ack, At
    <2>2. accepted'[e] > 0 \/ Exhausted(e)'
      BY <1>e, <2>1, <1>i, <1>k, <1>f DEF TaskInv, Forward
    <2>3. Delete(e) => Deleted(e)'
      BY <1>e, <1>t, <1>b, <1>i, RowEffects DEF TaskInv, Busy, Deleted, QueueTypeOK, Rows, RowStates
    <2>4. /\ TaskInv(p, s)'
          /\ \A q \in Processes, i \in Slots :
               q # p \/ i # s => tasks'[q][i] = tasks[q][i]
      <3>1. CASE /\ Delete(e) /\ t.at = "ack"
                 /\ Goto(p, s, "set_attachments")
        BY <1>e, <3>1, <2>3, <1>i, <1>k, <1>g DEF TaskInv
      <3>2. CASE /\ Delete(e) /\ t.at = "ack_failed"
                 /\ Goto(p, s, "publish_failed")
        BY <1>e, <3>2, <2>3, <1>i, <1>f, <1>g DEF TaskInv, Forward
      <3>3. CASE Finish(p, s)
        BY <3>3, <1>d
      <3> QED
        BY <2>1, <3>1, <3>2, <3>3
    <2>5. \A f \in Emails : f # e => (Deleted(f)' => Deleted(f))
      BY <2>1, <1>e, <1>t, RowEffects DEF Deleted
    <2>6. OutcomeInv(e)'
      BY <2>1, <2>2, <1>f, <1>i, <1>k DEF OutcomeInv, Forward
    <2>7. \A f \in Emails : OutcomeInv(f)'
      BY <2>1, <2>5, <2>6, UntouchedEmail
    <2> QED
      BY <2>1, <2>4, <2>7, UntouchedEmail, OneTask
  <1>5. CASE ClearRefs(p, s)
    <2>1. /\ t.at = "set_attachments"
          /\ Goto(p, s, "delete_blobs")
          /\ attachments' \in {attachments, [attachments EXCEPT ![e] = {}]}
          /\ UNCHANGED <<email_queue, blobs, events, accepted, loop>>
      BY <1>e, <1>5 DEF ClearRefs, At
    <2>2. Deleted(e)' /\ accepted'[e] > 0
      BY <1>e, <2>1, <1>i, <1>f, <1>k DEF TaskInv, Forward
    <2>3. ASSUME NEW f \in Emails
          PROVE  RefsInv(f)'
      BY <2>1, <2>2, <1>e DEF SafetyInv, RefsInv, TypeOK, Deleted
    <2> QED
      BY <2>1, <2>2, <2>3, <1>g, <1>u, OneTask
  <1>6. CASE DeleteBlob(p, s)
    <2>1. /\ t.at = "delete_blobs"
          /\ UNCHANGED <<email_queue, attachments, events, accepted, loop>>
          /\ \/ \E b \in t.cleanup :
                  /\ tasks' = [tasks EXCEPT ![p][s].cleanup = @ \ {b}]
                  /\ blobs' \in {blobs, blobs \ {b}}
             \/ Goto(p, s, "publish_sent") /\ UNCHANGED blobs
      BY <1>6 DEF DeleteBlob, At
    <2>2. Deleted(e)' /\ accepted'[e] > 0
      BY <1>e, <2>1, <1>i, <1>f, <1>k DEF TaskInv, Forward
    <2>3. /\ TaskInv(p, s)'
          /\ \A q \in Processes, i \in Slots :
               q # p \/ i # s => tasks'[q][i] = tasks[q][i]
      <3>1. CASE Goto(p, s, "publish_sent")
        BY <3>1, <2>2, <1>g
      <3>2. ASSUME NEW b \in t.cleanup, tasks' = [tasks EXCEPT ![p][s].cleanup = @ \ {b}]
            PROVE  <2>3
        <4>1. /\ tasks'[p][s].at = t.at
              /\ tasks'[p][s].email = e
              /\ tasks'[p][s].attempt = t.attempt
              /\ tasks'[p][s].cleanup = t.cleanup \ {b}
              /\ \A q \in Processes, i \in Slots :
                   q # p \/ i # s => tasks'[q][i] = tasks[q][i]
          BY <1>e, <3>2, <1>t DEF TaskMap, TaskRecs
        <4> QED
          BY <4>1, <2>1, <2>2, <1>k DEF TaskInv
      <3> QED
        BY <2>1, <3>1, <3>2
    <2>4. ASSUME NEW f \in Emails
          PROVE  RefsInv(f)'
      <3>1. RefsInv(f)
        BY DEF SafetyInv
      <3>2. CASE f = e
        BY <2>1, <2>2, <3>1, <3>2 DEF RefsInv
      <3>3. CASE f # e
        <4>1. Attached[f] \intersect t.cleanup = {}
          BY <3>3, <1>e, <1>k, DeliveryAssumption
        <4> QED
          BY <2>1, <3>1, <4>1 DEF RefsInv, Deleted
      <3> QED
        BY <3>2, <3>3
    <2> QED
      BY <2>1, <2>3, <2>4, <1>u, OneTask
  <1>7. CASE Nack(p, s)
    <2>1. /\ UNCHANGED <<attachments, blobs, events, accepted, loop>>
          /\ Hide(e) \/ UNCHANGED email_queue
          /\ Goto(p, s, "publish_retrying") \/ Finish(p, s)
      BY <1>e, <1>7 DEF Nack
    <2>2. \A f \in Emails : Deleted(f)' => Deleted(f)
      BY <2>1, <1>e, <1>t, RowEffects DEF Deleted
    <2>3. /\ TaskInv(p, s)'
          /\ \A q \in Processes, i \in Slots :
               q # p \/ i # s => tasks'[q][i] = tasks[q][i]
      BY <2>1, <1>g, <1>d
    <2> QED
      BY <2>1, <2>2, <2>3, UntouchedEmail, OneTask
  <1>8. CASE PublishOutcome(p, s)
    <2>1. /\ t.at \in {"publish_sent", "publish_failed", "publish_retrying"}
          /\ TryPublish(e, LastEvent[t.at])
          /\ Finish(p, s)
          /\ UNCHANGED <<email_queue, attachments, blobs, accepted, loop>>
      BY <1>e, <1>8 DEF PublishOutcome, LastEvent
    <2>2. /\ LastEvent["publish_sent"] = "delivery.succeeded"
          /\ LastEvent["publish_failed"] = "delivery.failed"
          /\ LastEvent["publish_retrying"] = "retrying"
      BY DEF LastEvent
    <2>3. \A f \in Emails : Deleted(f)' => Deleted(f)
      BY <2>1 DEF Deleted
    <2>4. \A f \in Emails \ {e} : OutcomeInv(f)'
      BY <1>e, <2>1, <2>3, PublishEffect, UntouchedEmail
    <2>5. OutcomeInv(e)'
      <3>1. events'[e].published \subseteq events[e].published \union {LastEvent[t.at]}
        BY <1>e, <2>1, PublishEffect
      <3>2. (Deleted(e)' <=> Deleted(e)) /\ (Exhausted(e)' <=> Exhausted(e)) /\ accepted' = accepted
        BY <2>1 DEF Deleted, Exhausted
      <3> QED
        BY <1>e, <2>1, <2>2, <3>1, <3>2, <1>i DEF TaskInv, OutcomeInv
    <2> QED
      BY <2>1, <2>3, <2>4, <2>5, <1>d, UntouchedEmail, OneTask
  <1> QED
    BY <1>1, <1>2, <1>3, <1>4, <1>5, <1>6, <1>7, <1>8 DEF TaskStep

\* The three facts of the inductive invariant, put together.
THEOREM InductiveInvariant == Spec => [](TypeOK /\ InHand /\ SafetyInv)
  <1>1. TypeOK /\ InHand /\ SafetyInv /\ [Next]_vars => SafetyInv'
    <2> SUFFICES ASSUME TypeOK, InHand, SafetyInv, [Next]_vars
                 PROVE  SafetyInv'
      OBVIOUS
    <2>1. CASE UNCHANGED vars
      BY <2>1 DEF vars, SafetyInv, TaskInv, LoopInv, RefsInv, OutcomeInv, Deleted, Exhausted
    <2>2. CASE Next
      BY <2>2, SafetyOutside, SafetyTask DEF Next
    <2> QED
      BY <2>1, <2>2
  <1> QED
    BY <1>1, TypedInit, TypedNext, SafetyInit, PTL DEF Spec

\* No e-mail is lost: it leaves the queue only once an SMTP server has accepted
\* it or its attempts or routes are exhausted (process_one acks in no other case).
THEOREM NoLoss == Spec => []NothingLost
  <1>1. SafetyInv => NothingLost
    BY DEF SafetyInv, OutcomeInv, NothingLost
  <1> QED
    BY <1>1, InductiveInvariant, PTL

\* A queued e-mail keeps its attachments: process_one cleans up after its ack.
THEOREM AttachmentsKept == Spec => []QueuedKeepsAttachments
  <1>1. SafetyInv => QueuedKeepsAttachments
    BY DEF SafetyInv, RefsInv, QueuedKeepsAttachments, Queued, Deleted
  <1> QED
    BY <1>1, InductiveInvariant, PTL

\* Terminal events tell the truth: process_one publishes them after a
\* successful ack, and of the outcome it acked.
THEOREM EventsTrue == Spec => []TerminalEventsTrue
  <1>1. SafetyInv => TerminalEventsTrue
    BY DEF SafetyInv, OutcomeInv, TerminalEventsTrue
  <1> QED
    BY <1>1, InductiveInvariant, PTL

-----------------------------------------------------------------------------
(* Refinement.                                                             *)

\* The storage queue and its workers implement the gateway's promise: every
\* step of Delivery is a step of AtLeastOnce or leaves its variables alone.
THEOREM Refinement == Spec => KeepsPromise
  <1> DEFINE owed    == {e \in Emails : Queued(e)}
             sentOut == {e \in Emails : accepted[e] > 0}
             excused == {e \in Emails : email_queue[e].row # "none" /\ Exhausted(e)}
             settled == {e \in Emails : Deleted(e)}
  <1>1. Init => Promise!Init
    BY DEF Init, QueueInit, NoRow, Queued, Deleted, Promise!Init
  <1>2. TypeOK /\ InHand /\ SafetyInv /\ TypeOK' /\ SafetyInv' /\ [Next]_vars
          => [Promise!Next]_(Promise!vars)
    <2> SUFFICES ASSUME TypeOK, InHand, SafetyInv, TypeOK', SafetyInv', [Next]_vars
                 PROVE  [Promise!Next]_(Promise!vars)
      OBVIOUS
    <2>q. /\ QueueTypeOK
          /\ \A f \in Emails : /\ email_queue[f].row \in RowStates
                              /\ email_queue[f].attempt_count \in Nat
                              /\ accepted[f] \in Nat
      BY DEF TypeOK, QueueTypeOK, Rows
    <2>s. ASSUME \A f \in Emails : /\ email_queue'[f].row = email_queue[f].row
                                   /\ email_queue'[f].attempt_count = email_queue[f].attempt_count
          PROVE  owed' = owed /\ excused' = excused /\ settled' = settled
      BY <2>s DEF Queued, Deleted, Exhausted
    <2>1. CASE UNCHANGED <<email_queue, accepted>>
      BY <2>1, <2>s DEF Promise!vars
    <2>2. ASSUME NEW e \in Emails, Acceptance(e)
          PROVE  [Promise!Next]_(Promise!vars)
      <3>1. email_queue[e].row # "none"
        BY <2>2 DEF Acceptance, SafetyInv, TaskInv, Busy
      <3>2. e \in owed \union settled
        BY <3>1, <2>q DEF Queued, Deleted, RowStates
      <3>3. sentOut' = sentOut \union {e}
        BY <2>2, <2>q DEF Acceptance, TypeOK
      <3> QED
        BY <2>2, <2>s, <3>2, <3>3 DEF Acceptance, Promise!Next, Promise!Deliver
    <2>3. ASSUME NEW e \in Emails, QueueChange(e), UNCHANGED accepted
          PROVE  [Promise!Next]_(Promise!vars)
      <3>0. sentOut' = sentOut
        BY <2>3
      <3>1. CASE \E t \in Times : Insert(e, t)
        <4>1. \A f \in Emails : IF f = e THEN email_queue[f] = NoRow /\ email_queue'[f].row = "queued"
                                              /\ email_queue'[f].attempt_count = 0
                                ELSE email_queue'[f] = email_queue[f]
          BY <2>q, <3>1, RowEffects
        <4>2. e \notin owed \union settled
          BY <4>1 DEF Queued, Deleted, NoRow
        <4>3. owed' = owed \union {e} /\ settled' = settled
          BY <4>1 DEF Queued, Deleted, NoRow
        <4>4. excused' \in {excused, excused \union {e}}
          BY <4>1 DEF Exhausted, NoRow
        <4> QED
          BY <3>0, <4>2, <4>3, <4>4 DEF Promise!Next, Promise!Accept
      <3>2. CASE Claim(e)
        <4>1. /\ \A f \in Emails : email_queue'[f].row = email_queue[f].row
              /\ \A f \in Emails \ {e} : email_queue'[f].attempt_count = email_queue[f].attempt_count
              /\ email_queue'[e].attempt_count = email_queue[e].attempt_count + 1
              /\ email_queue[e].row = "queued"
          <5>1. \A f \in Emails \ {e} : email_queue'[f] = email_queue[f]
            BY <2>q, <3>2 DEF Claim, QueueTypeOK
          <5> QED
            BY <2>q, <3>2, <5>1, RowEffects
        <4>2. owed' = owed /\ settled' = settled /\ e \in owed
          BY <4>1 DEF Queued, Deleted
        <4>3. excused' = excused \/ excused' = excused \union {e}
          <5>1. CASE Exhausted(e)' /\ ~Exhausted(e)
            BY <4>1, <5>1 DEF Exhausted
          <5>2. CASE ~Exhausted(e)'
            <6>1. ~Exhausted(e)
              BY <4>1, <5>2, <2>q, DeliveryAssumption DEF Exhausted
            <6> QED
              BY <4>1, <5>2, <6>1 DEF Exhausted
          <5>3. CASE Exhausted(e)' /\ Exhausted(e)
            BY <4>1, <5>3 DEF Exhausted
          <5> QED
            BY <5>1, <5>2, <5>3
        <4> QED
          BY <3>0, <4>2, <4>3 DEF Promise!Next, Promise!Excuse, Promise!vars
      <3>3. CASE Delete(e)
        <4>1. \A f \in Emails :
                /\ email_queue'[f].attempt_count = email_queue[f].attempt_count
                /\ email_queue'[f].row = IF f = e /\ email_queue[f].row = "queued"
                                           THEN "deleted" ELSE email_queue[f].row
          BY <2>q, <3>3, RowEffects
        <4>2. CASE email_queue[e].row # "queued"
          BY <3>0, <4>1, <4>2, <2>s DEF Promise!vars
        <4>3. CASE email_queue[e].row = "queued"
          <5>1. e \in owed /\ owed' = owed \ {e} /\ settled' = settled \union {e}
            BY <4>1, <4>3 DEF Queued, Deleted
          <5>2. excused' = excused
            BY <4>1, <4>3 DEF Exhausted
          <5>3. e \in sentOut \union excused
            <6>1. Deleted(e)'
              BY <4>1, <4>3 DEF Deleted
            <6>2. accepted'[e] > 0 \/ Exhausted(e)'
              BY <6>1 DEF SafetyInv, OutcomeInv
            <6> QED
              BY <2>3, <4>1, <4>3, <6>2 DEF Exhausted
          <5> QED
            BY <3>0, <5>1, <5>2, <5>3 DEF Promise!Next, Promise!Settle
        <4> QED
          BY <4>2, <4>3
      <3>4. CASE Hide(e) \/ Reappear(e)
        <4>1. \A f \in Emails : /\ email_queue'[f].row = email_queue[f].row
                                /\ email_queue'[f].attempt_count = email_queue[f].attempt_count
          BY <2>q, <3>4 DEF Hide, Reappear, QueueTypeOK, Rows
        <4> QED
          BY <3>0, <4>1, <2>s DEF Promise!vars
      <3> QED
        BY <2>3, <3>1, <3>2, <3>3, <3>4 DEF QueueChange
    <2> QED
      BY <2>1, <2>2, <2>3, QueueSteps DEF QueueOrAccept
  <1> QED
    BY <1>1, <1>2, InductiveInvariant, PTL DEF Spec, Promise!Spec, KeepsPromise

-----------------------------------------------------------------------------
(***************************************************************************)
(* What counts or compares workers: how often an e-mail can be claimed and *)
(* sent, that permits are neither lost nor made, and that without faults   *)
(* every e-mail has exactly one outcome.                                   *)
(***************************************************************************)

-----------------------------------------------------------------------------
(* Hands. A claim is in one of the hands of a process: the loop, which has *)
(* just made it, or a task. Seat 0 is the loop's, the others are the slots.*)

Seats == 0..CONCURRENCY

Hand(p, s) == IF s = 0 THEN loop[p] ELSE tasks[p][s]

\* Where a hand works on a claim that is not settled yet, and may still send.
Early == {"fetch", "publish_sending", "execute", "send", "ack_failed", "nack"}

\* Where the last claim hides the row until the hand is done with it.
Holding == Early \union {"ack"}

\* Where the row is gone and what follows its deletion is still to be done.
Settling == {"set_attachments", "delete_blobs", "publish_sent", "publish_failed"}

Full(p, s) == Hand(p, s).at \in Holding \union Settling \union {"publish_retrying"}

\* Some hand at one of these places has claim number n of the e-mail.
HandIn(places, e, n) ==
  \E p \in Processes, s \in Seats :
    Hand(p, s).at \in places /\ Hand(p, s).email = e /\ Hand(p, s).attempt = n

\* No two hands work on one claim.
HandInv ==
  /\ \A p \in Processes, s \in Seats : Full(p, s) =>
       /\ Hand(p, s).attempt >= 1
       /\ Hand(p, s).at = "nack" => Hand(p, s).attempt < MAX_ATTEMPTS
  /\ \A p, q \in Processes, s, i \in Seats :
       /\ Full(p, s) /\ Full(q, i)
       /\ Hand(p, s).email = Hand(q, i).email
       /\ Hand(p, s).attempt = Hand(q, i).attempt
       => p = q /\ s = i

Base == TypeOK /\ InHand /\ SafetyInv

\* Seats are slots or the loop's.
LEMMA HandTypes ==
  ASSUME Base, NEW p \in Processes
  PROVE  /\ 0 \in Seats
         /\ Hand(p, 0) = loop[p]
         /\ Full(p, 0) <=> loop[p].at = "fetch"
         /\ \A s \in Slots : s \in Seats /\ Hand(p, s) = tasks[p][s] /\ (Full(p, s) <=> Busy(p, s))
         /\ \A s \in Seats : s = 0 \/ s \in Slots
         /\ \A s \in Seats : Full(p, s) =>
              /\ Hand(p, s).email \in Emails
              /\ Hand(p, s).attempt \in Nat
              /\ Hand(p, s).attempt <= email_queue[Hand(p, s).email].attempt_count
              /\ email_queue[Hand(p, s).email].row # "none"
  <1>1. 0 \in Seats /\ (\A s \in Seats : s = 0 \/ s \in Slots) /\ (\A s \in Slots : s \in Seats /\ s # 0)
    BY DeliveryAssumption DEF Seats, Slots
  <1>2. Hand(p, 0) = loop[p] /\ \A s \in Slots : Hand(p, s) = tasks[p][s]
    BY <1>1 DEF Hand
  <1>3. Full(p, 0) <=> loop[p].at = "fetch"
    BY <1>2 DEF Full, Base, TypeOK, LoopRecs, LoopPlaces, Holding, Early, Settling
  <1>4. \A s \in Slots : Full(p, s) <=> Busy(p, s)
    BY <1>2 DEF Full, Busy, Base, TypeOK, TaskRecs, TaskPlaces, Holding, Early, Settling
  <1>5. loop[p].attempt \in Nat /\ \A s \in Slots : tasks[p][s].attempt \in Nat
    BY DEF Base, TypeOK, LoopRecs, TaskRecs
  <1>6. ASSUME NEW s \in Seats, Full(p, s)
        PROVE  /\ Hand(p, s).email \in Emails
               /\ Hand(p, s).attempt \in Nat
               /\ Hand(p, s).attempt <= email_queue[Hand(p, s).email].attempt_count
               /\ email_queue[Hand(p, s).email].row # "none"
    <2>1. CASE s = 0
      BY <1>2, <1>3, <1>5, <1>6, <2>1 DEF Base, InHand, SafetyInv, LoopInv
    <2>2. CASE s \in Slots
      BY <1>2, <1>4, <1>5, <1>6, <2>2 DEF Base, InHand, SafetyInv, TaskInv, Busy
    <2> QED
      BY <1>1, <2>1, <2>2
  <1> QED
    BY <1>1, <1>2, <1>3, <1>4, <1>6

\* How a step changes hands: it empties some, or takes one to another place,
\* or fills the loop's with a new claim, or hands that over to a new task.
Same(q, i) == Hand(q, i)' = Hand(q, i)

Drops == \A q \in Processes, i \in Seats : Full(q, i)' => Same(q, i)

Others(p, s) == \A q \in Processes, i \in Seats : q # p \/ i # s => Same(q, i)

Moves(p, s) ==
  /\ Full(p, s)
  /\ Others(p, s)
  /\ Full(p, s)' => /\ Hand(p, s)'.email = Hand(p, s).email
                    /\ Hand(p, s)'.attempt = Hand(p, s).attempt
  /\ Hand(p, s)'.at = "nack" => Hand(p, s).attempt < MAX_ATTEMPTS

NewClaim(p, e) ==
  /\ ~Full(p, 0)
  /\ Others(p, 0)
  /\ Hand(p, 0)'.at = "fetch"
  /\ Hand(p, 0)'.email = e
  /\ Hand(p, 0)'.attempt = email_queue[e].attempt_count + 1

HandsOver(p, s) ==
  /\ Hand(p, 0).at = "fetch" /\ ~Full(p, s)
  /\ \A q \in Processes, i \in Seats : q # p \/ i \notin {0, s} => Same(q, i)
  /\ ~Full(p, 0)'
  /\ Hand(p, s)'.at = "publish_sending"
  /\ Hand(p, s)'.email = Hand(p, 0).email
  /\ Hand(p, s)'.attempt = Hand(p, 0).attempt

\* A task that goes to another place or ends moves its hand, and no other.
LEMMA TaskMoves ==
  ASSUME Base, Base', NEW p \in Processes, NEW s \in Slots, Busy(p, s), UNCHANGED loop,
         \A q \in Processes, i \in Slots : q # p \/ i # s => tasks'[q][i] = tasks[q][i],
         tasks'[p][s].at # "idle" => /\ tasks'[p][s].email = tasks[p][s].email
                                    /\ tasks'[p][s].attempt = tasks[p][s].attempt,
         tasks'[p][s].at = "nack" => tasks[p][s].attempt < MAX_ATTEMPTS
  PROVE  Moves(p, s)
  <1>1. /\ s \in Seats /\ s # 0
        /\ Hand(p, s) = tasks[p][s] /\ Hand(p, s)' = tasks'[p][s]
        /\ Full(p, s)
        /\ Full(p, s)' => tasks'[p][s].at # "idle"
    BY HandTypes, DeliveryAssumption DEF Slots, Hand, Full, Holding, Early, Settling
  <1>2. ASSUME NEW q \in Processes, NEW i \in Seats, q # p \/ i # s
        PROVE  Same(q, i)
    <2>1. i = 0 \/ i \in Slots
      BY HandTypes
    <2> QED
      BY <1>2, <2>1 DEF Same, Hand
  <1> QED
    BY <1>1, <1>2 DEF Moves, Others

\* Every await of process_one moves the hand of its task.
LEMMA TaskStepMoves ==
  ASSUME Base, Base', NEW p \in Processes, NEW s \in Slots, TaskStep(p, s)
  PROVE  Busy(p, s) /\ Moves(p, s)
  <1> DEFINE t == tasks[p][s]
  <1>b. Busy(p, s)
    BY DEF TaskStep, PublishSending, Execute, Send, Ack, ClearRefs, DeleteBlob, Nack,
           PublishOutcome, LastEvent, At, Busy
  <1>l. UNCHANGED loop
    BY DEF TaskStep, PublishSending, Execute, Send, Ack, ClearRefs, DeleteBlob, Nack,
           PublishOutcome
  <1>t. tasks \in TaskMap
    BY DEF Base, TypeOK, TaskMap
  <1>g. ASSUME NEW place, Goto(p, s, place), place = "nack" => t.attempt < MAX_ATTEMPTS
        PROVE  Moves(p, s)
    BY <1>b, <1>l, <1>t, <1>g, GotoEffect, TaskMoves
  <1>f. ASSUME Finish(p, s)
        PROVE  Moves(p, s)
    BY <1>b, <1>l, <1>t, <1>f, FinishEffect, TaskMoves
  <1>a. /\ AfterError(t.attempt) = "nack" => t.attempt < MAX_ATTEMPTS
    <2>1. t.attempt \in Nat
      BY <1>t DEF TaskMap, TaskRecs
    <2> QED
      BY <2>1, DeliveryAssumption DEF AfterError
  <1>1. CASE PublishSending(p, s) \/ Nack(p, s) \/ ClearRefs(p, s) \/ Ack(p, s) \/ PublishOutcome(p, s)
    BY <1>b, <1>1, <1>g, <1>f DEF PublishSending, Nack, ClearRefs, Ack, PublishOutcome
  <1>2. CASE Execute(p, s) \/ Send(p, s)
    BY <1>b, <1>2, <1>g, <1>a DEF Execute, Send
  <1>3. CASE DeleteBlob(p, s)
    <2>1. CASE Goto(p, s, "publish_sent")
      BY <1>b, <2>1, <1>g
    <2>2. ASSUME NEW b, t.at = "delete_blobs", tasks' = [tasks EXCEPT ![p][s].cleanup = @ \ {b}]
          PROVE  Moves(p, s)
      <3>1. /\ tasks'[p][s].at = "delete_blobs"
            /\ tasks'[p][s].email = t.email
            /\ tasks'[p][s].attempt = t.attempt
            /\ \A q \in Processes, i \in Slots : q # p \/ i # s => tasks'[q][i] = tasks[q][i]
        BY <1>t, <2>2 DEF TaskMap, TaskRecs
      <3> QED
        BY <1>b, <1>l, <3>1, TaskMoves
    <2> QED
      BY <1>b, <1>3, <2>1, <2>2 DEF DeleteBlob, At
  <1> QED
    BY <1>b, <1>1, <1>2, <1>3 DEF TaskStep

\* What a dequeue does to the hands.
LEMMA DequeueClaims ==
  ASSUME Base, Base', NEW p \in Processes, NEW e \in Emails, TryDequeue(p, e)
  PROVE  NewClaim(p, e)
  <1>1. /\ loop[p].at = "dequeue"
        /\ loop'[p].at = "fetch"
        /\ loop'[p].email = e
        /\ loop'[p].attempt = email_queue[e].attempt_count + 1
        /\ \A q \in Processes : q # p => loop'[q] = loop[q]
        /\ UNCHANGED tasks
    BY DEF TryDequeue, Base, TypeOK
  <1>2. ASSUME NEW q \in Processes, NEW i \in Seats, q # p \/ i # 0
        PROVE  Same(q, i)
    BY <1>1, <1>2 DEF Same, Hand
  <1>3. ~Full(p, 0) /\ Hand(p, 0)' = loop'[p]
    BY <1>1, HandTypes DEF Hand
  <1> QED
    BY <1>1, <1>2, <1>3 DEF NewClaim, Others

\* What a spawn does to the hands.
LEMMA SpawnHandsOver ==
  ASSUME Base, Base', NEW p \in Processes, NEW s \in Slots, Spawn(p, s)
  PROVE  HandsOver(p, s)
  <1>1. /\ loop[p].at = "fetch"
        /\ ~Busy(p, s)
        /\ tasks' = [tasks EXCEPT ![p][s] =
                       [at |-> "publish_sending", email |-> loop[p].email,
                        attempt |-> loop[p].attempt,
                        cleanup |-> attachments[loop[p].email]]]
        /\ loop' = [loop EXCEPT ![p] = LoopAt("acquire")]
    BY DEF Spawn, Busy
  <1>2. /\ tasks'[p][s].at = "publish_sending"
        /\ tasks'[p][s].email = loop[p].email
        /\ tasks'[p][s].attempt = loop[p].attempt
        /\ \A q \in Processes, i \in Slots : q # p \/ i # s => tasks'[q][i] = tasks[q][i]
        /\ loop'[p].at # "fetch"
        /\ \A q \in Processes : q # p => loop'[q] = loop[q]
    BY <1>1 DEF Base, TypeOK, LoopAt
  <1>3. /\ Hand(p, 0) = loop[p] /\ ~Full(p, s)
        /\ Hand(p, s)' = tasks'[p][s] /\ ~Full(p, 0)'
    BY <1>1, <1>2, HandTypes, DeliveryAssumption
    DEF Hand, Slots, Full, Holding, Early, Settling, LoopAt, Base, TypeOK
  <1>4. ASSUME NEW q \in Processes, NEW i \in Seats, q # p \/ i \notin {0, s}
        PROVE  Same(q, i)
    <2>1. i = 0 \/ i \in Slots
      BY HandTypes
    <2> QED
      BY <1>2, <1>4, <2>1 DEF Same, Hand
  <1> QED
    BY <1>1, <1>2, <1>3, <1>4 DEF HandsOver

\* The rest of the loop, a shutdown and a crash fill no hand.
LEMMA LoopDrops ==
  ASSUME Base, Base', NEW p \in Processes,
         \/ Acquire(p) \/ DequeueFails(p) \/ WakeUp(p) \/ Drained(p) \/ Restart(p)
         \/ Cancel(p) \/ Crash(p)
  PROVE  Drops
  <1>1. \A q \in Processes :
          loop'[q] = loop[q] \/ loop'[q].at # "fetch"
    BY DEF Acquire, DequeueFails, WakeUp, Drained, Restart, Cancel, Crash, LoopAt, Base, TypeOK
  <1>2. \A q \in Processes, i \in Slots :
          tasks'[q][i] = tasks[q][i] \/ tasks'[q][i].at = "idle"
    BY DEF Acquire, DequeueFails, WakeUp, Drained, Restart, Cancel, Crash, NoTask, Base, TypeOK
  <1>3. ASSUME NEW q \in Processes, NEW i \in Seats, Full(q, i)'
        PROVE  Same(q, i)
    <2>1. CASE i = 0
      <3>1. loop'[q].at = "fetch"
        BY <1>3, <2>1 DEF Full, Hand, Base, TypeOK, LoopRecs, LoopPlaces, Holding, Early, Settling
      <3> QED
        BY <1>1, <2>1, <3>1 DEF Same, Hand
    <2>2. CASE i \in Slots
      <3>1. i # 0
        BY <2>2, DeliveryAssumption DEF Slots
      <3>2. tasks'[q][i].at # "idle"
        BY <1>3, <3>1 DEF Full, Hand, Holding, Early, Settling
      <3> QED
        BY <1>2, <2>2, <3>1, <3>2 DEF Same, Hand
    <2> QED
      BY <2>1, <2>2, HandTypes
  <1> QED
    BY <1>3 DEF Drops

\* Every step does one of these things to the hands.
LEMMA HandSteps ==
  ASSUME Base, Base', [Next]_vars
  PROVE  \/ Drops
         \/ \E p \in Processes, s \in Seats : Moves(p, s)
         \/ \E p \in Processes, e \in Emails : NewClaim(p, e)
         \/ \E p \in Processes, s \in Slots : HandsOver(p, s)
  <1>1. ASSUME UNCHANGED <<loop, tasks>> PROVE Drops
    BY <1>1 DEF Drops, Same, Hand
  <1>2. ASSUME NEW e \in Emails,
               PublishQueued(e) \/ Lapse(e) \/ \E t \in Times : Enqueue(e, t)
        PROVE  Drops
    BY <1>1, <1>2 DEF PublishQueued, Lapse, Enqueue
  <1>3. ASSUME NEW p \in Processes, NEW s \in Slots, TaskStep(p, s)
        PROVE  \E i \in Seats : Moves(p, i)
    BY <1>3, TaskStepMoves, HandTypes
  <1>4. CASE UNCHANGED vars
    BY <1>1, <1>4 DEF vars
  <1> QED
    BY <1>2, <1>3, <1>4, LoopDrops, DequeueClaims, SpawnHandsOver DEF Next, LoopStep

\* No step gives one claim to two hands.
LEMMA HandInvNext ==
  ASSUME Base, Base', [Next]_vars, HandInv
  PROVE  HandInv'
  <1>1. CASE Drops
    BY <1>1 DEF HandInv, Drops, Same, Full
  <1>2. ASSUME NEW p \in Processes, NEW s \in Seats, Moves(p, s)
        PROVE  HandInv'
    <2>1. \A q \in Processes, i \in Seats : Full(q, i)' =>
            /\ Full(q, i)
            /\ Hand(q, i)'.email = Hand(q, i).email
            /\ Hand(q, i)'.attempt = Hand(q, i).attempt
            /\ Hand(q, i)'.at = "nack" => Hand(q, i).attempt < MAX_ATTEMPTS
      BY <1>2 DEF HandInv, Moves, Others, Same, Full
    <2> QED
      BY <2>1 DEF HandInv
  <1>3. ASSUME NEW p \in Processes, NEW e \in Emails, NewClaim(p, e)
        PROVE  HandInv'
    <2> DEFINE n == email_queue[e].attempt_count
    <2>0. n \in Nat
      BY DEF Base, TypeOK, QueueTypeOK, Rows
    <2>1. \A q \in Processes, i \in Seats : Full(q, i)' =>
            IF q = p /\ i = 0 THEN Hand(q, i)'.at = "fetch" /\ Hand(q, i)'.email = e /\ Hand(q, i)'.attempt = n + 1
            ELSE Full(q, i) /\ Same(q, i)
      BY <1>3 DEF NewClaim, Others, Same, Full
    <2>2. \A q \in Processes, i \in Seats : Full(q, i) /\ Hand(q, i).email = e =>
            Hand(q, i).attempt \in Nat /\ Hand(q, i).attempt <= n
      BY HandTypes
    <2>3. \A q \in Processes, i \in Seats : Full(q, i) /\ Hand(q, i).email = e =>
            Hand(q, i).attempt # n + 1
      BY <2>0, <2>2
    <2> HIDE DEF n
    <2>4. \A q, r \in Processes, i, j \in Seats :
            /\ Full(q, i)' /\ Full(r, j)'
            /\ Hand(q, i)'.email = Hand(r, j)'.email
            /\ Hand(q, i)'.attempt = Hand(r, j)'.attempt
            => q = r /\ i = j
      BY <2>1, <2>3 DEF HandInv, Same
    <2>5. \A q \in Processes, i \in Seats : Full(q, i)' =>
            /\ Hand(q, i)'.attempt >= 1
            /\ Hand(q, i)'.at = "nack" => Hand(q, i)'.attempt < MAX_ATTEMPTS
      BY <2>0, <2>1 DEF HandInv, Same
    <2> QED
      BY <2>4, <2>5 DEF HandInv
  <1>4. ASSUME NEW p \in Processes, NEW s \in Slots, HandsOver(p, s)
        PROVE  HandInv'
    <2>1. 0 \in Seats /\ s \in Seats /\ Full(p, 0)
      BY <1>4, HandTypes DEF HandsOver, Full, Holding, Early
    <2>2. \A q \in Processes, i \in Seats : Full(q, i)' =>
            IF q = p /\ i = s
              THEN /\ Hand(q, i)'.at = "publish_sending"
                   /\ Hand(q, i)'.email = Hand(p, 0).email
                   /\ Hand(q, i)'.attempt = Hand(p, 0).attempt
              ELSE Full(q, i) /\ Same(q, i) /\ ~(q = p /\ i = 0)
      BY <1>4 DEF HandsOver, Same, Full
    <2>3. \A q, r \in Processes, i, j \in Seats :
            /\ Full(q, i)' /\ Full(r, j)'
            /\ Hand(q, i)'.email = Hand(r, j)'.email
            /\ Hand(q, i)'.attempt = Hand(r, j)'.attempt
            => q = r /\ i = j
      BY <2>1, <2>2 DEF HandInv, Same
    <2>4. \A q \in Processes, i \in Seats : Full(q, i)' =>
            /\ Hand(q, i)'.attempt >= 1
            /\ Hand(q, i)'.at = "nack" => Hand(q, i)'.attempt < MAX_ATTEMPTS
      BY <2>1, <2>2 DEF HandInv, Same
    <2> QED
      BY <2>3, <2>4 DEF HandInv
  <1> QED
    BY <1>1, <1>2, <1>3, <1>4, HandSteps

-----------------------------------------------------------------------------
(* Tokens. Each e-mail starts with one token, and each fault brings one    *)
(* more. A token is free, or with a hand that may still send, or spent on  *)
(* a copy. A claim takes a free one, a nack frees it again.                *)

Live(e) == {n \in 1..email_queue[e].attempt_count : HandIn(Early, e, n)}

\* The row is hidden by a claim that is still in somebody's hands.
Leased(e) ==
  /\ email_queue[e].hidden = "claim"
  /\ HandIn(Holding, e, email_queue[e].attempt_count)

Free(e) == IF email_queue[e].row = "none" \/ (Queued(e) /\ ~Leased(e)) THEN 1 ELSE 0

\* The claims whose failure gives the e-mail up, and those made already.
Below == 1..(MAX_ATTEMPTS - 1)
Over(n) == IF n < MAX_ATTEMPTS THEN 0 ELSE n - MAX_ATTEMPTS + 1

TokenInv(e) ==
  /\ accepted[e] + Free(e) + Cardinality(Live(e)) <= 1 + faults
  /\ Free(e) + Cardinality(Live(e) \intersect Below) + Over(email_queue[e].attempt_count)
       <= 1 + faults

\* What a step can do with the tokens of an e-mail.
KeepsTokens(e) ==
  /\ Live(e)' \subseteq Live(e)
  /\ Free(e)' <= Free(e)
  /\ email_queue'[e].attempt_count = email_queue[e].attempt_count
  /\ accepted'[e] = accepted[e]
  /\ faults' >= faults

BringsToken(e) ==
  /\ Live(e)' \subseteq Live(e)
  /\ accepted'[e] + Free(e)' <= accepted[e] + Free(e) + 1
  /\ email_queue'[e].attempt_count = email_queue[e].attempt_count
  /\ faults' = faults + 1

SpendsToken(e) ==
  /\ \E n \in Live(e) : Live(e)' \subseteq Live(e) \ {n}
  /\ Free(e)' <= Free(e)
  /\ email_queue'[e].attempt_count = email_queue[e].attempt_count
  /\ accepted'[e] = accepted[e] + 1
  /\ faults' = faults

FreesToken(e) ==
  /\ \E n \in Live(e) \intersect Below : Live(e)' \subseteq Live(e) \ {n}
  /\ email_queue'[e].attempt_count = email_queue[e].attempt_count
  /\ accepted'[e] = accepted[e]
  /\ faults' = faults

TakesToken(e) ==
  LET n == email_queue[e].attempt_count + 1
  IN /\ Live(e)' \subseteq Live(e) \union {n}
     /\ Free(e) = 1 /\ Free(e)' = 0
     /\ email_queue'[e].attempt_count = n
     /\ accepted'[e] = accepted[e]
     /\ faults' = faults

TokenStep(e) ==
  KeepsTokens(e) \/ BringsToken(e) \/ SpendsToken(e) \/ FreesToken(e) \/ TakesToken(e)

\* Numbers up to a bound are finitely many.
LEMMA BoundedFinite ==
  ASSUME NEW n \in Nat, NEW S, S \subseteq 1..n
  PROVE  IsFiniteSet(S) /\ Cardinality(S) \in Nat
  <1>1. IsFiniteSet(1..n)
    BY FS_Interval
  <1>2. IsFiniteSet(S)
    BY <1>1, FS_Subset
  <1> QED
    BY <1>2, FS_CardinalityType

\* A set within another one, with one element more or less.
LEMMA CountAdd ==
  ASSUME NEW S, IsFiniteSet(S), NEW T, NEW x, T \subseteq S \union {x}
  PROVE  Cardinality(T) <= Cardinality(S) + 1
  <1>1. /\ IsFiniteSet(S \union {x})
        /\ Cardinality(S \union {x}) = IF x \in S THEN Cardinality(S) ELSE Cardinality(S) + 1
    BY FS_AddElement
  <1>2. Cardinality(T) <= Cardinality(S \union {x}) /\ IsFiniteSet(T)
    BY <1>1, FS_Subset
  <1>3. Cardinality(S) \in Nat /\ Cardinality(T) \in Nat
    BY <1>2, FS_CardinalityType
  <1> QED
    BY <1>1, <1>2, <1>3

\* A set that lost an element, and perhaps more, is smaller.
LEMMA CountRemove ==
  ASSUME NEW S, IsFiniteSet(S), NEW T, NEW x \in S, T \subseteq S \ {x}
  PROVE  Cardinality(T) <= Cardinality(S) - 1
  <1>1. IsFiniteSet(S \ {x}) /\ Cardinality(S \ {x}) = Cardinality(S) - 1
    BY FS_RemoveElement
  <1> QED
    BY <1>1, FS_Subset

\* The count of tokens survives every such step.
LEMMA TokenArithmetic ==
  ASSUME Base, Base', NEW e \in Emails, TokenInv(e), TokenStep(e)
  PROVE  TokenInv(e)'
  <1> DEFINE L  == Live(e)
             L1 == Live(e)'
             B  == L \intersect Below
             B1 == L1 \intersect Below
             n  == email_queue[e].attempt_count
             n1 == email_queue'[e].attempt_count
             F  == Free(e)
             F1 == Free(e)'
             a  == accepted[e]
             a1 == accepted'[e]
  <1>1. /\ n \in Nat /\ n1 \in Nat
        /\ IsFiniteSet(L) /\ Cardinality(L) \in Nat
        /\ IsFiniteSet(B) /\ Cardinality(B) \in Nat
        /\ Cardinality(L1) \in Nat
        /\ Cardinality(B1) \in Nat
    <2>1. n \in Nat /\ n1 \in Nat
      BY DEF Base, TypeOK, QueueTypeOK, Rows
    <2>2. L \subseteq 1..n /\ L1 \subseteq 1..n1
      BY DEF Live
    <2>3. B \subseteq 1..n /\ B1 \subseteq 1..n1
      BY <2>2
    <2> HIDE DEF n, n1, L, L1, B, B1
    <2> QED
      BY <2>1, <2>2, <2>3, BoundedFinite
  <1>2. F \in {0, 1} /\ F1 \in {0, 1}
    BY DEF Free
  <1>3. a \in Nat /\ a1 \in Nat /\ faults \in Nat /\ faults' \in Nat
    BY DeliveryAssumption DEF Base, TypeOK
  <1>4. /\ MAX_ATTEMPTS \in Nat \ {0}
        /\ Over(n) \in Nat /\ Over(n1) \in Nat
    BY <1>1, DeliveryAssumption DEF Over
  <1>5. /\ a + F + Cardinality(L) <= 1 + faults
        /\ F + Cardinality(B) + Over(n) <= 1 + faults
    BY DEF TokenInv
  <1>s. ASSUME L1 \subseteq L
        PROVE  Cardinality(L1) <= Cardinality(L) /\ Cardinality(B1) <= Cardinality(B)
    <2> HIDE DEF L, L1
    <2> QED
      BY <1>1, <1>s, FS_Subset
  <1>r. ASSUME NEW x \in L, L1 \subseteq L \ {x}
        PROVE  /\ Cardinality(L1) <= Cardinality(L) - 1
               /\ x \in Below => Cardinality(B1) <= Cardinality(B) - 1
    <2> HIDE DEF L, L1
    <2>1. Cardinality(L1) <= Cardinality(L) - 1
      BY <1>1, <1>r, CountRemove
    <2>2. ASSUME x \in Below
          PROVE  Cardinality(B1) <= Cardinality(B) - 1
      <3>1. x \in B /\ B1 \subseteq B \ {x}
        BY <1>r, <2>2
      <3> HIDE DEF B, B1
      <3> QED
        BY <1>1, <3>1, CountRemove
    <2> QED
      BY <2>1, <2>2
  <1> SUFFICES /\ a1 + F1 + Cardinality(L1) <= 1 + faults'
               /\ F1 + Cardinality(B1) + Over(n1) <= 1 + faults'
    BY DEF TokenInv
  <1>10. CASE KeepsTokens(e)
    <2>1. L1 \subseteq L /\ F1 <= F /\ n1 = n /\ a1 = a /\ faults' >= faults
      BY <1>10 DEF KeepsTokens
    <2> HIDE DEF L, L1, B, B1, n, n1, F, F1, a, a1
    <2> QED
      BY <1>1, <1>2, <1>3, <1>4, <1>5, <1>s, <2>1
  <1>11. CASE BringsToken(e)
    <2>1. L1 \subseteq L /\ a1 + F1 <= a + F + 1 /\ n1 = n /\ faults' = faults + 1
      BY <1>11 DEF BringsToken
    <2> HIDE DEF L, L1, B, B1, n, n1, F, F1, a, a1
    <2> QED
      BY <1>1, <1>2, <1>3, <1>4, <1>5, <1>s, <2>1
  <1>12. CASE SpendsToken(e)
    <2>1. PICK x \in L : L1 \subseteq L \ {x}
      BY <1>12 DEF SpendsToken
    <2>2. F1 <= F /\ n1 = n /\ a1 = a + 1 /\ faults' = faults /\ L1 \subseteq L
      BY <1>12, <2>1 DEF SpendsToken
    <2> HIDE DEF L, L1, B, B1, n, n1, F, F1, a, a1
    <2> QED
      BY <1>1, <1>2, <1>3, <1>4, <1>5, <1>s, <1>r, <2>1, <2>2
  <1>13. CASE FreesToken(e)
    <2>1. PICK x \in L \intersect Below : L1 \subseteq L \ {x}
      BY <1>13 DEF FreesToken
    <2>2. n1 = n /\ a1 = a /\ faults' = faults
      BY <1>13 DEF FreesToken
    <2> HIDE DEF L, L1, B, B1, n, n1, F, F1, a, a1
    <2> QED
      BY <1>1, <1>2, <1>3, <1>4, <1>5, <1>r, <2>1, <2>2
  <1>14. CASE TakesToken(e)
    <2>1. L1 \subseteq L \union {n1} /\ F = 1 /\ F1 = 0 /\ n1 = n + 1 /\ a1 = a /\ faults' = faults
      BY <1>14 DEF TakesToken
    <2> HIDE DEF L, L1, B, B1, n, n1, F, F1, a, a1
    <2>2. Cardinality(L1) <= Cardinality(L) + 1
      BY <1>1, <2>1, CountAdd
    <2>3. CASE n1 < MAX_ATTEMPTS
      <3>1. Over(n1) = 0 /\ Over(n) = 0
        BY <1>1, <1>4, <2>1, <2>3 DEF Over
      <3>2. B1 \subseteq B \union {n1}
        BY <2>1 DEF B, B1
      <3>3. Cardinality(B1) <= Cardinality(B) + 1
        BY <1>1, <3>2, CountAdd
      <3> QED
        BY <1>1, <1>2, <1>3, <1>4, <1>5, <2>1, <2>2, <3>1, <3>3
    <2>4. CASE n1 >= MAX_ATTEMPTS
      <3>1. Over(n1) = Over(n) + 1
        BY <1>1, <1>4, <2>1, <2>4 DEF Over
      <3>2. n1 \notin Below
        BY <1>1, <1>4, <2>4 DEF Below
      <3>3. B1 \subseteq B
        BY <2>1, <3>2 DEF B, B1
      <3>4. Cardinality(B1) <= Cardinality(B)
        BY <1>1, <3>3, FS_Subset
      <3> QED
        BY <1>1, <1>2, <1>3, <1>4, <1>5, <2>1, <2>2, <3>1, <3>4
    <2> QED
      BY <1>1, <1>4, <2>3, <2>4
  <1> QED
    BY <1>10, <1>11, <1>12, <1>13, <1>14 DEF TokenStep

\* No hand comes to have an unsettled claim of the e-mail, or has it no longer.
NoMore(e) == \A n : HandIn(Early, e, n)' => HandIn(Early, e, n)
NoLess(e) == \A n : HandIn(Holding, e, n) => HandIn(Holding, e, n)'

\* Full hands stay as they are.
Quiet == \A q \in Processes, i \in Seats : Full(q, i) \/ Full(q, i)' => Same(q, i)

\* A step that only drops work, or does none, puts an e-mail in no further hand.
LEMMA QuietHands ==
  ASSUME NEW e
  PROVE  /\ Drops => NoMore(e)
         /\ Quiet => NoMore(e) /\ NoLess(e)
  BY DEF Drops, Quiet, Same, Full, NoMore, NoLess, HandIn, Holding

\* One hand can only change what it has in hand itself.
LEMMA OneHand ==
  ASSUME NEW p \in Processes, NEW s \in Seats, Moves(p, s), NEW e
  PROVE  /\ Hand(p, s).email # e => NoMore(e) /\ NoLess(e)
         /\ (Hand(p, s)'.at \in Early => Hand(p, s).at \in Early) => NoMore(e)
         /\ (Hand(p, s).at \in Holding => Hand(p, s)'.at \in Holding) => NoLess(e)
  <1> USE DEF Moves, Others, Same, Full
  <1>1. Hand(p, s)'.at \in Holding => Full(p, s)'
    OBVIOUS
  <1>2. ASSUME Hand(p, s)'.at \in Early /\ Hand(p, s)'.email = e => Hand(p, s).at \in Early
        PROVE  NoMore(e)
    BY <1>1, <1>2 DEF NoMore, HandIn, Holding
  <1>3. ASSUME Hand(p, s).at \in Holding /\ Hand(p, s).email = e => Hand(p, s)'.at \in Holding
        PROVE  NoLess(e)
    BY <1>1, <1>3 DEF NoLess, HandIn, Holding
  <1> QED
    BY <1>1, <1>2, <1>3 DEF Holding

\* A hand that ceases to be early takes its claim out of the live ones.
LEMMA OneHandLess ==
  ASSUME HandInv, NEW p \in Processes, NEW s \in Seats, Moves(p, s), NEW e,
         Hand(p, s).at \in Early, Hand(p, s)'.at \notin Early, Hand(p, s).email = e
  PROVE  NoMore(e) /\ \A n : n = Hand(p, s).attempt => ~HandIn(Early, e, n)'
  <1>1. NoMore(e)
    BY OneHand
  <1>2. ASSUME NEW n, n = Hand(p, s).attempt,
               NEW q \in Processes, NEW i \in Seats,
               Hand(q, i)'.at \in Early, Hand(q, i)'.email = e,
               Hand(q, i)'.attempt = n
        PROVE  FALSE
    <2>1. (q # p \/ i # s) /\ Hand(q, i)' = Hand(q, i)
      BY <1>2 DEF Moves, Others, Same
    <2>2. Full(q, i) /\ Full(p, s)
      BY <1>2, <2>1 DEF Full, Holding
    <2> QED
      BY <1>2, <2>1, <2>2 DEF HandInv
  <1> QED
    BY <1>1, <1>2 DEF HandIn

\* What that means for the tokens of an e-mail whose row stays as it is.
LEMMA HandsToTokens ==
  ASSUME Base, Base', NEW e \in Emails
  PROVE  /\ NoMore(e) /\ email_queue'[e].attempt_count = email_queue[e].attempt_count
              => Live(e)' \subseteq Live(e)
         /\ NoLess(e) /\ email_queue'[e] = email_queue[e] => Free(e)' <= Free(e)
         /\ Free(e) \in {0, 1} /\ Free(e)' \in {0, 1}
         /\ email_queue[e].row = "deleted" => Free(e) = 0
         /\ email_queue'[e].row = "deleted" => Free(e)' = 0
  BY DEF NoMore, NoLess, Live, Free, Leased, Queued

\* A step that leaves the row, the acceptances and the hands of an e-mail alone
\* creates no chance of a further copy.
LEMMA KeepsAll ==
  ASSUME Base, Base', NEW e \in Emails, NoMore(e), NoLess(e),
         email_queue'[e] = email_queue[e], accepted'[e] = accepted[e], Fault \/ NoFault
  PROVE  TokenStep(e)
  <1>1. faults' >= faults
    BY DEF Fault, NoFault, Base, TypeOK
  <1> QED
    BY <1>1, HandsToTokens DEF TokenStep, KeepsTokens

\* A step of a task, seen by the e-mail of that task.
LEMMA TaskTokens ==
  ASSUME Base, Base', HandInv, NEW p \in Processes, NEW s \in Slots, TaskStep(p, s),
         NEW e \in Emails, tasks[p][s].email = e
  PROVE  TokenStep(e)
  <1> DEFINE t == tasks[p][s]
             n == email_queue[e].attempt_count
  <1>t. /\ Busy(p, s) /\ Moves(p, s) /\ Full(p, s)
        /\ s \in Seats /\ Hand(p, s) = t /\ Hand(p, s)' = tasks'[p][s]
        /\ tasks \in TaskMap /\ QueueTypeOK
        /\ t.attempt \in 1..n
        /\ email_queue[e].row # "none"
    <2>1. Busy(p, s) /\ Moves(p, s) /\ Full(p, s)
      BY TaskStepMoves, HandTypes
    <2>2. s \in Seats /\ Hand(p, s) = t /\ Hand(p, s)' = tasks'[p][s]
      BY HandTypes, DeliveryAssumption DEF Slots, Hand
    <2>3. tasks \in TaskMap /\ QueueTypeOK
      BY DEF Base, TypeOK, TaskMap
    <2>4. t.attempt \in Nat /\ t.attempt <= n /\ email_queue[e].row # "none"
      BY <2>1, <2>2, HandTypes
    <2>5. t.attempt >= 1
      BY <2>1, <2>2 DEF HandInv
    <2>6. n \in Nat
      BY <2>3 DEF QueueTypeOK, Rows
    <2> QED
      BY <2>1, <2>2, <2>3, <2>4, <2>5, <2>6
  <1>n. /\ accepted[e] \in Nat /\ faults \in Nat
        /\ accepted \in [Emails -> Nat]
    BY DEF Base, TypeOK
  <1>p. /\ \A place : Goto(p, s, place) => tasks'[p][s].at = place
        /\ Finish(p, s) => tasks'[p][s].at = "idle"
    BY <1>t, GotoEffect, FinishEffect
  <1>a. AfterError(t.attempt) \in {"ack_failed", "nack"}
    BY DEF AfterError
  <1> USE DEF Early, Holding, At
  <1>1. CASE PublishSending(p, s) \/ Execute(p, s)
    <2>1. /\ t.at \in Early /\ tasks'[p][s].at \in Early
          /\ UNCHANGED <<email_queue, accepted>>
          /\ Fault \/ NoFault
      BY <1>1, <1>p, <1>a DEF PublishSending, Execute, TryPublish, NoFault, store
    <2> QED
      BY <1>t, <2>1, OneHand, KeepsAll
  <1>2. CASE Send(p, s)
    <2>0. t.at = "send" /\ UNCHANGED email_queue
      BY <1>2 DEF Send, store
    <2>1. CASE tasks'[p][s].at \in Early /\ UNCHANGED accepted
      <3>1. Fault \/ NoFault
        BY <1>2 DEF Send
      <3> QED
        BY <1>t, <2>0, <2>1, <3>1, OneHand, KeepsAll
    <2>2. CASE /\ tasks'[p][s].at \in Early /\ Fault
               /\ accepted' = [accepted EXCEPT ![e] = @ + 1]
      <3>1. NoMore(e) /\ NoLess(e)
        BY <1>t, <2>0, <2>2, OneHand
      <3>2. Live(e)' \subseteq Live(e) /\ Free(e)' <= Free(e) /\ Free(e) \in {0, 1} /\ Free(e)' \in {0, 1}
        BY <2>0, <3>1, HandsToTokens
      <3>3. accepted'[e] = accepted[e] + 1 /\ faults' = faults + 1
        BY <1>n, <2>2 DEF Fault
      <3> QED
        BY <1>n, <2>0, <3>2, <3>3 DEF TokenStep, BringsToken
    <2>3. CASE /\ tasks'[p][s].at = "ack" /\ NoFault
               /\ accepted' = [accepted EXCEPT ![e] = @ + 1]
      <3>1. NoMore(e) /\ NoLess(e) /\ \A m : m = t.attempt => ~HandIn(Early, e, m)'
        BY <1>t, <2>0, <2>3, OneHand, OneHandLess
      <3>2. Live(e)' \subseteq Live(e) \ {t.attempt} /\ Free(e)' <= Free(e)
        <4>1. Live(e)' \subseteq Live(e) \ {t.attempt}
          BY <2>0, <3>1 DEF Live, NoMore
        <4> QED
          BY <2>0, <3>1, <4>1, HandsToTokens
      <3>3. t.attempt \in Live(e)
        BY <1>t, <2>0 DEF Live, HandIn
      <3> QED
        BY <1>n, <2>0, <2>3, <3>2, <3>3 DEF TokenStep, SpendsToken, NoFault
    <2> QED
      BY <1>2, <1>p, <1>a, <2>1, <2>2, <2>3 DEF Send
  <1>3. CASE Ack(p, s)
    <2>1. UNCHANGED accepted /\ t.at \in Holding /\ tasks'[p][s].at \notin Holding
      BY <1>3, <1>p DEF Ack
    <2>2. /\ email_queue'[e].attempt_count = n
          /\ Delete(e) => email_queue'[e].row = "deleted"
      BY <1>t, <1>3, RowEffects DEF Ack, QueueTypeOK, Rows, RowStates
    <2>3. Live(e)' \subseteq Live(e)
      BY <1>t, <2>1, <2>2, OneHand, HandsToTokens
    <2>4. CASE Delete(e) /\ NoFault
      BY <1>n, <2>1, <2>2, <2>3, <2>4, HandsToTokens DEF TokenStep, KeepsTokens, NoFault
    <2>5. CASE Fault
      <3>1. Free(e)' <= Free(e) + 1
        BY HandsToTokens
      <3> QED
        BY <1>n, <2>1, <2>2, <2>3, <2>5, <3>1, HandsToTokens DEF TokenStep, BringsToken, Fault
    <2> QED
      BY <1>3, <2>4, <2>5 DEF Ack
  <1>4. CASE ClearRefs(p, s) \/ DeleteBlob(p, s) \/ PublishOutcome(p, s)
    <2>1. /\ t.at \notin Holding
          /\ UNCHANGED <<email_queue, accepted>>
          /\ Fault \/ NoFault
      BY <1>4 DEF ClearRefs, DeleteBlob, PublishOutcome, LastEvent, TryPublish
    <2>2. tasks'[p][s].at \notin Early
      <3>1. tasks'[p][s].at \in {t.at, "delete_blobs", "publish_sent", "idle"}
        <4>1. ASSUME NEW b, tasks' = [tasks EXCEPT ![p][s].cleanup = @ \ {b}]
              PROVE  tasks'[p][s].at = t.at
          BY <1>t, <4>1 DEF TaskMap, TaskRecs
        <4> QED
          BY <1>4, <1>p, <4>1 DEF ClearRefs, DeleteBlob, PublishOutcome
      <3> QED
        BY <2>1, <3>1
    <2> QED
      BY <1>t, <2>1, <2>2, OneHand, KeepsAll
  <1>5. CASE Nack(p, s)
    <2>1. UNCHANGED accepted /\ t.at = "nack" /\ tasks'[p][s].at \notin Early
      BY <1>5, <1>p DEF Nack
    <2>2. email_queue'[e].attempt_count = n
      BY <1>t, <1>5 DEF Nack, Hide, QueueTypeOK, Rows
    <2>3. Live(e)' \subseteq Live(e) \ {t.attempt}
      <3>1. NoMore(e) /\ \A m : m = t.attempt => ~HandIn(Early, e, m)'
        BY <1>t, <2>1, OneHandLess
      <3> QED
        BY <2>2, <3>1 DEF Live, NoMore
    <2>4. t.attempt \in Live(e) \intersect Below
      <3>1. t.attempt \in Live(e)
        BY <1>t, <2>1 DEF Live, HandIn
      <3>2. t.attempt < MAX_ATTEMPTS /\ t.attempt \in Nat \ {0}
        BY <1>t, <2>1 DEF HandInv
      <3> QED
        BY <3>1, <3>2, DeliveryAssumption DEF Below
    <2>5. CASE NoFault
      BY <2>1, <2>2, <2>3, <2>4, <2>5 DEF TokenStep, FreesToken, NoFault
    <2>6. CASE Fault
      <3>1. Free(e)' <= Free(e) + 1
        BY HandsToTokens
      <3> QED
        BY <1>n, <2>1, <2>2, <2>3, <2>6, <3>1, HandsToTokens DEF TokenStep, BringsToken, Fault
    <2> QED
      BY <1>5, <2>5, <2>6 DEF Nack
  <1> QED
    BY <1>1, <1>2, <1>3, <1>4, <1>5 DEF TaskStep

\* Every step does one of these things with the tokens of each e-mail.
LEMMA TokenSteps ==
  ASSUME Base, Base', HandInv, [Next]_vars, NEW e \in Emails
  PROVE  TokenStep(e)
  <1>q. QueueTypeOK /\ faults \in Nat
    BY DEF Base, TypeOK
  <1>s. ASSUME UNCHANGED <<loop, tasks>>
        PROVE  NoMore(e) /\ NoLess(e)
    BY <1>s, QuietHands DEF Quiet, Same, Hand
  <1>1. ASSUME NEW x \in Emails, PublishQueued(x)
        PROVE  TokenStep(e)
    BY <1>1, <1>s, KeepsAll DEF PublishQueued, TryPublish
  <1>2. ASSUME NEW x \in Emails, Lapse(x)
        PROVE  TokenStep(e)
    <2>1. NoMore(e) /\ NoLess(e) /\ UNCHANGED accepted /\ (Fault \/ NoFault)
      BY <1>2, <1>s DEF Lapse
    <2>2. CASE email_queue'[e] = email_queue[e]
      BY <2>1, <2>2, KeepsAll
    <2>3. CASE email_queue'[e] # email_queue[e]
      <3>1. /\ e = x /\ Queued(e)
            /\ email_queue'[e].attempt_count = email_queue[e].attempt_count
        BY <1>q, <1>2, <2>3 DEF Lapse, Reappear, QueueTypeOK, Rows
      <3>2. CASE Leased(e)
        <4>1. HoldsClaim(e, email_queue[e].attempt_count)
          BY <3>2, HandTypes DEF Leased, HandIn, HoldsClaim
        <4>2. Fault
          BY <1>2, <3>1, <3>2, <4>1 DEF Lapse, Leased
        <4>3. Free(e) \in {0, 1} /\ Free(e)' \in {0, 1} /\ accepted[e] \in Nat
          BY HandsToTokens DEF Base, TypeOK
        <4> QED
          BY <2>1, <3>1, <4>2, <4>3, HandsToTokens DEF TokenStep, BringsToken, Fault
      <3>3. CASE ~Leased(e)
        <4>1. Free(e) = 1 /\ Free(e)' \in {0, 1}
          BY <3>1, <3>3 DEF Free
        <4>2. faults' >= faults
          BY <1>q, <2>1 DEF Fault, NoFault
        <4> QED
          BY <2>1, <3>1, <4>1, <4>2, HandsToTokens DEF TokenStep, KeepsTokens
      <3> QED
        BY <3>2, <3>3
    <2> QED
      BY <2>2, <2>3
  <1>3. ASSUME NEW x \in Emails, NEW t \in Times, Enqueue(x, t)
        PROVE  TokenStep(e)
    <2>1. NoMore(e) /\ NoLess(e) /\ UNCHANGED <<accepted, faults>>
      BY <1>3, <1>s DEF Enqueue
    <2>2. CASE e # x
      BY <1>q, <1>3, <2>1, <2>2, RowEffects, KeepsAll DEF Enqueue, NoFault
    <2>3. CASE e = x
      <3>1. email_queue[e] = NoRow /\ email_queue'[e].attempt_count = 0
        BY <1>q, <1>3, <2>3, RowEffects DEF Enqueue
      <3>2. Free(e) = 1 /\ Free(e)' \in {0, 1} /\ email_queue[e].attempt_count = 0
        BY <3>1 DEF Free, NoRow
      <3> QED
        BY <1>q, <2>1, <3>1, <3>2, HandsToTokens DEF TokenStep, KeepsTokens
    <2> QED
      BY <2>2, <2>3
  <1>4. ASSUME NEW p \in Processes, Acquire(p) \/ WakeUp(p) \/ Drained(p) \/ Restart(p)
        PROVE  TokenStep(e)
    <2>1. UNCHANGED <<email_queue, accepted, faults, tasks>>
      BY <1>4 DEF Acquire, WakeUp, Drained, Restart, store
    <2>2. \A q \in Processes :
            loop'[q] = loop[q] \/ (loop[q].at # "fetch" /\ loop'[q].at # "fetch")
      BY <1>4 DEF Acquire, WakeUp, Drained, Restart, LoopAt, Base, TypeOK
    <2>3. Quiet
      <3>1. ASSUME NEW q \in Processes, NEW i \in Seats, ~Same(q, i)
            PROVE  ~Full(q, i) /\ ~Full(q, i)'
        <4>1. i = 0 /\ loop'[q] # loop[q]
          BY <2>1, <3>1 DEF Same, Hand
        <4>2. ~Full(q, 0)
          BY <2>2, <4>1, HandTypes
        <4>3. ~Full(q, 0)'
          BY <2>2, <4>1 DEF Full, Hand, Base, TypeOK, LoopRecs, LoopPlaces, Holding, Early, Settling
        <4> QED
          BY <4>1, <4>2, <4>3
      <3> QED
        BY <3>1 DEF Quiet
    <2> QED
      BY <2>1, <2>3, QuietHands, KeepsAll DEF NoFault
  <1>5. ASSUME NEW p \in Processes, DequeueFails(p) \/ Cancel(p) \/ Crash(p)
        PROVE  TokenStep(e)
    <2>1. UNCHANGED <<email_queue, accepted>> /\ Fault
      BY <1>5 DEF DequeueFails, Cancel, Crash, store
    <2>2. NoMore(e)
      BY <1>5, LoopDrops, QuietHands
    <2>3. Live(e)' \subseteq Live(e) /\ Free(e) \in {0, 1} /\ Free(e)' \in {0, 1}
      BY <2>1, <2>2, HandsToTokens
    <2>4. accepted[e] \in Nat
      BY DEF Base, TypeOK
    <2> QED
      BY <2>1, <2>3, <2>4 DEF TokenStep, BringsToken, Fault
  <1>6. ASSUME NEW p \in Processes, NEW x \in Emails, TryDequeue(p, x)
        PROVE  TokenStep(e)
    <2> DEFINE n == email_queue[x].attempt_count
    <2>1. /\ NewClaim(p, x) /\ UNCHANGED <<accepted, faults>>
          /\ 0 \in Seats /\ Claim(x) /\ n \in Nat
      BY <1>q, <1>6, DequeueClaims, HandTypes DEF TryDequeue, QueueTypeOK, Rows
    <2>2. CASE e # x
      <3>1. NoMore(e) /\ NoLess(e)
        BY <2>1, <2>2 DEF NewClaim, Others, Same, Full, NoMore, NoLess, HandIn, Holding
      <3>2. email_queue'[e] = email_queue[e]
        BY <1>q, <2>1, <2>2 DEF Claim, QueueTypeOK
      <3> QED
        BY <2>1, <3>1, <3>2, KeepsAll DEF NoFault
    <2>3. CASE e = x
      <3>1. /\ email_queue'[e].attempt_count = n + 1
            /\ email_queue'[e].hidden = "claim"
            /\ email_queue'[e].row = "queued"
        <4>1. email_queue' = [email_queue EXCEPT ![x].hidden = "claim", ![x].attempt_count = @ + 1]
          BY <2>1 DEF Claim
        <4>2. email_queue'[x].hidden = "claim"
          BY <1>q, <4>1 DEF QueueTypeOK, Rows
        <4> QED
          BY <1>q, <2>1, <2>3, <4>2, RowEffects
      <3>2. Live(e)' \subseteq Live(e) \union {n + 1}
        <4>1. \A m : HandIn(Early, e, m)' => HandIn(Early, e, m) \/ m = n + 1
          BY <2>1, <2>3 DEF NewClaim, Others, Same, HandIn
        <4>2. \A m \in 1..(n + 1) : m \in 1..n \/ m = n + 1
          BY <2>1
        <4> QED
          BY <2>3, <3>1, <4>1, <4>2 DEF Live
      <3>3. Free(e) = 1
        BY <2>1, <2>3 DEF Claim, NextUp, Visible, Free, Leased
      <3>4. Free(e)' = 0
        <4>1. \A m : m = n + 1 => HandIn(Holding, e, m)'
          BY <2>1, <2>3 DEF NewClaim, HandIn, Holding, Early
        <4> QED
          BY <3>1, <4>1 DEF Free, Leased, Queued
      <3> QED
        BY <2>1, <2>3, <3>1, <3>2, <3>3, <3>4 DEF TokenStep, TakesToken
    <2> QED
      BY <2>2, <2>3
  <1>7. ASSUME NEW p \in Processes, NEW s \in Slots, Spawn(p, s)
        PROVE  TokenStep(e)
    <2>1. /\ HandsOver(p, s) /\ UNCHANGED <<email_queue, accepted, faults>>
          /\ s \in Seats /\ 0 \in Seats
      BY <1>7, SpawnHandsOver, HandTypes DEF Spawn, store
    <2>2. NoMore(e) /\ NoLess(e)
      BY <2>1 DEF HandsOver, Same, Full, NoMore, NoLess, HandIn, Holding, Early
    <2> QED
      BY <2>1, <2>2, KeepsAll DEF NoFault
  <1>8. ASSUME NEW p \in Processes, NEW s \in Slots, TaskStep(p, s)
        PROVE  TokenStep(e)
    <2>1. CASE tasks[p][s].email = e
      BY <1>8, <2>1, TaskTokens
    <2>2. CASE tasks[p][s].email # e
      <3>1. Moves(p, s) /\ Hand(p, s) = tasks[p][s] /\ s \in Seats /\ tasks[p][s].email \in Emails
        BY <1>8, TaskStepMoves, HandTypes DEF Base, InHand
      <3>2. NoMore(e) /\ NoLess(e)
        BY <2>2, <3>1, OneHand
      <3>3. /\ email_queue'[e] = email_queue[e]
            /\ accepted'[e] = accepted[e]
            /\ Fault \/ NoFault
        BY <1>q, <1>8, <2>2, <3>1
        DEF TaskStep, PublishSending, Execute, Send, Ack, ClearRefs, DeleteBlob, Nack,
            PublishOutcome, TryPublish, store, Delete, Hide, QueueTypeOK, NoFault, Base, TypeOK
      <3> QED
        BY <3>2, <3>3, KeepsAll
    <2> QED
      BY <2>1, <2>2
  <1>9. CASE UNCHANGED vars
    BY <1>9, <1>s, KeepsAll DEF vars, NoFault
  <1> QED
    BY <1>1, <1>2, <1>3, <1>4, <1>5, <1>6, <1>7, <1>8, <1>9 DEF Next, LoopStep

\* Initially every e-mail has its one token, and no hand holds anything.
LEMMA TokenInit == Init => HandInv /\ \A e \in Emails : TokenInv(e)
  <1> SUFFICES ASSUME Init PROVE HandInv /\ \A e \in Emails : TokenInv(e)
    OBVIOUS
  <1>1. \A p \in Processes, s \in Seats : Hand(p, s).at \in {"idle", "acquire"}
    BY DEF Init, Hand, NoTask, LoopAt, Seats, Slots
  <1>2. HandInv
    BY <1>1 DEF HandInv, Full, Holding, Early, Settling
  <1>3. ASSUME NEW e \in Emails PROVE TokenInv(e)
    <2>1. /\ email_queue[e].attempt_count = 0 /\ accepted[e] = 0 /\ faults = 0
          /\ email_queue[e].row = "none"
      BY DEF Init, QueueInit, NoRow
    <2>2. Live(e) = {} /\ Live(e) \intersect Below = {}
      BY <1>1 DEF Live, HandIn, Early
    <2>3. Over(0) = 0
      BY DeliveryAssumption DEF Over
    <2> QED
      BY <2>1, <2>2, <2>3, FS_EmptySet DEF TokenInv, Free
  <1> QED
    BY <1>2, <1>3

\* The inductive invariant of the tokens.
THEOREM TokenInvariant == Spec => [](HandInv /\ \A e \in Emails : TokenInv(e))
  <1> DEFINE Inv == HandInv /\ \A e \in Emails : TokenInv(e)
  <1>1. Base /\ Base' /\ Inv /\ [Next]_vars => Inv'
    BY HandInvNext, TokenSteps, TokenArithmetic
  <1>2. Spec => []Base
    BY InductiveInvariant DEF Base
  <1> QED
    BY <1>1, <1>2, TokenInit, PTL DEF Spec

\* Faults bound what is repeated: with n faults try_dequeue claims an e-mail at
\* most MAX_ATTEMPTS + n times and SMTP servers accept at most n + 1 copies.
THEOREM RepeatsAreBounded == Spec => []RepeatsBounded
  <1>1. Base /\ (\A e \in Emails : TokenInv(e)) => RepeatsBounded
    <2> SUFFICES ASSUME Base, \A e \in Emails : TokenInv(e), NEW e \in Emails
                 PROVE  /\ email_queue[e].attempt_count <= MAX_ATTEMPTS + faults
                        /\ accepted[e] <= 1 + faults
      BY DEF RepeatsBounded, AttemptsBounded, CopiesBounded
    <2> DEFINE n == email_queue[e].attempt_count
    <2>1. /\ n \in Nat /\ accepted[e] \in Nat /\ faults \in Nat
          /\ MAX_ATTEMPTS \in Nat
      BY DeliveryAssumption DEF Base, TypeOK, QueueTypeOK, Rows
    <2>2. Cardinality(Live(e)) \in Nat /\ Cardinality(Live(e) \intersect Below) \in Nat
      <3>1. Live(e) \subseteq 1..n /\ Live(e) \intersect Below \subseteq 1..n
        BY DEF Live
      <3> QED
        BY <2>1, <3>1, BoundedFinite
    <2>3. Free(e) \in {0, 1}
      BY DEF Free
    <2>4. /\ Over(n) \in Nat
          /\ n < MAX_ATTEMPTS \/ n = MAX_ATTEMPTS + Over(n) - 1
      <3> HIDE DEF n
      <3> QED
        BY <2>1 DEF Over
    <2>5. /\ accepted[e] + Free(e) + Cardinality(Live(e)) <= 1 + faults
          /\ Free(e) + Cardinality(Live(e) \intersect Below) + Over(n) <= 1 + faults
      BY DEF TokenInv
    <2> QED
      BY <2>1, <2>2, <2>3, <2>4, <2>5
  <1>2. Spec => []Base
    BY InductiveInvariant DEF Base
  <1> QED
    BY <1>1, <1>2, TokenInvariant, PTL

-----------------------------------------------------------------------------
(* Permits.                                                                *)

BusySlots(p) == {s \in Slots : tasks[p][s].at # "idle"}

\* The permit Worker::run holds while it dequeues.
LoopPermits(p) == IF loop[p].at \in {"dequeue", "fetch"} THEN 1 ELSE 0

PermitInv(p) ==
  /\ permits[p] + Cardinality(BusySlots(p)) + LoopPermits(p) = CONCURRENCY
  /\ loop[p].at = "stopped" => BusySlots(p) = {}

\* The permits in use are a finite number.
LEMMA BusyFinite ==
  ASSUME NEW p
  PROVE  /\ IsFiniteSet(BusySlots(p)) /\ Cardinality(BusySlots(p)) \in Nat
         /\ IsFiniteSet(BusySlots(p)') /\ Cardinality(BusySlots(p)') \in Nat
  <1>1. BusySlots(p) \subseteq 1..CONCURRENCY /\ BusySlots(p)' \subseteq 1..CONCURRENCY
    BY DEF BusySlots, Slots
  <1> QED
    BY <1>1, BoundedFinite, DeliveryAssumption

\* A step that leaves a process alone keeps its permits.
LEMMA PermitsElsewhere ==
  ASSUME NEW p, PermitInv(p), permits'[p] = permits[p],
         BusySlots(p)' = BusySlots(p), LoopPermits(p)' = LoopPermits(p),
         loop'[p].at = "stopped" => loop[p].at = "stopped"
  PROVE  PermitInv(p)'
  BY DEF PermitInv

\* The loop, a shutdown and a crash.
LEMMA LoopPermitsKept ==
  ASSUME TypeOK, NEW p \in Processes, PermitInv(p), LoopStep(p) \/ Cancel(p) \/ Crash(p)
  PROVE  PermitInv(p)'
  <1>t. permits \in [Processes -> Nat] /\ loop \in [Processes -> LoopRecs] /\ tasks \in TaskMap
    BY DEF TypeOK, TaskMap
  <1>f. /\ IsFiniteSet(BusySlots(p)) /\ Cardinality(BusySlots(p)) \in Nat
        /\ CONCURRENCY \in Nat
    BY BusyFinite, DeliveryAssumption
  <1> USE DEF LoopPermits
  <1>1. CASE Acquire(p) \/ DequeueFails(p) \/ WakeUp(p) \/ Cancel(p) \/ \E e \in Emails : TryDequeue(p, e)
    <2>1. BusySlots(p)' = BusySlots(p)
      BY <1>1 DEF Acquire, DequeueFails, WakeUp, Cancel, TryDequeue, BusySlots
    <2>2. /\ permits'[p] + LoopPermits(p)' = permits[p] + LoopPermits(p)
          /\ loop'[p].at # "stopped"
          /\ permits'[p] \in Nat /\ permits[p] \in Nat
      BY <1>1, <1>t DEF Acquire, DequeueFails, WakeUp, Cancel, TryDequeue, LoopAt
    <2> QED
      BY <1>f, <2>1, <2>2 DEF PermitInv
  <1>2. CASE Drained(p)
    <2>1. BusySlots(p)' = {} /\ BusySlots(p) = {}
      BY <1>2 DEF Drained, BusySlots
    <2>2. permits'[p] = permits[p] /\ LoopPermits(p)' = 0 /\ LoopPermits(p) = 0
      BY <1>2, <1>t DEF Drained, LoopAt
    <2> QED
      BY <2>1, <2>2 DEF PermitInv
  <1>3. CASE Restart(p) \/ Crash(p)
    <2>1. BusySlots(p)' = {}
      <3>1. CASE Restart(p)
        BY <3>1 DEF Restart, PermitInv, BusySlots
      <3>2. CASE Crash(p)
        BY <3>2, <1>t DEF Crash, TaskMap, BusySlots, NoTask
      <3> QED
        BY <1>3, <3>1, <3>2
    <2>2. permits'[p] = CONCURRENCY /\ LoopPermits(p)' = 0
      BY <1>3, <1>t DEF Restart, Crash, LoopAt
    <2> QED
      BY <1>f, <2>1, <2>2, FS_EmptySet DEF PermitInv
  <1>4. ASSUME NEW s \in Slots, Spawn(p, s)
        PROVE  PermitInv(p)'
    <2>1. /\ s \notin BusySlots(p)
          /\ BusySlots(p)' = BusySlots(p) \union {s}
      BY <1>4, <1>t DEF Spawn, BusySlots, TaskMap
    <2>2. permits'[p] = permits[p] /\ LoopPermits(p) = 1 /\ LoopPermits(p)' = 0 /\ loop'[p].at # "stopped"
      BY <1>4, <1>t DEF Spawn, LoopAt
    <2>3. Cardinality(BusySlots(p)') = Cardinality(BusySlots(p)) + 1
      BY <1>f, <2>1, FS_AddElement
    <2> QED
      BY <1>f, <1>t, <2>1, <2>2, <2>3 DEF PermitInv
  <1> QED
    BY <1>1, <1>2, <1>3, <1>4 DEF LoopStep

\* process_one keeps its permit until it returns.
LEMMA TaskPermitsKept ==
  ASSUME TypeOK, NEW p \in Processes, NEW s \in Slots, PermitInv(p), TaskStep(p, s)
  PROVE  PermitInv(p)'
  <1>t. permits \in [Processes -> Nat] /\ tasks \in TaskMap
    BY DEF TypeOK, TaskMap
  <1>f. /\ IsFiniteSet(BusySlots(p)) /\ Cardinality(BusySlots(p)) \in Nat
        /\ CONCURRENCY \in Nat
    BY BusyFinite, DeliveryAssumption
  <1>l. LoopPermits(p)' = LoopPermits(p) /\ loop' = loop
    BY DEF TaskStep, PublishSending, Execute, Send, Ack, ClearRefs, DeleteBlob, Nack,
           PublishOutcome, LoopPermits
  <1>b. s \in BusySlots(p)
    BY DEF TaskStep, PublishSending, Execute, Send, Ack, ClearRefs, DeleteBlob, Nack,
           PublishOutcome, LastEvent, At, BusySlots
  <1>g. ASSUME NEW place, place # "idle", Goto(p, s, place)
        PROVE  PermitInv(p)'
    <2>1. BusySlots(p)' = BusySlots(p)
      BY <1>b, <1>g, <1>t DEF Goto, BusySlots, TaskMap, TaskRecs
    <2> QED
      BY <1>g, <1>l, <2>1, PermitsElsewhere DEF Goto
  <1>e. ASSUME Finish(p, s)
        PROVE  PermitInv(p)'
    <2>1. BusySlots(p)' = BusySlots(p) \ {s}
      BY <1>e, <1>t DEF Finish, BusySlots, NoTask, TaskMap
    <2>2. permits'[p] = permits[p] + 1 /\ permits[p] \in Nat
      BY <1>e, <1>t DEF Finish
    <2>3. Cardinality(BusySlots(p)') = Cardinality(BusySlots(p)) - 1
      BY <1>b, <1>f, <2>1, FS_RemoveElement
    <2> QED
      BY <1>b, <1>f, <1>l, <2>1, <2>2, <2>3 DEF PermitInv, LoopPermits
  <1>1. CASE DeleteBlob(p, s)
    <2>1. ASSUME NEW b, tasks' = [tasks EXCEPT ![p][s].cleanup = @ \ {b}], UNCHANGED permits
          PROVE  PermitInv(p)'
      <3>1. BusySlots(p)' = BusySlots(p)
        BY <1>b, <2>1, <1>t DEF BusySlots, TaskMap, TaskRecs
      <3> QED
        BY <1>l, <2>1, <3>1, PermitsElsewhere
    <2> QED
      BY <1>1, <1>g, <2>1 DEF DeleteBlob
  <1>2. CASE Execute(p, s) \/ Send(p, s)
    <2>1. AfterError(tasks[p][s].attempt) # "idle"
      BY DEF AfterError
    <2> QED
      BY <1>2, <1>g, <2>1 DEF Execute, Send
  <1>3. CASE PublishSending(p, s) \/ Ack(p, s) \/ ClearRefs(p, s) \/ Nack(p, s) \/ PublishOutcome(p, s)
    BY <1>3, <1>e, <1>g DEF PublishSending, Ack, ClearRefs, Nack, PublishOutcome
  <1> QED
    BY <1>1, <1>2, <1>3 DEF TaskStep

\* Permits are conserved: every path out of the loop and of process_one returns
\* the permit it took, and a process that starts again has them all.
THEOREM PermitsAreConserved == Spec => []PermitsConserved
  <1> DEFINE Inv == \A p \in Processes : PermitInv(p)
  <1>1. Init => Inv
    <2> SUFFICES ASSUME Init, NEW p \in Processes PROVE PermitInv(p)
      OBVIOUS
    <2>1. BusySlots(p) = {} /\ permits[p] = CONCURRENCY /\ LoopPermits(p) = 0
      BY DEF Init, BusySlots, NoTask, LoopPermits, LoopAt
    <2> QED
      BY <2>1, FS_EmptySet, DeliveryAssumption DEF PermitInv
  <1>2. TypeOK /\ Inv /\ [Next]_vars => Inv'
    <2> SUFFICES ASSUME TypeOK, Inv, [Next]_vars, NEW q \in Processes
                 PROVE  PermitInv(q)'
      OBVIOUS
    <2>s. ASSUME permits'[q] = permits[q], tasks'[q] = tasks[q], loop'[q] = loop[q]
          PROVE  PermitInv(q)'
      BY <2>s, PermitsElsewhere DEF BusySlots, LoopPermits
    <2>1. ASSUME NEW p \in Processes, LoopStep(p) \/ Cancel(p) \/ Crash(p)
          PROVE  PermitInv(q)'
      <3>1. q # p => permits'[q] = permits[q] /\ tasks'[q] = tasks[q] /\ loop'[q] = loop[q]
        BY <2>1 DEF LoopStep, Acquire, DequeueFails, WakeUp, Drained, Restart, TryDequeue,
                    Spawn, Cancel, Crash, TypeOK
      <3> QED
        BY <2>1, <2>s, <3>1, LoopPermitsKept
    <2>2. ASSUME NEW p \in Processes, NEW s \in Slots, TaskStep(p, s)
          PROVE  PermitInv(q)'
      <3>1. q # p => permits'[q] = permits[q] /\ tasks'[q] = tasks[q] /\ loop'[q] = loop[q]
        BY <2>2 DEF TaskStep, PublishSending, Execute, Send, Ack, ClearRefs, DeleteBlob,
                    Nack, PublishOutcome, Goto, Finish, TypeOK
      <3> QED
        BY <2>2, <2>s, <3>1, TaskPermitsKept
    <2>3. ASSUME NEW e \in Emails,
                 PublishQueued(e) \/ Lapse(e) \/ \E t \in Times : Enqueue(e, t)
          PROVE  PermitInv(q)'
      BY <2>3, <2>s DEF PublishQueued, Lapse, Enqueue
    <2>4. CASE UNCHANGED vars
      BY <2>4, <2>s DEF vars
    <2> QED
      BY <2>1, <2>2, <2>3, <2>4 DEF Next
  <1>3. Inv => PermitsConserved
    BY DEF PermitInv, PermitsConserved, BusySlots, LoopPermits
  <1> QED
    BY <1>1, <1>2, <1>3, TypeCorrect, PTL DEF Spec

-----------------------------------------------------------------------------
(* Without faults.                                                         *)

Outcome(e) ==
  \/ /\ events[e].published \intersect Terminal = {"delivery.succeeded"}
     /\ attachments[e] = {}
     /\ Attached[e] \intersect blobs = {}
  \/ events[e].published \intersect Terminal = {"delivery.failed"}

\* What a hand that has not nacked knows of its e-mail.
OnlyHand(p, s) ==
  LET h == Hand(p, s)
      e == h.email
  IN /\ h.attempt = email_queue[e].attempt_count
     /\ h.at \in Holding => Queued(e) /\ email_queue[e].hidden = "claim"
     /\ h.at \in Holding \ {"fetch"} => h.cleanup = Attached[e]
     /\ h.at \in Settling => events[e].published \intersect Terminal = {}
     /\ h.at = "set_attachments" => h.cleanup = Attached[e]
     /\ h.at = "delete_blobs" =>
          attachments[e] = {} /\ Attached[e] \intersect blobs \subseteq h.cleanup
     /\ h.at = "publish_sent" =>
          attachments[e] = {} /\ Attached[e] \intersect blobs = {}

WorksOn(p, s, e) == Hand(p, s).at \in Holding \union Settling /\ Hand(p, s).email = e

\* Nobody interferes with the e-mail: who works on it has its latest claim, and
\* once its row is gone its outcome is complete or somebody completes it.
Undisturbed(e) ==
  /\ \A p \in Processes, s \in Seats : WorksOn(p, s, e) => OnlyHand(p, s)
  /\ Deleted(e) =>
       \/ Outcome(e)
       \/ \E p \in Processes, s \in Seats : WorksOn(p, s, e) /\ Hand(p, s).at \in Settling

FaultFree == faults = 0 => \A e \in Emails : Undisturbed(e)

\* A status of 'sent' or 'failed' comes from an event that was published.
LatestPublished ==
  \A e \in Emails : events[e].latest \in Terminal => events[e].latest \in events[e].published

\* At most one hand works on an undisturbed e-mail.
LEMMA Alone ==
  ASSUME HandInv, NEW e, Undisturbed(e),
         NEW p \in Processes, NEW s \in Seats, WorksOn(p, s, e),
         NEW q \in Processes, NEW i \in Seats, WorksOn(q, i, e)
  PROVE  p = q /\ s = i
  <1>1. Hand(p, s).attempt = Hand(q, i).attempt
    BY DEF Undisturbed, OnlyHand, WorksOn
  <1> QED
    BY <1>1 DEF HandInv, Full, WorksOn

\* A step that concerns neither the e-mail nor those who work on it.
CalmFor(e) ==
  /\ email_queue'[e] = email_queue[e]
  /\ events'[e].published \intersect Terminal = events[e].published \intersect Terminal
  /\ attachments'[e] = attachments[e]
  /\ blobs' \subseteq blobs
  /\ \A q \in Processes, i \in Seats : WorksOn(q, i, e) \/ WorksOn(q, i, e)' => Same(q, i)

\* A step that is calm for an e-mail leaves it undisturbed.
LEMMA CalmStep ==
  ASSUME NEW e, Undisturbed(e), CalmFor(e)
  PROVE  Undisturbed(e)'
  <1>1. ASSUME NEW q \in Processes, NEW i \in Seats, WorksOn(q, i, e)'
        PROVE  OnlyHand(q, i)'
    <2>1. Hand(q, i)' = Hand(q, i) /\ WorksOn(q, i, e)
      BY <1>1 DEF CalmFor, Same, WorksOn
    <2>2. OnlyHand(q, i)
      BY <2>1 DEF Undisturbed
    <2> QED
      BY <2>1, <2>2 DEF OnlyHand, CalmFor, WorksOn, Queued
  <1>2. Outcome(e) => Outcome(e)'
    BY DEF Outcome, CalmFor
  <1>3. Deleted(e)' => Deleted(e)
    BY DEF CalmFor, Deleted
  <1>4. \A q \in Processes, i \in Seats :
          WorksOn(q, i, e) /\ Hand(q, i).at \in Settling
            => WorksOn(q, i, e)' /\ Hand(q, i)'.at \in Settling
    BY DEF CalmFor, Same, WorksOn
  <1> QED
    BY <1>1, <1>2, <1>3, <1>4 DEF Undisturbed

\* A step of the one who works on the e-mail.
LEMMA SoleStep ==
  ASSUME HandInv, NEW e, Undisturbed(e),
         NEW p \in Processes, NEW s \in Seats, WorksOn(p, s, e), Moves(p, s),
         WorksOn(p, s, e)' => OnlyHand(p, s)',
         Deleted(e)' => Outcome(e)' \/ Hand(p, s)'.at \in Settling
  PROVE  Undisturbed(e)'
  <1>1. ASSUME NEW q \in Processes, NEW i \in Seats, WorksOn(q, i, e)'
        PROVE  q = p /\ i = s
    <2>1. CASE q # p \/ i # s
      <3>1. WorksOn(q, i, e)
        BY <1>1, <2>1 DEF Moves, Others, Same, WorksOn
      <3> QED
        BY <2>1, <3>1, Alone
    <2> QED
      BY <2>1
  <1>2. Hand(p, s)'.at \in Settling => WorksOn(p, s, e)'
    BY DEF Moves, Full, WorksOn
  <1> QED
    BY <1>1, <1>2 DEF Undisturbed

\* The task of an undisturbed e-mail keeps it undisturbed, unless it fails.
LEMMA UndisturbedTask ==
  ASSUME Base, Base', HandInv, NEW p \in Processes, NEW s \in Slots, TaskStep(p, s), NoFault,
         NEW e \in Emails, tasks[p][s].email = e, Undisturbed(e)
  PROVE  Undisturbed(e)'
  <1> DEFINE t == tasks[p][s]
  <1>t. /\ Busy(p, s) /\ Moves(p, s) /\ s \in Seats
        /\ Hand(p, s) = t /\ Hand(p, s)' = tasks'[p][s]
        /\ tasks \in TaskMap /\ QueueTypeOK
        /\ email_queue[e].row # "none"
    <2>1. Busy(p, s) /\ Moves(p, s) /\ Full(p, s)
      BY TaskStepMoves, HandTypes
    <2>2. s \in Seats /\ Hand(p, s) = t /\ Hand(p, s)' = tasks'[p][s]
      BY HandTypes, DeliveryAssumption DEF Slots, Hand
    <2>3. tasks \in TaskMap /\ QueueTypeOK
      BY DEF Base, TypeOK, TaskMap
    <2>4. email_queue[e].row # "none"
      BY <2>1, <2>2, HandTypes
    <2> QED
      BY <2>1, <2>2, <2>3, <2>4
  <1>p. /\ \A place : Goto(p, s, place) =>
             /\ tasks'[p][s].at = place /\ tasks'[p][s].email = e
             /\ tasks'[p][s].attempt = t.attempt /\ tasks'[p][s].cleanup = t.cleanup
        /\ Finish(p, s) => tasks'[p][s].at = "idle"
    BY <1>t, GotoEffect, FinishEffect
  <1>c. t.at # "publish_retrying" => WorksOn(p, s, e)
    BY <1>t DEF WorksOn, Busy, TaskMap, TaskRecs, TaskPlaces, Holding, Early, Settling
  <1>o. t.at # "publish_retrying" => OnlyHand(p, s)
    BY <1>c, <1>t DEF Undisturbed
  <1>q. Queued(e) => events[e].published \intersect Terminal = {} /\ ~Deleted(e)
    BY DEF Base, SafetyInv, OutcomeInv, Queued, Deleted, Terminal
  <1>v. /\ events \in [Emails -> EventRecs] /\ attachments \in [Emails -> SUBSET Blobs]
        /\ Attached \in [Emails -> SUBSET Blobs]
    BY DeliveryAssumption DEF Base, TypeOK
  <1>f. ~Fault
    BY DEF Fault, NoFault, Base, TypeOK
  <1>a. AfterError(t.attempt) \in {"ack_failed", "nack"}
    BY DEF AfterError
  <1>h. \A x : x \in Holding => x \notin Settling
    BY DEF Holding, Early, Settling
  <1>1. CASE PublishSending(p, s) \/ Execute(p, s) \/ Send(p, s)
    <2>1. /\ t.at \in {"publish_sending", "execute", "send"}
          /\ tasks'[p][s].at \in Holding \ {"fetch"}
          /\ tasks'[p][s].attempt = t.attempt /\ tasks'[p][s].cleanup = t.cleanup
          /\ tasks'[p][s].email = e
          /\ UNCHANGED email_queue
      BY <1>1, <1>p, <1>a DEF PublishSending, Execute, Send, store, At, Holding, Early
    <2>2. OnlyHand(p, s) /\ Queued(e) /\ t.at \in Holding \ {"fetch"}
      BY <1>t, <1>o, <2>1 DEF OnlyHand, Holding, Early
    <2>3. OnlyHand(p, s)'
      BY <1>t, <1>h, <2>1, <2>2 DEF OnlyHand, Queued, Settling
    <2>4. ~Deleted(e)'
      BY <1>q, <2>1, <2>2 DEF Deleted
    <2> QED
      BY <1>t, <1>c, <2>1, <2>3, <2>4, SoleStep
  <1>2. CASE Ack(p, s)
    <2>1. /\ t.at \in {"ack", "ack_failed"}
          /\ Delete(e)
          /\ Goto(p, s, IF t.at = "ack" THEN "set_attachments" ELSE "publish_failed")
          /\ UNCHANGED events
      BY <1>2, <1>f DEF Ack, At
    <2>2. /\ OnlyHand(p, s) /\ Queued(e) /\ t.cleanup = Attached[e]
          /\ t.attempt = email_queue[e].attempt_count
      BY <1>t, <1>o, <2>1 DEF OnlyHand, Holding, Early
    <2>3. email_queue'[e].attempt_count = email_queue[e].attempt_count
      BY <1>t, <2>1, RowEffects
    <2>4. /\ tasks'[p][s].at \in {"set_attachments", "publish_failed"}
          /\ tasks'[p][s].attempt = t.attempt /\ tasks'[p][s].cleanup = t.cleanup
          /\ tasks'[p][s].email = e
      BY <1>p, <2>1
    <2>5. OnlyHand(p, s)' /\ Hand(p, s)'.at \in Settling
      BY <1>t, <1>q, <2>1, <2>2, <2>3, <2>4 DEF OnlyHand, Holding, Early, Settling
    <2> QED
      BY <1>t, <1>c, <2>1, <2>5, SoleStep
  <1>3. CASE ClearRefs(p, s)
    <2>1. /\ t.at = "set_attachments"
          /\ Goto(p, s, "delete_blobs")
          /\ attachments' = [attachments EXCEPT ![e] = {}]
          /\ UNCHANGED <<email_queue, blobs, events>>
      BY <1>3, <1>f DEF ClearRefs, At
    <2>2. /\ t.cleanup = Attached[e] /\ events[e].published \intersect Terminal = {}
          /\ t.attempt = email_queue[e].attempt_count
      BY <1>t, <1>o, <2>1 DEF OnlyHand, Settling
    <2>3. OnlyHand(p, s)' /\ Hand(p, s)'.at \in Settling
      BY <1>t, <1>p, <1>v, <2>1, <2>2 DEF OnlyHand, Holding, Early, Settling
    <2> QED
      BY <1>t, <1>c, <2>1, <2>3, SoleStep
  <1>4. CASE DeleteBlob(p, s)
    <2>1. t.at = "delete_blobs" /\ UNCHANGED <<email_queue, attachments, events>>
      BY <1>4 DEF DeleteBlob, At
    <2>2. /\ attachments[e] = {} /\ Attached[e] \intersect blobs \subseteq t.cleanup
          /\ events[e].published \intersect Terminal = {}
          /\ t.attempt = email_queue[e].attempt_count
      BY <1>t, <1>o, <2>1 DEF OnlyHand, Settling
    <2>3. OnlyHand(p, s)' /\ Hand(p, s)'.at \in Settling
      <3>1. CASE t.cleanup = {} /\ Goto(p, s, "publish_sent") /\ UNCHANGED blobs
        BY <1>t, <1>p, <2>1, <2>2, <3>1 DEF OnlyHand, Holding, Early, Settling
      <3>2. ASSUME NEW b \in t.cleanup, blobs' = blobs \ {b},
                   tasks' = [tasks EXCEPT ![p][s].cleanup = @ \ {b}]
            PROVE  OnlyHand(p, s)' /\ Hand(p, s)'.at \in Settling
        <4>1. /\ tasks'[p][s].at = "delete_blobs" /\ tasks'[p][s].email = e
              /\ tasks'[p][s].attempt = t.attempt /\ tasks'[p][s].cleanup = t.cleanup \ {b}
          BY <1>t, <2>1, <3>2 DEF TaskMap, TaskRecs
        <4> QED
          BY <1>t, <2>1, <2>2, <3>2, <4>1 DEF OnlyHand, Holding, Early, Settling
      <3> QED
        BY <1>4, <1>f, <3>1, <3>2 DEF DeleteBlob
    <2> QED
      BY <1>t, <1>c, <2>1, <2>3, SoleStep
  <1>5. CASE Nack(p, s)
    <2>1. t.at = "nack" /\ Hide(e) /\ tasks'[p][s].at = "publish_retrying"
      BY <1>5, <1>f, <1>p DEF Nack, At
    <2>2. Queued(e)
      BY <1>t, <1>o, <2>1 DEF OnlyHand, Holding, Early
    <2>3. ~Deleted(e)'
      BY <1>t, <1>q, <2>1, <2>2, RowEffects DEF Deleted
    <2>4. ~WorksOn(p, s, e)'
      BY <1>t, <2>1 DEF WorksOn, Holding, Early, Settling
    <2> QED
      BY <1>t, <1>c, <2>1, <2>3, <2>4, SoleStep
  <1>6. CASE PublishOutcome(p, s)
    <2>1. /\ t.at \in {"publish_sent", "publish_failed", "publish_retrying"}
          /\ Publish(e, LastEvent[t.at])
          /\ tasks'[p][s].at = "idle"
          /\ UNCHANGED <<email_queue, attachments, blobs>>
      BY <1>6, <1>f, <1>p DEF PublishOutcome, TryPublish, LastEvent
    <2>2. events'[e].published = events[e].published \union {LastEvent[t.at]}
      BY <1>v, <2>1 DEF Publish, EventRecs
    <2>3. ~WorksOn(p, s, e)'
      BY <1>t, <2>1 DEF WorksOn, Holding, Early, Settling
    <2>4. CASE t.at = "publish_sent"
      <3>1. Outcome(e)'
        BY <1>t, <1>o, <2>1, <2>2, <2>4 DEF OnlyHand, Settling, Outcome, LastEvent, Terminal
      <3> QED
        BY <1>t, <1>c, <2>3, <2>4, <3>1, SoleStep
    <2>5. CASE t.at = "publish_failed"
      <3>1. Outcome(e)'
        BY <1>t, <1>o, <2>1, <2>2, <2>5 DEF OnlyHand, Settling, Outcome, LastEvent, Terminal
      <3> QED
        BY <1>t, <1>c, <2>3, <2>5, <3>1, SoleStep
    <2>6. CASE t.at = "publish_retrying"
      <3>1. events'[e].published \intersect Terminal = events[e].published \intersect Terminal
        BY <2>2, <2>6 DEF LastEvent, Terminal
      <3>2. ~WorksOn(p, s, e)
        BY <1>t, <2>6 DEF WorksOn, Holding, Early, Settling
      <3>3. CalmFor(e)
        BY <1>t, <2>1, <2>3, <3>1, <3>2 DEF CalmFor, Moves, Others
      <3> QED
        BY <3>3, CalmStep
    <2> QED
      BY <2>1, <2>4, <2>5, <2>6
  <1> QED
    BY <1>1, <1>2, <1>3, <1>4, <1>5, <1>6 DEF TaskStep

\* Nobody works on an e-mail whose row is visible or not there.
LEMMA NobodyWorks ==
  ASSUME Base, NEW e \in Emails, Undisturbed(e), ~Deleted(e),
         Queued(e) => email_queue[e].hidden # "claim"
  PROVE  \A q \in Processes, i \in Seats : ~WorksOn(q, i, e)
  <1> SUFFICES ASSUME NEW q \in Processes, NEW i \in Seats, WorksOn(q, i, e)
               PROVE  FALSE
    OBVIOUS
  <1>1. Full(q, i) /\ OnlyHand(q, i)
    BY DEF WorksOn, Full, Undisturbed
  <1>2. CASE Hand(q, i).at \in Holding
    BY <1>1, <1>2 DEF OnlyHand, WorksOn
  <1>3. CASE Hand(q, i).at \in Settling
    <2>1. Hand(q, i).at # "fetch"
      BY <1>3 DEF Settling
    <2>2. i \in Slots
      BY <1>1, <2>1, HandTypes
    <2>3. tasks[q][i] = Hand(q, i)
      BY <2>2, HandTypes
    <2>4. TaskInv(q, i)
      BY <2>2 DEF Base, SafetyInv
    <2> QED
      BY <1>3, <2>3, <2>4 DEF TaskInv, Settling, WorksOn
  <1> QED
    BY <1>2, <1>3 DEF WorksOn

\* A step on the row of an e-mail nobody works on, and which is not deleted.
LEMMA RowStep ==
  ASSUME NEW e, \A q \in Processes, i \in Seats : ~WorksOn(q, i, e),
         UNCHANGED <<loop, tasks>>, ~Deleted(e)'
  PROVE  Undisturbed(e)'
  BY DEF Undisturbed, WorksOn, Hand

\* No step without a fault disturbs an e-mail.
LEMMA UndisturbedNext ==
  ASSUME Base, Base', HandInv, [Next]_vars, faults' = 0, FaultFree
  PROVE  \A e \in Emails : Undisturbed(e)'
  <1> SUFFICES ASSUME NEW e \in Emails PROVE Undisturbed(e)'
    OBVIOUS
  <1>z. faults \in Nat
    BY DEF Base, TypeOK
  <1>f. ~Fault
    BY <1>z DEF Fault
  <1>q. QueueTypeOK /\ events \in [Emails -> EventRecs]
    BY DEF Base, TypeOK
  <1>u. ASSUME faults = 0 PROVE Undisturbed(e)
    BY <1>u DEF FaultFree
  <1>s. ASSUME UNCHANGED <<loop, tasks>>
        PROVE  \A q \in Processes, i \in Seats : Same(q, i)
    BY <1>s DEF Same, Hand
  <1>1. ASSUME NEW x \in Emails, PublishQueued(x)
        PROVE  Undisturbed(e)'
    <2>1. /\ Publish(x, "queued") /\ NoFault
          /\ UNCHANGED <<email_queue, attachments, blobs, loop, tasks>>
      BY <1>1, <1>f DEF PublishQueued, TryPublish
    <2>2. events'[e].published \intersect Terminal = events[e].published \intersect Terminal
      BY <1>q, <2>1 DEF Publish, EventRecs, Terminal
    <2> QED
      BY <1>u, <1>s, <2>1, <2>2, CalmStep DEF CalmFor, NoFault
  <1>2. ASSUME NEW x \in Emails, Lapse(x)
        PROVE  Undisturbed(e)'
    <2>1. /\ Reappear(x) /\ NoFault
          /\ UNCHANGED <<attachments, blobs, events, loop, tasks>>
          /\ ~(email_queue[x].hidden = "claim" /\ HoldsClaim(x, email_queue[x].attempt_count))
      BY <1>2, <1>f DEF Lapse
    <2>2. Undisturbed(e)
      BY <1>u, <2>1 DEF NoFault
    <2>3. CASE e # x
      <3>1. email_queue'[e] = email_queue[e]
        BY <1>q, <2>1, <2>3 DEF Reappear, QueueTypeOK
      <3> QED
        BY <1>s, <2>1, <2>2, <3>1, CalmStep DEF CalmFor
    <2>4. CASE e = x
      <3>1. ~Deleted(e) /\ ~Deleted(e)'
        BY <1>q, <2>1, <2>4, RowEffects DEF Reappear, Queued, Deleted
      <3>2. ASSUME NEW q \in Processes, NEW i \in Seats, WorksOn(q, i, e)
            PROVE  FALSE
        <4>1. Full(q, i) /\ OnlyHand(q, i)
          BY <2>2, <3>2 DEF WorksOn, Full, Undisturbed
        <4>2. CASE email_queue[e].hidden = "claim"
          <5>1. HoldsClaim(e, email_queue[e].attempt_count)
            <6>1. /\ Hand(q, i).email = e /\ Hand(q, i).attempt = email_queue[e].attempt_count
              BY <3>2, <4>1 DEF WorksOn, OnlyHand
            <6> QED
              BY <6>1, HandTypes DEF HoldsClaim
          <5> QED
            BY <2>1, <2>4, <4>2, <5>1
        <4>3. CASE email_queue[e].hidden # "claim"
          BY <2>2, <3>1, <3>2, <4>3, NobodyWorks
        <4> QED
          BY <4>2, <4>3
      <3> QED
        BY <2>1, <3>1, <3>2, RowStep
    <2> QED
      BY <2>3, <2>4
  <1>3. ASSUME NEW x \in Emails, NEW t \in Times, Enqueue(x, t)
        PROVE  Undisturbed(e)'
    <2>1. /\ Insert(x, t) /\ NoFault
          /\ UNCHANGED <<attachments, blobs, events, loop, tasks>>
      BY <1>3 DEF Enqueue, NoFault
    <2>2. Undisturbed(e)
      BY <1>u, <2>1 DEF NoFault
    <2>3. CASE e # x
      <3>1. email_queue'[e] = email_queue[e]
        BY <1>q, <2>1, <2>3, RowEffects
      <3> QED
        BY <1>s, <2>1, <2>2, <3>1, CalmStep DEF CalmFor
    <2>4. CASE e = x
      <3>1. ~Deleted(e) /\ ~Queued(e) /\ ~Deleted(e)'
        BY <1>q, <2>1, <2>4, RowEffects DEF NoRow, Queued, Deleted
      <3> QED
        BY <2>1, <2>2, <3>1, NobodyWorks, RowStep
    <2> QED
      BY <2>3, <2>4
  <1>4. ASSUME NEW p \in Processes, Acquire(p) \/ WakeUp(p) \/ Drained(p) \/ Restart(p)
        PROVE  Undisturbed(e)'
    <2>1. UNCHANGED <<email_queue, attachments, blobs, events, faults, tasks>>
      BY <1>4 DEF Acquire, WakeUp, Drained, Restart, store
    <2>2. \A q \in Processes :
            loop'[q] = loop[q] \/ (loop[q].at # "fetch" /\ loop'[q].at # "fetch")
      BY <1>4 DEF Acquire, WakeUp, Drained, Restart, LoopAt, Base, TypeOK
    <2>3. ASSUME NEW q \in Processes, NEW i \in Seats, ~Same(q, i)
          PROVE  ~WorksOn(q, i, e) /\ ~WorksOn(q, i, e)'
      <3>1. i = 0 /\ loop'[q] # loop[q]
        BY <2>1, <2>3 DEF Same, Hand
      <3>2. ~Full(q, 0)
        BY <2>2, <3>1, HandTypes
      <3>3. ~Full(q, 0)'
        BY <2>2, <3>1 DEF Full, Hand, Base, TypeOK, LoopRecs, LoopPlaces, Holding, Early, Settling
      <3> QED
        BY <3>1, <3>2, <3>3 DEF WorksOn, Full
    <2> QED
      BY <1>u, <2>1, <2>3, CalmStep DEF CalmFor
  <1>5. ASSUME NEW p \in Processes, DequeueFails(p) \/ Cancel(p) \/ Crash(p)
        PROVE  Undisturbed(e)'
    BY <1>5, <1>f DEF DequeueFails, Cancel, Crash
  <1>6. ASSUME NEW p \in Processes, NEW x \in Emails, TryDequeue(p, x)
        PROVE  Undisturbed(e)'
    <2>1. /\ NewClaim(p, x) /\ Claim(x)
          /\ UNCHANGED <<attachments, blobs, events, faults>>
      BY <1>6, DequeueClaims DEF TryDequeue
    <2>2. Undisturbed(e)
      BY <1>u, <2>1
    <2>3. CASE e # x
      <3>1. email_queue'[e] = email_queue[e]
        BY <1>q, <2>1, <2>3 DEF Claim, QueueTypeOK
      <3>2. ~WorksOn(p, 0, e) /\ ~WorksOn(p, 0, e)'
        BY <2>1, <2>3 DEF NewClaim, WorksOn, Full
      <3> QED
        BY <2>1, <2>2, <3>1, <3>2, CalmStep DEF CalmFor, NewClaim, Others
    <2>4. CASE e = x
      <3>1. Queued(e) /\ email_queue[e].hidden = "no"
        BY <2>1, <2>4 DEF Claim, NextUp, Visible
      <3>2. \A q \in Processes, i \in Seats : ~WorksOn(q, i, e)
        BY <2>2, <3>1, NobodyWorks DEF Queued, Deleted
      <3>3. /\ email_queue'[e].row = "queued"
            /\ email_queue'[e].attempt_count = email_queue[e].attempt_count + 1
        BY <1>q, <2>1, <2>4, RowEffects
      <3>4. email_queue'[e].hidden = "claim"
        <4>1. email_queue' = [email_queue EXCEPT ![x].hidden = "claim", ![x].attempt_count = @ + 1]
          BY <2>1 DEF Claim
        <4> QED
          BY <1>q, <2>4, <4>1 DEF QueueTypeOK, Rows
      <3>5. ASSUME NEW q \in Processes, NEW i \in Seats, WorksOn(q, i, e)'
            PROVE  OnlyHand(q, i)'
        <4>1. q = p /\ i = 0
          BY <2>1, <3>2, <3>5 DEF NewClaim, Others, Same, WorksOn
        <4> QED
          BY <2>1, <2>4, <3>3, <3>4, <4>1 DEF NewClaim, OnlyHand, Queued, Settling
      <3> QED
        BY <3>3, <3>5 DEF Undisturbed, Deleted
    <2> QED
      BY <2>3, <2>4
  <1>7. ASSUME NEW p \in Processes, NEW s \in Slots, Spawn(p, s)
        PROVE  Undisturbed(e)'
    <2>1. /\ HandsOver(p, s) /\ s \in Seats /\ 0 \in Seats
          /\ UNCHANGED <<email_queue, attachments, blobs, events, faults>>
      BY <1>7, SpawnHandsOver, HandTypes DEF Spawn, store
    <2>2. Undisturbed(e)
      BY <1>u, <2>1
    <2>3. CASE Hand(p, 0).email # e
      <3>1. /\ ~WorksOn(p, 0, e) /\ ~WorksOn(p, 0, e)'
            /\ ~WorksOn(p, s, e) /\ ~WorksOn(p, s, e)'
        BY <2>1, <2>3 DEF HandsOver, WorksOn, Full
      <3> QED
        BY <2>1, <2>2, <3>1, CalmStep DEF CalmFor, HandsOver
    <2>4. CASE Hand(p, 0).email = e
      <3>1. WorksOn(p, 0, e) /\ OnlyHand(p, 0) /\ Queued(e) /\ email_queue[e].hidden = "claim"
        BY <2>1, <2>2, <2>4 DEF HandsOver, WorksOn, Undisturbed, OnlyHand, Holding, Early
      <3>2. Hand(p, s)'.cleanup = Attached[e]
        <4>1. Hand(p, s)' = tasks'[p][s] /\ Hand(p, 0) = loop[p]
          BY DeliveryAssumption DEF Hand, Slots
        <4>2. tasks'[p][s].cleanup = attachments[e]
          BY <1>7, <2>4, <4>1 DEF Spawn, Base, TypeOK
        <4>3. attachments[e] = Attached[e]
          BY <3>1 DEF Base, SafetyInv, RefsInv, Queued, Deleted
        <4> QED
          BY <4>1, <4>2, <4>3
      <3>3. OnlyHand(p, s)'
        BY <2>1, <2>4, <3>1, <3>2 DEF HandsOver, OnlyHand, Queued, Settling
      <3>4. ASSUME NEW q \in Processes, NEW i \in Seats, WorksOn(q, i, e)'
            PROVE  q = p /\ i = s
        <4>1. CASE q # p \/ i \notin {0, s}
          <5>1. WorksOn(q, i, e)
            BY <2>1, <3>4, <4>1 DEF HandsOver, Same, WorksOn
          <5>2. q = p /\ i = 0
            BY <2>1, <2>2, <3>1, <5>1, Alone
          <5> QED
            BY <4>1, <5>2
        <4>2. CASE q = p /\ i = 0
          BY <2>1, <3>4, <4>2 DEF HandsOver, WorksOn, Full
        <4> QED
          BY <4>1, <4>2
      <3>5. ~Deleted(e)'
        BY <2>1, <3>1 DEF Queued, Deleted
      <3> QED
        BY <3>3, <3>4, <3>5 DEF Undisturbed
    <2> QED
      BY <2>3, <2>4
  <1>8. ASSUME NEW p \in Processes, NEW s \in Slots, TaskStep(p, s)
        PROVE  Undisturbed(e)'
    <2>1. NoFault
      BY <1>8, <1>f
      DEF TaskStep, PublishSending, Execute, Send, Ack, ClearRefs, DeleteBlob, Nack,
          PublishOutcome, TryPublish, NoFault
    <2>2. Undisturbed(e)
      BY <1>u, <2>1 DEF NoFault
    <2>3. CASE tasks[p][s].email = e
      BY <1>8, <2>1, <2>2, <2>3, UndisturbedTask
    <2>4. CASE tasks[p][s].email # e
      <3>1. Moves(p, s) /\ Hand(p, s) = tasks[p][s] /\ s \in Seats /\ tasks[p][s].email \in Emails
        BY <1>8, TaskStepMoves, HandTypes DEF Base, InHand
      <3>2. ~WorksOn(p, s, e) /\ ~WorksOn(p, s, e)'
        BY <2>4, <3>1 DEF WorksOn, Moves, Full
      <3>3. /\ email_queue'[e] = email_queue[e]
            /\ attachments'[e] = attachments[e]
            /\ blobs' \subseteq blobs
        BY <1>q, <1>8, <2>4, <3>1
        DEF TaskStep, PublishSending, Execute, Send, Ack, ClearRefs, DeleteBlob, Nack,
            PublishOutcome, store, Delete, Hide, QueueTypeOK, Base, TypeOK
      <3>4. events'[e] = events[e]
        BY <1>q, <1>8, <2>4, <3>1
        DEF TaskStep, PublishSending, Execute, Send, Ack, ClearRefs, DeleteBlob, Nack,
            PublishOutcome, TryPublish, Publish, store
      <3> QED
        BY <2>2, <3>1, <3>2, <3>3, <3>4, CalmStep DEF CalmFor, Moves, Others
    <2> QED
      BY <2>3, <2>4
  <1>9. CASE UNCHANGED vars
    BY <1>9, <1>u, <1>s, CalmStep DEF vars, CalmFor
  <1> QED
    BY <1>1, <1>2, <1>3, <1>4, <1>5, <1>6, <1>7, <1>8, <1>9 DEF Next, LoopStep

\* The latest event is among the published ones.
LEMMA LatestNext ==
  ASSUME Base, [Next]_vars, LatestPublished
  PROVE  LatestPublished'
  <1>1. events \in [Emails -> EventRecs]
    BY DEF Base, TypeOK
  <1>2. ASSUME UNCHANGED events \/ \E e \in Emails, type \in EventTypes : Publish(e, type)
        PROVE  LatestPublished'
    <2>1. CASE UNCHANGED events
      BY <2>1 DEF LatestPublished
    <2>2. ASSUME NEW e \in Emails, NEW type \in EventTypes, Publish(e, type)
          PROVE  LatestPublished'
      <3>1. \A f \in Emails :
              IF f = e THEN events'[f].latest = type /\ type \in events'[f].published
              ELSE events'[f] = events[f]
        BY <1>1, <2>2 DEF Publish, EventRecs
      <3> QED
        BY <3>1 DEF LatestPublished
    <2> QED
      BY <1>2, <2>1, <2>2
  <1>3. ASSUME NEW p \in Processes, NEW s \in Slots, TaskStep(p, s)
        PROVE  UNCHANGED events \/ \E e \in Emails, type \in EventTypes : Publish(e, type)
    <2>1. tasks[p][s].email \in Emails
      BY <1>3 DEF TaskStep, PublishSending, Execute, Send, Ack, ClearRefs, DeleteBlob, Nack,
                  PublishOutcome, LastEvent, At, Busy, Base, InHand
    <2>2. CASE PublishSending(p, s) \/ PublishOutcome(p, s)
      BY <2>1, <2>2 DEF PublishSending, PublishOutcome, TryPublish, LastEvent, EventTypes
    <2> QED
      BY <1>3, <2>2 DEF TaskStep, Execute, Send, Ack, ClearRefs, DeleteBlob, Nack, store
  <1>4. ASSUME NEW p \in Processes, LoopStep(p) \/ Cancel(p) \/ Crash(p)
        PROVE  UNCHANGED events
    BY <1>4 DEF LoopStep, Acquire, DequeueFails, WakeUp, Drained, Restart, TryDequeue, Spawn,
                Cancel, Crash, store
  <1>5. ASSUME NEW e \in Emails,
               PublishQueued(e) \/ Lapse(e) \/ \E t \in Times : Enqueue(e, t)
        PROVE  UNCHANGED events \/ Publish(e, "queued")
    BY <1>5 DEF PublishQueued, TryPublish, Lapse, Enqueue
  <1>6. "queued" \in EventTypes
    BY DEF EventTypes
  <1> QED
    BY <1>2, <1>3, <1>4, <1>5, <1>6 DEF Next, vars

\* The inductive invariant of the outcomes.
THEOREM OutcomeInvariant == Spec => [](HandInv /\ FaultFree /\ LatestPublished)
  <1>1. Init => FaultFree /\ LatestPublished
    <2>1. ASSUME Init, NEW e \in Emails PROVE Undisturbed(e)
      BY <2>1 DEF Init, QueueInit, NoRow, NoTask, LoopAt, Undisturbed, WorksOn, Hand, Deleted,
                  Holding, Early, Settling, Seats, Slots
    <2>2. Init => LatestPublished
      BY DEF Init, LatestPublished, Terminal
    <2> QED
      BY <2>1, <2>2 DEF FaultFree
  <1>2. Base /\ Base' /\ HandInv /\ FaultFree /\ LatestPublished /\ [Next]_vars
          => FaultFree' /\ LatestPublished'
    BY UndisturbedNext, LatestNext DEF FaultFree
  <1>3. Spec => []Base
    BY InductiveInvariant DEF Base
  <1> QED
    BY <1>1, <1>2, <1>3, TokenInvariant, PTL DEF Spec

\* As long as nothing fails, each e-mail has one task at a time and exactly one
\* outcome, and leaves nothing: the claims of try_dequeue keep tasks apart.
THEOREM OutcomesAreUnique == Spec => []OneOutcome
  <1>1. Base /\ HandInv /\ FaultFree => CleanOutcome
    <2> SUFFICES ASSUME Base, HandInv, FaultFree, faults = 0, NEW e \in Emails, Deleted(e), ~Held(e)
                 PROVE  Outcome(e)
      BY DEF CleanOutcome, Outcome
    <2>1. ASSUME NEW p \in Processes, NEW s \in Seats, WorksOn(p, s, e)
          PROVE  FALSE
      <3>1. /\ Full(p, s) /\ OnlyHand(p, s)
            /\ Hand(p, s).email = e /\ Hand(p, s).attempt = email_queue[e].attempt_count
        BY <2>1 DEF FaultFree, Undisturbed, WorksOn, Full, OnlyHand
      <3>2. Hand(p, s).attempt \in 1..email_queue[e].attempt_count
        BY <3>1, HandTypes DEF HandInv, Base, TypeOK, QueueTypeOK, Rows
      <3>3. HoldsClaim(e, Hand(p, s).attempt)
        BY <3>1, HandTypes DEF HoldsClaim
      <3> QED
        BY <3>2, <3>3 DEF Held
    <2> QED
      BY <2>1 DEF FaultFree, Undisturbed
  <1>2. Base /\ FaultFree => NoStaleTask
    <2> SUFFICES ASSUME Base, FaultFree, faults = 0, NEW p \in Processes, NEW s \in Slots,
                        tasks[p][s].at \notin {"idle", "publish_retrying"}
                 PROVE  tasks[p][s].attempt = email_queue[tasks[p][s].email].attempt_count
      BY DEF NoStaleTask
    <2>1. s \in Seats /\ Hand(p, s) = tasks[p][s] /\ tasks[p][s].email \in Emails
      BY HandTypes DEF Base, InHand, Busy
    <2>2. WorksOn(p, s, tasks[p][s].email)
      BY <2>1 DEF WorksOn, Base, TypeOK, TaskRecs, TaskPlaces, Holding, Early, Settling
    <2> QED
      BY <2>1, <2>2 DEF FaultFree, Undisturbed, OnlyHand
  <1>3. Spec => []Base
    BY InductiveInvariant DEF Base
  <1> QED
    BY <1>1, <1>2, <1>3, OutcomeInvariant, PTL DEF OneOutcome

\* As long as nothing fails, the status leaves 'sent' or 'failed' only for an
\* event published late: no task publishes Sending or a second outcome after it.
THEOREM StatusStays == Spec => StatusSettles
  <1>1. Base /\ FaultFree /\ LatestPublished /\ [Next]_vars =>
          \A e \in Emails :
            events[e].latest \in Terminal /\ faults = 0 =>
              events'[e].latest \in {events[e].latest, "queued", "retrying"}
    <2> SUFFICES ASSUME Base, FaultFree, LatestPublished, [Next]_vars, NEW e \in Emails,
                        events[e].latest \in Terminal, faults = 0
                 PROVE  events'[e].latest \in {events[e].latest, "queued", "retrying"}
      OBVIOUS
    <2>e. /\ events \in [Emails -> EventRecs]
          /\ events[e].published \intersect Terminal # {}
      BY DEF LatestPublished, Base, TypeOK
    <2>1. ASSUME NEW p \in Processes, NEW s \in Slots, TaskStep(p, s)
          PROVE  events'[e].latest \in {events[e].latest, "queued", "retrying"}
      <3> DEFINE t == tasks[p][s]
      <3>1. CASE UNCHANGED events \/ t.email # e
        BY <2>e, <2>1, <3>1
        DEF TaskStep, PublishSending, Execute, Send, Ack, ClearRefs, DeleteBlob, Nack,
            PublishOutcome, TryPublish, Publish, EventRecs, store
      <3>2. CASE t.at \in {"publish_sending", "publish_sent", "publish_failed"} /\ t.email = e
        <4>1. s \in Seats /\ Hand(p, s) = t
          BY HandTypes
        <4>2. WorksOn(p, s, e) /\ Hand(p, s).at \in Holding \union Settling
          BY <3>2, <4>1 DEF WorksOn, Holding, Early, Settling
        <4>3. OnlyHand(p, s)
          BY <4>1, <4>2 DEF FaultFree, Undisturbed
        <4>4. CASE t.at = "publish_sending"
          <5>1. Queued(e)
            BY <3>2, <4>1, <4>3, <4>4 DEF OnlyHand, Holding, Early
          <5>2. events[e].published \intersect Terminal = {}
            BY <5>1 DEF Base, SafetyInv, OutcomeInv, Queued, Deleted, Terminal
          <5> QED
            BY <2>e, <5>2
        <4>5. CASE t.at \in {"publish_sent", "publish_failed"}
          <5>1. events[e].published \intersect Terminal = {}
            BY <3>2, <4>1, <4>3, <4>5 DEF OnlyHand, Settling
          <5> QED
            BY <2>e, <5>1
        <4> QED
          BY <3>2, <4>4, <4>5
      <3>3. CASE t.at = "publish_retrying" /\ t.email = e
        <4>1. UNCHANGED events \/ Publish(e, "retrying")
          BY <2>1, <3>3
          DEF TaskStep, PublishSending, Execute, Send, Ack, ClearRefs, DeleteBlob, Nack,
              PublishOutcome, TryPublish, LastEvent, At, store
        <4> QED
          BY <2>e, <4>1 DEF Publish, EventRecs
      <3>4. UNCHANGED events \/ t.at \in {"publish_sending", "publish_sent", "publish_failed", "publish_retrying"}
        BY <2>1
        DEF TaskStep, PublishSending, Execute, Send, Ack, ClearRefs, DeleteBlob, Nack,
            PublishOutcome, LastEvent, At, store
      <3> QED
        BY <3>1, <3>2, <3>3, <3>4
    <2>2. ASSUME NEW p \in Processes, LoopStep(p) \/ Cancel(p) \/ Crash(p)
          PROVE  UNCHANGED events
      BY <2>2 DEF LoopStep, Acquire, DequeueFails, WakeUp, Drained, Restart, TryDequeue, Spawn,
                  Cancel, Crash, store
    <2>3. ASSUME NEW x \in Emails,
                 PublishQueued(x) \/ Lapse(x) \/ \E t \in Times : Enqueue(x, t)
          PROVE  events'[e].latest \in {events[e].latest, "queued"}
      BY <2>e, <2>3 DEF PublishQueued, TryPublish, Publish, EventRecs, Lapse, Enqueue
    <2> QED
      BY <2>1, <2>2, <2>3 DEF Next, vars
  <1>2. Spec => []Base
    BY InductiveInvariant DEF Base
  <1> QED
    BY <1>1, <1>2, OutcomeInvariant, PTL DEF Spec, StatusSettles

=============================================================================
