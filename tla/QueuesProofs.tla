----------------------------- MODULE QueuesProofs -----------------------------
(***************************************************************************)
(* Proofs about the parts that carry an e-mail outside the database. The   *)
(* memory queue and the NATS queue implement AtLeastOnce; in the memory    *)
(* queue an e-mail is in one place and is tried no more often than the     *)
(* attempts allow; on NATS faults bound the copies and the parked          *)
(* messages; and a submission over NATS is not lost. For any number of     *)
(* e-mails, workers, servers and lost, late and repeated commands.         *)
(***************************************************************************)
EXTENDS MCQueues, FiniteSetTheorems, TLAPS

Typed ==
  /\ channel \in Seq(Entries)
  /\ sending \in SUBSET Entries
  /\ sleeping \in SUBSET Entries
  /\ pending \in SUBSET InFlight
  /\ next_token \in Nat
  /\ loop \in [at : LoopPlaces, entry : Entries \union {NoEntry}]
  /\ (loop.entry = NoEntry) = (loop.at = "dequeue")
  /\ tasks \in [Slots -> TaskRecs \union {NoEntry}]
  /\ queued \in SUBSET Emails
  /\ settled \in SUBSET queued
  /\ claims \in [Emails -> Nat]
  /\ accepted \in [Emails -> Nat]

\* An entry is of a queued e-mail that has been claimed for all attempts before.
Due(i, q, c) == i.email \in q /\ i.attempt <= c[i.email] + 1

\* An entry that has been dequeued counts among the claims.
Claimed(i, q, c) == i.email \in q /\ i.attempt <= c[i.email]

\* A task acks an e-mail that was sent or has a reason to be given up.
TaskReason(t, a) ==
  t.at = "ack" => a[t.email] > 0 \/ t.email \notin Routable \/ t.attempt >= MAX_ATTEMPTS

EntryInv ==
  /\ \A n \in 1..Len(channel) : Due(channel[n], queued, claims)
  /\ \A i \in sending : Due(i, queued, claims)
  /\ loop.entry # NoEntry => Due(loop.entry, queued, claims)
  /\ \A i \in sleeping : Claimed(i, queued, claims)
  /\ \A i \in pending : Claimed(i, queued, claims)
  /\ \A s \in Slots : tasks[s] # NoEntry =>
       Claimed(tasks[s], queued, claims) /\ TaskReason(tasks[s], accepted)

MemoryInv == Typed /\ EntryInv

\* The empty queue.
LEMMA MemoryInit == Init => MemoryInv
  BY MemoryAssumption
  DEF Init, MemoryInv, Typed, EntryInv, AtDequeue, LoopPlaces, Entries, TaskRecs

\* No step takes back a submission, a claim or an acceptance.
Forward ==
  /\ queued \subseteq queued'
  /\ \A e \in Emails : claims[e] <= claims'[e] /\ accepted[e] <= accepted'[e]

\* No step takes back an entry, a claim or an acceptance.
LEMMA AlwaysForward == Typed /\ [Next]_vars => Forward
  <1> SUFFICES ASSUME Typed, [Next]_vars PROVE Forward
    OBVIOUS
  <1>1. ASSUME queued \subseteq queued', UNCHANGED <<claims, accepted>> PROVE Forward
    BY <1>1 DEF Typed, Forward
  <1>2. ASSUME NEW s \in Slots, Register(s) PROVE Forward
    BY <1>2 DEF Register, Typed, Forward
  <1>3. ASSUME NEW s \in Slots, Work(s) PROVE Forward
    <2>1. UNCHANGED <<queued, claims>>
      BY <1>3 DEF Work
    <2>2. \/ UNCHANGED accepted
          \/ accepted' = [accepted EXCEPT ![tasks[s].email] = @ + 1]
      BY <1>3 DEF Work
    <2> QED
      BY <2>1, <2>2 DEF Typed, Forward
  <1> QED
    BY <1>1, <1>2, <1>3
    DEF Next, vars, Enqueue, Transmit, Dequeue, Receive, CountDown, Task, Ack, Nack,
        Panic, Wake, Restart, queue

\* So what is known of an entry stays true.
LEMMA Stable ==
  ASSUME Typed, Typed', Forward
  PROVE  /\ \A i \in Entries \union InFlight \union TaskRecs :
              /\ Due(i, queued, claims) => Due(i, queued', claims')
              /\ Claimed(i, queued, claims) => Claimed(i, queued', claims')
         /\ \A t \in TaskRecs : TaskReason(t, accepted) => TaskReason(t, accepted')
  <1>1. ASSUME NEW i \in Entries \union InFlight \union TaskRecs
        PROVE  i.email \in Emails /\ i.attempt \in Nat
    BY DEF Entries, InFlight, TaskRecs
  <1>2. \A e \in Emails : /\ claims[e] \in Nat /\ claims'[e] \in Nat /\ claims[e] <= claims'[e]
                          /\ accepted[e] \in Nat /\ accepted'[e] \in Nat
                          /\ accepted[e] <= accepted'[e]
    BY DEF Typed, Forward
  <1>3. ASSUME NEW i \in Entries \union InFlight \union TaskRecs
        PROVE  /\ Due(i, queued, claims) => Due(i, queued', claims')
               /\ Claimed(i, queued, claims) => Claimed(i, queued', claims')
    BY <1>1, <1>2 DEF Due, Claimed, Forward
  <1>4. ASSUME NEW t \in TaskRecs
        PROVE  TaskReason(t, accepted) => TaskReason(t, accepted')
    BY <1>1, <1>2 DEF TaskReason
  <1> QED
    BY <1>3, <1>4

\* EntryInv is kept when every entry of the next state is an entry that was there
\* or is shown to be in order.
LEMMA Kept ==
  ASSUME Typed, Typed', EntryInv, Forward,
         \A n \in 1..Len(channel') :
           \/ \E m \in 1..Len(channel) : channel'[n] = channel[m]
           \/ channel'[n] \in sending,
         \A i \in sending' : i \in sending \/ Due(i, queued', claims'),
         loop'.entry # NoEntry =>
           \/ loop'.entry = loop.entry
           \/ \E m \in 1..Len(channel) : loop'.entry = channel[m],
         \A i \in sleeping' : i \in sleeping \/ Claimed(i, queued', claims'),
         \A i \in pending' : i \in pending \/ Claimed(i, queued', claims'),
         \A s \in Slots : tasks'[s] # NoEntry =>
           \/ tasks'[s] = tasks[s]
           \/ Claimed(tasks'[s], queued', claims') /\ TaskReason(tasks'[s], accepted')
  PROVE  EntryInv'
  <1>1. \A n \in 1..Len(channel) : channel[n] \in Entries
    BY DEF Typed
  <1>2. \A n \in 1..Len(channel') : Due(channel'[n], queued', claims')
    BY <1>1, Stable DEF EntryInv, Typed
  <1>3. \A i \in sending' : Due(i, queued', claims')
    BY Stable DEF EntryInv, Typed
  <1>4. loop'.entry # NoEntry => Due(loop'.entry, queued', claims')
    BY <1>1, Stable DEF EntryInv, Typed
  <1>5. \A i \in sleeping' : Claimed(i, queued', claims')
    BY Stable DEF EntryInv, Typed
  <1>6. \A i \in pending' : Claimed(i, queued', claims')
    BY Stable DEF EntryInv, Typed
  <1>7. \A s \in Slots : tasks'[s] # NoEntry =>
          Claimed(tasks'[s], queued', claims') /\ TaskReason(tasks'[s], accepted')
    BY Stable DEF EntryInv, Typed
  <1> QED
    BY <1>2, <1>3, <1>4, <1>5, <1>6, <1>7 DEF EntryInv

\* The next attempt of an entry is an entry.
LEMMA LaterEntry ==
  ASSUME NEW i \in Entries
  PROVE  [i EXCEPT !.attempt = @ + 1] \in Entries
  BY DEF Entries

\* Steps keep the types; an ack is of a queued e-mail.
LEMMA TypedNext == MemoryInv /\ [Next]_vars => Typed'
  <1> SUFFICES ASSUME Typed, EntryInv, [Next]_vars PROVE Typed'
    BY DEF MemoryInv
  <1> USE MemoryAssumption DEF Typed
  <1>1. ASSUME NEW e \in Emails, Enqueue(e) PROVE Typed'
    BY <1>1, SMTT(30) DEF Enqueue, CountUp, Entries
  <1>2. ASSUME NEW i \in sending, Transmit(i) PROVE Typed'
    BY <1>2 DEF Transmit
  <1>3. CASE Receive
    <2>1. Head(channel) \in Entries /\ Tail(channel) \in Seq(Entries)
      BY <1>3 DEF Receive
    <2> QED
      BY <1>3, <2>1 DEF Receive, LoopPlaces, Entries
  <1>4. CASE CountDown
    BY <1>4 DEF CountDown, LoopPlaces
  <1>5. ASSUME NEW s \in Slots, Register(s) PROVE Typed'
    <2>1. loop.entry \in Entries
      BY <1>5 DEF Register
    <2>2. loop.entry.email \in Emails /\ loop.entry.attempt \in Nat
      BY <2>1 DEF Entries
    <2> QED
      BY <1>5, <2>2, SMTT(30) DEF Register, TakeToken, InFlight, TaskRecs, TaskPlaces, AtDequeue, LoopPlaces
  <1>6. ASSUME NEW s \in Slots, Task(s) PROVE Typed'
    <2>1. tasks[s] \in TaskRecs
      BY <1>6 DEF Task, Work, Ack, Nack, Running
    <2>2. CASE Work(s)
      <3>1. PICK place \in TaskPlaces : tasks' = [tasks EXCEPT ![s].at = place]
        BY <2>2 DEF Work, TaskPlaces, AfterError
      <3>2. tasks' \in [Slots -> TaskRecs \union {NoEntry}]
        <4>1. [tasks[s] EXCEPT !.at = place] \in TaskRecs
          BY <2>1 DEF TaskRecs
        <4> QED
          BY <3>1, <4>1
      <3>3. accepted' \in [Emails -> Nat]
        BY <2>2 DEF Work
      <3> QED
        BY <2>2, <3>2, <3>3 DEF Work, queue
    <2>3. CASE Ack(s)
      <3>1. tasks[s].email \in queued
        BY <2>3 DEF Ack, Running, EntryInv, Claimed
      <3>2. pending' \in SUBSET InFlight /\ tasks' \in [Slots -> TaskRecs \union {NoEntry}]
        BY <2>3 DEF Ack, Remove
      <3> QED
        BY <2>3, <3>1, <3>2 DEF Ack
    <2>4. CASE Nack(s)
      BY <2>1, <2>4 DEF Nack, Remove, TaskRecs, Entry, Entries, InFlight
    <2> QED
      BY <1>6, <2>2, <2>3, <2>4 DEF Task
  <1>7. ASSUME NEW s \in Slots, Panic(s) PROVE Typed'
    BY <1>7 DEF Panic, queue
  <1>8. ASSUME NEW i \in sleeping, Wake(i) PROVE Typed'
    <2>1. i \in Entries
      OBVIOUS
    <2>2. [i EXCEPT !.attempt = @ + 1] \in Entries
      BY <2>1, LaterEntry
    <2> QED
      BY <1>8, <2>2 DEF Wake, CountUp
  <1>9. CASE Restart
    BY <1>9 DEF Restart, AtDequeue, LoopPlaces
  <1>10. CASE UNCHANGED vars
    BY <1>10 DEF vars, queue
  <1> QED
    BY <1>1, <1>2, <1>3, <1>4, <1>5, <1>6, <1>7, <1>8, <1>9, <1>10 DEF Next, Dequeue

\* Steps keep what is known of entries, wherever they are.
LEMMA MemoryNext == MemoryInv /\ [Next]_vars => MemoryInv'
  <1> SUFFICES ASSUME Typed, EntryInv, [Next]_vars, Typed', Forward PROVE EntryInv'
    BY TypedNext, AlwaysForward DEF MemoryInv
  <1>1. ASSUME NEW e \in Emails, Enqueue(e) PROVE EntryInv'
    <2> DEFINE i == [email |-> e, attempt |-> 1]
    <2>1. Due(i, queued', claims')
      BY <1>1 DEF Enqueue, Due, Typed
    <2>2. sending' = sending \union {i}
      BY <1>1 DEF Enqueue, CountUp
    <2> QED
      BY <1>1, <2>1, <2>2, Kept DEF Enqueue
  <1>2. ASSUME NEW i \in sending, Transmit(i) PROVE EntryInv'
    <2>1. \A n \in 1..Len(channel') :
            \/ \E m \in 1..Len(channel) : channel'[n] = channel[m]
            \/ channel'[n] \in sending
      BY <1>2 DEF Transmit, Typed
    <2> QED
      BY <1>2, <2>1, Kept DEF Transmit
  <1>3. CASE Receive
    <2>1. \A n \in 1..Len(channel') : \E m \in 1..Len(channel) : channel'[n] = channel[m]
      <3>1. Len(channel) \in Nat \ {0} /\ Len(channel') = Len(channel) - 1
        BY <1>3 DEF Receive, Typed
      <3>2. \A n \in 1..Len(channel') : channel'[n] = channel[n + 1] /\ n + 1 \in 1..Len(channel)
        BY <1>3, <3>1 DEF Receive, Typed
      <3> QED
        BY <3>2
    <2>2. loop'.entry = channel[1] /\ 1 \in 1..Len(channel)
      BY <1>3 DEF Receive, Typed
    <2> QED
      BY <1>3, <2>1, <2>2, Kept DEF Receive
  <1>4. CASE CountDown
    <2>1. loop'.entry = loop.entry
      BY <1>4 DEF CountDown, Typed
    <2> QED
      BY <1>4, <2>1, Kept DEF CountDown
  <1>5. ASSUME NEW s \in Slots, Register(s) PROVE EntryInv'
    <2> DEFINE i == [token |-> next_token, email |-> loop.entry.email,
                     attempt |-> loop.entry.attempt]
               t == [at |-> "work", token |-> next_token, email |-> loop.entry.email,
                     attempt |-> loop.entry.attempt]
    <2>1. loop.entry # NoEntry /\ loop.entry \in Entries
      BY <1>5 DEF Register, Typed
    <2>2. loop.entry.email \in queued /\ loop.entry.attempt <= claims'[loop.entry.email]
      BY <1>5, <2>1 DEF Register, EntryInv, Due, Typed, Entries
    <2>3. /\ Claimed(i, queued', claims') /\ Claimed(t, queued', claims')
          /\ TaskReason(t, accepted')
      BY <1>5, <2>2 DEF Register, Claimed, TaskReason
    <2>4. pending' = pending \union {i}
      BY <1>5 DEF Register
    <2>5. \A u \in Slots : tasks'[u] = tasks[u] \/ tasks'[u] = t
      BY <1>5 DEF Register, Typed
    <2>6. loop'.entry = NoEntry
      BY <1>5 DEF Register, AtDequeue
    <2> HIDE DEF i, t
    <2> QED
      BY <1>5, <2>3, <2>4, <2>5, <2>6, Kept DEF Register
  <1>6. ASSUME NEW s \in Slots, Task(s) PROVE EntryInv'
    <2>1. tasks[s] \in TaskRecs /\ tasks[s] # NoEntry
      BY <1>6 DEF Task, Work, Ack, Nack, Running, Typed
    <2>2. Claimed(tasks[s], queued', claims')
      BY <2>1, Stable DEF EntryInv
    <2>3. CASE Work(s)
      <3>1. PICK place : tasks' = [tasks EXCEPT ![s].at = place]
        BY <2>3 DEF Work
      <3> DEFINE t == [tasks[s] EXCEPT !.at = place]
      <3>2. \A u \in Slots : tasks'[u] = IF u = s THEN t ELSE tasks[u]
        BY <3>1 DEF Typed
      <3>3. /\ t.at = place /\ t.email = tasks[s].email /\ t.attempt = tasks[s].attempt
            /\ t.email \in Emails
        BY <2>1 DEF TaskRecs
      <3>4. Claimed(t, queued', claims')
        BY <2>2, <3>3 DEF Claimed
      <3>5. TaskReason(t, accepted')
        <4>1. tasks'[s].at = place
          BY <3>2, <3>3
        <4>2. CASE accepted' = [accepted EXCEPT ![tasks[s].email] = @ + 1]
          <5>1. accepted'[t.email] > 0
            BY <3>3, <4>2 DEF Typed
          <5> QED
            BY <5>1 DEF TaskReason
        <4>3. CASE UNCHANGED accepted /\ tasks' = [tasks EXCEPT ![s].at = AfterError(tasks[s].attempt)]
          <5>1. place = AfterError(tasks[s].attempt)
            BY <2>1, <3>1, <4>1, <4>3 DEF Typed, TaskRecs
          <5> QED
            BY <3>3, <5>1 DEF TaskReason, AfterError
        <4>4. CASE tasks[s].email \notin Routable
          BY <3>3, <4>4 DEF TaskReason
        <4> QED
          BY <2>3, <4>2, <4>3, <4>4 DEF Work
      <3> HIDE DEF t
      <3> QED
        BY <2>3, <3>2, <3>4, <3>5, Kept DEF Work, queue
    <2>4. CASE Ack(s)
      <3>1. \A u \in Slots : tasks'[u] = tasks[u] \/ tasks'[u] = NoEntry
        BY <2>4 DEF Ack, Typed
      <3>2. \A i \in pending' : i \in pending
        BY <2>4 DEF Ack, Remove
      <3> QED
        BY <2>4, <3>1, <3>2, Kept DEF Ack
    <2>5. CASE Nack(s)
      <3>1. \A u \in Slots : tasks'[u] = tasks[u] \/ tasks'[u] = NoEntry
        BY <2>5 DEF Nack, Typed
      <3>2. \A i \in pending' : i \in pending
        BY <2>5 DEF Nack, Remove
      <3>3. \A i \in sleeping' : i \in sleeping \/ Claimed(i, queued', claims')
        <4>1. \A i \in pending : Claimed(Entry(i), queued', claims')
          BY <2>5 DEF Nack, EntryInv, Claimed, Entry
        <4> QED
          BY <2>5, <4>1 DEF Nack
      <3> QED
        BY <2>5, <3>1, <3>2, <3>3, Kept DEF Nack
    <2> QED
      BY <1>6, <2>3, <2>4, <2>5 DEF Task
  <1>7. ASSUME NEW s \in Slots, Panic(s) PROVE EntryInv'
    <2>1. \A u \in Slots : tasks'[u] = tasks[u] \/ tasks'[u] = NoEntry
      BY <1>7 DEF Panic, Typed
    <2> QED
      BY <1>7, <2>1, Kept DEF Panic, queue
  <1>8. ASSUME NEW i \in sleeping, Wake(i) PROVE EntryInv'
    <2> DEFINE j == [i EXCEPT !.attempt = @ + 1]
    <2>1. i \in Entries /\ Claimed(i, queued, claims)
      BY DEF Typed, EntryInv
    <2>2. j.email = i.email /\ j.attempt = i.attempt + 1 /\ i.attempt \in Nat /\ i.email \in Emails
      BY <2>1 DEF Entries
    <2>3. Due(j, queued', claims')
      BY <1>8, <2>1, <2>2 DEF Wake, Claimed, Due, Typed
    <2>4. sending' = sending \union {j}
      BY <1>8 DEF Wake, CountUp
    <2> HIDE DEF j
    <2> QED
      BY <1>8, <2>3, <2>4, Kept DEF Wake
  <1>9. CASE Restart
    <2>1. /\ channel' = <<>> /\ sending' = {} /\ sleeping' = {} /\ pending' = {}
          /\ loop'.entry = NoEntry
          /\ \A s \in Slots : tasks'[s] = NoEntry
      BY <1>9 DEF Restart, AtDequeue
    <2> QED
      BY <2>1, Kept
  <1>10. CASE UNCHANGED vars
    BY <1>10, Kept DEF vars, queue
  <1> QED
    BY <1>1, <1>2, <1>3, <1>4, <1>5, <1>6, <1>7, <1>8, <1>9, <1>10 DEF Next, Dequeue

-----------------------------------------------------------------------------
(* The refinement.                                                         *)

\* A submission maps to Accept, an acceptance by an SMTP server to Deliver, the
\* claim that reaches the last attempt to Excuse, an ack to Settle; whatever else
\* the queue does, a restart included, is a stutter.
THEOREM Refinement == Spec => KeepsPromise
  <1>1. Init => Promise!Init
    BY DEF Init, Promise!Init
  <1>2. MemoryInv /\ MemoryInv' /\ [Next]_vars => [Promise!Next]_(Promise!vars)
    <2> SUFFICES ASSUME Typed, EntryInv, Typed', [Next]_vars
                 PROVE  Promise!Next \/ UNCHANGED Promise!vars
      BY DEF MemoryInv
    <2> DEFINE Owed    == queued \ settled
               Sent    == {e \in Emails : accepted[e] > 0}
               Excused == {e \in queued : e \notin Routable \/ claims[e] >= MAX_ATTEMPTS}
    <2>0. ASSUME NEW e \in Emails,
                 Promise!Excuse(e) \/ Promise!Deliver(e) \/ Promise!Settle(e)
          PROVE  Promise!Next
      BY <2>0 DEF Promise!Next
    <2>1. ASSUME NEW e \in Emails, Enqueue(e) PROVE Promise!Accept(e)
      <3>1. /\ e \notin Owed \union settled /\ Owed' = Owed \union {e}
            /\ Sent' = Sent /\ UNCHANGED settled
        BY <2>1 DEF Enqueue, Typed
      <3>2. Excused' \in {Excused, Excused \union {e}}
        <4>1. queued' = queued \union {e} /\ claims' = claims
          BY <2>1 DEF Enqueue
        <4>2. Excused' = IF e \notin Routable \/ claims[e] >= MAX_ATTEMPTS
                           THEN Excused \union {e} ELSE Excused
          BY <4>1
        <4> QED
          BY <4>2
      <3> QED
        BY <3>1, <3>2 DEF Promise!Accept
    <2>2. ASSUME NEW s \in Slots, Register(s) PROVE Promise!Next \/ UNCHANGED Promise!vars
      <3>1. PICK e \in Emails : e = loop.entry.email /\ e \in queued
        BY <2>2 DEF Register, EntryInv, Due, Typed
      <3>2. UNCHANGED <<queued, settled, accepted>> /\ claims' = [claims EXCEPT ![e] = @ + 1]
        BY <2>2, <3>1 DEF Register
      <3>3. Owed' = Owed /\ Sent' = Sent
        BY <3>2
      <3>4. Excused' = Excused \/ Excused' = Excused \union {e}
        <4>1. \A f \in queued : f # e => claims'[f] = claims[f]
          BY <3>2 DEF Typed
        <4>2. claims[e] \in Nat /\ claims'[e] = claims[e] + 1
          BY <3>1, <3>2 DEF Typed
        <4>3. Excused' = IF e \notin Routable \/ claims'[e] >= MAX_ATTEMPTS
                           THEN Excused \union {e} ELSE Excused
          BY <3>1, <3>2, <4>1, <4>2, MemoryAssumption
        <4> QED
          BY <4>3
      <3>5. CASE Excused' = Excused
        BY <3>2, <3>3, <3>5 DEF Promise!vars
      <3>6. CASE Excused' = Excused \union {e}
        <4>1. Promise!Excuse(e)
          BY <3>1, <3>2, <3>3, <3>6 DEF Promise!Excuse
        <4> QED
          BY <2>0, <3>1, <4>1
      <3> QED
        BY <3>4, <3>5, <3>6
    <2>3. ASSUME NEW s \in Slots, Work(s) PROVE Promise!Next \/ UNCHANGED Promise!vars
      <3>1. PICK e \in Emails : e = tasks[s].email /\ e \in queued
        BY <2>3 DEF Work, Running, EntryInv, Claimed, Typed
      <3>2. UNCHANGED <<queued, settled, claims>>
        BY <2>3 DEF Work
      <3>3. CASE UNCHANGED accepted
        BY <3>2, <3>3 DEF Promise!vars
      <3>4. CASE accepted' = [accepted EXCEPT ![e] = @ + 1]
        <4>1. Sent' = Sent \union {e}
          BY <3>1, <3>4 DEF Typed
        <4>2. Promise!Deliver(e)
          BY <3>1, <3>2, <4>1 DEF Promise!Deliver
        <4> QED
          BY <2>0, <3>1, <4>2
      <3> QED
        BY <2>3, <3>1, <3>3, <3>4 DEF Work
    <2>4. ASSUME NEW s \in Slots, Ack(s) PROVE Promise!Next \/ UNCHANGED Promise!vars
      <3>1. tasks[s] # NoEntry /\ tasks[s] \in TaskRecs /\ tasks[s].at = "ack"
        BY <2>4 DEF Ack, Running, Typed
      <3>2. PICK e \in Emails :
              /\ e = tasks[s].email /\ e \in queued /\ tasks[s].attempt <= claims[e]
              /\ TaskReason(tasks[s], accepted)
        BY <3>1 DEF EntryInv, Claimed, Typed
      <3>3. tasks[s].attempt \in Nat /\ claims[e] \in Nat
        BY <3>1, <3>2 DEF TaskRecs, Typed
      <3>4. e \in Sent \union Excused
        BY <3>1, <3>2, <3>3, MemoryAssumption DEF TaskReason
      <3>5. settled' = settled \union {e} /\ UNCHANGED <<queued, claims, accepted>>
        BY <2>4, <3>2 DEF Ack
      <3>6. CASE e \in settled
        <4>1. UNCHANGED <<settled, queued, claims, accepted>>
          BY <3>5, <3>6
        <4> QED
          BY <4>1 DEF Promise!vars
      <3>7. CASE e \notin settled
        <4>1. e \in Owed /\ Owed' = Owed \ {e}
          BY <3>2, <3>5, <3>7
        <4>2. Promise!Settle(e)
          BY <3>4, <3>5, <4>1 DEF Promise!Settle
        <4> QED
          BY <2>0, <3>2, <4>2
      <3> QED
        BY <3>6, <3>7
    <2>5. ASSUME UNCHANGED <<queued, settled, claims, accepted>>
          PROVE  UNCHANGED Promise!vars
      BY <2>5 DEF Promise!vars
    <2>6. \/ \E e \in Emails : Enqueue(e)
          \/ \E s \in Slots : Register(s) \/ Work(s) \/ Ack(s)
          \/ UNCHANGED <<queued, settled, claims, accepted>>
      BY DEF Next, Transmit, Dequeue, Receive, CountDown, Task, Nack, Panic, Wake,
             Restart, vars
    <2> QED
      BY <2>1, <2>2, <2>3, <2>4, <2>5, <2>6 DEF Promise!Next
  <1> QED
    BY <1>1, <1>2, MemoryInit, MemoryNext, PTL DEF Spec, KeepsPromise, Promise!Spec

-----------------------------------------------------------------------------
(* Safety: the strengthening. The five places partition the e-mails that   *)
(* are owed, and each entry carries the number of its e-mail's claims.     *)

ChannelEmails == {channel[n].email : n \in 1..Len(channel)}
EmailsOf(S)   == {i.email : i \in S}
LoopEmails    == IF loop.entry = NoEntry THEN {} ELSE {loop.entry.email}
Owed          == queued \ (settled \union lost)

Partition(A, B, C, D, F, U) ==
  /\ A \intersect B = {} /\ A \intersect C = {} /\ A \intersect D = {} /\ A \intersect F = {}
  /\ B \intersect C = {} /\ B \intersect D = {} /\ B \intersect F = {}
  /\ C \intersect D = {} /\ C \intersect F = {}
  /\ D \intersect F = {}
  /\ A \union B \union C \union D \union F = U

\* No two entries of one e-mail.
Single(S) == \A i, j \in S : i.email = j.email => i = j

PlaceInv ==
  /\ Partition(ChannelEmails, EmailsOf(sending), EmailsOf(sleeping), EmailsOf(pending),
               LoopEmails, Owed)
  /\ \A n, m \in 1..Len(channel) : channel[n].email = channel[m].email => n = m
  /\ Single(sending) /\ Single(sleeping) /\ Single(pending)

CountInv == IsFiniteSet(sending) /\ CounterCovers

\* The entry that a task took, under its token.
Taken(t) == [token |-> t.token, email |-> t.email, attempt |-> t.attempt]

\* A token is handed out once, and a task finds its entry under its own.
TokenInv ==
  /\ \A i \in pending : i.token < next_token
  /\ \A i, j \in pending : i.token = j.token => i = j
  /\ \A s \in Slots : tasks[s] # NoEntry =>
       /\ Taken(tasks[s]) \in pending
       /\ \A t \in Slots : tasks[t] # NoEntry /\ tasks[t].token = tasks[s].token => s = t

\* An entry that has not been claimed for its attempt, which is not one too many;
\* no copy of the e-mail has gone out without a fault.
Fresh(i, c, a, f) ==
  i.attempt = c[i.email] + 1 /\ i.attempt <= MAX_ATTEMPTS /\ a[i.email] <= f

\* An entry to be tried again.
Asleep(i, c, a, f) ==
  i.attempt = c[i.email] /\ i.attempt < MAX_ATTEMPTS /\ a[i.email] <= f

\* A task that has yet to send, or that will try again.
Steady(t, a, f) ==
  /\ t.at = "nack" => t.attempt < MAX_ATTEMPTS
  /\ t.at \in {"work", "nack"} => a[t.email] <= f

AttemptInv ==
  /\ \A e \in Emails :
       /\ claims[e] <= MAX_ATTEMPTS /\ accepted[e] <= 1 + faults
       /\ e \notin queued => claims[e] = 0 /\ accepted[e] = 0
  /\ \A n \in 1..Len(channel) : Fresh(channel[n], claims, accepted, faults)
  /\ \A i \in sending : Fresh(i, claims, accepted, faults)
  /\ loop.entry # NoEntry => Fresh(loop.entry, claims, accepted, faults)
  /\ \A i \in sleeping : Asleep(i, claims, accepted, faults)
  /\ \A i \in pending : i.attempt = claims[i.email]
  /\ \A s \in Slots : tasks[s] # NoEntry => Steady(tasks[s], accepted, faults)

Ranges == ready_count \in Nat /\ lost \in SUBSET queued /\ faults \in 0..MaxFaults

SafeInv == MemoryInv /\ Ranges /\ PlaceInv /\ CountInv /\ TokenInv /\ AttemptInv

\* An e-mail that moves from one place to the next.
LEMMA Moves ==
  ASSUME NEW A, NEW B, NEW C, NEW D, NEW F, NEW U, Partition(A, B, C, D, F, U), NEW e
  PROVE  /\ e \notin U => Partition(A, B \union {e}, C, D, F, U \union {e})
         /\ e \in B => Partition(A \union {e}, B \ {e}, C, D, F, U)
         /\ e \in A /\ F = {} => Partition(A \ {e}, B, C, D, {e}, U)
         /\ F = {e} => Partition(A, B, C, D \union {e}, {}, U)
         /\ e \in D => Partition(A, B, C, D \ {e}, F, U \ {e})
         /\ e \in D => Partition(A, B, C \union {e}, D \ {e}, F, U)
         /\ e \in C => Partition(A, B \union {e}, C \ {e}, D, F, U)
  BY DEF Partition

\* What a task finds under its token: its own entry and no other.
LEMMA TaskFinds ==
  ASSUME Typed, TokenInv, NEW s \in Slots, tasks[s] # NoEntry
  PROVE  /\ tasks[s] \in TaskRecs /\ Taken(tasks[s]) \in pending
         /\ {i \in pending : i.token = tasks[s].token} = {Taken(tasks[s])}
         /\ {i \in pending : i.token # tasks[s].token} = pending \ {Taken(tasks[s])}
         /\ Entry(Taken(tasks[s])) = Entry(tasks[s])
  <1>1. tasks[s] \in TaskRecs /\ Taken(tasks[s]) \in pending
    BY DEF Typed, TokenInv
  <1> DEFINE k == Taken(tasks[s])
  <1>2. k.token = tasks[s].token /\ k.email = tasks[s].email /\ k.attempt = tasks[s].attempt
    BY DEF Taken
  <1>3. \A i \in pending : i.token = tasks[s].token => i = k
    BY <1>1, <1>2 DEF TokenInv
  <1> HIDE DEF k
  <1> QED
    BY <1>1, <1>2, <1>3 DEF Entry, k

\* Taking the one entry of an e-mail out of a place takes the e-mail out.
LEMMA EmailsWithout ==
  ASSUME NEW S, Single(S), NEW i \in S
  PROVE  EmailsOf(S \ {i}) = EmailsOf(S) \ {i.email} /\ Single(S \ {i})
  BY DEF Single, EmailsOf

\* And putting an entry of a new one in puts it in.
LEMMA EmailsWith ==
  ASSUME NEW S, Single(S), NEW i, i.email \notin EmailsOf(S)
  PROVE  EmailsOf(S \union {i}) = EmailsOf(S) \union {i.email} /\ Single(S \union {i})
  BY DEF Single, EmailsOf

\* The channel grows at its end and shrinks at its head.
LEMMA ChannelMoves ==
  ASSUME Typed
  PROVE  /\ \A i \in Entries : channel' = Append(channel, i) =>
              /\ ChannelEmails' = ChannelEmails \union {i.email}
              /\ Len(channel') = Len(channel) + 1
              /\ \A n \in 1..Len(channel') :
                   channel'[n] = IF n = Len(channel) + 1 THEN i ELSE channel[n]
         /\ channel # <<>> /\ channel' = Tail(channel) =>
              /\ Head(channel) = channel[1] /\ channel[1] \in Entries /\ 1 \in 1..Len(channel)
              /\ Len(channel) = Len(channel') + 1
              /\ \A n \in 1..Len(channel') :
                   channel'[n] = channel[n + 1] /\ n + 1 \in 1..Len(channel)
              /\ \A n \in 1..Len(channel) : n = 1 \/ n - 1 \in 1..Len(channel')
  <1>1. ASSUME NEW i \in Entries, channel' = Append(channel, i)
        PROVE  /\ ChannelEmails' = ChannelEmails \union {i.email}
               /\ Len(channel') = Len(channel) + 1
               /\ \A n \in 1..Len(channel') :
                    channel'[n] = IF n = Len(channel) + 1 THEN i ELSE channel[n]
    <2>1. /\ Len(channel) \in Nat /\ Len(channel') = Len(channel) + 1
          /\ \A n \in 1..Len(channel') :
               channel'[n] = IF n = Len(channel) + 1 THEN i ELSE channel[n]
      BY <1>1 DEF Typed
    <2>2. \A n \in 1..Len(channel) : n \in 1..Len(channel') /\ n # Len(channel) + 1
      BY <2>1
    <2>3. Len(channel) + 1 \in 1..Len(channel')
      BY <2>1
    <2>4. \A n \in 1..Len(channel') : n = Len(channel) + 1 \/ n \in 1..Len(channel)
      BY <2>1
    <2> QED
      BY <2>1, <2>2, <2>3, <2>4 DEF ChannelEmails
  <1>2. ASSUME channel # <<>>, channel' = Tail(channel)
        PROVE  /\ Head(channel) = channel[1] /\ channel[1] \in Entries /\ 1 \in 1..Len(channel)
               /\ Len(channel) = Len(channel') + 1
               /\ \A n \in 1..Len(channel') :
                    channel'[n] = channel[n + 1] /\ n + 1 \in 1..Len(channel)
               /\ \A n \in 1..Len(channel) : n = 1 \/ n - 1 \in 1..Len(channel')
    <2>1. /\ Len(channel) \in Nat \ {0} /\ Len(channel') = Len(channel) - 1
          /\ Head(channel) = channel[1] /\ channel[1] \in Entries
      BY <1>2 DEF Typed
    <2>2. \A n \in 1..Len(channel') : channel'[n] = channel[n + 1]
      BY <1>2, <2>1 DEF Typed
    <2> QED
      BY <2>1, <2>2
  <1> QED
    BY <1>1, <1>2

\* The handlers move an e-mail from one place to the next.
LEMMA PlaceNext ==
  ASSUME Typed, Typed', Ranges, PlaceInv, TokenInv, [Next]_vars
  PROVE  PlaceInv'
  <1> DEFINE A == ChannelEmails
             B == EmailsOf(sending)
             C == EmailsOf(sleeping)
             D == EmailsOf(pending)
             F == LoopEmails
  <1>0. /\ Partition(A, B, C, D, F, Owed)
        /\ \A n, m \in 1..Len(channel) : channel[n].email = channel[m].email => n = m
        /\ Single(sending) /\ Single(sleeping) /\ Single(pending)
    BY DEF PlaceInv
  <1>u. ASSUME UNCHANGED channel
        PROVE  /\ A' = A
               /\ \A n, m \in 1..Len(channel') : channel'[n].email = channel'[m].email => n = m
    BY <1>0, <1>u DEF ChannelEmails
  <1>w. UNCHANGED sending => B' = B
    BY DEF EmailsOf
  <1>x. UNCHANGED sleeping => C' = C
    BY DEF EmailsOf
  <1>y. UNCHANGED pending => D' = D
    BY DEF EmailsOf
  <1>z. loop'.entry = loop.entry => F' = F
    BY DEF LoopEmails
  <1>o. UNCHANGED <<queued, settled, lost>> => Owed' = Owed
    BY DEF Owed
  <1>1. ASSUME NEW e \in Emails, Enqueue(e) PROVE PlaceInv'
    <2> DEFINE i == [email |-> e, attempt |-> 1]
    <2>1. /\ sending' = sending \union {i} /\ i.email = e
          /\ UNCHANGED <<channel, sleeping, pending, loop, settled, lost>>
          /\ queued' = queued \union {e} /\ e \notin queued
      BY <1>1 DEF Enqueue, CountUp
    <2>2. Owed' = Owed \union {e} /\ e \notin Owed
      BY <2>1 DEF Owed, Typed, Ranges
    <2> HIDE DEF i
    <2>3. i.email \notin B
      BY <1>0, <2>1, <2>2 DEF Partition
    <2>4. B' = B \union {e} /\ Single(sending')
      BY <1>0, <2>1, <2>3, EmailsWith
    <2>5. Partition(A, B \union {e}, C, D, F, Owed \union {e})
      BY <1>0, <2>2, Moves
    <2> QED
      BY <1>0, <1>u, <1>x, <1>y, <1>z, <2>1, <2>2, <2>4, <2>5 DEF PlaceInv
  <1>2. ASSUME NEW i \in sending, Transmit(i) PROVE PlaceInv'
    <2>1. /\ sending' = sending \ {i} /\ channel' = Append(channel, i) /\ i \in Entries
          /\ UNCHANGED <<sleeping, pending, loop, queued, settled, lost>>
      BY <1>2 DEF Transmit, Typed
    <2>2. /\ A' = A \union {i.email} /\ Len(channel') = Len(channel) + 1
          /\ \A n \in 1..Len(channel') :
               channel'[n] = IF n = Len(channel) + 1 THEN i ELSE channel[n]
      BY <2>1, ChannelMoves
    <2>3. B' = B \ {i.email} /\ Single(sending') /\ i.email \in B
      BY <1>0, <2>1, EmailsWithout DEF EmailsOf
    <2>4. Partition(A', B', C, D, F, Owed)
      <3>1. Partition(A \union {i.email}, B \ {i.email}, C, D, F, Owed)
        BY <1>0, <2>2, <2>3, Moves
      <3> QED
        BY <3>1, <2>2, <2>3
    <2>5. \A n, m \in 1..Len(channel') : channel'[n].email = channel'[m].email => n = m
      <3>1. \A n \in 1..Len(channel) : channel[n].email # i.email
        BY <1>0, <2>3 DEF Partition, ChannelEmails
      <3>2. \A n \in 1..Len(channel') : n = Len(channel) + 1 \/ n \in 1..Len(channel)
        BY <2>2 DEF Typed
      <3> QED
        BY <1>0, <2>2, <3>1, <3>2
    <2> QED
      BY <1>0, <1>x, <1>y, <1>z, <1>o, <2>1, <2>3, <2>4, <2>5 DEF PlaceInv
  <1>3. CASE Receive
    <2>1. /\ loop.entry = NoEntry /\ loop'.entry = Head(channel) /\ channel # <<>>
          /\ channel' = Tail(channel)
          /\ UNCHANGED <<sending, sleeping, pending, queued, settled, lost>>
      BY <1>3 DEF Receive, Typed
    <2>2. /\ Head(channel) = channel[1] /\ channel[1] \in Entries /\ 1 \in 1..Len(channel)
          /\ Len(channel) = Len(channel') + 1
          /\ \A n \in 1..Len(channel') :
               channel'[n] = channel[n + 1] /\ n + 1 \in 1..Len(channel)
          /\ \A n \in 1..Len(channel) : n = 1 \/ n - 1 \in 1..Len(channel')
      BY <2>1, ChannelMoves
    <2> DEFINE e == channel[1].email
    <2>3. channel[1] # NoEntry
      BY <2>2, MemoryAssumption DEF Entries
    <2>4. F = {} /\ F' = {e}
      BY <2>1, <2>2, <2>3 DEF LoopEmails
    <2>5. \A n, m \in 1..Len(channel') : channel'[n].email = channel'[m].email => n = m
      <3>1. \A n, m \in 1..Len(channel') : channel'[n].email = channel'[m].email => n + 1 = m + 1
        BY <1>0, <2>2
      <3> QED
        BY <3>1
    <2>6. A' = A \ {e} /\ e \in A
      <3>1. \A n \in 1..Len(channel') : channel'[n].email \in A \ {e}
        <4>1. \A n \in 1..Len(channel') : n + 1 # 1
          OBVIOUS
        <4> QED
          BY <1>0, <2>2, <4>1 DEF ChannelEmails
      <3>2. ASSUME NEW f \in A, f # e PROVE f \in A'
        <4>1. PICK n \in 1..Len(channel) : channel[n].email = f
          BY DEF ChannelEmails
        <4>2. n - 1 \in 1..Len(channel') /\ (n - 1) + 1 = n
          BY <2>2, <3>2, <4>1
        <4>3. channel'[n - 1] = channel[n]
          BY <2>2, <4>2
        <4> QED
          BY <4>1, <4>2, <4>3 DEF ChannelEmails
      <3>3. A' \subseteq A \ {e}
        BY <3>1 DEF ChannelEmails
      <3>4. e \in A
        BY <2>2 DEF ChannelEmails
      <3> QED
        BY <3>2, <3>3, <3>4
    <2> HIDE DEF e
    <2>7. Partition(A', B, C, D, F', Owed)
      BY <1>0, <2>4, <2>6, Moves
    <2> QED
      BY <1>0, <1>w, <1>x, <1>y, <1>o, <2>1, <2>5, <2>7 DEF PlaceInv
  <1>4. CASE CountDown
    <2>1. /\ loop'.entry = loop.entry
          /\ UNCHANGED <<channel, sending, sleeping, pending, queued, settled, lost>>
      BY <1>4 DEF CountDown, Typed
    <2> QED
      BY <1>0, <1>u, <1>w, <1>x, <1>y, <1>z, <1>o, <2>1 DEF PlaceInv
  <1>5. ASSUME NEW s \in Slots, Register(s) PROVE PlaceInv'
    <2> DEFINE i == [token |-> next_token, email |-> loop.entry.email,
                     attempt |-> loop.entry.attempt]
    <2>1. /\ loop.entry # NoEntry /\ loop'.entry = NoEntry
          /\ pending' = pending \union {i} /\ i.email = loop.entry.email
          /\ UNCHANGED <<channel, sending, sleeping, queued, settled, lost>>
      BY <1>5 DEF Register, Typed, AtDequeue
    <2> HIDE DEF i
    <2>2. F = {i.email} /\ F' = {}
      BY <2>1 DEF LoopEmails
    <2>3. i.email \notin D
      BY <1>0, <2>2 DEF Partition
    <2>4. D' = D \union {i.email} /\ Single(pending')
      BY <1>0, <2>1, <2>3, EmailsWith
    <2>5. Partition(A, B, C, D', F', Owed)
      <3>1. Partition(A, B, C, D \union {i.email}, {}, Owed)
        BY <1>0, <2>2, <2>4, Moves
      <3> QED
        BY <3>1, <2>2, <2>4
    <2> QED
      BY <1>0, <1>u, <1>w, <1>x, <1>o, <2>1, <2>4, <2>5 DEF PlaceInv
  <1>6. ASSUME NEW s \in Slots, Work(s) \/ Panic(s) PROVE PlaceInv'
    <2>1. UNCHANGED <<channel, sending, sleeping, pending, loop, queued, settled, lost>>
      BY <1>6 DEF Work, Panic, queue
    <2> QED
      BY <1>0, <1>u, <1>w, <1>x, <1>y, <1>z, <1>o, <2>1 DEF PlaceInv
  <1>7. ASSUME NEW s \in Slots, Ack(s) PROVE PlaceInv'
    <2> DEFINE k == Taken(tasks[s])
    <2>1. tasks[s] # NoEntry
      BY <1>7 DEF Ack, Running
    <2>2. k \in pending /\ {i \in pending : i.token # tasks[s].token} = pending \ {k}
      BY <2>1, TaskFinds
    <2>3. k.email = tasks[s].email
      BY DEF Taken
    <2>4. /\ pending' = pending \ {k} /\ settled' = settled \union {k.email}
          /\ UNCHANGED <<channel, sending, sleeping, loop, queued, lost>>
      BY <1>7, <2>2, <2>3 DEF Ack, Remove
    <2> HIDE DEF k
    <2>5. D' = D \ {k.email} /\ Single(pending') /\ k.email \in D
      BY <1>0, <2>2, <2>4, EmailsWithout DEF EmailsOf
    <2>6. Owed' = Owed \ {k.email}
      BY <2>4 DEF Owed
    <2>7. Partition(A, B, C, D', F, Owed')
      <3>1. Partition(A, B, C, D \ {k.email}, F, Owed \ {k.email})
        BY <1>0, <2>5, <2>6, Moves
      <3> QED
        BY <3>1, <2>5, <2>6
    <2> QED
      BY <1>0, <1>u, <1>w, <1>x, <1>z, <2>4, <2>5, <2>7 DEF PlaceInv
  <1>8. ASSUME NEW s \in Slots, Nack(s) PROVE PlaceInv'
    <2> DEFINE k == Taken(tasks[s])
               j == Entry(tasks[s])
    <2>1. tasks[s] # NoEntry
      BY <1>8 DEF Nack, Running
    <2>2. /\ k \in pending /\ {i \in pending : i.token # tasks[s].token} = pending \ {k}
          /\ {i \in pending : i.token = tasks[s].token} = {k} /\ Entry(k) = j
      BY <2>1, TaskFinds
    <2>3. k.email = tasks[s].email /\ j.email = tasks[s].email
      BY DEF Taken, Entry
    <2> HIDE DEF j
    <2>4. /\ pending' = pending \ {k} /\ sleeping' = sleeping \union {j}
          /\ UNCHANGED <<channel, sending, loop, queued, settled, lost>>
      BY <1>8, <2>2 DEF Nack, Remove
    <2> HIDE DEF k
    <2>5. D' = D \ {k.email} /\ Single(pending') /\ k.email \in D
      BY <1>0, <2>2, <2>4, EmailsWithout DEF EmailsOf
    <2>6. j.email \notin C
      BY <1>0, <2>3, <2>5 DEF Partition
    <2>7. C' = C \union {k.email} /\ Single(sleeping')
      <3>1. Single(sleeping) /\ j.email \notin EmailsOf(sleeping)
        BY <1>0, <2>6
      <3>2. /\ EmailsOf(sleeping \union {j}) = EmailsOf(sleeping) \union {j.email}
            /\ Single(sleeping \union {j})
        BY <3>1, EmailsWith
      <3>3. C' = EmailsOf(sleeping \union {j}) /\ (Single(sleeping') <=> Single(sleeping \union {j}))
        BY <2>4 DEF EmailsOf
      <3> QED
        BY <2>3, <3>2, <3>3
    <2>8. Partition(A, B, C', D', F, Owed)
      <3>1. Partition(A, B, C \union {k.email}, D \ {k.email}, F, Owed)
        BY <1>0, <2>5, <2>7, Moves
      <3> QED
        BY <3>1, <2>5, <2>7
    <2> QED
      BY <1>0, <1>u, <1>w, <1>z, <1>o, <2>4, <2>5, <2>7, <2>8 DEF PlaceInv
  <1>9. ASSUME NEW i \in sleeping, Wake(i) PROVE PlaceInv'
    <2> DEFINE j == [i EXCEPT !.attempt = @ + 1]
    <2>1. i \in Entries
      BY DEF Typed
    <2>2. j.email = i.email
      BY <2>1 DEF Entries
    <2>3. /\ sleeping' = sleeping \ {i} /\ sending' = sending \union {j}
          /\ UNCHANGED <<channel, pending, loop, queued, settled, lost>>
      BY <1>9 DEF Wake, CountUp
    <2> HIDE DEF j
    <2>4. C' = C \ {i.email} /\ Single(sleeping') /\ i.email \in C
      BY <1>0, <2>3, EmailsWithout DEF EmailsOf
    <2>5. j.email \notin B
      BY <1>0, <2>2, <2>4 DEF Partition
    <2>6. B' = B \union {i.email} /\ Single(sending')
      BY <1>0, <2>2, <2>3, <2>5, EmailsWith
    <2>7. Partition(A, B', C', D, F, Owed)
      <3>1. Partition(A, B \union {i.email}, C \ {i.email}, D, F, Owed)
        BY <1>0, <2>4, <2>6, Moves
      <3> QED
        BY <3>1, <2>4, <2>6
    <2> QED
      BY <1>0, <1>u, <1>y, <1>z, <1>o, <2>3, <2>4, <2>6, <2>7 DEF PlaceInv
  <1>10. CASE Restart
    <2>1. /\ channel' = <<>> /\ sending' = {} /\ sleeping' = {} /\ pending' = {}
          /\ loop'.entry = NoEntry /\ lost' = queued \ settled
          /\ UNCHANGED <<queued, settled>>
      BY <1>10 DEF Restart, AtDequeue
    <2>2. A' = {} /\ B' = {} /\ C' = {} /\ D' = {} /\ F' = {} /\ Owed' = {}
      BY <2>1 DEF ChannelEmails, EmailsOf, LoopEmails, Owed
    <2> QED
      BY <2>1, <2>2 DEF PlaceInv, Partition, Single
  <1>11. CASE UNCHANGED vars
    BY <1>0, <1>11, <1>u, <1>w, <1>x, <1>y, <1>z, <1>o DEF vars, queue, PlaceInv
  <1> QED
    BY <1>1, <1>2, <1>3, <1>4, <1>5, <1>6, <1>7, <1>8, <1>9, <1>10, <1>11
    DEF Next, Dequeue, Task

\* The counter is raised before an entry enters the channel and lowered after one
\* has left it, so it covers the channel and does not wrap.
LEMMA CountNext ==
  ASSUME Typed, Typed', Ranges, PlaceInv, CountInv, [Next]_vars
  PROVE  CountInv' /\ ready_count' \in Nat
  <1> DEFINE R == IF loop.at = "received" THEN 1 ELSE 0
             K == Cardinality(sending)
  <1>0. /\ IsFiniteSet(sending) /\ ready_count = Len(channel) + K + R
        /\ ready_count \in Nat /\ Len(channel) \in Nat /\ K \in Nat /\ R \in Nat
    BY FS_CardinalityType DEF CountInv, CounterCovers, Ranges, Typed
  <1>r. loop'.at = loop.at => R' = R
    OBVIOUS
  <1>c. ASSUME NEW i, i \notin sending, sending' = sending \union {i}
        PROVE  IsFiniteSet(sending') /\ K' = K + 1
    BY <1>0, <1>c, FS_AddElement
  <1>q. ASSUME IsFiniteSet(sending'), ready_count' = Len(channel') + K' + R'
        PROVE  CountInv' /\ ready_count' \in Nat
    <2>1. K' \in Nat /\ Len(channel') \in Nat /\ R' \in Nat
      BY <1>q, FS_CardinalityType DEF Typed
    <2> QED
      BY <1>q, <2>1 DEF CountInv, CounterCovers
  <1>1. ASSUME NEW i, i.email \notin EmailsOf(sending), CountUp(i), UNCHANGED <<channel, loop>>
        PROVE  CountInv' /\ ready_count' \in Nat
    <2>1. i \notin sending
      BY <1>1 DEF EmailsOf
    <2>2. IsFiniteSet(sending') /\ K' = K + 1
      BY <1>1, <1>c, <2>1 DEF CountUp
    <2>3. ready_count' = ready_count + 1 /\ Len(channel') = Len(channel) /\ R' = R
      BY <1>1, <1>r DEF CountUp
    <2> HIDE DEF K, R
    <2> QED
      BY <1>0, <1>q, <2>2, <2>3
  <1>2. ASSUME NEW e \in Emails, Enqueue(e) PROVE CountInv' /\ ready_count' \in Nat
    <2>1. e \notin Owed
      BY <1>2 DEF Enqueue, Owed
    <2>2. e \notin EmailsOf(sending)
      BY <2>1 DEF PlaceInv, Partition
    <2> QED
      BY <1>1, <1>2, <2>2 DEF Enqueue
  <1>3. ASSUME NEW i \in sleeping, Wake(i) PROVE CountInv' /\ ready_count' \in Nat
    <2> DEFINE j == [i EXCEPT !.attempt = @ + 1]
    <2>1. j.email = i.email
      BY DEF Typed, Entries
    <2>2. CountUp(j) /\ UNCHANGED <<channel, loop>>
      BY <1>3 DEF Wake
    <2> HIDE DEF j
    <2>3. j.email \notin EmailsOf(sending)
      <3>1. i.email \in EmailsOf(sleeping)
        BY DEF EmailsOf
      <3> QED
        BY <2>1, <3>1 DEF PlaceInv, Partition
    <2> QED
      BY <1>1, <2>2, <2>3
  <1>4. ASSUME NEW i \in sending, Transmit(i) PROVE CountInv' /\ ready_count' \in Nat
    <2>1. /\ sending' = sending \ {i} /\ channel' = Append(channel, i) /\ i \in Entries
          /\ UNCHANGED <<loop, ready_count>>
      BY <1>4 DEF Transmit, Typed
    <2>2. IsFiniteSet(sending') /\ K' = K - 1
      BY <1>0, <2>1, FS_RemoveElement
    <2>3. Len(channel') = Len(channel) + 1 /\ R' = R
      BY <1>r, <2>1, ChannelMoves
    <2> HIDE DEF K, R
    <2> QED
      BY <1>0, <1>q, <2>1, <2>2, <2>3
  <1>5. CASE Receive
    <2>1. channel # <<>> /\ channel' = Tail(channel) /\ UNCHANGED <<sending, ready_count>>
      BY <1>5 DEF Receive
    <2>2. R = 0 /\ R' = 1
      BY <1>5 DEF Receive
    <2>3. Len(channel) = Len(channel') + 1 /\ Len(channel') \in Nat
      BY <2>1, ChannelMoves DEF Typed
    <2>4. K' = K
      BY <2>1
    <2> HIDE DEF K, R
    <2> QED
      BY <1>0, <1>q, <2>1, <2>2, <2>3, <2>4
  <1>6. CASE CountDown
    <2>1. ready_count' = ready_count - 1 /\ UNCHANGED <<sending, channel>>
      BY <1>6 DEF CountDown
    <2>2. R = 1 /\ R' = 0
      BY <1>6 DEF CountDown, Typed
    <2>3. K' = K /\ Len(channel') = Len(channel)
      BY <2>1
    <2> HIDE DEF K, R
    <2> QED
      BY <1>0, <1>q, <2>1, <2>2, <2>3
  <1>7. ASSUME UNCHANGED <<sending, channel, ready_count>>, R' = R
        PROVE  CountInv' /\ ready_count' \in Nat
    <2>1. K' = K /\ Len(channel') = Len(channel)
      BY <1>7
    <2> HIDE DEF K, R
    <2> QED
      BY <1>0, <1>q, <1>7, <2>1
  <1>8. ASSUME NEW s \in Slots, Register(s) PROVE CountInv' /\ ready_count' \in Nat
    <2>1. UNCHANGED <<sending, channel, ready_count>> /\ R' = R
      BY <1>8 DEF Register, AtDequeue
    <2> QED
      BY <1>7, <2>1
  <1>9. ASSUME NEW s \in Slots, Task(s) \/ Panic(s) PROVE CountInv' /\ ready_count' \in Nat
    <2>1. UNCHANGED <<sending, channel, ready_count, loop>>
      BY <1>9 DEF Task, Work, Ack, Nack, Panic, queue
    <2> QED
      BY <1>7, <1>r, <2>1
  <1>10. CASE Restart
    <2>1. channel' = <<>> /\ sending' = {} /\ ready_count' = 0 /\ R' = 0
      BY <1>10 DEF Restart, AtDequeue
    <2>2. IsFiniteSet(sending') /\ K' = 0 /\ Len(channel') = 0
      BY <2>1, FS_EmptySet
    <2> HIDE DEF K, R
    <2> QED
      BY <1>q, <2>1, <2>2
  <1>11. CASE UNCHANGED vars
    <2>1. UNCHANGED <<sending, channel, ready_count>> /\ R' = R
      BY <1>11 DEF vars, queue
    <2> QED
      BY <1>7, <2>1
  <1> QED
    BY <1>2, <1>3, <1>4, <1>5, <1>6, <1>8, <1>9, <1>10, <1>11 DEF Next, Dequeue

\* fetch_add hands every token out once.
LEMMA TokenNext ==
  ASSUME Typed, Typed', TokenInv, [Next]_vars
  PROVE  TokenInv'
  <1>0. \A i \in pending : i.token \in Nat
    BY DEF Typed, InFlight
  <1>1. ASSUME next_token' = next_token, UNCHANGED pending,
               \A s \in Slots : tasks'[s] # NoEntry =>
                 tasks[s] # NoEntry /\ Taken(tasks'[s]) = Taken(tasks[s])
        PROVE  TokenInv'
    <2>1. \A s \in Slots : tasks'[s] # NoEntry => tasks'[s].token = tasks[s].token
      BY <1>1 DEF Taken
    <2> QED
      BY <1>1, <2>1 DEF TokenInv
  <1>2. ASSUME NEW s \in Slots, Register(s) PROVE TokenInv'
    <2> DEFINE i == [token |-> next_token, email |-> loop.entry.email,
                     attempt |-> loop.entry.attempt]
               t == [at |-> "work", token |-> next_token, email |-> loop.entry.email,
                     attempt |-> loop.entry.attempt]
    <2>1. /\ pending' = pending \union {i} /\ next_token' = next_token + 1
          /\ \A u \in Slots : tasks'[u] = IF u = s THEN t ELSE tasks[u]
      BY <1>2 DEF Register, TakeToken, Typed
    <2>2. i.token = next_token /\ t.token = next_token /\ Taken(t) = i /\ next_token \in Nat
      BY DEF Taken, Typed
    <2> HIDE DEF i, t
    <2>3. \A j \in pending : j.token # next_token /\ j.token < next_token + 1
      BY <1>0, <2>2 DEF TokenInv
    <2>4. \A u \in Slots : tasks[u] # NoEntry => tasks[u].token # next_token
      BY <2>3 DEF TokenInv, Taken
    <2>5. \A j \in pending' : j.token < next_token'
      BY <2>1, <2>2, <2>3
    <2>6. \A j, k \in pending' : j.token = k.token => j = k
      BY <2>1, <2>2, <2>3 DEF TokenInv
    <2>7. ASSUME NEW u \in Slots, tasks'[u] # NoEntry
          PROVE  /\ Taken(tasks'[u]) \in pending'
                 /\ \A v \in Slots : tasks'[v] # NoEntry /\ tasks'[v].token = tasks'[u].token => u = v
      BY <2>1, <2>2, <2>4, <2>7 DEF TokenInv
    <2> QED
      BY <2>5, <2>6, <2>7 DEF TokenInv
  <1>3. ASSUME NEW s \in Slots, Ack(s) \/ Nack(s) PROVE TokenInv'
    <2> DEFINE k == Taken(tasks[s])
    <2>1. tasks[s] # NoEntry
      BY <1>3 DEF Ack, Nack, Running
    <2>2. k \in pending /\ {i \in pending : i.token # tasks[s].token} = pending \ {k}
      BY <2>1, TaskFinds
    <2>3. /\ pending' = pending \ {k} /\ UNCHANGED next_token
          /\ \A u \in Slots : tasks'[u] = IF u = s THEN NoEntry ELSE tasks[u]
      BY <1>3, <2>2 DEF Ack, Nack, Remove, Typed
    <2>4. \A u \in Slots \ {s} : tasks[u] # NoEntry => Taken(tasks[u]) # k
      BY <2>1 DEF TokenInv, Taken
    <2> HIDE DEF k
    <2> QED
      BY <2>3, <2>4 DEF TokenInv
  <1>4. ASSUME NEW s \in Slots, Work(s) PROVE TokenInv'
    <2>1. tasks[s] \in TaskRecs /\ tasks[s] # NoEntry
      BY <1>4 DEF Work, Running, Typed
    <2>2. PICK place : tasks' = [tasks EXCEPT ![s].at = place]
      BY <1>4 DEF Work
    <2>3. \A u \in Slots : tasks'[u] = IF u = s THEN [tasks[s] EXCEPT !.at = place] ELSE tasks[u]
      BY <2>2 DEF Typed
    <2>4. Taken([tasks[s] EXCEPT !.at = place]) = Taken(tasks[s])
      BY <2>1 DEF Taken, TaskRecs
    <2> QED
      BY <1>1, <1>4, <2>1, <2>3, <2>4 DEF Work, queue
  <1>5. ASSUME NEW s \in Slots, Panic(s) PROVE TokenInv'
    <2>1. \A u \in Slots : tasks'[u] = IF u = s THEN NoEntry ELSE tasks[u]
      BY <1>5 DEF Panic, Typed
    <2> QED
      BY <1>1, <1>5, <2>1 DEF Panic, queue
  <1>6. CASE Restart
    <2>1. pending' = {} /\ \A s \in Slots : tasks'[s] = NoEntry
      BY <1>6 DEF Restart
    <2> QED
      BY <2>1 DEF TokenInv
  <1>7. ASSUME UNCHANGED <<next_token, pending, tasks>> PROVE TokenInv'
    BY <1>1, <1>7
  <1> QED
    BY <1>2, <1>3, <1>4, <1>5, <1>6, <1>7
    DEF Next, Dequeue, Task, Enqueue, Transmit, Receive, CountDown, Wake, vars, queue

\* AttemptInv is kept when each entry of the next state was there and its e-mail is
\* none of those claimed or accepted in the step, or is shown to be in order.
LEMMA AttemptKept ==
  ASSUME Typed, Typed', AttemptInv, faults \in Nat, faults' \in Nat, faults <= faults',
         queued \subseteq queued', NEW Touched,
         \A e \in Emails : e \notin Touched => claims'[e] = claims[e] /\ accepted'[e] = accepted[e],
         \A e \in Emails : e \in Touched =>
           e \in queued' /\ claims'[e] <= MAX_ATTEMPTS /\ accepted'[e] <= 1 + faults',
         \A n \in 1..Len(channel') :
           \/ (\E m \in 1..Len(channel) : channel'[n] = channel[m]) /\ channel'[n].email \notin Touched
           \/ channel'[n] \in sending /\ channel'[n].email \notin Touched,
         \A i \in sending' :
           (i \in sending /\ i.email \notin Touched) \/ Fresh(i, claims', accepted', faults'),
         loop'.entry # NoEntry =>
           /\ loop'.entry = loop.entry \/ \E m \in 1..Len(channel) : loop'.entry = channel[m]
           /\ loop'.entry.email \notin Touched,
         \A i \in sleeping' :
           (i \in sleeping /\ i.email \notin Touched) \/ Asleep(i, claims', accepted', faults'),
         \A i \in pending' :
           (i \in pending /\ i.email \notin Touched) \/ i.attempt = claims'[i.email],
         \A s \in Slots : tasks'[s] # NoEntry =>
           \/ tasks'[s] = tasks[s] /\ tasks[s].email \notin Touched
           \/ Steady(tasks'[s], accepted', faults')
  PROVE  AttemptInv'
  <1>1. \A e \in Emails : /\ claims[e] \in Nat /\ claims'[e] \in Nat
                          /\ accepted[e] \in Nat /\ accepted'[e] \in Nat
    BY DEF Typed
  <1>2. \A i \in Entries : i.email \in Emails
    BY DEF Entries
  <1>3. \A i \in InFlight : i.email \in Emails
    BY DEF InFlight
  <1>4. \A t \in TaskRecs : t.email \in Emails
    BY DEF TaskRecs
  <1>5. \A n \in 1..Len(channel) : channel[n] \in Entries
    BY DEF Typed
  <1>6. ASSUME NEW i \in Entries, i.email \notin Touched, Fresh(i, claims, accepted, faults)
        PROVE  Fresh(i, claims', accepted', faults')
    BY <1>1, <1>2, <1>6 DEF Fresh
  <1>7. ASSUME NEW e \in Emails
        PROVE  /\ claims'[e] <= MAX_ATTEMPTS /\ accepted'[e] <= 1 + faults'
               /\ e \notin queued' => claims'[e] = 0 /\ accepted'[e] = 0
    BY <1>1 DEF AttemptInv
  <1>8. \A n \in 1..Len(channel') : Fresh(channel'[n], claims', accepted', faults')
    BY <1>5, <1>6 DEF AttemptInv, Typed
  <1>9. \A i \in sending' : Fresh(i, claims', accepted', faults')
    BY <1>6 DEF AttemptInv, Typed
  <1>10. loop'.entry # NoEntry => Fresh(loop'.entry, claims', accepted', faults')
    BY <1>5, <1>6 DEF AttemptInv, Typed
  <1>11. ASSUME NEW i \in sleeping' PROVE Asleep(i, claims', accepted', faults')
    <2>1. CASE i \in sleeping /\ i.email \notin Touched
      BY <1>1, <1>2, <2>1 DEF AttemptInv, Asleep, Typed
    <2> QED
      BY <2>1
  <1>12. \A i \in pending' : i.attempt = claims'[i.email]
    BY <1>1, <1>3 DEF AttemptInv, Typed
  <1>13. ASSUME NEW s \in Slots, tasks'[s] # NoEntry PROVE Steady(tasks'[s], accepted', faults')
    <2>1. CASE tasks'[s] = tasks[s] /\ tasks[s].email \notin Touched
      <3>1. tasks[s].email \in Emails /\ Steady(tasks[s], accepted, faults)
        BY <1>4, <1>13, <2>1 DEF AttemptInv, Typed
      <3> QED
        BY <1>1, <2>1, <3>1 DEF Steady
    <2> QED
      BY <1>13, <2>1
  <1> QED
    BY <1>7, <1>8, <1>9, <1>10, <1>11, <1>12, <1>13 DEF AttemptInv

\* The same for a step that claims nothing and that no server sees.
LEMMA AttemptCalm ==
  ASSUME Typed, Typed', AttemptInv, faults \in Nat, faults' \in Nat, faults <= faults',
         queued \subseteq queued', UNCHANGED <<claims, accepted>>,
         \A n \in 1..Len(channel') :
           \/ \E m \in 1..Len(channel) : channel'[n] = channel[m]
           \/ channel'[n] \in sending,
         \A i \in sending' : i \in sending \/ Fresh(i, claims', accepted', faults'),
         loop'.entry # NoEntry =>
           loop'.entry = loop.entry \/ \E m \in 1..Len(channel) : loop'.entry = channel[m],
         \A i \in sleeping' : i \in sleeping \/ Asleep(i, claims', accepted', faults'),
         \A i \in pending' : i \in pending,
         \A s \in Slots : tasks'[s] # NoEntry => tasks'[s] = tasks[s]
  PROVE  AttemptInv'
  <1> DEFINE None == {}
  <1>0. \A x : x \notin None
    OBVIOUS
  <1> HIDE DEF None
  <1>1. /\ \A e \in Emails : e \notin None => claims'[e] = claims[e] /\ accepted'[e] = accepted[e]
        /\ \A e \in Emails : e \in None =>
             e \in queued' /\ claims'[e] <= MAX_ATTEMPTS /\ accepted'[e] <= 1 + faults'
    BY <1>0
  <1>2. /\ \A n \in 1..Len(channel') :
             \/ (\E m \in 1..Len(channel) : channel'[n] = channel[m]) /\ channel'[n].email \notin None
             \/ channel'[n] \in sending /\ channel'[n].email \notin None
        /\ \A i \in sending' :
             (i \in sending /\ i.email \notin None) \/ Fresh(i, claims', accepted', faults')
        /\ loop'.entry # NoEntry =>
             /\ loop'.entry = loop.entry \/ \E m \in 1..Len(channel) : loop'.entry = channel[m]
             /\ loop'.entry.email \notin None
    BY <1>0
  <1>3. /\ \A i \in sleeping' :
             (i \in sleeping /\ i.email \notin None) \/ Asleep(i, claims', accepted', faults')
        /\ \A i \in pending' :
             (i \in pending /\ i.email \notin None) \/ i.attempt = claims'[i.email]
        /\ \A s \in Slots : tasks'[s] # NoEntry =>
             \/ tasks'[s] = tasks[s] /\ tasks[s].email \notin None
             \/ Steady(tasks'[s], accepted', faults')
    BY <1>0
  <1> QED
    BY <1>1, <1>2, <1>3, AttemptKept

\* An entry is claimed once for each attempt, and a copy goes out at most once for
\* each lost answer and once more.
LEMMA AttemptNext ==
  ASSUME MemoryInv, Typed', Ranges, PlaceInv, TokenInv, AttemptInv, [Next]_vars
  PROVE  AttemptInv' /\ faults' \in 0..MaxFaults
  <1>0. /\ Typed /\ EntryInv /\ faults \in Nat /\ faults \in 0..MaxFaults
        /\ MaxFaults \in Nat /\ MAX_ATTEMPTS \in Nat \ {0}
    BY MemoryAssumption DEF MemoryInv, Ranges
  <1>n. \A e \in Emails : claims[e] \in Nat /\ accepted[e] \in Nat
    BY <1>0 DEF Typed
  <1>1. ASSUME NEW e \in Emails, Enqueue(e) PROVE AttemptInv' /\ faults' \in 0..MaxFaults
    <2> DEFINE i == [email |-> e, attempt |-> 1]
    <2>1. /\ sending' = sending \union {i} /\ queued' = queued \union {e} /\ e \notin queued
          /\ UNCHANGED <<channel, sleeping, pending, loop, tasks, claims, accepted, faults>>
      BY <1>1 DEF Enqueue, CountUp
    <2>2. Fresh(i, claims', accepted', faults')
      <3>1. claims[e] = 0 /\ accepted[e] = 0
        BY <2>1 DEF AttemptInv
      <3> QED
        BY <1>0, <2>1, <3>1 DEF Fresh
    <2> HIDE DEF i
    <2> QED
      BY <1>0, <2>1, <2>2, AttemptCalm
  <1>2. ASSUME NEW i \in sending, Transmit(i) PROVE AttemptInv' /\ faults' \in 0..MaxFaults
    <2>1. /\ sending' = sending \ {i} /\ channel' = Append(channel, i) /\ i \in Entries
          /\ UNCHANGED <<sleeping, pending, loop, tasks, queued, claims, accepted, faults>>
      BY <1>0, <1>2 DEF Transmit, Typed
    <2>2. \A n \in 1..Len(channel') :
            \/ \E m \in 1..Len(channel) : channel'[n] = channel[m]
            \/ channel'[n] \in sending
      BY <1>0, <2>1 DEF Typed
    <2> QED
      BY <1>0, <2>1, <2>2, AttemptCalm
  <1>3. CASE Receive
    <2>1. /\ loop'.entry = Head(channel) /\ channel # <<>> /\ channel' = Tail(channel)
          /\ UNCHANGED <<sending, sleeping, pending, tasks, queued, claims, accepted, faults>>
      BY <1>3 DEF Receive
    <2>2. /\ Head(channel) = channel[1] /\ 1 \in 1..Len(channel)
          /\ \A n \in 1..Len(channel') :
               channel'[n] = channel[n + 1] /\ n + 1 \in 1..Len(channel)
      BY <1>0, <2>1, ChannelMoves
    <2> QED
      BY <1>0, <2>1, <2>2, AttemptCalm
  <1>4. CASE CountDown
    <2>1. /\ loop'.entry = loop.entry
          /\ UNCHANGED <<channel, sending, sleeping, pending, tasks, queued, claims, accepted, faults>>
      BY <1>0, <1>4 DEF CountDown, Typed
    <2> QED
      BY <1>0, <2>1, AttemptCalm
  <1>5. ASSUME NEW s \in Slots, Register(s) PROVE AttemptInv' /\ faults' \in 0..MaxFaults
    <2> DEFINE e == loop.entry.email
               i == [token |-> next_token, email |-> e, attempt |-> loop.entry.attempt]
               t == [at |-> "work", token |-> next_token, email |-> e,
                     attempt |-> loop.entry.attempt]
    <2>1. /\ loop.entry # NoEntry /\ loop'.entry = NoEntry /\ loop.entry \in Entries
          /\ pending' = pending \union {i} /\ claims' = [claims EXCEPT ![e] = @ + 1]
          /\ UNCHANGED <<channel, sending, sleeping, queued, accepted, faults>>
          /\ \A u \in Slots : tasks'[u] = IF u = s THEN t ELSE tasks[u]
      BY <1>0, <1>5 DEF Register, Typed, AtDequeue
    <2>2. /\ e \in Emails /\ e \in queued /\ loop.entry.attempt = claims[e] + 1
          /\ loop.entry.attempt <= MAX_ATTEMPTS /\ accepted[e] <= faults
      BY <1>0, <2>1 DEF AttemptInv, Fresh, EntryInv, Due, Entries
    <2>3. /\ i.email = e /\ i.attempt = loop.entry.attempt
          /\ t.at = "work" /\ t.email = e
      OBVIOUS
    <2>4. /\ claims'[e] = claims[e] + 1
          /\ \A f \in Emails : f \notin {e} => claims'[f] = claims[f] /\ accepted'[f] = accepted[f]
      BY <1>0, <2>1, <2>2 DEF Typed
    <2>5. /\ e \notin ChannelEmails /\ e \notin EmailsOf(sending)
          /\ e \notin EmailsOf(sleeping) /\ e \notin EmailsOf(pending)
      <3>1. LoopEmails = {e}
        BY <2>1 DEF LoopEmails
      <3> QED
        BY <3>1 DEF PlaceInv, Partition
    <2> HIDE DEF e, i, t
    <2>6. \A f \in Emails : f \in {e} =>
            f \in queued' /\ claims'[f] <= MAX_ATTEMPTS /\ accepted'[f] <= 1 + faults'
      BY <1>0, <1>n, <2>1, <2>2, <2>4
    <2>7. \A u \in Slots : tasks'[u] # NoEntry =>
            \/ tasks'[u] = tasks[u] /\ tasks[u].email \notin {e}
            \/ Steady(tasks'[u], accepted', faults')
      <3>1. Steady(t, accepted', faults')
        BY <2>1, <2>2, <2>3 DEF Steady
      <3>2. ASSUME NEW u \in Slots, tasks[u] # NoEntry PROVE tasks[u].email # e
        <4>1. Taken(tasks[u]) \in pending /\ Taken(tasks[u]).email = tasks[u].email
          BY <3>2 DEF TokenInv, Taken
        <4>2. Taken(tasks[u]).email \in EmailsOf(pending)
          BY <4>1 DEF EmailsOf
        <4> QED
          BY <2>5, <4>1, <4>2
      <3> QED
        BY <2>1, <3>1, <3>2
    <2>8. \A j \in pending' : (j \in pending /\ j.email \notin {e}) \/ j.attempt = claims'[j.email]
      BY <2>1, <2>2, <2>3, <2>4, <2>5 DEF EmailsOf
    <2>9. /\ \A n \in 1..Len(channel) : channel[n].email \notin {e}
          /\ \A j \in sending : j.email \notin {e}
          /\ \A j \in sleeping : j.email \notin {e}
      BY <2>5 DEF ChannelEmails, EmailsOf
    <2>10. /\ \A n \in 1..Len(channel') :
                (\E m \in 1..Len(channel) : channel'[n] = channel[m]) /\ channel'[n].email \notin {e}
           /\ \A j \in sending' : j \in sending /\ j.email \notin {e}
           /\ \A j \in sleeping' : j \in sleeping /\ j.email \notin {e}
      BY <2>1, <2>9
    <2>11. loop'.entry = NoEntry /\ queued \subseteq queued' /\ faults' \in Nat /\ faults <= faults'
      BY <1>0, <2>1
    <2>12. \A n \in 1..Len(channel') :
             \/ (\E m \in 1..Len(channel) : channel'[n] = channel[m]) /\ channel'[n].email \notin {e}
             \/ channel'[n] \in sending /\ channel'[n].email \notin {e}
      BY <2>10
    <2>13. AttemptInv'
      BY <1>0, <2>4, <2>6, <2>7, <2>8, <2>10, <2>11, <2>12, AttemptKept
    <2> QED
      BY <1>0, <2>1, <2>13
  <1>6. ASSUME NEW s \in Slots, Work(s) PROVE AttemptInv' /\ faults' \in 0..MaxFaults
    <2> DEFINE e == tasks[s].email
    <2>1. /\ tasks[s] # NoEntry /\ tasks[s] \in TaskRecs /\ tasks[s].at = "work"
          /\ Taken(tasks[s]) \in pending /\ accepted[e] <= faults /\ e \in queued
      BY <1>0, <1>6 DEF Work, Running, Typed, TokenInv, AttemptInv, Steady, EntryInv, Claimed
    <2>2. e \in Emails /\ tasks[s].attempt \in Nat
      BY <2>1 DEF TaskRecs
    <2>3. UNCHANGED <<channel, sending, sleeping, pending, loop, queued, claims>>
      BY <1>6 DEF Work, queue
    <2>4. PICK place : tasks' = [tasks EXCEPT ![s].at = place]
      BY <1>6 DEF Work
    <2> DEFINE t == [tasks[s] EXCEPT !.at = place]
    <2>5. /\ \A u \in Slots : tasks'[u] = IF u = s THEN t ELSE tasks[u]
          /\ t.at = place /\ t.email = e /\ t.attempt = tasks[s].attempt
      BY <1>0, <2>1, <2>4 DEF Typed, TaskRecs
    <2>6. /\ faults' \in 0..MaxFaults /\ faults <= faults'
          /\ \A f \in Emails : f \notin {e} => accepted'[f] = accepted[f]
          /\ accepted'[e] <= 1 + faults'
          /\ place = "ack" \/ (place = AfterError(tasks[s].attempt) /\ accepted'[e] <= faults')
      <3>p. ASSUME NEW q, tasks' = [tasks EXCEPT ![s].at = q] PROVE q = place
        <4>1. tasks'[s].at = q
          BY <1>0, <2>1, <3>p DEF Typed, TaskRecs
        <4>2. tasks'[s].at = place
          BY <2>5
        <4> QED
          BY <4>1, <4>2
      <3>q. accepted' = [accepted EXCEPT ![e] = @ + 1] =>
              /\ accepted'[e] = accepted[e] + 1
              /\ \A f \in Emails : f \notin {e} => accepted'[f] = accepted[f]
        BY <1>0, <2>2 DEF Typed
      <3>r. accepted[e] \in Nat
        BY <1>n, <2>2
      <3>s. accepted[e] <= faults
        BY <2>1
      <3> HIDE DEF e
      <3>1. CASE /\ tasks' = [tasks EXCEPT ![s].at = "ack"]
                 /\ accepted' = [accepted EXCEPT ![e] = @ + 1] /\ faults' = faults
        <4>1. place = "ack"
          BY <3>1, <3>p
        <4>2. faults' \in 0..MaxFaults /\ faults <= faults'
          BY <1>0, <3>1
        <4>3. accepted'[e] <= 1 + faults'
          BY <1>0, <3>1, <3>q, <3>r, <3>s
        <4> QED
          BY <3>1, <3>q, <4>1, <4>2, <4>3
      <3>2. CASE /\ tasks' = [tasks EXCEPT ![s].at = AfterError(tasks[s].attempt)]
                 /\ accepted' = [accepted EXCEPT ![e] = @ + 1]
                 /\ faults < MaxFaults /\ faults' = faults + 1
        <4>1. place = AfterError(tasks[s].attempt)
          BY <3>2, <3>p
        <4> QED
          BY <1>0, <3>2, <3>q, <3>r, <3>s, <4>1
      <3>3. CASE /\ tasks' = [tasks EXCEPT ![s].at = AfterError(tasks[s].attempt)]
                 /\ accepted' = accepted /\ faults' = faults
        <4>1. place = AfterError(tasks[s].attempt)
          BY <3>3, <3>p
        <4> QED
          BY <1>0, <3>3, <3>r, <3>s, <4>1
      <3>4. CASE /\ tasks' = [tasks EXCEPT ![s].at = "ack"]
                 /\ accepted' = accepted /\ faults' = faults
        <4>1. place = "ack"
          BY <3>4, <3>p
        <4> QED
          BY <1>0, <3>4, <3>r, <3>s, <4>1
      <3> QED
        BY <1>6, <3>1, <3>2, <3>3, <3>4 DEF Work, Fault, NoFault, e
    <2>7. Steady(t, accepted', faults')
      BY <2>2, <2>5, <2>6, <1>0 DEF Steady, AfterError
    <2>8. /\ e \in EmailsOf(pending)
          /\ \A f \in EmailsOf(pending) :
               /\ f \notin ChannelEmails /\ f \notin EmailsOf(sending)
               /\ f \notin EmailsOf(sleeping) /\ f \notin LoopEmails
      <3>1. Taken(tasks[s]) \in pending /\ Taken(tasks[s]).email = e
        BY <2>1 DEF Taken
      <3>2. e \in EmailsOf(pending)
        BY <3>1 DEF EmailsOf
      <3> QED
        BY <3>2 DEF PlaceInv, Partition
    <2>9. \A u \in Slots : tasks[u] # NoEntry /\ u # s => tasks[u].email # e
      <3>1. SUFFICES ASSUME NEW u \in Slots, tasks[u] # NoEntry, tasks[u].email = e PROVE u = s
        OBVIOUS
      <3>2. Taken(tasks[u]) \in pending
        BY <3>1 DEF TokenInv
      <3>3. Taken(tasks[u]) = Taken(tasks[s])
        BY <2>1, <3>1, <3>2 DEF PlaceInv, Single, Taken
      <3> QED
        BY <2>1, <3>1, <3>3 DEF TokenInv, Taken
    <2>10. /\ \A n \in 1..Len(channel) : channel[n].email \notin {e}
           /\ \A j \in sending : j.email \notin {e}
           /\ \A j \in sleeping : j.email \notin {e}
           /\ loop.entry # NoEntry => loop.entry.email \notin {e}
      BY <2>8 DEF ChannelEmails, EmailsOf, LoopEmails
    <2> HIDE DEF e, t
    <2>11. /\ \A f \in Emails : f \notin {e} => claims'[f] = claims[f] /\ accepted'[f] = accepted[f]
           /\ \A f \in Emails : f \in {e} =>
                f \in queued' /\ claims'[f] <= MAX_ATTEMPTS /\ accepted'[f] <= 1 + faults'
      BY <2>1, <2>3, <2>6 DEF AttemptInv
    <2>12. \A u \in Slots : tasks'[u] # NoEntry =>
             \/ tasks'[u] = tasks[u] /\ tasks[u].email \notin {e}
             \/ Steady(tasks'[u], accepted', faults')
      BY <2>5, <2>7, <2>9
    <2>13. \A j \in pending' :
             (j \in pending /\ j.email \notin {e}) \/ j.attempt = claims'[j.email]
      BY <2>3 DEF AttemptInv
    <2>14. faults' \in Nat
      BY <1>0, <2>6
    <2> QED
      BY <1>0, <2>3, <2>6, <2>10, <2>11, <2>12, <2>13, <2>14, AttemptKept
  <1>7. ASSUME NEW s \in Slots, Ack(s) PROVE AttemptInv' /\ faults' \in 0..MaxFaults
    <2>1. /\ UNCHANGED <<channel, sending, sleeping, loop, queued, claims, accepted, faults>>
          /\ \A u \in Slots : tasks'[u] = tasks[u] \/ tasks'[u] = NoEntry
          /\ \A i \in pending' : i \in pending
      BY <1>0, <1>7 DEF Ack, Remove, Typed
    <2> QED
      BY <1>0, <2>1, AttemptCalm
  <1>8. ASSUME NEW s \in Slots, Nack(s) PROVE AttemptInv' /\ faults' \in 0..MaxFaults
    <2> DEFINE k == Taken(tasks[s])
               j == Entry(tasks[s])
    <2>1. tasks[s] # NoEntry /\ tasks[s].at = "nack"
      BY <1>8 DEF Nack, Running
    <2>2. /\ k \in pending /\ Entry(k) = j
          /\ {i \in pending : i.token = tasks[s].token} = {k}
      BY <1>0, <2>1, TaskFinds
    <2>3. /\ sleeping' = sleeping \union {j}
          /\ UNCHANGED <<channel, sending, loop, queued, claims, accepted, faults>>
          /\ \A u \in Slots : tasks'[u] = tasks[u] \/ tasks'[u] = NoEntry
          /\ \A i \in pending' : i \in pending
      BY <1>0, <1>8, <2>2 DEF Nack, Remove, Typed
    <2>4. Asleep(j, claims', accepted', faults')
      <3>1. tasks[s].attempt = claims[tasks[s].email]
        BY <2>2 DEF AttemptInv, Taken
      <3>2. tasks[s].attempt < MAX_ATTEMPTS /\ accepted[tasks[s].email] <= faults
        BY <2>1 DEF AttemptInv, Steady
      <3> QED
        BY <2>3, <3>1, <3>2 DEF Asleep, Entry
    <2> HIDE DEF j, k
    <2> QED
      BY <1>0, <2>3, <2>4, AttemptCalm
  <1>9. ASSUME NEW s \in Slots, Panic(s) PROVE AttemptInv' /\ faults' \in 0..MaxFaults
    <2>1. /\ UNCHANGED <<channel, sending, sleeping, pending, loop, queued, claims, accepted>>
          /\ \A u \in Slots : tasks'[u] = tasks[u] \/ tasks'[u] = NoEntry
          /\ faults < MaxFaults /\ faults' = faults + 1
      BY <1>0, <1>9 DEF Panic, queue, Fault, Typed
    <2>2. faults' \in Nat /\ faults' \in 0..MaxFaults /\ faults <= faults'
      BY <1>0, <2>1
    <2> QED
      BY <1>0, <2>1, <2>2, AttemptCalm
  <1>10. ASSUME NEW i \in sleeping, Wake(i) PROVE AttemptInv' /\ faults' \in 0..MaxFaults
    <2> DEFINE j == [i EXCEPT !.attempt = @ + 1]
    <2>1. i \in Entries /\ Asleep(i, claims, accepted, faults)
      BY <1>0 DEF Typed, AttemptInv
    <2>2. j.email = i.email /\ j.attempt = i.attempt + 1 /\ i.attempt \in Nat
      BY <2>1 DEF Entries
    <2>3. /\ sleeping' = sleeping \ {i} /\ sending' = sending \union {j}
          /\ UNCHANGED <<channel, pending, loop, tasks, queued, claims, accepted, faults>>
      BY <1>10 DEF Wake, CountUp
    <2>4. Fresh(j, claims', accepted', faults')
      BY <1>0, <2>1, <2>2, <2>3 DEF Fresh, Asleep
    <2> HIDE DEF j
    <2> QED
      BY <1>0, <2>3, <2>4, AttemptCalm
  <1>11. CASE Restart
    <2>1. /\ channel' = <<>> /\ sending' = {} /\ sleeping' = {} /\ pending' = {}
          /\ loop'.entry = NoEntry /\ \A s \in Slots : tasks'[s] = NoEntry
          /\ UNCHANGED <<queued, claims, accepted>>
          /\ faults < MaxFaults /\ faults' = faults + 1
      BY <1>11 DEF Restart, AtDequeue, Fault
    <2>2. faults' \in Nat /\ faults' \in 0..MaxFaults /\ faults <= faults'
      BY <1>0, <2>1
    <2>3. Len(channel') = 0
      BY <2>1
    <2> QED
      BY <1>0, <2>1, <2>2, <2>3, AttemptCalm
  <1>12. CASE UNCHANGED vars
    BY <1>0, <1>12, AttemptCalm DEF vars, queue
  <1> QED
    BY <1>1, <1>2, <1>3, <1>4, <1>5, <1>6, <1>7, <1>8, <1>9, <1>10, <1>11, <1>12
    DEF Next, Dequeue, Task

\* The empty queue has its counter at zero and no place holds anything.
LEMMA SafeInit == Init => SafeInv
  <1> SUFFICES ASSUME Init PROVE SafeInv
    OBVIOUS
  <1>1. MemoryInv /\ Ranges
    BY MemoryInit, MemoryAssumption DEF Init, Ranges
  <1>2. /\ ChannelEmails = {} /\ EmailsOf({}) = {} /\ LoopEmails = {} /\ Owed = {}
        /\ Len(channel) = 0 /\ loop.entry = NoEntry /\ loop.at = "dequeue"
    BY DEF Init, ChannelEmails, EmailsOf, LoopEmails, Owed, AtDequeue
  <1>3. PlaceInv
    BY <1>2 DEF Init, PlaceInv, Partition, Single
  <1>4. CountInv
    BY <1>2, FS_EmptySet DEF Init, CountInv, CounterCovers
  <1>5. TokenInv
    BY DEF Init, TokenInv
  <1>6. AttemptInv
    BY <1>2, MemoryAssumption DEF Init, AttemptInv
  <1> QED
    BY <1>1, <1>3, <1>4, <1>5, <1>6 DEF SafeInv

\* Every step keeps the invariant of MemorySafe.
LEMMA SafeNext == SafeInv /\ [Next]_vars => SafeInv'
  <1> SUFFICES ASSUME SafeInv, [Next]_vars PROVE SafeInv'
    OBVIOUS
  <1>1. MemoryInv' /\ Typed /\ Typed'
    BY MemoryNext DEF SafeInv, MemoryInv
  <1>2. PlaceInv'
    BY <1>1, PlaceNext DEF SafeInv
  <1>3. CountInv' /\ ready_count' \in Nat
    BY <1>1, CountNext DEF SafeInv
  <1>4. TokenInv'
    BY <1>1, TokenNext DEF SafeInv
  <1>5. AttemptInv' /\ faults' \in 0..MaxFaults
    BY <1>1, AttemptNext DEF SafeInv
  <1>6. lost' \in SUBSET queued'
    <2>1. lost \subseteq queued
      BY DEF SafeInv, Ranges
    <2> QED
      BY <2>1
      DEF Next, vars, Enqueue, Transmit, Dequeue, Receive, CountDown, Register, Task, Work,
          Ack, Nack, Panic, Wake, Restart
  <1> QED
    BY <1>1, <1>2, <1>3, <1>4, <1>5, <1>6 DEF SafeInv, Ranges

\* A set whose elements are all equal has one or none.
LEMMA OneOrNone ==
  ASSUME NEW S, \A x, y \in S : x = y
  PROVE  Cardinality(S) = IF S = {} THEN 0 ELSE 1
  <1>1. CASE S = {}
    BY <1>1, FS_EmptySet
  <1>2. ASSUME NEW x \in S PROVE Cardinality(S) = 1
    <2>1. S = {x}
      BY <1>2
    <2> QED
      BY <2>1, FS_Singleton
  <1> QED
    BY <1>1, <1>2

\* The places partition the e-mails that are owed, so each has one holder.
LEMMA OneHolder == Typed /\ PlaceInv => OnePlace
  <1> SUFFICES ASSUME Typed, PlaceInv, NEW e \in Emails
               PROVE  Holders(e) = IF e \in Owed THEN 1 ELSE 0
    BY DEF OnePlace, Owed
  <1> DEFINE N == {n \in DOMAIN channel : channel[n].email = e}
             S == {i \in sending \union sleeping \union pending : i.email = e}
             P == EmailsOf(sending) \union EmailsOf(sleeping) \union EmailsOf(pending)
  <1>1. /\ ChannelEmails \intersect P = {} /\ ChannelEmails \intersect LoopEmails = {}
        /\ P \intersect LoopEmails = {} /\ ChannelEmails \union P \union LoopEmails = Owed
    BY DEF PlaceInv, Partition
  <1>2. N = {} <=> e \notin ChannelEmails
    <2>1. DOMAIN channel = 1..Len(channel)
      BY DEF Typed
    <2> QED
      BY <2>1 DEF ChannelEmails
  <1>3. Cardinality(N) = IF e \in ChannelEmails THEN 1 ELSE 0
    <2>1. \A n, m \in N : n = m
      BY DEF Typed, PlaceInv
    <2> QED
      BY <1>2, <2>1, OneOrNone
  <1>4. S = {} <=> e \notin P
    BY DEF EmailsOf
  <1>5. Cardinality(S) = IF e \in P THEN 1 ELSE 0
    <2>1. \A i, j \in S : i = j
      <3>1. \A i \in sending : i.email \in EmailsOf(sending)
        BY DEF EmailsOf
      <3>2. \A i \in sleeping : i.email \in EmailsOf(sleeping)
        BY DEF EmailsOf
      <3>3. \A i \in pending : i.email \in EmailsOf(pending)
        BY DEF EmailsOf
      <3>4. /\ e \notin EmailsOf(sending) \/ e \notin EmailsOf(sleeping)
            /\ e \notin EmailsOf(sending) \/ e \notin EmailsOf(pending)
            /\ e \notin EmailsOf(sleeping) \/ e \notin EmailsOf(pending)
        BY DEF PlaceInv, Partition
      <3> QED
        BY <3>1, <3>2, <3>3, <3>4 DEF PlaceInv, Single
    <2> QED
      BY <1>4, <2>1, OneOrNone
  <1>6. (loop.entry # NoEntry /\ loop.entry.email = e) <=> e \in LoopEmails
    BY DEF LoopEmails
  <1>7. Holders(e) = Cardinality(N) + Cardinality(S) + IF e \in LoopEmails THEN 1 ELSE 0
    BY <1>6 DEF Holders
  <1> HIDE DEF N, S, P
  <1> QED
    BY <1>1, <1>3, <1>5, <1>7

\* The invariant of the handlers' bookkeeping: where entries are, which tokens are
\* out and which attempt an entry stands for.
THEOREM SafeInvariant == Spec => []SafeInv
  BY SafeInit, SafeNext, PTL DEF Spec

\* The queue never loses, copies or mixes up an entry, its counter covers its
\* channel, and its claims and copies are bounded.
THEOREM MemoryIsSafe == Spec => []MemorySafe
  <1> SUFFICES ASSUME SafeInv PROVE MemorySafe
    BY SafeInvariant, PTL
  <1>0. Typed /\ Ranges /\ PlaceInv /\ CountInv /\ TokenInv /\ AttemptInv
    BY DEF SafeInv, MemoryInv
  <1>1. TypeOK
    BY <1>0 DEF Typed, Ranges, TypeOK
  <1>2. OnePlace
    BY <1>0, OneHolder
  <1>3. TaskOwnsEntry
    <2> SUFFICES ASSUME NEW s \in Slots, tasks[s] # NoEntry
                 PROVE  /\ {Entry(i) : i \in {i \in pending : i.token = tasks[s].token}}
                             = {Entry(tasks[s])}
                        /\ \A t \in Slots \ {s} :
                             tasks[t] # NoEntry => tasks[t].token # tasks[s].token
      BY DEF TaskOwnsEntry
    <2>1. /\ {i \in pending : i.token = tasks[s].token} = {Taken(tasks[s])}
          /\ Entry(Taken(tasks[s])) = Entry(tasks[s])
      BY <1>0, TaskFinds
    <2>2. \A t \in Slots \ {s} : tasks[t] # NoEntry => tasks[t].token # tasks[s].token
      BY <1>0 DEF TokenInv
    <2> QED
      BY <2>1, <2>2
  <1>4. CounterCovers
    BY <1>0 DEF CountInv
  <1>5. AttemptsBounded /\ CopiesBounded
    BY <1>0 DEF AttemptInv, AttemptsBounded, CopiesBounded
  <1> QED
    BY <1>1, <1>2, <1>3, <1>4, <1>5 DEF MemorySafe

-----------------------------------------------------------------------------
(* The NATS queue (NatsQueue). The inductive invariant: why something may  *)
(* leave the stream.                                                       *)

NatsReason(e) == copies[e] > 0 \/ Nats!Exhausted(e)

\* The message: in the stream only if reported, delivered again only below the
\* limit, and removed for a reason.
NatsMessageInv(e) ==
  /\ stream[e].state = "absent" => stream[e].delivered = 0
  /\ stream[e].state # "absent" => e \in reported
  /\ stream[e].state = "ready" => stream[e].delivered < MaxDeliver
  /\ stream[e].state = "removed" => NatsReason(e)

\* A command under way: a publish comes before everything else, an ack has a reason.
WireInv(c) ==
  /\ c.email \in reported
  /\ c.kind = "publish" <=> stream[c.email].state = "absent"
  /\ c.kind = "publish" => c.delivery = 0
  /\ c.kind = "ack" => NatsReason(c.email)

\* A task: it works on a delivery that was made, and is about to ack for a reason.
TaskInv(w) ==
  /\ workers[w].at = "idle" <=> workers[w].email = NoEmail
  /\ workers[w].at # "idle" =>
       /\ stream[workers[w].email].state # "absent"
       /\ workers[w].attempt <= stream[workers[w].email].delivered
  /\ workers[w].at = "ack" => NatsReason(workers[w].email)

NatsInv ==
  /\ Nats!TypeOK
  /\ \A e \in Published : NatsMessageInv(e)
  /\ \A c \in wire : WireInv(c)
  /\ \A w \in Workers : TaskInv(w)

-----------------------------------------------------------------------------
(* What a step changes.                                                    *)

NatsMessages == [state : Nats!MessageStates, delivered : 0..MaxDeliver]
Tasks    == [at : {"idle", "execute", "ack", "nack"},
             email : Published \union {NoEmail}, attempt : Nat]

NatsMessageBecomes(e, state, delivered) ==
  /\ stream'[e].state = state
  /\ stream'[e].delivered = delivered
  /\ \A f \in Published \ {e} : stream'[f] = stream[f]
  /\ stream' \in [Published -> NatsMessages]

TaskBecomes(w, at, email, attempt) ==
  /\ workers'[w].at = at
  /\ workers'[w].email = email
  /\ workers'[w].attempt = attempt
  /\ \A v \in Workers \ {w} : workers'[v] = workers[v]
  /\ workers' \in [Workers -> Tasks]

\* The ways in which the server changes a message.
LEMMA NatsMessageEffects ==
  ASSUME Nats!NatsQueueAssumption, Nats!TypeOK, NEW e \in Published
  PROVE  /\ \A state \in Nats!MessageStates : stream' = [stream EXCEPT ![e].state = state] =>
              NatsMessageBecomes(e, state, stream[e].delivered)
         /\ stream' = [stream EXCEPT ![e] =
                         [state |-> "pending", delivered |-> @.delivered + 1]] =>
              (stream[e].delivered < MaxDeliver =>
                 NatsMessageBecomes(e, "pending", stream[e].delivered + 1))
  <1>t. stream \in [Published -> NatsMessages]
    BY DEF Nats!TypeOK, NatsMessages
  <1>1. ASSUME NEW state \in Nats!MessageStates, stream' = [stream EXCEPT ![e].state = state]
        PROVE  NatsMessageBecomes(e, state, stream[e].delivered)
    BY <1>t, <1>1 DEF NatsMessageBecomes, NatsMessages
  <1>2. ASSUME stream' = [stream EXCEPT ![e] =
                            [state |-> "pending", delivered |-> @.delivered + 1]],
               stream[e].delivered < MaxDeliver
        PROVE  NatsMessageBecomes(e, "pending", stream[e].delivered + 1)
    <2>1. stream[e].delivered + 1 \in 0..MaxDeliver
      BY <1>t, <1>2 DEF NatsMessages, Nats!NatsQueueAssumption
    <2> QED
      BY <1>t, <1>2, <2>1 DEF NatsMessageBecomes, NatsMessages, Nats!MessageStates
  <1> QED
    BY <1>1, <1>2

\* The ways in which a step changes its task.
LEMMA TaskEffects ==
  ASSUME Nats!TypeOK, NEW w \in Workers
  PROVE  /\ \A place \in {"ack", "nack"} : workers' = [workers EXCEPT ![w].at = place] =>
              TaskBecomes(w, place, workers[w].email, workers[w].attempt)
         /\ workers' = [workers EXCEPT ![w] = Nats!Idle] => TaskBecomes(w, "idle", NoEmail, 0)
         /\ \A e \in Published, n \in Nat :
              workers' = [workers EXCEPT ![w] = [at |-> "execute", email |-> e, attempt |-> n]] =>
                TaskBecomes(w, "execute", e, n)
  <1>t. workers \in [Workers -> Tasks]
    BY DEF Nats!TypeOK, Tasks
  <1>1. ASSUME NEW place \in {"ack", "nack"}, workers' = [workers EXCEPT ![w].at = place]
        PROVE  TaskBecomes(w, place, workers[w].email, workers[w].attempt)
    BY <1>t, <1>1 DEF TaskBecomes, Tasks
  <1>2. ASSUME workers' = [workers EXCEPT ![w] = Nats!Idle] PROVE TaskBecomes(w, "idle", NoEmail, 0)
    BY <1>t, <1>2 DEF TaskBecomes, Tasks, Nats!Idle
  <1>3. ASSUME NEW e \in Published, NEW n \in Nat,
               workers' = [workers EXCEPT ![w] = [at |-> "execute", email |-> e, attempt |-> n]]
        PROVE  TaskBecomes(w, "execute", e, n)
    BY <1>t, <1>3 DEF TaskBecomes, Tasks
  <1> QED
    BY <1>1, <1>2, <1>3

\* The bound of the model on faults.
LEMMA FaultsBounded ==
  ASSUME Nats!NatsQueueAssumption, Nats!TypeOK, Nats!Fault \/ Nats!NoFault
  PROVE  nats_faults' \in 0..MaxNatsFaults
  BY DEF Nats!NatsQueueAssumption, Nats!TypeOK, Nats!Fault, Nats!NoFault

\* What is known before any step.
LEMMA NatsKnown ==
  ASSUME NatsInv
  PROVE  /\ Nats!TypeOK /\ stream \in [Published -> NatsMessages] /\ workers \in [Workers -> Tasks]
         /\ wire \subseteq Nats!Commands /\ reported \subseteq Published
         /\ copies \in [Published -> Nat] /\ nats_faults \in 0..MaxNatsFaults
         /\ \A e \in Published :
              /\ NatsMessageInv(e) /\ copies[e] \in Nat
              /\ stream[e].delivered \in Nat /\ stream[e].delivered <= MaxDeliver
              /\ stream[e].state \in Nats!MessageStates
         /\ \A c \in wire : WireInv(c) /\ c.email \in Published
         /\ \A w \in Workers :
              /\ TaskInv(w) /\ workers[w].attempt \in Nat
              /\ workers[w].at # "idle" => workers[w].email \in Published
  BY DEF NatsInv, Nats!TypeOK, NatsMessages, Tasks, TaskInv, Nats!Commands

\* Nothing is taken back: no submission, acceptance or delivery, and no message
\* leaves the stream without a trace.
NatsForward ==
  /\ reported \subseteq reported'
  /\ \A e \in Published :
       /\ copies'[e] >= copies[e]
       /\ stream'[e].delivered >= stream[e].delivered
       /\ stream'[e].state = "absent" => stream[e].state = "absent"

\* So a reason to give up stays one.
LEMMA NatsReasonsStay ==
  ASSUME Nats!NatsQueueAssumption, NatsInv, Nats!TypeOK', NatsForward, NEW e \in Published, NatsReason(e)
  PROVE  NatsReason(e)'
  <1>1. /\ copies[e] \in Nat /\ copies'[e] \in Nat /\ copies'[e] >= copies[e]
        /\ stream[e].delivered \in Nat /\ stream'[e].delivered \in Nat
        /\ stream'[e].delivered >= stream[e].delivered
    BY NatsKnown DEF Nats!TypeOK, NatsForward
  <1> QED
    BY <1>1 DEF NatsReason, Nats!Exhausted, Nats!NatsQueueAssumption

\* What a step leaves alone keeps what is known of it.
LEMMA NatsKept ==
  ASSUME Nats!NatsQueueAssumption, NatsInv, Nats!TypeOK', NatsForward,
         \A e \in Published : stream'[e] = stream[e] \/ NatsMessageInv(e)',
         \A c \in wire' : c \in wire \/ WireInv(c)',
         \A c \in wire' : c \in wire /\ c.kind = "publish" => stream'[c.email] = stream[c.email],
         \A w \in Workers : workers'[w] = workers[w] \/ TaskInv(w)'
  PROVE  NatsInv'
  <1>1. ASSUME NEW e \in Published PROVE NatsMessageInv(e)'
    <2>1. NatsReason(e) => NatsReason(e)'
      BY NatsReasonsStay
    <2> QED
      BY <2>1, NatsKnown DEF NatsMessageInv, NatsForward
  <1>2. ASSUME NEW c \in wire' PROVE WireInv(c)'
    <2>1. CASE c \in wire
      <3>1. WireInv(c) /\ c.email \in Published
        BY <2>1, NatsKnown
      <3>2. NatsReason(c.email) => NatsReason(c.email)'
        BY <3>1, NatsReasonsStay
      <3> QED
        BY <2>1, <3>1, <3>2 DEF WireInv, NatsForward
    <2> QED
      BY <2>1
  <1>3. ASSUME NEW w \in Workers PROVE TaskInv(w)'
    <2>1. CASE workers'[w] = workers[w] /\ workers[w].at # "idle"
      <3>1. PICK e \in Published : e = workers[w].email
        BY <2>1, NatsKnown
      <3>2. NatsReason(e) => NatsReason(e)'
        BY NatsReasonsStay
      <3>3. /\ workers[w].attempt \in Nat /\ stream[e].delivered \in Nat
            /\ stream'[e].delivered \in Nat
        BY NatsKnown DEF Nats!TypeOK
      <3> QED
        BY <2>1, <3>1, <3>2, <3>3, NatsKnown DEF TaskInv, NatsForward
    <2>2. CASE workers'[w] = workers[w] /\ workers[w].at = "idle"
      BY <2>2, NatsKnown DEF TaskInv
    <2> QED
      BY <2>1, <2>2
  <1> QED
    BY <1>1, <1>2, <1>3 DEF NatsInv

-----------------------------------------------------------------------------
(* The steps.                                                              *)

\* A publish starts an e-mail.
LEMMA EnqueueStep ==
  ASSUME Nats!NatsQueueAssumption, NatsInv, NEW e \in Published, Nats!enqueue(e)
  PROVE  NatsInv'
  <1> DEFINE p == Nats!Command("publish", e, 0)
  <1>1. /\ reported' = reported \union {e} /\ wire' = wire \union {p}
        /\ stream[e].state = "absent"
        /\ UNCHANGED <<stream, workers, copies, nats_faults>>
    BY DEF Nats!enqueue
  <1>2. p \in Nats!Commands /\ p.kind = "publish" /\ p.email = e /\ p.delivery = 0
    BY DEF Nats!Command, Nats!Commands
  <1> HIDE DEF p
  <1>3. Nats!TypeOK'
    BY <1>1, <1>2, NatsKnown DEF Nats!TypeOK
  <1>4. WireInv(p)'
    BY <1>1, <1>2 DEF WireInv
  <1>5. NatsForward
    BY <1>1, NatsKnown DEF NatsForward
  <1> QED
    BY <1>1, <1>3, <1>4, <1>5, NatsKept

\* A delivery, made to a worker, to one that cannot read it, or to nobody.
LEMMA DeliveryStep ==
  ASSUME Nats!NatsQueueAssumption, NatsInv, NEW e \in Published,
         Nats!DeliveryLost(e) \/ \E w \in Workers : Nats!dequeue(w, e)
  PROVE  NatsInv'
  <1>1. /\ stream[e].state = "ready"
        /\ stream' = [stream EXCEPT ![e] = [state |-> "pending", delivered |-> @.delivered + 1]]
        /\ UNCHANGED <<reported, wire, copies>>
        /\ Nats!Fault \/ Nats!NoFault
    BY DEF Nats!DeliveryLost, Nats!dequeue, Nats!NoFault
  <1>2. e \in reported /\ stream[e].delivered \in Nat /\ stream[e].delivered < MaxDeliver
    BY <1>1, NatsKnown DEF NatsMessageInv
  <1>3. NatsMessageBecomes(e, "pending", stream[e].delivered + 1)
    BY <1>1, <1>2, NatsKnown, NatsMessageEffects
  <1>4. PICK w : \/ UNCHANGED workers
                 \/ w \in Workers /\ TaskBecomes(w, "execute", e, stream[e].delivered + 1)
    BY <1>2, NatsKnown, TaskEffects DEF Nats!DeliveryLost, Nats!dequeue
  <1>5. Nats!TypeOK'
    BY <1>1, <1>3, <1>4, FaultsBounded, NatsKnown
    DEF Nats!TypeOK, NatsMessageBecomes, NatsMessages, TaskBecomes, Tasks
  <1>6. NatsForward
    BY <1>1, <1>2, <1>3, NatsKnown DEF NatsForward, NatsMessageBecomes
  <1>7. NatsMessageInv(e)'
    BY <1>1, <1>2, <1>3 DEF NatsMessageInv, NatsMessageBecomes
  <1>8. \A v \in Workers : workers'[v] = workers[v] \/ TaskInv(v)'
    <2>1. e # NoEmail
      BY DEF Nats!NatsQueueAssumption
    <2> QED
      BY <1>2, <1>3, <1>4, <2>1 DEF TaskInv, TaskBecomes, NatsMessageBecomes
  <1>9. \A c \in wire : c.kind = "publish" => stream'[c.email] = stream[c.email]
    BY <1>1, <1>3, NatsKnown DEF WireInv, NatsMessageBecomes
  <1> QED
    BY <1>1, <1>3, <1>5, <1>6, <1>7, <1>8, <1>9, NatsKept DEF NatsMessageBecomes

\* The worker acks what was sent, what has no route and what is used up.
LEMMA ExecuteStep ==
  ASSUME Nats!NatsQueueAssumption, NatsInv, NEW w \in Workers, Nats!Execute(w)
  PROVE  NatsInv'
  <1>1. workers[w].at = "execute" /\ UNCHANGED <<reported, wire, stream>> /\ (Nats!Fault \/ Nats!NoFault)
    BY DEF Nats!Execute
  <1>2. PICK e \in Published : e = workers[w].email
    BY <1>1, NatsKnown
  <1>3. \/ UNCHANGED copies
        \/ e \in Routed /\ copies' = [copies EXCEPT ![e] = @ + 1]
    BY <1>2 DEF Nats!Execute
  <1>4. /\ copies' \in [Published -> Nat]
        /\ \A f \in Published : copies'[f] >= copies[f]
    BY <1>3, NatsKnown
  <1>5. PICK place \in {"ack", "nack"} :
          /\ workers' = [workers EXCEPT ![w].at = place]
          /\ place = "ack" => \/ copies' = [copies EXCEPT ![e] = @ + 1]
                              \/ e \notin Routed \/ workers[w].attempt >= MAX_ATTEMPTS
    BY <1>2 DEF Nats!Execute, Nats!AfterError
  <1>6. TaskBecomes(w, place, e, workers[w].attempt)
    BY <1>2, <1>5, NatsKnown, TaskEffects
  <1>7. Nats!TypeOK'
    BY <1>1, <1>4, <1>6, FaultsBounded, NatsKnown DEF Nats!TypeOK, TaskBecomes, Tasks
  <1>8. NatsForward
    BY <1>1, <1>4, NatsKnown DEF NatsForward
  <1>9. TaskInv(w)'
    <2>1. place = "ack" => NatsReason(e)'
      <3>1. copies' = [copies EXCEPT ![e] = @ + 1] => copies'[e] > 0
        BY NatsKnown
      <3>2. workers[w].attempt \in Nat /\ stream[e].delivered \in Nat
            /\ workers[w].attempt <= stream[e].delivered
        BY <1>1, <1>2, NatsKnown DEF TaskInv
      <3> QED
        BY <1>1, <1>5, <3>1, <3>2 DEF NatsReason, Nats!Exhausted, Nats!NatsQueueAssumption
    <2> QED
      BY <1>1, <1>2, <1>6, <2>1, NatsKnown DEF TaskInv, TaskBecomes, Nats!NatsQueueAssumption
  <1> QED
    BY <1>1, <1>6, <1>7, <1>8, <1>9, NatsKept DEF TaskBecomes

\* The answer goes out, or is lost with the task.
LEMMA AnswerStep ==
  ASSUME Nats!NatsQueueAssumption, NatsInv, NEW w \in Workers, Nats!ack(w) \/ Nats!nack(w) \/ Nats!Crash(w)
  PROVE  NatsInv'
  <1>1. /\ workers[w].at # "idle" /\ workers' = [workers EXCEPT ![w] = Nats!Idle]
        /\ UNCHANGED <<reported, stream, copies>> /\ (Nats!Fault \/ Nats!NoFault)
    BY DEF Nats!ack, Nats!nack, Nats!Respond, Nats!Crash
  <1>2. PICK e \in Published : e = workers[w].email
    BY <1>1, NatsKnown
  <1> DEFINE c(kind) == Nats!Command(kind, e, workers[w].attempt)
  <1>3. \/ UNCHANGED wire
        \/ workers[w].at = "ack" /\ wire' = wire \union {c("ack")}
        \/ wire' = wire \union {c("nak")}
    BY <1>2 DEF Nats!ack, Nats!nack, Nats!Respond, Nats!Crash
  <1>4. \A kind \in {"ack", "nak"} : c(kind) \in Nats!Commands /\ c(kind).kind = kind /\ c(kind).email = e
    BY NatsKnown DEF Nats!Command, Nats!Commands
  <1>5. /\ stream[e].state # "absent" /\ e \in reported
        /\ workers[w].at = "ack" => NatsReason(e)
    BY <1>1, <1>2, NatsKnown DEF TaskInv, NatsMessageInv
  <1> HIDE DEF c
  <1>6. TaskBecomes(w, "idle", NoEmail, 0)
    BY <1>1, NatsKnown, TaskEffects
  <1>7. Nats!TypeOK'
    BY <1>1, <1>3, <1>4, <1>6, FaultsBounded, NatsKnown DEF Nats!TypeOK, TaskBecomes, Tasks
  <1>8. NatsForward
    BY <1>1, NatsKnown DEF NatsForward
  <1>9. \A d \in wire' : d \in wire \/ WireInv(d)'
    <2>1. NatsReason(e) => NatsReason(e)'
      BY <1>7, <1>8, NatsReasonsStay
    <2> QED
      BY <1>1, <1>3, <1>4, <1>5, <2>1 DEF WireInv
  <1>10. TaskInv(w)'
    BY <1>6 DEF TaskInv, TaskBecomes
  <1> QED
    BY <1>1, <1>6, <1>7, <1>8, <1>9, <1>10, NatsKept DEF TaskBecomes

\* The server has a command, or the connection takes it along.
LEMMA CommandStep ==
  ASSUME Nats!NatsQueueAssumption, NatsInv, NEW c \in wire, Nats!Receive(c) \/ Nats!ConnectionLost(c)
  PROVE  NatsInv'
  <1>1. /\ wire' = wire \ {c} /\ UNCHANGED <<reported, workers, copies>>
        /\ Nats!Fault \/ Nats!NoFault
    BY DEF Nats!Receive, Nats!ConnectionLost, Nats!NoFault
  <1>2. PICK e \in Published : e = c.email
    BY NatsKnown
  <1>3. CASE UNCHANGED stream
    <2>1. Nats!TypeOK'
      BY <1>1, <1>3, FaultsBounded, NatsKnown DEF Nats!TypeOK
    <2>2. NatsForward
      BY <1>1, <1>3, NatsKnown DEF NatsForward
    <2> QED
      BY <1>1, <1>3, <2>1, <2>2, NatsKept
  <1>4. CASE Nats!Receive(c)
    <2>1. PICK state \in Nats!Handled(c) : stream' = [stream EXCEPT ![e].state = state]
      BY <1>2, <1>4 DEF Nats!Receive
    <2>2. /\ c.kind \in {"publish", "ack", "nak"} /\ e \in reported /\ WireInv(c)
          /\ stream[e].state \in Nats!MessageStates
      BY <1>2, NatsKnown DEF Nats!Commands, WireInv
    <2>3. /\ state \in Nats!MessageStates /\ state # "absent"
          /\ state \in {"ready", "removed"} =>
               c.kind = "publish" \/ c.kind = "ack" \/ state = stream[e].state
          /\ state = "removed" => c.kind = "ack" \/ stream[e].state = "removed"
          /\ state = "ready" => c.kind = "publish" \/ stream[e].state = "ready"
      BY <1>2, <2>1, <2>2 DEF Nats!Handled, Nats!MessageStates, WireInv
    <2>4. NatsMessageBecomes(e, state, stream[e].delivered)
      BY <2>1, <2>3, NatsKnown, NatsMessageEffects
    <2>5. Nats!TypeOK'
      BY <1>1, <2>4, FaultsBounded, NatsKnown DEF Nats!TypeOK, NatsMessageBecomes, NatsMessages
    <2>6. NatsForward
      BY <1>1, <2>3, <2>4, NatsKnown DEF NatsForward, NatsMessageBecomes
    <2>7. NatsMessageInv(e)'
      <3>1. NatsReason(e) => NatsReason(e)'
        BY <2>5, <2>6, NatsReasonsStay
      <3>2. c.kind = "publish" => stream[e].delivered = 0 /\ 0 < MaxDeliver
        BY <1>2, <2>2, NatsKnown DEF WireInv, NatsMessageInv, Nats!NatsQueueAssumption
      <3>3. c.kind = "ack" => NatsReason(e)
        BY <1>2, <2>2 DEF WireInv
      <3> QED
        BY <1>1, <2>2, <2>3, <2>4, <3>1, <3>2, <3>3, NatsKnown DEF NatsMessageInv, NatsMessageBecomes
    <2>8. ASSUME NEW d \in wire', d.kind = "publish" PROVE stream'[d.email] = stream[d.email]
      <3>1. d \in Nats!Commands /\ c \in Nats!Commands /\ WireInv(d) /\ d # c /\ d.email \in Published
        BY <1>1, NatsKnown
      <3>2. CASE d.email = e
        <4>1. stream[e].state = "absent"
          BY <2>8, <3>1, <3>2 DEF WireInv
        <4>2. c.kind = "publish" /\ c.delivery = 0 /\ d.delivery = 0
          BY <1>2, <2>2, <2>8, <3>1, <4>1 DEF WireInv
        <4>3. d = c
          BY <1>2, <2>8, <3>1, <3>2, <4>2 DEF Nats!Commands
        <4> QED
          BY <3>1, <4>3
      <3> QED
        BY <2>4, <3>1, <3>2 DEF NatsMessageBecomes
    <2> QED
      BY <1>1, <2>4, <2>5, <2>6, <2>7, <2>8, NatsKept DEF NatsMessageBecomes
  <1> QED
    BY <1>3, <1>4 DEF Nats!ConnectionLost

\* A message is due again, or given up.
LEMMA TimerStep ==
  ASSUME Nats!NatsQueueAssumption, NatsInv, NEW e \in Published, Nats!Timer(e)
  PROVE  NatsInv'
  <1>1. /\ stream[e].state \in {"pending", "delayed"} /\ stream' = [stream EXCEPT ![e].state = Nats!Due(e)]
        /\ UNCHANGED <<reported, wire, workers, copies>> /\ (Nats!Fault \/ Nats!NoFault)
    BY DEF Nats!Timer
  <1>2. /\ Nats!Due(e) \in Nats!MessageStates /\ Nats!Due(e) \in {"ready", "parked"}
        /\ Nats!Due(e) = "ready" => stream[e].delivered < MaxDeliver
    BY DEF Nats!Due, Nats!MessageStates
  <1>3. NatsMessageBecomes(e, Nats!Due(e), stream[e].delivered)
    BY <1>1, <1>2, NatsKnown, NatsMessageEffects
  <1>4. Nats!TypeOK'
    BY <1>1, <1>3, FaultsBounded, NatsKnown DEF Nats!TypeOK, NatsMessageBecomes, NatsMessages
  <1>5. NatsForward
    BY <1>1, <1>2, <1>3, NatsKnown DEF NatsForward, NatsMessageBecomes
  <1>6. NatsMessageInv(e)'
    BY <1>1, <1>2, <1>3, NatsKnown DEF NatsMessageInv, NatsMessageBecomes
  <1>7. \A c \in wire : c.kind = "publish" => stream'[c.email] = stream[c.email]
    BY <1>1, <1>3, NatsKnown DEF WireInv, NatsMessageBecomes
  <1> QED
    BY <1>1, <1>3, <1>4, <1>5, <1>6, <1>7, NatsKept DEF NatsMessageBecomes

\* The empty stream.
LEMMA NatsInvInit == Nats!NatsQueueAssumption /\ Nats!Init => NatsInv
  BY DEF Nats!NatsQueueAssumption, Nats!Init, NatsInv, Nats!TypeOK, NatsMessageInv, WireInv, TaskInv, Nats!Idle, Nats!MessageStates

\* Every step keeps the invariant.
LEMMA NatsInvNext == Nats!NatsQueueAssumption /\ NatsInv /\ [Nats!Next]_Nats!vars => NatsInv'
  <1> SUFFICES ASSUME Nats!NatsQueueAssumption, NatsInv, [Nats!Next]_Nats!vars PROVE NatsInv'
    OBVIOUS
  <1>1. CASE UNCHANGED Nats!vars
    BY <1>1 DEF Nats!vars, NatsInv, Nats!TypeOK, NatsMessageInv, WireInv, TaskInv, NatsReason, Nats!Exhausted
  <1> QED
    BY <1>1, EnqueueStep, DeliveryStep, ExecuteStep, AnswerStep, CommandStep, TimerStep
    DEF Nats!Next, Nats!WorkerStep

-----------------------------------------------------------------------------
(* The second invariant. An e-mail that may still be sent is a chance: a   *)
(* task that has it, a nak under way, or its message in the stream. There  *)
(* is one, and one more for each fault; and while there was no fault, what *)
(* is known of a delivery is up to date.                                   *)

Trying(e) == {w \in Workers : workers[w].email = e /\ workers[w].at \in {"execute", "nack"}}
Naks(e)   == {c \in wire : c.email = e /\ c.kind = "nak"}

\* The message will be delivered, or will be again without a fault.
NatsInStream(e) ==
  IF \/ stream[e].state \in {"absent", "ready", "delayed"}
     \/ stream[e].state = "pending" /\ ~Nats!InHand(e, stream[e].delivered)
  THEN 1 ELSE 0

CopyInv(e) ==
  /\ IsFiniteSet(Trying(e)) /\ IsFiniteSet(Naks(e))
  /\ copies[e] + Cardinality(Trying(e)) + Cardinality(Naks(e)) + NatsInStream(e) <= 1 + nats_faults

ParkInv(e) ==
  nats_faults = 0 =>
    /\ \A w \in Trying(e) :
         /\ workers[w].attempt = stream[e].delivered
         /\ workers[w].at = "nack" => workers[w].attempt < MAX_ATTEMPTS
    /\ \A c \in Naks(e) : c.delivery = stream[e].delivered /\ c.delivery < MAX_ATTEMPTS
    /\ stream[e].state = "delayed" => stream[e].delivered < MAX_ATTEMPTS
    /\ e \in Readable /\ stream[e].state = "pending" => Nats!InHand(e, stream[e].delivered)
    /\ e \in Readable /\ MaxDeliver >= MAX_ATTEMPTS => stream[e].state # "parked"

NatsChanceInv(e) == CopyInv(e) /\ ParkInv(e)

FateInv == \A e \in Published : NatsChanceInv(e)

Is(b) == IF b THEN 1 ELSE 0

\* A set that only one element enters or leaves.
LEMMA OneMoves ==
  ASSUME NEW A, NEW B, NEW x, IsFiniteSet(A), \A y : y # x => (y \in A <=> y \in B)
  PROVE  /\ IsFiniteSet(B)
         /\ Cardinality(A) \in Nat /\ Cardinality(B) \in Nat
         /\ Cardinality(B) = Cardinality(A) + Is(x \in B) - Is(x \in A)
  <1>0. Cardinality(A) \in Nat
    BY FS_CardinalityType
  <1>1. CASE (x \in A) = (x \in B)
    <2>1. A = B
      BY <1>1
    <2> QED
      BY <1>0, <2>1 DEF Is
  <1>2. CASE x \in A /\ x \notin B
    <2>1. B = A \ {x}
      BY <1>2
    <2>2. IsFiniteSet(B) /\ Cardinality(B) = Cardinality(A) - 1
      BY <1>2, <2>1, FS_RemoveElement
    <2>3. Cardinality(B) \in Nat
      BY <2>2, FS_CardinalityType
    <2> QED
      BY <1>0, <1>2, <2>2, <2>3 DEF Is
  <1>3. CASE x \notin A /\ x \in B
    <2>1. B = A \union {x}
      BY <1>3
    <2> QED
      BY <1>0, <1>3, <2>1, FS_AddElement DEF Is
  <1> QED
    BY <1>1, <1>2, <1>3

\* A task moves: by how much that changes the number of those that try an e-mail.
LEMMA TaskMoves ==
  ASSUME NEW w \in Workers, NEW at, NEW email, NEW attempt, TaskBecomes(w, at, email, attempt),
         NEW e, IsFiniteSet(Trying(e))
  PROVE  /\ IsFiniteSet(Trying(e)') /\ Cardinality(Trying(e)') \in Nat
         /\ Cardinality(Trying(e)') = Cardinality(Trying(e))
              + Is(email = e /\ at \in {"execute", "nack"}) - Is(w \in Trying(e))
  <1>1. /\ \A v : v # w => (v \in Trying(e) <=> v \in Trying(e)')
        /\ w \in Trying(e)' <=> email = e /\ at \in {"execute", "nack"}
    BY DEF TaskBecomes, Trying
  <1>2. /\ IsFiniteSet(Trying(e)') /\ Cardinality(Trying(e)') \in Nat
        /\ Cardinality(Trying(e)') = Cardinality(Trying(e))
             + Is(w \in Trying(e)') - Is(w \in Trying(e))
    BY <1>1, OneMoves
  <1> QED
    BY <1>1, <1>2 DEF Is

\* The numbers of an e-mail.
LEMMA NatsNumbers ==
  ASSUME Nats!NatsQueueAssumption, NatsInv, FateInv, NEW e \in Published
  PROVE  /\ IsFiniteSet(Trying(e)) /\ IsFiniteSet(Naks(e)) /\ ParkInv(e)
         /\ Cardinality(Trying(e)) \in Nat /\ Cardinality(Naks(e)) \in Nat
         /\ NatsInStream(e) \in {0, 1} /\ copies[e] \in Nat /\ nats_faults \in Nat
         /\ copies[e] + Cardinality(Trying(e)) + Cardinality(Naks(e)) + NatsInStream(e) <= 1 + nats_faults
         /\ \A w \in Trying(e) : Cardinality(Trying(e)) >= 1
         /\ \A c \in Naks(e) : Cardinality(Naks(e)) >= 1
  <1>1. IsFiniteSet(Trying(e)) /\ IsFiniteSet(Naks(e))
    BY DEF FateInv, NatsChanceInv, CopyInv
  <1>2. ASSUME NEW S, IsFiniteSet(S) PROVE Cardinality(S) \in Nat /\ \A x \in S : Cardinality(S) >= 1
    <2>1. Cardinality(S) \in Nat /\ (Cardinality(S) = 0 <=> S = {})
      BY <1>2, FS_CardinalityType, FS_EmptySet
    <2> QED
      BY <2>1
  <1>3. NatsInStream(e) \in {0, 1}
    BY DEF NatsInStream
  <1> QED
    BY <1>1, <1>2, <1>3, NatsKnown DEF FateInv, NatsChanceInv, CopyInv, Nats!NatsQueueAssumption

\* An e-mail that a step does not touch.
LEMMA NatsElsewhere ==
  ASSUME Nats!NatsQueueAssumption, NatsInv, FateInv, NEW f \in Published,
         stream'[f] = stream[f], copies'[f] = copies[f], nats_faults' \in Nat, nats_faults <= nats_faults',
         \A w \in Workers : workers[w].email = f \/ workers'[w].email = f => workers'[w] = workers[w],
         \A c : c.email = f => (c \in wire' <=> c \in wire)
  PROVE  NatsChanceInv(f)'
  <1>1. Trying(f)' = Trying(f) /\ Naks(f)' = Naks(f)
    BY DEF Trying, Naks
  <1>2. \A n : Nats!InHand(f, n)' <=> Nats!InHand(f, n)
    BY DEF Nats!InHand, Nats!Holds, Nats!Command
  <1>3. NatsInStream(f)' = NatsInStream(f)
    BY <1>2 DEF NatsInStream
  <1>4. CopyInv(f)'
    BY <1>1, <1>3, NatsNumbers DEF CopyInv
  <1>5. ParkInv(f)'
    <2>1. nats_faults' = 0 => nats_faults = 0
      BY NatsNumbers
    <2>2. \A w \in Trying(f) : workers'[w] = workers[w]
      BY DEF Trying
    <2> QED
      BY <1>1, <1>2, <2>1, <2>2, NatsNumbers DEF ParkInv
  <1> QED
    BY <1>4, <1>5 DEF NatsChanceInv

\* How the count of faults moves, and that a step with a fault leaves it above 0.
LEMMA FaultCounts ==
  ASSUME Nats!NatsQueueAssumption, NatsInv, Nats!Fault \/ Nats!NoFault
  PROVE  /\ nats_faults \in Nat /\ nats_faults' \in Nat /\ nats_faults <= nats_faults' /\ (nats_faults' = 0 => nats_faults = 0 /\ ~Nats!Fault)
         /\ Nats!Fault => nats_faults' = nats_faults + 1
         /\ Nats!NoFault => nats_faults' = nats_faults
  BY NatsKnown DEF Nats!Fault, Nats!NoFault, Nats!NatsQueueAssumption

\* A publish is one way to have the e-mail in the stream.
LEMMA EnqueueFate ==
  ASSUME Nats!NatsQueueAssumption, NatsInv, FateInv, NEW e \in Published, Nats!enqueue(e)
  PROVE  FateInv'
  <1> DEFINE p == Nats!Command("publish", e, 0)
  <1>1. /\ wire' = wire \union {p} /\ stream[e].state = "absent"
        /\ UNCHANGED <<stream, workers, copies, nats_faults>>
    BY DEF Nats!enqueue
  <1>2. p.kind = "publish" /\ p.email = e
    BY DEF Nats!Command
  <1> HIDE DEF p
  <1>3. ASSUME NEW f \in Published \ {e} PROVE NatsChanceInv(f)'
    BY <1>1, <1>2, NatsElsewhere, NatsNumbers
  <1>4. NatsChanceInv(e)'
    <2>1. Trying(e)' = Trying(e) /\ Naks(e)' = Naks(e)
      BY <1>1, <1>2 DEF Trying, Naks
    <2>2. NatsInStream(e) = 1 /\ NatsInStream(e)' = 1
      BY <1>1 DEF NatsInStream
    <2>3. CopyInv(e)'
      BY <1>1, <2>1, <2>2, NatsNumbers DEF CopyInv
    <2>4. ParkInv(e)'
      BY <1>1, <2>1, NatsNumbers DEF ParkInv
    <2> QED
      BY <2>3, <2>4 DEF NatsChanceInv
  <1> QED
    BY <1>3, <1>4 DEF FateInv

\* A delivery takes the chance out of the stream, to a task or to nobody.
LEMMA DeliveryFate ==
  ASSUME Nats!NatsQueueAssumption, NatsInv, FateInv, NEW e \in Published,
         Nats!DeliveryLost(e) \/ \E w \in Workers : Nats!dequeue(w, e)
  PROVE  FateInv'
  <1>1. /\ stream[e].state = "ready"
        /\ stream' = [stream EXCEPT ![e] = [state |-> "pending", delivered |-> @.delivered + 1]]
        /\ UNCHANGED <<wire, copies>> /\ (Nats!Fault \/ Nats!NoFault)
    BY DEF Nats!DeliveryLost, Nats!dequeue, Nats!NoFault
  <1>2. stream[e].delivered \in Nat /\ stream[e].delivered < MaxDeliver
    BY <1>1, NatsKnown DEF NatsMessageInv
  <1>n. PICK n \in Nat : n = stream[e].delivered + 1
    BY <1>2
  <1>3. NatsMessageBecomes(e, "pending", n)
    BY <1>1, <1>2, <1>n, NatsKnown, NatsMessageEffects
  <1>4. \/ UNCHANGED workers /\ (Nats!Fault \/ e \notin Readable)
        \/ \E w \in Workers : workers[w].at = "idle" /\ TaskBecomes(w, "execute", e, n)
    BY <1>2, <1>n, NatsKnown, TaskEffects DEF Nats!DeliveryLost, Nats!dequeue
  <1>f. e # NoEmail /\ NoEmail \notin Published
    BY DEF Nats!NatsQueueAssumption
  <1>5. NatsInStream(e) = 1 /\ NatsInStream(e)' \in {0, 1}
    BY <1>1 DEF NatsInStream
  <1>6. nats_faults' = 0 => Trying(e) = {} /\ Naks(e) = {}
    BY <1>1, <1>5, FaultCounts, NatsNumbers
  <1>7. Naks(e)' = Naks(e)
    BY <1>1 DEF Naks
  <1>8. CASE UNCHANGED workers /\ (Nats!Fault \/ e \notin Readable)
    <2>1. ASSUME NEW f \in Published \ {e} PROVE NatsChanceInv(f)'
      BY <1>1, <1>3, <1>8, NatsElsewhere, FaultCounts DEF NatsMessageBecomes
    <2>2. Trying(e)' = Trying(e)
      BY <1>8 DEF Trying
    <2>3. CopyInv(e)'
      BY <1>1, <1>5, <1>7, <2>2, FaultCounts, NatsNumbers DEF CopyInv
    <2>4. ParkInv(e)'
      BY <1>1, <1>3, <1>6, <1>7, <1>8, <2>2, FaultCounts DEF ParkInv, NatsMessageBecomes
    <2> QED
      BY <2>1, <2>3, <2>4 DEF FateInv, NatsChanceInv
  <1>9. ASSUME NEW w \in Workers, workers[w].at = "idle", TaskBecomes(w, "execute", e, n)
        PROVE  FateInv'
    <2>0. workers[w].email = NoEmail
      BY <1>9, NatsKnown DEF TaskInv
    <2>1. ASSUME NEW f \in Published \ {e} PROVE NatsChanceInv(f)'
      <3>1. \A v \in Workers : workers[v].email = f \/ workers'[v].email = f => workers'[v] = workers[v]
        BY <1>f, <1>9, <2>0 DEF TaskBecomes
      <3> QED
        BY <1>1, <1>3, <3>1, NatsElsewhere, FaultCounts DEF NatsMessageBecomes
    <2>2. w \notin Trying(e)
      BY <1>9 DEF Trying
    <2>3. /\ IsFiniteSet(Trying(e)') /\ Cardinality(Trying(e)') \in Nat
          /\ Cardinality(Trying(e)') = Cardinality(Trying(e)) + 1
      BY <1>9, <2>2, NatsNumbers, TaskMoves DEF Is
    <2>4. Nats!InHand(e, n)'
      BY <1>9 DEF Nats!InHand, Nats!Holds, TaskBecomes
    <2>5. NatsInStream(e)' = 0
      BY <1>3, <2>4 DEF NatsInStream, NatsMessageBecomes
    <2>6. CopyInv(e)'
      BY <1>1, <1>5, <1>7, <2>3, <2>5, FaultCounts, NatsNumbers DEF CopyInv
    <2>7. ParkInv(e)'
      <3>1. nats_faults' = 0 => \A v \in Trying(e)' : v = w
        BY <1>6, <1>9 DEF Trying, TaskBecomes
      <3>2. /\ stream'[e].state = "pending" /\ stream'[e].delivered = n
            /\ workers'[w].attempt = n /\ workers'[w].at = "execute"
        BY <1>3, <1>9 DEF NatsMessageBecomes, TaskBecomes
      <3> QED
        BY <1>6, <1>7, <2>4, <3>1, <3>2 DEF ParkInv
    <2> QED
      BY <2>1, <2>6, <2>7 DEF FateInv, NatsChanceInv
  <1> QED
    BY <1>4, <1>8, <1>9

\* An acceptance uses the chance, unless the answer is lost.
LEMMA ExecuteFate ==
  ASSUME Nats!NatsQueueAssumption, NatsInv, FateInv, NEW w \in Workers, Nats!Execute(w)
  PROVE  FateInv'
  <1>1. workers[w].at = "execute" /\ UNCHANGED <<wire, stream>> /\ (Nats!Fault \/ Nats!NoFault)
    BY DEF Nats!Execute
  <1>2. PICK e \in Published : e = workers[w].email
    BY <1>1, NatsKnown
  <1>3. PICK place \in {"ack", "nack"}, more \in {0, 1} :
          /\ workers' = [workers EXCEPT ![w].at = place]
          /\ copies' = [copies EXCEPT ![e] = @ + more]
          /\ more = 1 => place = "ack" \/ Nats!Fault
          /\ place = "nack" => workers[w].attempt < MAX_ATTEMPTS
    <2>0. copies' = copies => copies' = [copies EXCEPT ![e] = @ + 0]
      BY NatsKnown
    <2>1. /\ workers[w].attempt \in Nat /\ MAX_ATTEMPTS \in Nat
          /\ Nats!AfterError(workers[w].attempt) \in {"ack", "nack"}
          /\ Nats!AfterError(workers[w].attempt) = "nack" => workers[w].attempt < MAX_ATTEMPTS
      BY NatsKnown DEF Nats!AfterError, Nats!NatsQueueAssumption
    <2>2. CASE workers' = [workers EXCEPT ![w].at = "ack"] /\ copies' = [copies EXCEPT ![e] = @ + 1]
      BY <2>2
    <2>3. CASE copies' = copies
      <3>1. copies' = [copies EXCEPT ![e] = @ + 0]
        BY <2>0, <2>3
      <3>2. PICK place \in {"ack", "nack"} :
              /\ workers' = [workers EXCEPT ![w].at = place]
              /\ place = "nack" => workers[w].attempt < MAX_ATTEMPTS
        BY <1>2, <2>1 DEF Nats!Execute
      <3>3. 0 \in {0, 1} /\ (0 = 1 => place = "ack" \/ Nats!Fault)
        OBVIOUS
      <3> QED
        BY <3>1, <3>2, <3>3, Zenon
    <2>4. CASE Nats!Fault /\ copies' = [copies EXCEPT ![e] = @ + 1]
      <3>1. PICK place \in {"ack", "nack"} :
              /\ workers' = [workers EXCEPT ![w].at = place]
              /\ place = "nack" => workers[w].attempt < MAX_ATTEMPTS
        BY <1>2, <2>1 DEF Nats!Execute
      <3> QED
        BY <2>4, <3>1
    <2> QED
      BY <1>2, <2>2, <2>3, <2>4 DEF Nats!Execute
  <1>4. TaskBecomes(w, place, e, workers[w].attempt)
    BY <1>2, <1>3, NatsKnown, TaskEffects
  <1>5. copies'[e] = copies[e] + more /\ \A f \in Published \ {e} : copies'[f] = copies[f]
    BY <1>3, NatsKnown
  <1>6. ASSUME NEW f \in Published \ {e} PROVE NatsChanceInv(f)'
    <2>1. \A v \in Workers : workers[v].email = f \/ workers'[v].email = f => workers'[v] = workers[v]
      BY <1>2, <1>4 DEF TaskBecomes
    <2> QED
      BY <1>1, <1>5, <2>1, NatsElsewhere, FaultCounts
  <1>7. Naks(e)' = Naks(e) /\ NatsInStream(e)' = NatsInStream(e) /\ (\A n : Nats!InHand(e, n)' <=> Nats!InHand(e, n))
    <2>1. \A n : Nats!InHand(e, n)' <=> Nats!InHand(e, n)
      BY <1>1, <1>2, <1>4 DEF Nats!InHand, Nats!Holds, Nats!Command, TaskBecomes
    <2> QED
      BY <1>1, <2>1 DEF Naks, NatsInStream
  <1>8. w \in Trying(e)
    BY <1>1, <1>2 DEF Trying
  <1>9. /\ IsFiniteSet(Trying(e)') /\ Cardinality(Trying(e)') \in Nat
        /\ Cardinality(Trying(e)') = Cardinality(Trying(e)) - Is(place = "ack")
    BY <1>4, <1>8, NatsNumbers, TaskMoves DEF Is
  <1>10. CopyInv(e)'
    <2>1. more + Cardinality(Trying(e)') + nats_faults <= Cardinality(Trying(e)) + nats_faults'
      BY <1>1, <1>3, <1>9, FaultCounts, NatsNumbers DEF Is
    <2> QED
      BY <1>1, <1>5, <1>7, <1>9, <2>1, FaultCounts, NatsNumbers DEF CopyInv
  <1>11. ParkInv(e)'
    <2>1. \A v \in Trying(e)' : (v = w /\ place = "nack") \/ (v \in Trying(e) /\ workers'[v] = workers[v])
      BY <1>4 DEF Trying, TaskBecomes
    <2> QED
      BY <1>1, <1>3, <1>4, <1>7, <1>8, <2>1, FaultCounts, NatsNumbers DEF ParkInv, TaskBecomes
  <1> QED
    BY <1>6, <1>10, <1>11 DEF FateInv, NatsChanceInv

\* The task answers, and the answer has the delivery in its hand; or both are lost.
LEMMA AnswerFate ==
  ASSUME Nats!NatsQueueAssumption, NatsInv, FateInv, NEW w \in Workers, Nats!ack(w) \/ Nats!nack(w) \/ Nats!Crash(w)
  PROVE  FateInv'
  <1>1. /\ workers[w].at # "idle" /\ workers' = [workers EXCEPT ![w] = Nats!Idle]
        /\ UNCHANGED <<stream, copies>> /\ (Nats!Fault \/ Nats!NoFault)
    BY DEF Nats!ack, Nats!nack, Nats!Respond, Nats!Crash
  <1>2. PICK e \in Published : e = workers[w].email
    BY <1>1, NatsKnown
  <1>3. PICK m \in Nat : m = workers[w].attempt
    BY NatsKnown
  <1>4. /\ Nats!Command("ack", e, m).email = e /\ Nats!Command("ack", e, m).kind = "ack"
        /\ Nats!Command("nak", e, m).email = e /\ Nats!Command("nak", e, m).kind = "nak"
        /\ Nats!Command("nak", e, m).delivery = m
    BY DEF Nats!Command
  <1>5. TaskBecomes(w, "idle", NoEmail, 0)
    BY <1>1, NatsKnown, TaskEffects
  <1>6. \/ Nats!Fault /\ UNCHANGED wire
        \/ Nats!NoFault /\ workers[w].at = "ack" /\ wire' = wire \union {Nats!Command("ack", e, m)}
        \/ Nats!NoFault /\ workers[w].at = "nack" /\ wire' = wire \union {Nats!Command("nak", e, m)}
    BY <1>2, <1>3 DEF Nats!ack, Nats!nack, Nats!Respond, Nats!Crash
  <1>7. ASSUME NEW f \in Published \ {e} PROVE NatsChanceInv(f)'
    <2>1. \A v \in Workers : workers[v].email = f \/ workers'[v].email = f => workers'[v] = workers[v]
      BY <1>2, <1>5 DEF TaskBecomes, Nats!NatsQueueAssumption
    <2>2. \A c : c.email = f => (c \in wire' <=> c \in wire)
      BY <1>4, <1>6
    <2> QED
      BY <1>1, <2>1, <2>2, NatsElsewhere, FaultCounts
  <1>8. /\ IsFiniteSet(Trying(e)') /\ Cardinality(Trying(e)') \in Nat
        /\ Cardinality(Trying(e)') = Cardinality(Trying(e)) - Is(w \in Trying(e))
    BY <1>5, NatsNumbers, TaskMoves DEF Is
  <1>9. \A v \in Trying(e)' : v \in Trying(e) /\ workers'[v] = workers[v]
    BY <1>5 DEF Trying, TaskBecomes
  <1>10. NatsInStream(e)' \in {0, 1}
    BY DEF NatsInStream
  <1>11. CASE Nats!Fault /\ UNCHANGED wire
    <2>1. Naks(e)' = Naks(e)
      BY <1>11 DEF Naks
    <2>2. CopyInv(e)'
      BY <1>1, <1>8, <1>10, <1>11, <2>1, FaultCounts, NatsNumbers DEF CopyInv, Is
    <2>3. ParkInv(e)'
      BY <1>11, FaultCounts DEF ParkInv
    <2> QED
      BY <1>7, <2>2, <2>3 DEF FateInv, NatsChanceInv
  <1>12. ASSUME Nats!NoFault,
                \/ workers[w].at = "ack" /\ wire' = wire \union {Nats!Command("ack", e, m)}
                \/ workers[w].at = "nack" /\ wire' = wire \union {Nats!Command("nak", e, m)}
         PROVE  FateInv'
    <2>1. ASSUME NEW n PROVE Nats!InHand(e, n)' <=> Nats!InHand(e, n)
      <3>1. Nats!Holds(w, e, m) /\ ~Nats!Holds(w, e, n)'
        BY <1>2, <1>3, <1>5 DEF Nats!Holds, TaskBecomes, Nats!NatsQueueAssumption
      <3>2. \A v \in Workers \ {w} : Nats!Holds(v, e, n)' <=> Nats!Holds(v, e, n)
        BY <1>5 DEF Nats!Holds, TaskBecomes
      <3>3. n # m => ~Nats!Holds(w, e, n)
        BY <1>3 DEF Nats!Holds
      <3>4. \A c : c.delivery # m => (c \in wire' <=> c \in wire)
        BY <1>12 DEF Nats!Command
      <3>5. Nats!Command("ack", e, n).delivery = n /\ Nats!Command("nak", e, n).delivery = n
        BY DEF Nats!Command
      <3>6. CASE n # m
        BY <3>1, <3>2, <3>3, <3>4, <3>5, <3>6 DEF Nats!InHand
      <3>7. CASE n = m
        BY <1>12, <3>1, <3>7 DEF Nats!InHand
      <3> QED
        BY <3>6, <3>7
    <2>2. NatsInStream(e)' = NatsInStream(e)
      BY <1>1, <2>1 DEF NatsInStream
    <2>3. /\ IsFiniteSet(Naks(e)') /\ Cardinality(Naks(e)') \in Nat
          /\ Cardinality(Naks(e)') <= Cardinality(Naks(e)) + Is(w \in Trying(e))
      <3>1. CASE workers[w].at = "ack"
        <4>1. Naks(e)' = Naks(e)
          BY <1>4, <1>12, <3>1 DEF Naks
        <4> QED
          BY <4>1, NatsNumbers DEF Is
      <3>2. CASE workers[w].at = "nack"
        <4>1. w \in Trying(e)
          BY <1>2, <3>2 DEF Trying
        <4>2. \A c : c # Nats!Command("nak", e, m) => (c \in Naks(e) <=> c \in Naks(e)')
          BY <1>12, <3>2 DEF Naks
        <4>3. IsFiniteSet(Naks(e)) /\ Cardinality(Naks(e)) \in Nat
          BY NatsNumbers
        <4> DEFINE x == Nats!Command("nak", e, m)
        <4>4. /\ IsFiniteSet(Naks(e)') /\ Cardinality(Naks(e)') \in Nat
              /\ Cardinality(Naks(e)') = Cardinality(Naks(e)) + Is(x \in Naks(e)') - Is(x \in Naks(e))
          <5> HIDE DEF x
          <5> QED
            BY <4>2, <4>3, OneMoves DEF x
        <4> QED
          BY <4>1, <4>3, <4>4 DEF Is
      <3> QED
        BY <1>12, <3>1, <3>2
    <2>4. CopyInv(e)'
      BY <1>1, <1>8, <1>12, <2>2, <2>3, FaultCounts, NatsNumbers DEF CopyInv, Is
    <2>5. \A c \in Naks(e)' : \/ c \in Naks(e)
                              \/ w \in Trying(e) /\ workers[w].at = "nack" /\ c.delivery = m
      BY <1>2, <1>4, <1>12 DEF Naks, Trying
    <2>6. ParkInv(e)'
      BY <1>1, <1>3, <1>9, <1>12, <2>1, <2>5, FaultCounts, NatsNumbers DEF ParkInv
    <2> QED
      BY <1>7, <2>4, <2>6 DEF FateInv, NatsChanceInv
  <1> QED
    BY <1>6, <1>11, <1>12

\* The server takes a command: a nak gives the chance back to the stream.
LEMMA CommandFate ==
  ASSUME Nats!NatsQueueAssumption, NatsInv, FateInv, NEW c \in wire, Nats!Receive(c) \/ Nats!ConnectionLost(c)
  PROVE  FateInv'
  <1>1. wire' = wire \ {c} /\ UNCHANGED <<workers, copies>> /\ (Nats!Fault \/ Nats!NoFault)
    BY DEF Nats!Receive, Nats!ConnectionLost, Nats!NoFault
  <1>2. PICK e \in Published : e = c.email
    BY NatsKnown
  <1>3. \A d : d.email # e => (d \in wire' <=> d \in wire)
    BY <1>1, <1>2
  <1>4. Trying(e)' = Trying(e)
    BY <1>1 DEF Trying
  <1>5. /\ IsFiniteSet(Naks(e)') /\ Cardinality(Naks(e)') \in Nat
        /\ Cardinality(Naks(e)') = Cardinality(Naks(e)) - Is(c.kind = "nak")
    <2>1. /\ \A d : d # c => (d \in Naks(e) <=> d \in Naks(e)')
          /\ c \in Naks(e) <=> c.kind = "nak"
          /\ c \notin Naks(e)'
      BY <1>1, <1>2 DEF Naks
    <2> QED
      BY <2>1, NatsNumbers, OneMoves DEF Is
  <1>6. NatsInStream(e)' \in {0, 1}
    BY DEF NatsInStream
  <1>7. CASE Nats!ConnectionLost(c)
    <2>1. Nats!Fault /\ UNCHANGED stream
      BY <1>7 DEF Nats!ConnectionLost
    <2>2. ASSUME NEW f \in Published \ {e} PROVE NatsChanceInv(f)'
      BY <1>1, <1>3, <2>1, NatsElsewhere, FaultCounts
    <2>3. CopyInv(e)'
      BY <1>1, <1>4, <1>5, <1>6, <2>1, FaultCounts, NatsNumbers DEF CopyInv, Is
    <2>4. ParkInv(e)'
      BY <2>1, FaultCounts DEF ParkInv
    <2> QED
      BY <2>2, <2>3, <2>4 DEF FateInv, NatsChanceInv
  <1>8. CASE Nats!Receive(c)
    <2>1. PICK state \in Nats!Handled(c) : stream' = [stream EXCEPT ![e].state = state]
      BY <1>2, <1>8 DEF Nats!Receive
    <2>2. c.kind \in {"publish", "ack", "nak"} /\ WireInv(c) /\ stream[e].state \in Nats!MessageStates
      BY <1>2, NatsKnown DEF Nats!Commands
    <2>3. /\ c.kind = "publish" => stream[e].state = "absent" /\ state = "ready"
          /\ c.kind = "ack" => state = "removed" \/ (state = "parked" /\ stream[e].state = "parked")
          /\ c.kind = "nak" => \/ state = "delayed"
                               \/ state = stream[e].state /\ state # "pending"
      BY <1>2, <2>1, <2>2 DEF Nats!Handled, WireInv
    <2>4. state \in Nats!MessageStates /\ state # "pending"
      BY <2>2, <2>3 DEF Nats!MessageStates
    <2>5. NatsMessageBecomes(e, state, stream[e].delivered)
      BY <2>1, <2>4, NatsKnown, NatsMessageEffects
    <2>6. ASSUME NEW f \in Published \ {e} PROVE NatsChanceInv(f)'
      BY <1>1, <1>3, <2>5, NatsElsewhere, FaultCounts DEF NatsMessageBecomes
    <2>7. NatsInStream(e)' <= NatsInStream(e) + Is(c.kind = "nak")
      BY <2>2, <2>3, <2>5 DEF NatsInStream, Is, NatsMessageBecomes
    <2>8. CopyInv(e)'
      BY <1>1, <1>4, <1>5, <1>6, <2>7, FaultCounts, NatsNumbers DEF CopyInv, Is
    <2>9. ParkInv(e)'
      <3>1. \A d \in Naks(e)' : d \in Naks(e)
        BY <1>1 DEF Naks
      <3>2. c.kind = "nak" => c \in Naks(e)
        BY <1>2 DEF Naks
      <3>3. stream'[e].state = state /\ stream'[e].delivered = stream[e].delivered
        BY <2>5 DEF NatsMessageBecomes
      <3>4. state = "delayed" => c.kind = "nak"
        BY <2>2, <2>3
      <3>5. state = "parked" => stream[e].state = "parked"
        BY <2>2, <2>3
      <3> QED
        BY <1>1, <1>4, <2>4, <3>1, <3>2, <3>3, <3>4, <3>5, FaultCounts, NatsNumbers DEF ParkInv
    <2> QED
      BY <2>6, <2>8, <2>9 DEF FateInv, NatsChanceInv
  <1> QED
    BY <1>7, <1>8

\* A message that is due keeps its chance; to take one that somebody has is a fault.
LEMMA TimerFate ==
  ASSUME Nats!NatsQueueAssumption, NatsInv, FateInv, NEW e \in Published, Nats!Timer(e)
  PROVE  FateInv'
  <1>1. /\ stream[e].state \in {"pending", "delayed"} /\ stream' = [stream EXCEPT ![e].state = Nats!Due(e)]
        /\ UNCHANGED <<wire, workers, copies>> /\ (Nats!Fault \/ Nats!NoFault)
    BY DEF Nats!Timer
  <1>2. PICK state \in {"ready", "parked"} :
          state = Nats!Due(e) /\ (state = "parked" => ~(stream[e].delivered < MaxDeliver))
    BY DEF Nats!Due
  <1>3. NatsMessageBecomes(e, state, stream[e].delivered)
    BY <1>1, <1>2, NatsKnown, NatsMessageEffects DEF Nats!MessageStates
  <1>4. ASSUME NEW f \in Published \ {e} PROVE NatsChanceInv(f)'
    BY <1>1, <1>3, NatsElsewhere, FaultCounts DEF NatsMessageBecomes
  <1>5. Trying(e)' = Trying(e) /\ Naks(e)' = Naks(e)
    BY <1>1 DEF Trying, Naks
  <1>6. Nats!Fault \/ (Nats!NoFault /\ NatsInStream(e) = 1)
    BY <1>1 DEF Nats!Timer, NatsInStream
  <1>7. NatsInStream(e)' \in {0, 1}
    BY DEF NatsInStream
  <1>8. CopyInv(e)'
    BY <1>1, <1>5, <1>6, <1>7, FaultCounts, NatsNumbers DEF CopyInv
  <1>9. ParkInv(e)'
    <2>1. CASE Nats!Fault
      BY <2>1, FaultCounts DEF ParkInv
    <2>2. CASE ~Nats!Fault /\ nats_faults = 0
      <3>1. stream[e].state = "pending" => e \notin Readable
        BY <2>2, NatsNumbers DEF Nats!Timer, ParkInv
      <3>2. stream[e].state = "delayed" => stream[e].delivered < MAX_ATTEMPTS
        BY <2>2, NatsNumbers DEF ParkInv
      <3>3. e \in Readable /\ MaxDeliver >= MAX_ATTEMPTS => state # "parked"
        BY <1>1, <1>2, <3>1, <3>2, NatsKnown DEF Nats!NatsQueueAssumption
      <3>4. stream'[e].state = state /\ stream'[e].delivered = stream[e].delivered
        BY <1>3 DEF NatsMessageBecomes
      <3> QED
        BY <1>1, <1>2, <1>5, <2>2, <3>3, <3>4, NatsNumbers DEF ParkInv
    <2>3. CASE nats_faults # 0
      BY <1>1, <2>3, FaultCounts DEF ParkInv
    <2> QED
      BY <2>1, <2>2, <2>3
  <1> QED
    BY <1>4, <1>8, <1>9 DEF FateInv, NatsChanceInv

\* Nothing is submitted: each e-mail has the chance that its publish would be.
LEMMA FateInit == Nats!NatsQueueAssumption /\ Nats!Init => FateInv
  <1> SUFFICES ASSUME Nats!NatsQueueAssumption, Nats!Init, NEW e \in Published PROVE NatsChanceInv(e)
    BY DEF FateInv
  <1>1. Trying(e) = {} /\ Naks(e) = {}
    BY DEF Nats!Init, Nats!Idle, Trying, Naks
  <1>2. IsFiniteSet({}) /\ Cardinality({}) = 0
    BY FS_EmptySet
  <1>3. /\ stream[e].state = "absent" /\ copies[e] = 0 /\ nats_faults = 0
    BY DEF Nats!Init
  <1>4. CopyInv(e)
    BY <1>1, <1>2, <1>3 DEF CopyInv, NatsInStream
  <1>5. ParkInv(e)
    BY <1>1, <1>3 DEF ParkInv
  <1> QED
    BY <1>4, <1>5 DEF NatsChanceInv

\* Every step keeps the second invariant, given the first.
LEMMA FateNext == Nats!NatsQueueAssumption /\ NatsInv /\ FateInv /\ [Nats!Next]_Nats!vars => FateInv'
  <1> SUFFICES ASSUME Nats!NatsQueueAssumption, NatsInv, FateInv, [Nats!Next]_Nats!vars PROVE FateInv'
    OBVIOUS
  <1>1. CASE UNCHANGED Nats!vars
    <2>1. nats_faults' \in Nat /\ nats_faults <= nats_faults'
      BY <1>1, NatsKnown DEF Nats!vars, Nats!NatsQueueAssumption
    <2> QED
      BY <1>1, <2>1, NatsElsewhere DEF Nats!vars, FateInv
  <1> QED
    BY <1>1, EnqueueFate, DeliveryFate, ExecuteFate, AnswerFate, CommandFate, TimerFate
    DEF Nats!Next, Nats!WorkerStep

-----------------------------------------------------------------------------
(* The theorems. The constants are those of some deployment, so what is    *)
(* assumed of them is a hypothesis.                                        *)

\* The inductive invariant of client, stream and workers.
THEOREM NatsInvariant == Nats!NatsQueueAssumption => (Nats!Spec => []NatsInv)
  <1> SUFFICES ASSUME Nats!NatsQueueAssumption PROVE Nats!Spec => []NatsInv
    OBVIOUS
  <1>1. Nats!Init => NatsInv
    BY NatsInvInit
  <1>2. NatsInv /\ [Nats!Next]_Nats!vars => NatsInv'
    BY NatsInvNext
  <1> QED
    BY <1>1, <1>2, PTL DEF Nats!Spec

\* A message leaves the work queue only once an SMTP server has accepted the e-mail,
\* or its attempts are used up, or no route matches it, whatever is lost or late.
THEOREM NatsLosesNothing == Nats!NatsQueueAssumption => (Nats!Spec => []Nats!NothingLost)
  <1>1. NatsInv => Nats!NothingLost
    BY DEF NatsInv, NatsMessageInv, NatsReason, Nats!NothingLost, Nats!Removed
  <1> QED
    BY <1>1, NatsInvariant, PTL

\* Recipients get one copy and at most one more per fault (a lost delivery, command or
\* answer, a crash, an ack_wait that ends too early), however many workers and naks.
THEOREM NatsCopiesAreBounded == Nats!NatsQueueAssumption => (Nats!Spec => []Nats!CopiesBounded)
  <1> SUFFICES ASSUME Nats!NatsQueueAssumption PROVE Nats!Spec => []Nats!CopiesBounded
    OBVIOUS
  <1>1. Nats!Init => FateInv
    BY FateInit
  <1>2. NatsInv /\ FateInv /\ [Nats!Next]_Nats!vars => FateInv'
    BY FateNext
  <1>3. NatsInv /\ FateInv => Nats!CopiesBounded
    <2> SUFFICES ASSUME NatsInv, FateInv, NEW e \in Published PROVE copies[e] <= 1 + nats_faults
      BY DEF Nats!CopiesBounded
    <2> QED
      BY NatsNumbers
  <1>4. Nats!Spec => []NatsInv
    BY NatsInvariant
  <1> QED
    BY <1>1, <1>2, <1>3, <1>4, PTL DEF Nats!Spec

\* With max_deliver at least MAX_ATTEMPTS, JetStream parks a readable message only after
\* a fault: the worker's last attempt acks, it never naks into the server's limit.
THEOREM NatsParksByFault == Nats!NatsQueueAssumption => (Nats!Spec => []Nats!ParkedByFault)
  <1> SUFFICES ASSUME Nats!NatsQueueAssumption PROVE Nats!Spec => []Nats!ParkedByFault
    OBVIOUS
  <1>1. Nats!Init => FateInv
    BY FateInit
  <1>2. NatsInv /\ FateInv /\ [Nats!Next]_Nats!vars => FateInv'
    BY FateNext
  <1>3. NatsInv /\ FateInv => Nats!ParkedByFault
    <2> SUFFICES ASSUME NatsInv, FateInv, MaxDeliver >= MAX_ATTEMPTS, NEW e \in Readable,
                        stream[e].state = "parked"
                 PROVE  nats_faults > 0
      BY DEF Nats!ParkedByFault
    <2>1. e \in Published
      BY DEF Nats!NatsQueueAssumption
    <2> QED
      BY <2>1, NatsNumbers DEF ParkInv
  <1>4. Nats!Spec => []NatsInv
    BY NatsInvariant
  <1> QED
    BY <1>1, <1>2, <1>3, <1>4, PTL DEF Nats!Spec

\* A publish maps to Accept, an acceptance by an SMTP server to Deliver, the delivery
\* that reaches the last attempt to Excuse, an ack the server has to Settle; what is
\* lost, late or repeated is a stutter.
THEOREM NatsRefinement == Nats!NatsQueueAssumption => (Nats!Spec => Nats!KeepsPromise)
  <1> SUFFICES ASSUME Nats!NatsQueueAssumption PROVE Nats!Spec => Nats!KeepsPromise
    OBVIOUS
  <1>1. Nats!Init => Nats!Promise!Init
    <2> SUFFICES ASSUME Nats!Init PROVE Nats!Promise!Init
      OBVIOUS
    <2>1. /\ reported = {} /\ \A e \in Published : copies[e] = 0 /\ stream[e].state = "absent"
      BY DEF Nats!Init
    <2> QED
      BY <2>1 DEF Nats!Promise!Init, Nats!Removed
  <1>2. NatsInv /\ NatsInv' /\ [Nats!Next]_Nats!vars => [Nats!Promise!Next]_(Nats!Promise!vars)
    <2> SUFFICES ASSUME NatsInv, NatsInv', [Nats!Next]_Nats!vars
                 PROVE  Nats!Promise!Next \/ UNCHANGED Nats!Promise!vars
      OBVIOUS
    <2> DEFINE Unpaid  == {e \in reported : ~Nats!Removed(e)}
               Sent    == {e \in Published : copies[e] > 0}
               Excused == {e \in reported : Nats!Exhausted(e)}
               Settled == {e \in Published : Nats!Removed(e)}
    <2>n. ASSUME NEW e \in Published,
                 \/ Nats!Promise!Accept(e) \/ Nats!Promise!Excuse(e)
                 \/ Nats!Promise!Deliver(e) \/ Nats!Promise!Settle(e)
          PROVE  Nats!Promise!Next
      BY <2>n DEF Nats!Promise!Next
    <2>s. ASSUME Unpaid' = Unpaid, Sent' = Sent, Excused' = Excused, Settled' = Settled
          PROVE  UNCHANGED Nats!Promise!vars
      BY <2>s DEF Nats!Promise!vars
    <2>1. ASSUME NEW e \in Published, Nats!enqueue(e) PROVE Nats!Promise!Next
      <3>1. /\ e \notin reported /\ reported' = reported \union {e}
            /\ UNCHANGED <<stream, copies>> /\ ~Nats!Removed(e)
        BY <2>1 DEF Nats!enqueue, Nats!Removed
      <3>2. e \notin Unpaid \union Settled /\ Sent' = Sent /\ Settled' = Settled
        BY <3>1 DEF Nats!Removed
      <3>3. Unpaid' = Unpaid \union {e}
        BY <3>1 DEF Nats!Removed
      <3>4. Excused' = IF Nats!Exhausted(e) THEN Excused \union {e} ELSE Excused
        BY <3>1 DEF Nats!Exhausted
      <3> QED
        BY <2>n, <3>2, <3>3, <3>4 DEF Nats!Promise!Accept
    <2>2. ASSUME NEW e \in Published, Nats!DeliveryLost(e) \/ \E w \in Workers : Nats!dequeue(w, e)
          PROVE  Nats!Promise!Next \/ UNCHANGED Nats!Promise!vars
      <3>1. /\ stream[e].state = "ready" /\ UNCHANGED <<reported, copies>>
            /\ stream' = [stream EXCEPT ![e] = [state |-> "pending", delivered |-> @.delivered + 1]]
        BY <2>2 DEF Nats!DeliveryLost, Nats!dequeue
      <3>2. /\ e \in reported /\ stream[e].delivered \in Nat
            /\ NatsMessageBecomes(e, "pending", stream[e].delivered + 1)
        BY <3>1, NatsKnown, NatsMessageEffects DEF NatsMessageInv
      <3>3. \A f \in Published : Nats!Removed(f)' = Nats!Removed(f)
        BY <3>1, <3>2 DEF Nats!Removed, NatsMessageBecomes
      <3>4. \A f \in Published \ {e} : Nats!Exhausted(f)' = Nats!Exhausted(f)
        BY <3>2 DEF Nats!Exhausted, NatsMessageBecomes
      <3>5. Nats!Exhausted(e) => Nats!Exhausted(e)'
        BY <3>2 DEF Nats!Exhausted, NatsMessageBecomes, Nats!NatsQueueAssumption
      <3>6. /\ Unpaid' = Unpaid /\ Settled' = Settled /\ Sent' = Sent /\ e \in Unpaid
            /\ Excused' \in {Excused, Excused \union {e}}
        <4>1. Unpaid' = Unpaid /\ Settled' = Settled /\ Sent' = Sent
          BY <3>1, <3>3, NatsKnown
        <4>2. e \in Unpaid
          BY <3>1, <3>2 DEF Nats!Removed
        <4>3. Excused' = IF Nats!Exhausted(e)' THEN Excused \union {e} ELSE Excused
          BY <3>1, <3>2, <3>4, <3>5, NatsKnown
        <4> QED
          BY <4>1, <4>2, <4>3
      <3>7. CASE Excused' = Excused
        BY <2>s, <3>6, <3>7
      <3>8. CASE Excused' = Excused \union {e}
        <4>1. Nats!Promise!Excuse(e)
          BY <3>6, <3>8 DEF Nats!Promise!Excuse
        <4> QED
          BY <2>n, <4>1
      <3> QED
        BY <3>6, <3>7, <3>8
    <2>3. ASSUME NEW w \in Workers, Nats!Execute(w) PROVE Nats!Promise!Next \/ UNCHANGED Nats!Promise!vars
      <3>1. PICK e \in Published : e = workers[w].email /\ e \in reported
        BY <2>3, NatsKnown DEF Nats!Execute, TaskInv, NatsMessageInv
      <3>2. UNCHANGED <<reported, stream>>
        BY <2>3 DEF Nats!Execute
      <3>3. Unpaid' = Unpaid /\ Settled' = Settled /\ Excused' = Excused
        BY <3>2 DEF Nats!Removed, Nats!Exhausted
      <3>4. CASE UNCHANGED copies
        BY <2>s, <3>3, <3>4
      <3>5. CASE copies' = [copies EXCEPT ![e] = @ + 1]
        <4>1. Sent' = Sent \union {e}
          BY <3>5, NatsKnown
        <4>2. e \in Unpaid \union Settled
          BY <3>1
        <4>3. Nats!Promise!Deliver(e)
          BY <3>3, <4>1, <4>2 DEF Nats!Promise!Deliver
        <4> QED
          BY <2>n, <4>3
      <3> QED
        BY <2>3, <3>1, <3>4, <3>5 DEF Nats!Execute
    <2>4. ASSUME NEW c \in wire, Nats!Receive(c), UNCHANGED <<reported, copies>>
          PROVE  Nats!Promise!Next \/ UNCHANGED Nats!Promise!vars
      <3>1. PICK e \in Published : e = c.email /\ e \in reported /\ WireInv(c)
        BY NatsKnown DEF WireInv
      <3>2. PICK state \in Nats!Handled(c) : stream' = [stream EXCEPT ![e].state = state]
        BY <2>4, <3>1 DEF Nats!Receive
      <3>3. /\ state \in Nats!MessageStates /\ c.kind \in {"publish", "ack", "nak"}
            /\ state = "removed" => c.kind = "ack" \/ Nats!Removed(e)
            /\ Nats!Removed(e) => state = "removed"
        <4>1. c.kind \in {"publish", "ack", "nak"} /\ stream[e].state \in Nats!MessageStates
          BY NatsKnown DEF Nats!Commands
        <4> QED
          BY <3>1, <3>2, <4>1 DEF Nats!Handled, WireInv, Nats!Removed, Nats!MessageStates
      <3>4. NatsMessageBecomes(e, state, stream[e].delivered)
        BY <3>2, <3>3, NatsKnown, NatsMessageEffects
      <3>5. Sent' = Sent /\ Excused' = Excused
        BY <2>4, <3>4, NatsKnown DEF NatsMessageBecomes, Nats!Exhausted
      <3>6. \A f \in Published : Nats!Removed(f)' = IF f = e THEN state = "removed" ELSE Nats!Removed(f)
        BY <3>4 DEF NatsMessageBecomes, Nats!Removed
      <3>7. CASE state # "removed" \/ Nats!Removed(e)
        <4>1. Unpaid' = Unpaid /\ Settled' = Settled
          BY <2>4, <3>3, <3>6, <3>7, NatsKnown
        <4> QED
          BY <2>s, <3>5, <4>1
      <3>8. CASE state = "removed" /\ ~Nats!Removed(e)
        <4>1. e \in Unpaid /\ e \in Sent \union Excused
          BY <3>1, <3>3, <3>8 DEF WireInv, NatsReason
        <4>2. Unpaid' = Unpaid \ {e} /\ Settled' = Settled \union {e}
          BY <2>4, <3>6, <3>8, NatsKnown
        <4>3. Nats!Promise!Settle(e)
          BY <3>5, <4>1, <4>2 DEF Nats!Promise!Settle
        <4> QED
          BY <2>n, <4>3
      <3> QED
        BY <3>7, <3>8
    <2>5. ASSUME NEW e \in Published, Nats!Timer(e) PROVE UNCHANGED Nats!Promise!vars
      <3>1. /\ stream[e].state \in {"pending", "delayed"} /\ Nats!Due(e) \in {"ready", "parked"}
            /\ stream' = [stream EXCEPT ![e].state = Nats!Due(e)]
            /\ UNCHANGED <<reported, copies>>
        BY <2>5 DEF Nats!Timer, Nats!Due
      <3>2. NatsMessageBecomes(e, Nats!Due(e), stream[e].delivered)
        BY <3>1, NatsKnown, NatsMessageEffects DEF Nats!MessageStates
      <3>3. \A f \in Published : Nats!Removed(f)' = Nats!Removed(f) /\ Nats!Exhausted(f)' = Nats!Exhausted(f)
        BY <3>1, <3>2 DEF Nats!Removed, Nats!Exhausted, NatsMessageBecomes
      <3> QED
        BY <2>s, <3>1, <3>3, NatsKnown
    <2>6. ASSUME UNCHANGED <<reported, stream, copies>> PROVE UNCHANGED Nats!Promise!vars
      BY <2>s, <2>6 DEF Nats!Removed, Nats!Exhausted
    <2>7. \/ \E e \in Published : Nats!enqueue(e) \/ Nats!Timer(e) \/ Nats!DeliveryLost(e)
                                \/ \E w \in Workers : Nats!dequeue(w, e)
          \/ \E w \in Workers : Nats!Execute(w)
          \/ \E c \in wire : Nats!Receive(c) /\ UNCHANGED <<reported, copies>>
          \/ UNCHANGED <<reported, stream, copies>>
      BY DEF Nats!Next, Nats!WorkerStep, Nats!ack, Nats!nack, Nats!Respond, Nats!Crash, Nats!Receive, Nats!ConnectionLost, Nats!vars
    <2> QED
      BY <2>1, <2>2, <2>3, <2>4, <2>5, <2>6, <2>7
  <1> QED
    BY <1>1, <1>2, NatsInvariant, PTL DEF Nats!Spec, Nats!KeepsPromise, Nats!Promise!Spec

-----------------------------------------------------------------------------
(* The submissions over NATS (InboundNats). The inductive invariant. A     *)
(* message that may still be submitted is a chance, in a server's hands or in the stream: a chance too many costs a *)
(* fault. Every delivery but the one in hand has cost one, too, and so has *)
(* every nak.                                                              *)

Reserving(m) == {s \in Servers : Inbound!Msg(s) = m /\ Inbound!At(s, "reserved")}
Naking(m)    == {s \in Servers : Inbound!Msg(s) = m /\ Inbound!At(s, "nak")}
Active(m)    == {s \in Servers : Inbound!Msg(s) = m /\ servers[s].at \in {"handle", "reserved", "nak"}}

\* The message is in the stream, or will be again without a fault.
InboundInStream(m) ==
  IF \/ inbox[m].state \in {"unsent", "ready"}
     \/ inbox[m].state = "pending" /\ ~Inbound!InHand(m)
  THEN 1 ELSE 0

\* The last delivery is with a server and has not timed out.
Open(m) == IF inbox[m].state = "pending" /\ Inbound!InHand(m) THEN 1 ELSE 0

InboundReason(m) == enqueued[m] > 0 \/ Inbound!Hopeless(m) \/ (m \in Keyed /\ in_faults > 0)

StreamInv(m) ==
  /\ inbox[m].state = "ready" => inbox[m].delivered < Deliveries
  /\ inbox[m].state = "parked" => inbox[m].delivered = Deliveries
  /\ inbox[m].state = "unsent" => inbox[m].delivered = 0
  /\ Inbound!Removed(m) => InboundReason(m)

\* Each chance but one stands for a fault, and so does each copy but one.
InboundChanceInv(m) ==
  /\ IsFiniteSet(Active(m))
  /\ enqueued[m] + Cardinality(Active(m)) + InboundInStream(m) <= 1 + in_faults

\* The rows: of submissions that are done or under way, unless a crash left them.
RowInv(m) ==
  /\ enqueued[m] + Cardinality(Reserving(m)) <= reserved[m]
  /\ in_faults = 0 => reserved[m] = enqueued[m] + Cardinality(Reserving(m))
  /\ m \in Keyed => reserved[m] <= 1

\* Each delivery but an open one stands for a fault, and so does each nak.
DeliveryInv(m) ==
  ~stopping /\ ~Inbound!Removed(m) =>
    inbox[m].delivered + Cardinality(Naking(m)) <= in_faults + Open(m)

InboundMessageInv(m) == StreamInv(m) /\ InboundChanceInv(m) /\ RowInv(m) /\ DeliveryInv(m)

ServerInv(s) ==
  Inbound!Msg(s) # NoMessage =>
    /\ servers[s].delivery <= inbox[Inbound!Msg(s)].delivered
    /\ Inbound!At(s, "ack") => InboundReason(Inbound!Msg(s))

InboundInv ==
  /\ Inbound!TypeOK
  /\ \A m \in Messages : InboundMessageInv(m)
  /\ \A s \in Servers : ServerInv(s)

-----------------------------------------------------------------------------
(* What a step changes.                                                    *)

MessageRecs == [state : Inbound!MessageStates, delivered : 0..Deliveries]
ServerRecs  == [at : Inbound!Places, msg : Messages \union {NoMessage}, delivery : 0..Deliveries]

ServerBecomes(s, at, msg, delivery) ==
  /\ servers'[s].at = at
  /\ servers'[s].msg = msg
  /\ servers'[s].delivery = delivery
  /\ \A t \in Servers \ {s} : servers'[t] = servers[t]
  /\ servers' \in [Servers -> ServerRecs]

InboundMessageBecomes(m, state, delivered) ==
  /\ inbox'[m].state = state
  /\ inbox'[m].delivered = delivered
  /\ \A n \in Messages \ {m} : inbox'[n] = inbox[n]
  /\ inbox' \in [Messages -> MessageRecs]

\* The ways in which a server changes.
LEMMA ServerEffects ==
  ASSUME Inbound!InboundNatsAssumption, Inbound!TypeOK, NEW s \in Servers
  PROVE  /\ \A place \in Inbound!Places :
              Inbound!Goto(s, place) => ServerBecomes(s, place, Inbound!Msg(s), servers[s].delivery)
         /\ servers' = [servers EXCEPT ![s] = Inbound!Free] => ServerBecomes(s, "fetch", NoMessage, 0)
         /\ \A m \in Messages, d \in 0..Deliveries :
              servers' = [servers EXCEPT ![s] = [at |-> "handle", msg |-> m, delivery |-> d]]
                => ServerBecomes(s, "handle", m, d)
  <1>1. servers \in [Servers -> ServerRecs] /\ servers[s] \in ServerRecs
    BY DEF Inbound!TypeOK, ServerRecs
  <1>2. ASSUME NEW place \in Inbound!Places, Inbound!Goto(s, place)
        PROVE  ServerBecomes(s, place, Inbound!Msg(s), servers[s].delivery)
    <2>1. servers' = [servers EXCEPT ![s] = [servers[s] EXCEPT !.at = place]]
      BY <1>1, <1>2 DEF Inbound!Goto
    <2>2. [servers[s] EXCEPT !.at = place] \in ServerRecs
      BY <1>1 DEF ServerRecs
    <2> QED
      BY <1>1, <2>1, <2>2 DEF ServerBecomes, ServerRecs, Inbound!Msg
  <1>3. ASSUME NEW r \in ServerRecs, servers' = [servers EXCEPT ![s] = r]
        PROVE  ServerBecomes(s, r.at, r.msg, r.delivery)
    BY <1>1, <1>3 DEF ServerBecomes
  <1>4. Inbound!Free \in ServerRecs
    BY DEF Inbound!Free, ServerRecs, Inbound!Places, Inbound!InboundNatsAssumption
  <1>5. \A m \in Messages, d \in 0..Deliveries :
          [at |-> "handle", msg |-> m, delivery |-> d] \in ServerRecs
    BY DEF ServerRecs, Inbound!Places
  <1> QED
    BY <1>2, <1>3, <1>4, <1>5 DEF Inbound!Free

\* The ways in which the stream changes a message.
LEMMA InboundMessageEffects ==
  ASSUME Inbound!InboundNatsAssumption, Inbound!TypeOK, NEW m \in Messages
  PROVE  /\ \A state \in Inbound!MessageStates :
              inbox' = [inbox EXCEPT ![m].state = state] =>
                InboundMessageBecomes(m, state, inbox[m].delivered)
         /\ inbox' = Inbound!Delivered(m) => (inbox[m].delivered < Deliveries =>
              InboundMessageBecomes(m, "pending", inbox[m].delivered + 1))
  <1>1. inbox \in [Messages -> MessageRecs] /\ inbox[m] \in MessageRecs
    BY DEF Inbound!TypeOK, MessageRecs
  <1>2. ASSUME NEW state \in Inbound!MessageStates, inbox' = [inbox EXCEPT ![m].state = state]
        PROVE  InboundMessageBecomes(m, state, inbox[m].delivered)
    <2>1. inbox' = [inbox EXCEPT ![m] = [inbox[m] EXCEPT !.state = state]]
      BY <1>1, <1>2
    <2>2. [inbox[m] EXCEPT !.state = state] \in MessageRecs
      BY <1>1 DEF MessageRecs
    <2> QED
      BY <1>1, <2>1, <2>2 DEF InboundMessageBecomes, MessageRecs
  <1>3. ASSUME inbox' = Inbound!Delivered(m), inbox[m].delivered < Deliveries
        PROVE  InboundMessageBecomes(m, "pending", inbox[m].delivered + 1)
    <2> DEFINE r == [state |-> "pending", delivered |-> inbox[m].delivered + 1]
    <2>1. r \in MessageRecs
      BY <1>1, <1>3 DEF MessageRecs, Inbound!MessageStates, Inbound!InboundNatsAssumption
    <2>2. inbox' = [inbox EXCEPT ![m] = r]
      BY <1>1, <1>3 DEF Inbound!Delivered
    <2> QED
      BY <1>1, <2>1, <2>2 DEF InboundMessageBecomes
  <1> QED
    BY <1>2, <1>3

\* What is known of the types.
LEMMA InboundKnown ==
  ASSUME Inbound!InboundNatsAssumption, InboundInv
  PROVE  /\ Inbound!TypeOK
         /\ \A m \in Messages :
              /\ InboundMessageInv(m) /\ inbox[m] \in MessageRecs
              /\ inbox[m].delivered \in 0..Deliveries /\ inbox[m].delivered \in Nat
              /\ reserved[m] \in Nat /\ enqueued[m] \in Nat
              /\ InboundInStream(m) \in {0, 1} /\ Open(m) \in {0, 1}
         /\ \A s \in Servers :
              /\ ServerInv(s) /\ servers[s] \in ServerRecs
              /\ servers[s].at \in Inbound!Places /\ servers[s].delivery \in 0..Deliveries
              /\ servers[s].delivery \in Nat
              /\ Inbound!Msg(s) \in Messages \union {NoMessage}
              /\ servers[s].at \in {"handle", "reserved", "ack", "nak"} <=> Inbound!Msg(s) # NoMessage
         /\ in_faults \in Nat /\ MaxInFaults \in Nat /\ Deliveries \in Nat \ {0}
         /\ NoMessage \notin Messages
  <1>1. /\ inbox \in [Messages -> MessageRecs] /\ servers \in [Servers -> ServerRecs]
        /\ Deliveries \in Nat
    BY DEF InboundInv, Inbound!TypeOK, MessageRecs, ServerRecs, Inbound!InboundNatsAssumption
  <1>2. \A r \in MessageRecs : r.delivered \in 0..Deliveries /\ r.delivered \in Nat
    BY <1>1 DEF MessageRecs
  <1>3. \A r \in ServerRecs : /\ r.at \in Inbound!Places /\ r.delivery \in 0..Deliveries
                              /\ r.delivery \in Nat /\ r.msg \in Messages \union {NoMessage}
    BY <1>1 DEF ServerRecs
  <1>4. \A m \in Messages : InboundInStream(m) \in {0, 1} /\ Open(m) \in {0, 1}
    BY DEF InboundInStream, Open
  <1> QED
    BY <1>1, <1>2, <1>3, <1>4 DEF InboundInv, Inbound!TypeOK, Inbound!Msg, Inbound!InboundNatsAssumption

\* The servers that handle a message are finitely many, and they are all others.
LEMMA Finite ==
  ASSUME NEW m, IsFiniteSet(Active(m))
  PROVE  /\ IsFiniteSet(Reserving(m)) /\ IsFiniteSet(Naking(m))
         /\ Cardinality(Active(m)) \in Nat /\ Cardinality(Reserving(m)) \in Nat
         /\ Cardinality(Naking(m)) \in Nat
         /\ Cardinality(Reserving(m)) <= Cardinality(Active(m))
  <1>1. Reserving(m) \subseteq Active(m) /\ Naking(m) \subseteq Active(m)
    BY DEF Active, Reserving, Naking, Inbound!At
  <1> QED
    BY <1>1, FS_Subset, FS_CardinalityType

\* A server moves: by how much that changes the numbers of a message.
LEMMA InboundMoves ==
  ASSUME NEW s \in Servers, NEW at, NEW msg, NEW delivery, ServerBecomes(s, at, msg, delivery),
         NEW m, IsFiniteSet(Active(m))
  PROVE  /\ IsFiniteSet(Active(m)')
         /\ Cardinality(Active(m)') = Cardinality(Active(m))
              + Is(msg = m /\ at \in {"handle", "reserved", "nak"}) - Is(s \in Active(m))
         /\ Cardinality(Reserving(m)') = Cardinality(Reserving(m))
              + Is(msg = m /\ at = "reserved") - Is(s \in Reserving(m))
         /\ Cardinality(Naking(m)') = Cardinality(Naking(m))
              + Is(msg = m /\ at = "nak") - Is(s \in Naking(m))
  <1>1. /\ \A t : t # s => (t \in Active(m) <=> t \in Active(m)')
        /\ s \in Active(m)' <=> msg = m /\ at \in {"handle", "reserved", "nak"}
    BY DEF ServerBecomes, Active, Inbound!Msg
  <1>2. /\ \A t : t # s => (t \in Reserving(m) <=> t \in Reserving(m)')
        /\ s \in Reserving(m)' <=> msg = m /\ at = "reserved"
    BY DEF ServerBecomes, Reserving, Inbound!Msg, Inbound!At
  <1>3. /\ \A t : t # s => (t \in Naking(m) <=> t \in Naking(m)')
        /\ s \in Naking(m)' <=> msg = m /\ at = "nak"
    BY DEF ServerBecomes, Naking, Inbound!Msg, Inbound!At
  <1>4. IsFiniteSet(Reserving(m)) /\ IsFiniteSet(Naking(m))
    BY Finite
  <1>5. /\ IsFiniteSet(Active(m)')
        /\ Cardinality(Active(m)') = Cardinality(Active(m))
             + Is(s \in Active(m)') - Is(s \in Active(m))
    BY <1>1, OneMoves
  <1>6. Cardinality(Reserving(m)') = Cardinality(Reserving(m))
          + Is(s \in Reserving(m)') - Is(s \in Reserving(m))
    BY <1>2, <1>4, OneMoves
  <1>7. Cardinality(Naking(m)') = Cardinality(Naking(m))
          + Is(s \in Naking(m)') - Is(s \in Naking(m))
    BY <1>3, <1>4, OneMoves
  <1> QED
    BY <1>1, <1>2, <1>3, <1>5, <1>6, <1>7 DEF Is

-----------------------------------------------------------------------------
(* The invariant step by step: what a step does to one message.            *)

\* What no step takes back.
InboundForward ==
  /\ in_faults' \in Nat /\ in_faults <= in_faults'
  /\ stopping => stopping'
  /\ \A m \in Messages :
       /\ enqueued'[m] \in Nat /\ enqueued[m] <= enqueued'[m]
       /\ inbox'[m].delivered \in Nat /\ inbox[m].delivered <= inbox'[m].delivered

\* So a reason to leave the stream stays one.
LEMMA InboundReasonsStay ==
  ASSUME Inbound!InboundNatsAssumption, InboundInv, InboundForward, NEW m \in Messages, InboundReason(m)
  PROVE  InboundReason(m)'
  <1>1. /\ enqueued[m] \in Nat /\ enqueued'[m] \in Nat /\ enqueued[m] <= enqueued'[m]
        /\ in_faults \in Nat /\ in_faults' \in Nat /\ in_faults <= in_faults'
    BY InboundKnown DEF InboundForward
  <1> QED
    BY <1>1 DEF InboundReason, Inbound!Hopeless

\* A message that a step does not touch.
LEMMA InboundElsewhere ==
  ASSUME Inbound!InboundNatsAssumption, InboundInv, InboundForward, NEW n \in Messages,
         inbox'[n] = inbox[n], reserved'[n] = reserved[n], enqueued'[n] = enqueued[n],
         \A s \in Servers : Inbound!Msg(s) = n \/ servers'[s].msg = n => servers'[s] = servers[s]
  PROVE  InboundMessageInv(n)'
  <1>1. /\ Active(n)' = Active(n) /\ Reserving(n)' = Reserving(n) /\ Naking(n)' = Naking(n)
        /\ Inbound!InHand(n)' <=> Inbound!InHand(n)
    BY DEF Active, Reserving, Naking, Inbound!InHand, Inbound!Msg, Inbound!At
  <1>2. InboundInStream(n)' = InboundInStream(n) /\ Open(n)' = Open(n) /\ (Inbound!Removed(n)' <=> Inbound!Removed(n))
    BY <1>1 DEF InboundInStream, Open, Inbound!Removed
  <1>3. /\ InboundMessageInv(n) /\ IsFiniteSet(Active(n))
        /\ in_faults \in Nat /\ in_faults' \in Nat /\ in_faults <= in_faults'
        /\ enqueued[n] \in Nat /\ inbox[n].delivered \in Nat
        /\ InboundInStream(n) \in {0, 1} /\ Open(n) \in {0, 1}
    BY InboundKnown DEF InboundForward, InboundMessageInv, InboundChanceInv
  <1>4. Cardinality(Active(n)) \in Nat /\ Cardinality(Naking(n)) \in Nat
    BY <1>3, Finite
  <1>5. StreamInv(n)'
    BY <1>2, <1>3, InboundReasonsStay DEF InboundMessageInv, StreamInv
  <1>6. InboundChanceInv(n)'
    <2>1. enqueued[n] + Cardinality(Active(n)) + InboundInStream(n) <= 1 + in_faults
      BY <1>3 DEF InboundMessageInv, InboundChanceInv
    <2>2. enqueued[n] + Cardinality(Active(n)) + InboundInStream(n) <= 1 + in_faults'
      BY <1>3, <1>4, <2>1
    <2> QED
      BY <1>1, <1>2, <1>3, <2>2 DEF InboundChanceInv
  <1>7. RowInv(n)'
    BY <1>1, <1>3 DEF InboundMessageInv, RowInv
  <1>8. DeliveryInv(n)'
    <2>1. ASSUME ~stopping, ~Inbound!Removed(n)
          PROVE  inbox[n].delivered + Cardinality(Naking(n)) <= in_faults' + Open(n)
      <3>1. inbox[n].delivered + Cardinality(Naking(n)) <= in_faults + Open(n)
        BY <1>3, <2>1 DEF InboundMessageInv, DeliveryInv
      <3> QED
        BY <1>3, <1>4, <3>1
    <2> QED
      BY <1>1, <1>2, <2>1 DEF DeliveryInv, InboundForward
  <1> QED
    BY <1>5, <1>6, <1>7, <1>8 DEF InboundMessageInv

\* A server that a step does not touch.
LEMMA Bystander ==
  ASSUME Inbound!InboundNatsAssumption, InboundInv, InboundForward, NEW s \in Servers, servers'[s] = servers[s]
  PROVE  ServerInv(s)'
  <1>1. ServerInv(s) /\ Inbound!Msg(s) \in Messages \union {NoMessage} /\ servers[s].delivery \in Nat
    BY InboundKnown
  <1>2. Inbound!Msg(s)' = Inbound!Msg(s) /\ (Inbound!At(s, "ack")' <=> Inbound!At(s, "ack"))
    BY DEF Inbound!Msg, Inbound!At
  <1>3. \A m \in Messages : /\ inbox[m].delivered \in Nat /\ inbox'[m].delivered \in Nat
                            /\ inbox[m].delivered <= inbox'[m].delivered
    BY InboundKnown DEF InboundForward
  <1>4. \A m \in Messages : InboundReason(m) => InboundReason(m)'
    BY InboundReasonsStay
  <1>5. ASSUME NEW m \in Messages, Inbound!Msg(s) = m
        PROVE  servers[s].delivery <= inbox'[m].delivered /\ (Inbound!At(s, "ack") => InboundReason(m)')
    <2>1. m # NoMessage
      BY InboundKnown
    <2>2. servers[s].delivery <= inbox[m].delivered /\ (Inbound!At(s, "ack") => InboundReason(m))
      BY <1>1, <1>5, <2>1 DEF ServerInv
    <2> QED
      BY <1>1, <1>3, <1>4, <2>2
  <1>6. ASSUME NEW m \in Messages, Inbound!Msg(s) = m PROVE ServerInv(s)'
    <2>1. Inbound!Msg(s)' = m
      BY <1>2, <1>6
    <2>2. servers[s].delivery <= inbox'[m].delivered /\ (Inbound!At(s, "ack") => InboundReason(m)')
      BY <1>1, <1>5, <1>6
    <2>3. InboundReason(Inbound!Msg(s))' <=> InboundReason(m)'
      BY <2>1 DEF InboundReason, Inbound!Hopeless
    <2> QED
      BY <1>2, <2>1, <2>2, <2>3 DEF ServerInv
  <1> QED
    BY <1>1, <1>2, <1>6 DEF ServerInv

Guarded == (\A m \in Messages : InboundMessageInv(m)) /\ (\A s \in Servers : ServerInv(s))

\* A step of one server on one message.
LEMMA OwnStep ==
  ASSUME Inbound!InboundNatsAssumption, InboundInv, InboundForward, NEW s \in Servers, NEW m \in Messages,
         NEW at, NEW msg, NEW delivery, ServerBecomes(s, at, msg, delivery),
         Inbound!Msg(s) \in {m, NoMessage}, msg \in {m, NoMessage},
         \A n \in Messages \ {m} :
           inbox'[n] = inbox[n] /\ reserved'[n] = reserved[n] /\ enqueued'[n] = enqueued[n],
         InboundMessageInv(m)', ServerInv(s)'
  PROVE  Guarded'
  <1>1. ASSUME NEW n \in Messages \ {m} PROVE InboundMessageInv(n)'
    <2>1. n # NoMessage
      BY InboundKnown
    <2>2. \A t \in Servers : Inbound!Msg(t) = n \/ servers'[t].msg = n => servers'[t] = servers[t]
      BY <2>1 DEF ServerBecomes
    <2> QED
      BY <2>2, InboundElsewhere
  <1>2. ASSUME NEW t \in Servers \ {s} PROVE ServerInv(t)'
    BY Bystander DEF ServerBecomes
  <1> QED
    BY <1>1, <1>2 DEF Guarded

\* The numbers of a message.
LEMMA InboundNumbers ==
  ASSUME Inbound!InboundNatsAssumption, InboundInv, NEW m \in Messages
  PROVE  /\ IsFiniteSet(Active(m))
         /\ Cardinality(Active(m)) \in Nat /\ Cardinality(Reserving(m)) \in Nat
         /\ Cardinality(Naking(m)) \in Nat
         /\ Cardinality(Reserving(m)) <= Cardinality(Active(m))
         /\ enqueued[m] + Cardinality(Active(m)) + InboundInStream(m) <= 1 + in_faults
         /\ enqueued[m] + Cardinality(Reserving(m)) <= reserved[m]
         /\ in_faults = 0 => reserved[m] = enqueued[m] + Cardinality(Reserving(m))
         /\ m \in Keyed => reserved[m] <= 1
         /\ ~stopping /\ ~Inbound!Removed(m) =>
              inbox[m].delivered + Cardinality(Naking(m)) <= in_faults + Open(m)
  BY InboundKnown, Finite DEF InboundMessageInv, InboundChanceInv, RowInv, DeliveryInv

\* A member counts.
LEMMA Member ==
  ASSUME Inbound!InboundNatsAssumption, InboundInv, NEW m \in Messages, NEW s \in Servers, Inbound!Msg(s) = m
  PROVE  /\ servers[s].at \in {"handle", "reserved", "nak"} =>
              s \in Active(m) /\ Cardinality(Active(m)) >= 1
         /\ Inbound!At(s, "reserved") => s \in Reserving(m) /\ Cardinality(Reserving(m)) >= 1
         /\ Inbound!At(s, "nak") => s \in Naking(m) /\ Cardinality(Naking(m)) >= 1
  <1>1. IsFiniteSet(Active(m)) /\ IsFiniteSet(Reserving(m)) /\ IsFiniteSet(Naking(m))
    BY InboundNumbers, Finite
  <1>2. ASSUME NEW S, IsFiniteSet(S), s \in S PROVE Cardinality(S) >= 1
    <2>1. Cardinality(S) \in Nat /\ S # {}
      BY <1>2, FS_CardinalityType
    <2>2. Cardinality(S) # 0
      BY <1>2, <2>1, FS_EmptySet
    <2> QED
      BY <2>1, <2>2
  <1> QED
    BY <1>1, <1>2 DEF Active, Reserving, Naking, Inbound!At

\* A step in which no server takes, handles or lets go of a message.
LEMMA LooseStep ==
  ASSUME Inbound!InboundNatsAssumption, InboundInv, InboundForward, UNCHANGED <<reserved, enqueued>>,
         \A s \in Servers :
           servers'[s] = servers[s] \/ (Inbound!Msg(s) = NoMessage /\ servers'[s].msg = NoMessage),
         NEW m \in Messages, \A n \in Messages \ {m} : inbox'[n] = inbox[n],
         StreamInv(m)', InboundInStream(m)' + in_faults <= InboundInStream(m) + in_faults',
         ~stopping' /\ ~Inbound!Removed(m)' =>
           /\ ~Inbound!Removed(m)
           /\ inbox'[m].delivered + in_faults + Open(m) <= inbox[m].delivered + in_faults' + Open(m)'
  PROVE  Guarded'
  <1>0. m # NoMessage /\ NoMessage \notin Messages
    BY InboundKnown
  <1>1. ASSUME NEW n \in Messages \ {m} PROVE InboundMessageInv(n)'
    <2>1. \A s \in Servers : Inbound!Msg(s) = n \/ servers'[s].msg = n => servers'[s] = servers[s]
      BY <1>0
    <2> QED
      BY <2>1, InboundElsewhere
  <1>2. Active(m)' = Active(m) /\ Reserving(m)' = Reserving(m) /\ Naking(m)' = Naking(m)
    <2>1. \A s \in Servers : Inbound!Msg(s) = m \/ servers'[s].msg = m => servers'[s] = servers[s]
      BY <1>0
    <2> QED
      BY <2>1 DEF Active, Reserving, Naking, Inbound!Msg, Inbound!At
  <1>3. InboundMessageInv(m)'
    <2> DEFINE a == Cardinality(Active(m))
               k == Cardinality(Naking(m))
    <2>1. /\ a \in Nat /\ k \in Nat /\ enqueued[m] \in Nat /\ in_faults \in Nat /\ in_faults' \in Nat
          /\ in_faults <= in_faults' /\ inbox[m].delivered \in Nat /\ inbox'[m].delivered \in Nat
          /\ enqueued'[m] = enqueued[m] /\ reserved'[m] = reserved[m]
          /\ InboundInStream(m) \in {0, 1} /\ Open(m) \in {0, 1}
          /\ a' = a /\ k' = k
      BY InboundKnown, InboundNumbers, <1>2 DEF InboundForward
    <2>2. InboundInStream(m)' \in {0, 1} /\ Open(m)' \in {0, 1}
      BY DEF InboundInStream, Open
    <2>3. /\ IsFiniteSet(Active(m)) /\ enqueued[m] + a + InboundInStream(m) <= 1 + in_faults
          /\ ~stopping /\ ~Inbound!Removed(m) => inbox[m].delivered + k <= in_faults + Open(m)
      BY InboundNumbers
    <2>4. InboundChanceInv(m)'
      <3>1. enqueued'[m] + a' + InboundInStream(m)' <= 1 + in_faults'
        <4> HIDE DEF a, k
        <4> QED
          BY <2>1, <2>2, <2>3
      <3> QED
        BY <1>2, <2>3, <3>1 DEF InboundChanceInv
    <2>5. RowInv(m)'
      BY <1>2, <2>1, InboundNumbers DEF RowInv
    <2>6. DeliveryInv(m)'
      <3>1. ASSUME ~stopping', ~Inbound!Removed(m)'
            PROVE  inbox'[m].delivered + k' <= in_faults' + Open(m)'
        <4>1. ~stopping
          BY <3>1 DEF InboundForward
        <4> HIDE DEF a, k
        <4> QED
          BY <2>1, <2>2, <2>3, <3>1, <4>1
      <3> QED
        BY <3>1 DEF DeliveryInv
    <2> QED
      BY <2>4, <2>5, <2>6 DEF InboundMessageInv
  <1>4. ASSUME NEW s \in Servers PROVE ServerInv(s)'
    <2>1. CASE servers'[s] = servers[s]
      BY <2>1, Bystander
    <2>2. CASE servers'[s].msg = NoMessage
      BY <2>2 DEF ServerInv, Inbound!Msg
    <2> QED
      BY <2>1, <2>2
  <1> QED
    BY <1>1, <1>3, <1>4 DEF Guarded

\* A step that leaves the stream alone, too.
LEMMA QuietStep ==
  ASSUME Inbound!InboundNatsAssumption, InboundInv, InboundForward, UNCHANGED <<inbox, reserved, enqueued>>,
         \A s \in Servers :
           servers'[s] = servers[s] \/ (Inbound!Msg(s) = NoMessage /\ servers'[s].msg = NoMessage)
  PROVE  Guarded'
  <1>0. NoMessage \notin Messages
    BY InboundKnown
  <1>1. ASSUME NEW n \in Messages PROVE InboundMessageInv(n)'
    <2>1. \A s \in Servers : Inbound!Msg(s) = n \/ servers'[s].msg = n => servers'[s] = servers[s]
      BY <1>0
    <2> QED
      BY <2>1, InboundElsewhere
  <1>2. ASSUME NEW s \in Servers PROVE ServerInv(s)'
    <2>1. CASE servers'[s] = servers[s]
      BY <2>1, Bystander
    <2>2. CASE servers'[s].msg = NoMessage
      BY <2>2 DEF ServerInv, Inbound!Msg
    <2> QED
      BY <2>1, <2>2
  <1> QED
    BY <1>1, <1>2 DEF Guarded

\* A fault counts, within the bound of the model.
LEMMA FaultBounded ==
  ASSUME Inbound!InboundNatsAssumption, InboundInv, Inbound!Fault
  PROVE  in_faults' = in_faults + 1 /\ in_faults' \in Nat /\ in_faults' \in 0..MaxInFaults /\ in_faults <= in_faults'
  <1>1. in_faults \in 0..MaxInFaults /\ MaxInFaults \in Nat
    BY DEF InboundInv, Inbound!TypeOK, Inbound!InboundNatsAssumption
  <1> QED
    BY <1>1 DEF Inbound!Fault

-----------------------------------------------------------------------------
(* The steps that leave every message where the servers have it.           *)

\* A submission enters the stream, which gives it its one chance.
LEMMA PublishStep ==
  ASSUME Inbound!InboundNatsAssumption, InboundInv, NEW m \in Messages, Inbound!Publish(m)
  PROVE  Guarded' /\ Inbound!TypeOK'
  <1>1. /\ inbox[m].state = "unsent" /\ InboundMessageBecomes(m, "ready", inbox[m].delivered)
        /\ UNCHANGED <<servers, reserved, enqueued, heard, stopping, in_faults>>
    BY InboundKnown, InboundMessageEffects DEF Inbound!Publish, Inbound!MessageStates
  <1>2. Inbound!TypeOK'
    BY <1>1, InboundKnown DEF Inbound!TypeOK, InboundMessageBecomes, MessageRecs
  <1>3. InboundForward
    BY <1>1, InboundKnown DEF InboundForward, InboundMessageBecomes
  <1>4. InboundInStream(m) = 1 /\ InboundInStream(m)' = 1 /\ Open(m) = 0 /\ Open(m)' = 0
    BY <1>1 DEF InboundInStream, Open, InboundMessageBecomes
  <1>5. StreamInv(m)'
    BY <1>1, InboundKnown DEF InboundMessageBecomes, InboundMessageInv, StreamInv, Inbound!Removed
  <1>6. ~Inbound!Removed(m)
    BY <1>1 DEF Inbound!Removed
  <1>7. /\ InboundInStream(m)' + in_faults <= InboundInStream(m) + in_faults'
        /\ inbox'[m].delivered + in_faults + Open(m) <= inbox[m].delivered + in_faults' + Open(m)'
    BY <1>1, <1>4, InboundKnown DEF InboundMessageBecomes
  <1> QED
    BY <1>1, <1>2, <1>3, <1>5, <1>6, <1>7, LooseStep DEF InboundMessageBecomes

\* A delivery that times out in a server's hands is a fault; one in nobody's is not.
LEMMA AckWaitStep ==
  ASSUME Inbound!InboundNatsAssumption, InboundInv, NEW m \in Messages, Inbound!AckWait(m)
  PROVE  Guarded' /\ Inbound!TypeOK'
  <1>1. Inbound!Due(m) \in {"ready", "parked"}
    BY DEF Inbound!Due
  <1>2. /\ inbox[m].state = "pending" /\ InboundMessageBecomes(m, Inbound!Due(m), inbox[m].delivered)
        /\ UNCHANGED <<servers, reserved, enqueued, heard, stopping>>
    BY <1>1, InboundKnown, InboundMessageEffects DEF Inbound!AckWait, Inbound!MessageStates
  <1>3. /\ in_faults' \in Nat /\ in_faults' \in 0..MaxInFaults /\ in_faults <= in_faults'
        /\ in_faults' = in_faults + Open(m) /\ InboundInStream(m) = 1 - Open(m)
    <2>1. CASE Inbound!InHand(m)
      BY <1>2, <2>1, FaultBounded DEF Inbound!AckWait, Open, InboundInStream
    <2>2. CASE ~Inbound!InHand(m)
      <3>1. in_faults' = in_faults /\ in_faults \in 0..MaxInFaults /\ in_faults \in Nat
        BY <2>2, InboundKnown DEF Inbound!AckWait, Inbound!TypeOK
      <3> QED
        BY <1>2, <2>2, <3>1 DEF Open, InboundInStream
    <2> QED
      BY <2>1, <2>2
  <1>4. Inbound!TypeOK'
    BY <1>2, <1>3, InboundKnown DEF Inbound!TypeOK, InboundMessageBecomes, MessageRecs
  <1>5. InboundForward
    BY <1>2, <1>3, InboundKnown DEF InboundForward, InboundMessageBecomes
  <1>6. InboundInStream(m)' \in {0, 1} /\ Open(m)' = 0
    BY <1>1, <1>2 DEF InboundInStream, Open, InboundMessageBecomes
  <1>7. StreamInv(m)'
    <2>1. inbox'[m].state = Inbound!Due(m) /\ inbox'[m].delivered = inbox[m].delivered
      BY <1>2 DEF InboundMessageBecomes
    <2>2. inbox[m].delivered \in 0..Deliveries /\ Deliveries \in Nat
      BY InboundKnown
    <2> QED
      BY <2>1, <2>2 DEF StreamInv, Inbound!Removed, Inbound!Due
  <1>8. ~Inbound!Removed(m)
    BY <1>2 DEF Inbound!Removed
  <1>9. /\ InboundInStream(m)' + in_faults <= InboundInStream(m) + in_faults'
        /\ inbox'[m].delivered + in_faults + Open(m) <= inbox[m].delivered + in_faults' + Open(m)'
    BY <1>2, <1>3, <1>6, InboundKnown DEF InboundMessageBecomes
  <1> QED
    BY <1>2, <1>4, <1>5, <1>7, <1>8, <1>9, LooseStep DEF InboundMessageBecomes

\* A delivery that reaches no server, as a fault or in a shutdown.
LEMMA DropStep ==
  ASSUME Inbound!InboundNatsAssumption, InboundInv, NEW m \in Messages,
         inbox[m].state = "ready", inbox' = Inbound!Delivered(m), UNCHANGED <<reserved, enqueued>>,
         \A s \in Servers :
           servers'[s] = servers[s] \/ (Inbound!Msg(s) = NoMessage /\ servers'[s].msg = NoMessage),
         in_faults' \in Nat, in_faults <= in_faults', stopping => stopping',
         stopping' \/ in_faults' = in_faults + 1
  PROVE  Guarded' /\ inbox' \in [Messages -> MessageRecs]
  <1>1. inbox[m].delivered < Deliveries
    BY InboundKnown DEF InboundMessageInv, StreamInv
  <1>2. InboundMessageBecomes(m, "pending", inbox[m].delivered + 1)
    BY <1>1, InboundKnown, InboundMessageEffects
  <1>3. InboundForward
    BY <1>2, InboundKnown DEF InboundForward, InboundMessageBecomes
  <1>4. InboundInStream(m) = 1 /\ InboundInStream(m)' \in {0, 1} /\ Open(m) = 0 /\ Open(m)' \in {0, 1}
    BY DEF InboundInStream, Open
  <1>5. StreamInv(m)' /\ ~Inbound!Removed(m)
    BY <1>2 DEF StreamInv, Inbound!Removed, InboundMessageBecomes
  <1>6. /\ InboundInStream(m)' + in_faults <= InboundInStream(m) + in_faults'
        /\ ~stopping' =>
             inbox'[m].delivered + in_faults + Open(m) <= inbox[m].delivered + in_faults' + Open(m)'
    BY <1>2, <1>4, InboundKnown DEF InboundMessageBecomes
  <1> QED
    BY <1>2, <1>3, <1>5, <1>6, LooseStep DEF InboundMessageBecomes

\* A server without a message changes its place, and a delivery may be dropped.
LEMMA IdleStep ==
  ASSUME Inbound!InboundNatsAssumption, InboundInv, NEW s \in Servers,
         Inbound!FetchFails(s) \/ Inbound!WakeUp(s) \/ Inbound!Stop(s)
  PROVE  Guarded' /\ Inbound!TypeOK'
  <1>1. PICK place \in {"asleep", "fetch", "stopped"} : Inbound!Goto(s, place)
    BY DEF Inbound!FetchFails, Inbound!WakeUp, Inbound!Stop
  <1>2. ServerBecomes(s, place, Inbound!Msg(s), servers[s].delivery) /\ Inbound!Msg(s) = NoMessage
    <2>1. place \in Inbound!Places
      BY DEF Inbound!Places
    <2>2. servers[s].at \in {"asleep", "fetch"}
      BY DEF Inbound!FetchFails, Inbound!WakeUp, Inbound!Stop, Inbound!At
    <2> QED
      BY <1>1, <2>1, <2>2, InboundKnown, ServerEffects
  <1>3. \A t \in Servers :
          servers'[t] = servers[t] \/ (Inbound!Msg(t) = NoMessage /\ servers'[t].msg = NoMessage)
    BY <1>2 DEF ServerBecomes
  <1>4. /\ UNCHANGED <<reserved, enqueued, heard, stopping>>
        /\ in_faults' \in Nat /\ in_faults' \in 0..MaxInFaults /\ in_faults <= in_faults'
        /\ \/ UNCHANGED inbox
           \/ /\ \E m \in Messages : inbox[m].state = "ready" /\ inbox' = Inbound!Delivered(m)
              /\ stopping' \/ in_faults' = in_faults + 1
    <2>1. CASE Inbound!FetchFails(s)
      BY <2>1, FaultBounded DEF Inbound!FetchFails
    <2>2. CASE Inbound!WakeUp(s) \/ Inbound!Stop(s)
      <3>1. in_faults' = in_faults /\ in_faults \in 0..MaxInFaults /\ in_faults \in Nat
        BY <2>2, InboundKnown DEF Inbound!WakeUp, Inbound!Stop, Inbound!TypeOK
      <3> QED
        BY <2>2, <3>1 DEF Inbound!WakeUp, Inbound!Stop
    <2> QED
      BY <2>1, <2>2
  <1>5. Guarded' /\ inbox' \in [Messages -> MessageRecs]
    <2>1. CASE UNCHANGED inbox
      <3>1. InboundForward /\ inbox \in [Messages -> MessageRecs]
        BY <1>4, <2>1, InboundKnown DEF InboundForward, Inbound!TypeOK, MessageRecs
      <3> QED
        BY <1>3, <1>4, <2>1, <3>1, QuietStep
    <2>2. ASSUME NEW m \in Messages, inbox[m].state = "ready", inbox' = Inbound!Delivered(m),
                 stopping' \/ in_faults' = in_faults + 1
          PROVE  Guarded' /\ inbox' \in [Messages -> MessageRecs]
      BY <1>3, <1>4, <2>2, DropStep
    <2> QED
      BY <1>4, <2>1, <2>2
  <1>6. Inbound!TypeOK'
    <2>1. servers' \in [Servers -> ServerRecs]
      BY <1>2 DEF ServerBecomes
    <2>2. \A t \in Servers :
            servers'[t].at \in {"handle", "reserved", "ack", "nak"} <=> servers'[t].msg # NoMessage
      BY <1>2, InboundKnown DEF ServerBecomes, Inbound!Msg
    <2> QED
      BY <1>4, <1>5, <2>1, <2>2, InboundKnown DEF Inbound!TypeOK, MessageRecs, ServerRecs, Inbound!Msg
  <1> QED
    BY <1>5, <1>6

\* The cancellation touches no message.
LEMMA ShutdownStep ==
  ASSUME Inbound!InboundNatsAssumption, InboundInv, Inbound!Shutdown PROVE Guarded' /\ Inbound!TypeOK'
  <1>1. stopping' = TRUE /\ UNCHANGED <<inbox, servers, reserved, enqueued, heard, in_faults>>
    BY DEF Inbound!Shutdown
  <1>2. InboundForward
    BY <1>1, InboundKnown DEF InboundForward
  <1>3. Inbound!TypeOK'
    BY <1>1, InboundKnown DEF Inbound!TypeOK
  <1> QED
    BY <1>1, <1>2, <1>3, QuietStep

-----------------------------------------------------------------------------
(* The steps of a server on a message.                                     *)

\* The types after a step of a server that may change one row.
LEMMA TypesKept ==
  ASSUME Inbound!InboundNatsAssumption, InboundInv, NEW s \in Servers,
         NEW at \in Inbound!Places, NEW msg, NEW delivery, ServerBecomes(s, at, msg, delivery),
         at \in {"handle", "reserved", "ack", "nak"} <=> msg # NoMessage,
         inbox' \in [Messages -> MessageRecs], reserved' \in [Messages -> Nat],
         enqueued' \in [Messages -> Nat], heard' \subseteq Messages, in_faults' \in 0..MaxInFaults,
         UNCHANGED stopping
  PROVE  Inbound!TypeOK'
  <1>1. servers' \in [Servers -> ServerRecs]
    BY DEF ServerBecomes
  <1>2. ASSUME NEW t \in Servers
        PROVE  servers'[t].at \in {"handle", "reserved", "ack", "nak"} <=> servers'[t].msg # NoMessage
    <2>1. CASE t = s
      BY <2>1 DEF ServerBecomes
    <2>2. CASE t # s
      BY <2>2, InboundKnown DEF ServerBecomes, Inbound!Msg
    <2> QED
      BY <2>1, <2>2
  <1> QED
    BY <1>1, <1>2, InboundKnown DEF Inbound!TypeOK, MessageRecs, ServerRecs, Inbound!Msg

\* A server that keeps its message keeps it in hand.
LEMMA SameHand ==
  ASSUME NEW s \in Servers, NEW at, ServerBecomes(s, at, Inbound!Msg(s), servers[s].delivery),
         NEW m, UNCHANGED inbox
  PROVE  InboundInStream(m)' = InboundInStream(m) /\ Open(m)' = Open(m)
  <1>1. Inbound!InHand(m)' <=> Inbound!InHand(m)
    BY DEF Inbound!InHand, ServerBecomes, Inbound!Msg
  <1> QED
    BY <1>1 DEF InboundInStream, Open

\* fetch_one: the server counts the delivery and the message moves to a worker.
LEMMA FetchStep ==
  ASSUME Inbound!InboundNatsAssumption, InboundInv, NEW s \in Servers, NEW m \in Messages, Inbound!fetch_one(s, m)
  PROVE  Guarded' /\ Inbound!TypeOK'
  <1> DEFINE d == inbox[m].delivered + 1
  <1>1. /\ Inbound!Msg(s) = NoMessage /\ inbox[m].state = "ready" /\ inbox[m].delivered < Deliveries
        /\ UNCHANGED <<reserved, enqueued, heard, stopping, in_faults>>
    BY InboundKnown DEF Inbound!fetch_one, Inbound!At, InboundMessageInv, StreamInv
  <1>2. d \in 0..Deliveries
    BY <1>1, InboundKnown
  <1>3. InboundMessageBecomes(m, "pending", d) /\ ServerBecomes(s, "handle", m, d)
    BY <1>1, <1>2, InboundKnown, InboundMessageEffects, ServerEffects DEF Inbound!fetch_one
  <1>4. InboundForward
    BY <1>1, <1>3, InboundKnown DEF InboundForward, InboundMessageBecomes
  <1>5. Inbound!TypeOK'
    <2>1. /\ inbox' \in [Messages -> MessageRecs] /\ "handle" \in Inbound!Places /\ m # NoMessage
          /\ reserved' \in [Messages -> Nat] /\ enqueued' \in [Messages -> Nat]
          /\ heard' \subseteq Messages /\ in_faults' \in 0..MaxInFaults
      BY <1>1, <1>3, InboundKnown DEF InboundMessageBecomes, Inbound!TypeOK, Inbound!Places
    <2> QED
      BY <1>1, <1>3, <2>1, TypesKept
  <1>6. InboundInStream(m) = 1 /\ InboundInStream(m)' = 0 /\ Open(m) = 0 /\ Open(m)' = 1
    <2>1. Inbound!InHand(m)'
      BY <1>3 DEF Inbound!InHand, ServerBecomes, InboundMessageBecomes, Inbound!Msg
    <2> QED
      BY <1>1, <1>3, <2>1 DEF InboundInStream, Open, InboundMessageBecomes
  <1>7. /\ IsFiniteSet(Active(m)')
        /\ Cardinality(Active(m)') = Cardinality(Active(m)) + 1
        /\ Cardinality(Reserving(m)') = Cardinality(Reserving(m))
        /\ Cardinality(Naking(m)') = Cardinality(Naking(m))
    <2>1. m # NoMessage
      BY InboundKnown
    <2>2. s \notin Active(m) /\ s \notin Reserving(m) /\ s \notin Naking(m)
      BY <1>1, <2>1 DEF Active, Reserving, Naking
    <2> QED
      BY <1>3, <2>2, InboundNumbers, InboundMoves DEF Is
  <1>8. InboundMessageInv(m)'
    <2>1. StreamInv(m)'
      BY <1>3 DEF InboundMessageBecomes, StreamInv, Inbound!Removed
    <2>2. InboundChanceInv(m)'
      BY <1>1, <1>6, <1>7, InboundNumbers, InboundKnown DEF InboundChanceInv
    <2>3. RowInv(m)'
      BY <1>1, <1>7, InboundNumbers, InboundKnown DEF RowInv
    <2>4. DeliveryInv(m)'
      <3>1. ~Inbound!Removed(m) /\ inbox'[m].delivered = inbox[m].delivered + 1
        BY <1>1, <1>3 DEF Inbound!Removed, InboundMessageBecomes
      <3> QED
        BY <1>1, <1>6, <1>7, <3>1, InboundNumbers, InboundKnown DEF DeliveryInv
    <2> QED
      BY <2>1, <2>2, <2>3, <2>4 DEF InboundMessageInv
  <1>9. ServerInv(s)'
    BY <1>2, <1>3, InboundKnown DEF ServerInv, ServerBecomes, InboundMessageBecomes, Inbound!Msg, Inbound!At
  <1>10. \A n \in Messages \ {m} :
           inbox'[n] = inbox[n] /\ reserved'[n] = reserved[n] /\ enqueued'[n] = enqueued[n]
    BY <1>1, <1>3 DEF InboundMessageBecomes
  <1> QED
    BY <1>1, <1>3, <1>4, <1>5, <1>8, <1>9, <1>10, OwnStep

\* A duplicate is acked because the first submission is done, or was interrupted.
LEMMA DuplicateReason ==
  ASSUME Inbound!InboundNatsAssumption, InboundInv, NEW s \in Servers, NEW m \in Messages,
         Inbound!Msg(s) = m, Inbound!At(s, "handle"), m \in Keyed, reserved[m] > 0
  PROVE  InboundReason(m)
  <1>1. s \in Active(m) /\ s \notin Reserving(m) /\ Reserving(m) \subseteq Active(m)
    BY DEF Active, Reserving, Inbound!At
  <1>2. Cardinality(Reserving(m)) <= Cardinality(Active(m) \ {s})
    <2>1. Reserving(m) \subseteq Active(m) \ {s} /\ IsFiniteSet(Active(m) \ {s})
      BY <1>1, InboundNumbers, FS_RemoveElement
    <2> QED
      BY <2>1, FS_Subset
  <1>3. Cardinality(Active(m) \ {s}) = Cardinality(Active(m)) - 1
    BY <1>1, InboundNumbers, FS_RemoveElement
  <1>4. ASSUME in_faults = 0 PROVE enqueued[m] > 0
    <2>1. reserved[m] = enqueued[m] + Cardinality(Reserving(m))
      BY <1>4, InboundNumbers
    <2>2. enqueued[m] + Cardinality(Active(m)) <= 1
      BY <1>4, InboundNumbers, InboundKnown
    <2> QED
      BY <1>2, <1>3, <2>1, <2>2, InboundNumbers, InboundKnown
  <1> QED
    BY <1>4, InboundKnown DEF InboundReason

\* How the numbers change when a server moves on with its message.
LEMMA Onward ==
  ASSUME Inbound!InboundNatsAssumption, InboundInv, NEW s \in Servers, NEW m \in Messages, Inbound!Msg(s) = m,
         NEW at, ServerBecomes(s, at, m, servers[s].delivery)
  PROVE  /\ IsFiniteSet(Active(m)')
         /\ Cardinality(Active(m)') = Cardinality(Active(m))
              + Is(at \in {"handle", "reserved", "nak"})
              - Is(servers[s].at \in {"handle", "reserved", "nak"})
         /\ Cardinality(Reserving(m)') = Cardinality(Reserving(m))
              + Is(at = "reserved") - Is(Inbound!At(s, "reserved"))
         /\ Cardinality(Naking(m)') = Cardinality(Naking(m)) + Is(at = "nak") - Is(Inbound!At(s, "nak"))
         /\ servers'[s].msg = m
  <1>1. /\ s \in Active(m) <=> servers[s].at \in {"handle", "reserved", "nak"}
        /\ s \in Reserving(m) <=> Inbound!At(s, "reserved")
        /\ s \in Naking(m) <=> Inbound!At(s, "nak")
    BY DEF Active, Reserving, Naking, Inbound!At
  <1>2. IsFiniteSet(Active(m))
    BY InboundNumbers
  <1> QED
    BY <1>1, <1>2, InboundMoves DEF Is, ServerBecomes

\* Parsed and reserved, refused by a fault, or acked as hopeless or done before.
LEMMA HandleStep ==
  ASSUME Inbound!InboundNatsAssumption, InboundInv, NEW s \in Servers, NEW m \in Messages, Inbound!Msg(s) = m, Inbound!Handle(s)
  PROVE  Guarded' /\ Inbound!TypeOK'
  <1> DEFINE d == servers[s].delivery
  <1>0. /\ Inbound!At(s, "handle") /\ m # NoMessage
        /\ UNCHANGED <<inbox, enqueued, heard, stopping>>
    BY InboundKnown DEF Inbound!Handle, Inbound!At
  <1>1. PICK place \in {"ack", "reserved", "nak"} :
          /\ Inbound!Goto(s, place)
          /\ place = "ack" => UNCHANGED <<reserved, in_faults>> /\ InboundReason(m)
          /\ place = "reserved" =>
               /\ reserved' = [reserved EXCEPT ![m] = @ + 1] /\ UNCHANGED in_faults
               /\ m \in Keyed => reserved[m] = 0
          /\ place = "nak" => Inbound!Fault /\ UNCHANGED reserved
    <2>1. CASE m \notin Valid \/ (m \in Keyed /\ reserved[m] > 0)
      <3>1. Inbound!Goto(s, "ack") /\ UNCHANGED <<reserved, in_faults>>
        BY <2>1 DEF Inbound!Handle
      <3>2. InboundReason(m)
        BY <1>0, <2>1, DuplicateReason DEF InboundReason, Inbound!Hopeless
      <3> QED
        BY <3>1, <3>2
    <2>2. CASE ~(m \notin Valid \/ (m \in Keyed /\ reserved[m] > 0))
      <3>1. m \in Keyed => reserved[m] = 0
        BY <1>0, <2>2, InboundKnown
      <3>2. \/ Inbound!Goto(s, "reserved") /\ reserved' = [reserved EXCEPT ![m] = @ + 1] /\ UNCHANGED in_faults
            \/ Inbound!Goto(s, "nak") /\ Inbound!Fault /\ UNCHANGED reserved
        BY <2>2 DEF Inbound!Handle
      <3> QED
        BY <3>1, <3>2
    <2> QED
      BY <2>1, <2>2
  <1>2. ServerBecomes(s, place, m, d)
    BY <1>1, InboundKnown, ServerEffects DEF Inbound!Places
  <1>3. /\ in_faults' \in Nat /\ in_faults' \in 0..MaxInFaults
        /\ in_faults' = in_faults + Is(place = "nak")
        /\ reserved' \in [Messages -> Nat] /\ reserved'[m] = reserved[m] + Is(place = "reserved")
        /\ \A n \in Messages \ {m} : reserved'[n] = reserved[n]
    BY <1>0, <1>1, InboundKnown, FaultBounded DEF Inbound!TypeOK, Is
  <1>4. InboundForward
    BY <1>0, <1>3, InboundKnown DEF InboundForward, Is
  <1>5. Inbound!TypeOK'
    <2>1. /\ inbox' \in [Messages -> MessageRecs] /\ place \in Inbound!Places
          /\ enqueued' \in [Messages -> Nat] /\ heard' \subseteq Messages
      BY <1>0, InboundKnown DEF Inbound!TypeOK, Inbound!Places, MessageRecs
    <2> QED
      BY <1>0, <1>2, <1>3, <2>1, TypesKept
  <1>6. InboundInStream(m)' = InboundInStream(m) /\ Open(m)' = Open(m)
    BY <1>0, <1>2, SameHand
  <1>7. /\ IsFiniteSet(Active(m)')
        /\ Cardinality(Active(m)') = Cardinality(Active(m)) - Is(place = "ack")
        /\ Cardinality(Reserving(m)') = Cardinality(Reserving(m)) + Is(place = "reserved")
        /\ Cardinality(Naking(m)') = Cardinality(Naking(m)) + Is(place = "nak")
        /\ servers'[s].msg = m
    BY <1>0, <1>2, InboundNumbers, Onward DEF Is, Inbound!At
  <1>8. InboundMessageInv(m)'
    <2>1. StreamInv(m)'
      <3>1. InboundReason(m) => InboundReason(m)'
        BY <1>0, <1>4, InboundReasonsStay
      <3> QED
        BY <1>0, <3>1, InboundKnown DEF InboundMessageInv, StreamInv, Inbound!Removed
    <2>2. InboundChanceInv(m)'
      BY <1>0, <1>3, <1>6, <1>7, InboundNumbers, InboundKnown DEF InboundChanceInv, Is
    <2>3. RowInv(m)'
      BY <1>0, <1>1, <1>3, <1>7, InboundNumbers, InboundKnown DEF RowInv, Is
    <2>4. DeliveryInv(m)'
      BY <1>0, <1>3, <1>6, <1>7, InboundNumbers, InboundKnown DEF DeliveryInv, Is, Inbound!Removed
    <2> QED
      BY <2>1, <2>2, <2>3, <2>4 DEF InboundMessageInv
  <1>9. ServerInv(s)'
    <2>1. servers'[s].delivery <= inbox'[m].delivered
      BY <1>0, <1>2, InboundKnown DEF ServerInv, ServerBecomes
    <2>2. place = "ack" => InboundReason(m)'
      BY <1>0, <1>1, <1>4, InboundReasonsStay
    <2>3. Inbound!Msg(s)' = m /\ (InboundReason(Inbound!Msg(s))' <=> InboundReason(m)')
      BY <1>7 DEF Inbound!Msg, InboundReason, Inbound!Hopeless
    <2> QED
      BY <1>2, <2>1, <2>2, <2>3 DEF ServerInv, ServerBecomes, Inbound!At
  <1> QED
    BY <1>0, <1>2, <1>3, <1>4, <1>5, <1>8, <1>9, OwnStep

\* The row is enqueued, or given back.
LEMMA SubmitStep ==
  ASSUME Inbound!InboundNatsAssumption, InboundInv, NEW s \in Servers, NEW m \in Messages, Inbound!Msg(s) = m, Inbound!Submit(s)
  PROVE  Guarded' /\ Inbound!TypeOK'
  <1> DEFINE d == servers[s].delivery
  <1>0. /\ Inbound!At(s, "reserved") /\ m # NoMessage
        /\ UNCHANGED <<inbox, stopping>>
    BY InboundKnown DEF Inbound!Submit, Inbound!At
  <1>g. Cardinality(Reserving(m)) >= 1 /\ reserved[m] >= 1
    BY <1>0, Member, InboundNumbers, InboundKnown
  <1>1. PICK place \in {"ack", "nak"}, done \in {0, 1} :
          /\ Inbound!Goto(s, place)
          /\ done = 1 =>
               /\ place = "ack" /\ enqueued' = [enqueued EXCEPT ![m] = @ + 1] /\ UNCHANGED reserved
               /\ heard' \in {heard, heard \union {m}} /\ (UNCHANGED in_faults \/ Inbound!Fault)
          /\ done = 0 =>
               /\ reserved' = [reserved EXCEPT ![m] = @ - 1] /\ UNCHANGED <<enqueued, heard>>
               /\ place = "ack" => Inbound!Hopeless(m) /\ UNCHANGED in_faults
               /\ place = "nak" => Inbound!Fault
    <2>1. CASE m \notin Fetchable
      <3>1. /\ Inbound!Goto(s, "ack") /\ reserved' = [reserved EXCEPT ![m] = @ - 1]
            /\ UNCHANGED <<enqueued, heard, in_faults>> /\ Inbound!Hopeless(m)
        BY <2>1 DEF Inbound!Submit, Inbound!AfterError, Inbound!Hopeless
      <3> QED
        BY <3>1
    <2>2. CASE /\ Inbound!Goto(s, "ack") /\ enqueued' = [enqueued EXCEPT ![m] = @ + 1] /\ UNCHANGED reserved
               /\ heard' \in {heard, heard \union {m}} /\ (UNCHANGED in_faults \/ Inbound!Fault)
      BY <2>2
    <2>3. CASE /\ Inbound!Goto(s, "nak") /\ reserved' = [reserved EXCEPT ![m] = @ - 1]
               /\ UNCHANGED <<enqueued, heard>> /\ Inbound!Fault
      BY <2>3
    <2> QED
      BY <2>1, <2>2, <2>3 DEF Inbound!Submit, Inbound!AfterError
  <1>2. ServerBecomes(s, place, m, d)
    BY <1>1, InboundKnown, ServerEffects DEF Inbound!Places
  <1>3. /\ in_faults' \in Nat /\ in_faults' \in 0..MaxInFaults /\ in_faults <= in_faults'
        /\ place = "nak" => in_faults' = in_faults + 1
    BY <1>1, InboundKnown, FaultBounded DEF Inbound!TypeOK
  <1>r. /\ reserved' \in [Messages -> Nat] /\ reserved'[m] = reserved[m] - (1 - done)
        /\ \A n \in Messages \ {m} : reserved'[n] = reserved[n]
    <2>1. reserved \in [Messages -> Nat] /\ reserved[m] - 1 \in Nat
      BY <1>0, <1>g, InboundKnown DEF Inbound!TypeOK
    <2>2. CASE done = 1
      BY <1>1, <2>1, <2>2, InboundKnown DEF Inbound!TypeOK
    <2>3. CASE done = 0
      BY <1>0, <1>1, <2>1, <2>3
    <2> QED
      BY <2>2, <2>3
  <1>q. /\ enqueued' \in [Messages -> Nat] /\ enqueued'[m] = enqueued[m] + done
        /\ \A n \in Messages \ {m} : enqueued'[n] = enqueued[n]
    <2>1. enqueued \in [Messages -> Nat]
      BY InboundKnown DEF Inbound!TypeOK
    <2>2. CASE done = 1
      BY <1>0, <1>1, <2>1, <2>2
    <2>3. CASE done = 0
      BY <1>0, <1>1, <2>1, <2>3
    <2> QED
      BY <2>2, <2>3
  <1>4. InboundForward
    BY <1>0, <1>3, <1>q, InboundKnown DEF InboundForward
  <1>5. Inbound!TypeOK'
    <2>1. /\ inbox' \in [Messages -> MessageRecs] /\ place \in Inbound!Places /\ heard' \subseteq Messages
      BY <1>0, <1>1, InboundKnown DEF Inbound!TypeOK, Inbound!Places, MessageRecs
    <2> QED
      BY <1>0, <1>2, <1>3, <1>r, <1>q, <2>1, TypesKept
  <1>6. InboundInStream(m)' = InboundInStream(m) /\ Open(m)' = Open(m)
    BY <1>0, <1>2, SameHand
  <1>7. /\ IsFiniteSet(Active(m)')
        /\ Cardinality(Active(m)') = Cardinality(Active(m)) - Is(place = "ack")
        /\ Cardinality(Reserving(m)') = Cardinality(Reserving(m)) - 1
        /\ Cardinality(Naking(m)') = Cardinality(Naking(m)) + Is(place = "nak")
        /\ servers'[s].msg = m
    BY <1>0, <1>2, InboundNumbers, Onward DEF Is, Inbound!At
  <1>8. InboundMessageInv(m)'
    <2>1. StreamInv(m)'
      <3>1. InboundReason(m) => InboundReason(m)'
        BY <1>0, <1>4, InboundReasonsStay
      <3> QED
        BY <1>0, <3>1, InboundKnown DEF InboundMessageInv, StreamInv, Inbound!Removed
    <2>2. InboundChanceInv(m)'
      <3>1. done <= Is(place = "ack")
        BY <1>1 DEF Is
      <3> QED
        BY <1>0, <1>3, <1>q, <1>6, <1>7, <3>1, InboundNumbers, InboundKnown DEF InboundChanceInv, Is
    <2>3. RowInv(m)'
      BY <1>0, <1>3, <1>r, <1>q, <1>7, InboundNumbers, InboundKnown DEF RowInv
    <2>4. DeliveryInv(m)'
      BY <1>0, <1>3, <1>6, <1>7, InboundNumbers, InboundKnown DEF DeliveryInv, Is, Inbound!Removed
    <2> QED
      BY <2>1, <2>2, <2>3, <2>4 DEF InboundMessageInv
  <1>9. ServerInv(s)'
    <2>1. servers'[s].delivery <= inbox'[m].delivered
      BY <1>0, <1>2, InboundKnown DEF ServerInv, ServerBecomes
    <2>2. place = "ack" => InboundReason(m)'
      BY <1>0, <1>1, <1>q, InboundKnown DEF InboundReason, Inbound!Hopeless
    <2>3. Inbound!Msg(s)' = m /\ (InboundReason(Inbound!Msg(s))' <=> InboundReason(m)')
      BY <1>7 DEF Inbound!Msg, InboundReason, Inbound!Hopeless
    <2> QED
      BY <1>2, <2>1, <2>2, <2>3 DEF ServerInv, ServerBecomes, Inbound!At
  <1> QED
    BY <1>0, <1>2, <1>r, <1>q, <1>4, <1>5, <1>8, <1>9, OwnStep

\* A server lets go of its message, with an answer or by a fault.
LEMMA LetGo ==
  ASSUME Inbound!InboundNatsAssumption, InboundInv, NEW s \in Servers, NEW m \in Messages, Inbound!Msg(s) = m,
         servers' = [servers EXCEPT ![s] = Inbound!Free], UNCHANGED <<reserved, enqueued, heard, stopping>>,
         \/ Inbound!At(s, "ack") /\ inbox' = [inbox EXCEPT ![m].state = "removed"] /\ UNCHANGED in_faults
         \/ /\ Inbound!At(s, "nak") /\ inbox[m].state = "pending"
            /\ inbox' = [inbox EXCEPT ![m].state = Inbound!Due(m)] /\ UNCHANGED in_faults
         \/ Inbound!At(s, "nak") /\ inbox[m].state # "pending" /\ UNCHANGED <<inbox, in_faults>>
         \/ UNCHANGED inbox /\ Inbound!Fault
  PROVE  Guarded' /\ Inbound!TypeOK'
  <1>0. m # NoMessage
    BY InboundKnown
  <1>1. ServerBecomes(s, "fetch", NoMessage, 0)
    BY InboundKnown, ServerEffects
  <1>2. PICK state \in Inbound!MessageStates :
          /\ InboundMessageBecomes(m, state, inbox[m].delivered)
          /\ \/ Inbound!At(s, "ack") /\ state = "removed" /\ UNCHANGED in_faults
             \/ Inbound!At(s, "nak") /\ inbox[m].state = "pending" /\ state = Inbound!Due(m) /\ UNCHANGED in_faults
             \/ /\ Inbound!At(s, "nak") /\ inbox[m].state # "pending" /\ state = inbox[m].state
                /\ UNCHANGED in_faults
             \/ state = inbox[m].state /\ Inbound!Fault
    <2>1. UNCHANGED inbox => InboundMessageBecomes(m, inbox[m].state, inbox[m].delivered)
      BY InboundKnown DEF InboundMessageBecomes, Inbound!TypeOK, MessageRecs
    <2>2. Inbound!Due(m) \in Inbound!MessageStates /\ "removed" \in Inbound!MessageStates /\ inbox[m].state \in Inbound!MessageStates
      BY InboundKnown DEF Inbound!Due, Inbound!MessageStates, MessageRecs
    <2>3. CASE Inbound!At(s, "ack") /\ inbox' = [inbox EXCEPT ![m].state = "removed"] /\ UNCHANGED in_faults
      BY <2>2, <2>3, InboundKnown, InboundMessageEffects
    <2>4. CASE /\ Inbound!At(s, "nak") /\ inbox[m].state = "pending"
               /\ inbox' = [inbox EXCEPT ![m].state = Inbound!Due(m)] /\ UNCHANGED in_faults
      BY <2>2, <2>4, InboundKnown, InboundMessageEffects
    <2>5. CASE \/ Inbound!At(s, "nak") /\ inbox[m].state # "pending" /\ UNCHANGED <<inbox, in_faults>>
               \/ UNCHANGED inbox /\ Inbound!Fault
      BY <2>1, <2>2, <2>5
    <2> QED
      BY <2>3, <2>4, <2>5
  <1>3. /\ in_faults' \in Nat /\ in_faults' \in 0..MaxInFaults /\ in_faults <= in_faults'
        /\ Inbound!Fault => in_faults' = in_faults + 1
    <2>1. CASE UNCHANGED in_faults
      BY <2>1, InboundKnown DEF Inbound!TypeOK, Inbound!Fault
    <2>2. CASE Inbound!Fault
      BY <2>2, FaultBounded
    <2> QED
      BY <1>2, <2>1, <2>2
  <1>4. InboundForward
    BY <1>2, <1>3, InboundKnown DEF InboundForward, InboundMessageBecomes
  <1>5. Inbound!TypeOK'
    <2>1. /\ inbox' \in [Messages -> MessageRecs] /\ "fetch" \in Inbound!Places
          /\ reserved' \in [Messages -> Nat] /\ enqueued' \in [Messages -> Nat] /\ heard' \subseteq Messages
      BY <1>2, InboundKnown DEF InboundMessageBecomes, Inbound!TypeOK, Inbound!Places
    <2> QED
      BY <1>1, <1>3, <2>1, TypesKept
  <1>6. /\ IsFiniteSet(Active(m)')
        /\ Cardinality(Active(m)') <= Cardinality(Active(m)) /\ Cardinality(Active(m)') \in Nat
        /\ Inbound!At(s, "nak") => Cardinality(Active(m)') = Cardinality(Active(m)) - 1
        /\ Cardinality(Reserving(m)') <= Cardinality(Reserving(m))
        /\ ~Inbound!At(s, "reserved") => Cardinality(Reserving(m)') = Cardinality(Reserving(m))
        /\ Cardinality(Reserving(m)') \in Nat
        /\ Cardinality(Naking(m)') <= Cardinality(Naking(m)) /\ Cardinality(Naking(m)') \in Nat
        /\ Inbound!At(s, "nak") => Cardinality(Naking(m)') = Cardinality(Naking(m)) - 1
    <2>1. /\ s \in Active(m) <=> servers[s].at \in {"handle", "reserved", "nak"}
          /\ s \in Reserving(m) <=> Inbound!At(s, "reserved")
          /\ s \in Naking(m) <=> Inbound!At(s, "nak")
      BY DEF Active, Reserving, Naking, Inbound!At
    <2>2. /\ IsFiniteSet(Active(m)')
          /\ Cardinality(Active(m)') = Cardinality(Active(m)) - Is(s \in Active(m))
          /\ Cardinality(Reserving(m)') = Cardinality(Reserving(m)) - Is(s \in Reserving(m))
          /\ Cardinality(Naking(m)') = Cardinality(Naking(m)) - Is(s \in Naking(m))
      BY <1>0, <1>1, InboundNumbers, InboundMoves DEF Is
    <2>3. /\ s \in Active(m) => Cardinality(Active(m)) >= 1
          /\ s \in Reserving(m) => Cardinality(Reserving(m)) >= 1
          /\ s \in Naking(m) => Cardinality(Naking(m)) >= 1
      BY <2>1, Member
    <2> QED
      BY <2>1, <2>2, <2>3, InboundNumbers DEF Is, Inbound!At
  <1>7. /\ InboundInStream(m)' \in {0, 1} /\ Open(m)' \in {0, 1}
        /\ state # "pending" => Open(m)' = 0
        /\ state = "removed" => InboundInStream(m)' = 0
        /\ state # "pending" /\ state = inbox[m].state => InboundInStream(m)' = InboundInStream(m) /\ Open(m) = 0
    BY <1>2 DEF InboundInStream, Open, InboundMessageBecomes
  <1>s. /\ ~Inbound!At(s, "nak") \/ ~Inbound!At(s, "ack")
        /\ Inbound!At(s, "nak") \/ Inbound!At(s, "ack") => ~Inbound!At(s, "reserved")
        /\ Inbound!Due(m) # "pending"
    BY DEF Inbound!At, Inbound!Due
  <1>8. InboundMessageInv(m)'
    <2>1. StreamInv(m)'
      <3>1. inbox'[m].state = state /\ inbox'[m].delivered = inbox[m].delivered
        BY <1>2 DEF InboundMessageBecomes
      <3>2. state = "removed" => InboundReason(m)'
        <4>1. state = "removed" => Inbound!At(s, "ack") \/ Inbound!Removed(m)
          BY <1>2 DEF Inbound!Removed, Inbound!Due
        <4>2. Inbound!At(s, "ack") => InboundReason(m)
          BY <1>0, InboundKnown DEF ServerInv
        <4>3. Inbound!Removed(m) => InboundReason(m)
          BY InboundKnown DEF InboundMessageInv, StreamInv
        <4> QED
          BY <1>4, <4>1, <4>2, <4>3, InboundReasonsStay
      <3>3. \/ state = inbox[m].state
            \/ state = "removed"
            \/ state = (IF inbox[m].delivered < Deliveries THEN "ready" ELSE "parked")
        BY <1>2 DEF Inbound!Due
      <3>4. /\ inbox[m].delivered \in 0..Deliveries /\ Deliveries \in Nat
            /\ StreamInv(m)
        BY InboundKnown DEF InboundMessageInv
      <3> QED
        BY <3>1, <3>2, <3>3, <3>4 DEF StreamInv, Inbound!Removed
    <2>2. InboundChanceInv(m)'
      <3>1. Cardinality(Active(m)') + InboundInStream(m)' + in_faults <= Cardinality(Active(m)) + InboundInStream(m) + in_faults'
        BY <1>2, <1>3, <1>6, <1>7, InboundNumbers, InboundKnown
      <3> QED
        BY <1>3, <1>6, <1>7, <3>1, InboundNumbers, InboundKnown DEF InboundChanceInv
    <2>3. RowInv(m)'
      <3>1. in_faults' = 0 => in_faults = 0 /\ Cardinality(Reserving(m)') = Cardinality(Reserving(m))
        BY <1>2, <1>3, <1>6, <1>s, InboundKnown
      <3> QED
        BY <1>6, <3>1, InboundNumbers, InboundKnown DEF RowInv
    <2>4. DeliveryInv(m)'
      <3>1. ASSUME ~Inbound!Removed(m)'
            PROVE  /\ ~Inbound!Removed(m)
                   /\ Cardinality(Naking(m)') + in_faults + Open(m)
                        <= Cardinality(Naking(m)) + in_faults' + Open(m)'
        <4>1. state # "removed"
          BY <1>2, <3>1 DEF Inbound!Removed, InboundMessageBecomes
        <4>2. ~Inbound!Removed(m)
          BY <1>2, <4>1 DEF Inbound!Removed
        <4> QED
          BY <1>2, <1>3, <1>6, <1>7, <1>s, <4>1, <4>2, InboundNumbers, InboundKnown
      <3>2. inbox'[m].delivered = inbox[m].delivered
        BY <1>2 DEF InboundMessageBecomes
      <3> QED
        BY <1>3, <1>6, <1>7, <3>1, <3>2, InboundNumbers, InboundKnown DEF DeliveryInv
    <2> QED
      BY <2>1, <2>2, <2>3, <2>4 DEF InboundMessageInv
  <1>9. ServerInv(s)'
    BY <1>1 DEF ServerInv, ServerBecomes, Inbound!Msg
  <1>10. \A n \in Messages \ {m} :
           inbox'[n] = inbox[n] /\ reserved'[n] = reserved[n] /\ enqueued'[n] = enqueued[n]
    BY <1>2 DEF InboundMessageBecomes
  <1> QED
    BY <1>1, <1>4, <1>5, <1>8, <1>9, <1>10, OwnStep

\* The reply and the ack, nak or term of a message that is done with.
LEMMA RespondStep ==
  ASSUME Inbound!InboundNatsAssumption, InboundInv, NEW s \in Servers, Inbound!Respond(s)
  PROVE  Guarded' /\ Inbound!TypeOK'
  <1>1. PICK m \in Messages : Inbound!Msg(s) = m
    BY InboundKnown DEF Inbound!Respond, Inbound!At
  <1>2. \/ Inbound!At(s, "ack") /\ inbox' = [inbox EXCEPT ![m].state = "removed"] /\ UNCHANGED in_faults
        \/ /\ Inbound!At(s, "nak") /\ UNCHANGED in_faults
           /\ inbox' = [inbox EXCEPT ![m].state =
                           IF inbox[m].state = "pending" THEN Inbound!Due(m) ELSE inbox[m].state]
        \/ UNCHANGED inbox /\ Inbound!Fault
    BY <1>1 DEF Inbound!Respond
  <1>3. inbox' = [inbox EXCEPT ![m].state = inbox[m].state] => UNCHANGED inbox
    BY InboundKnown DEF Inbound!TypeOK, MessageRecs
  <1>4. /\ servers' = [servers EXCEPT ![s] = Inbound!Free]
        /\ UNCHANGED <<reserved, enqueued, heard, stopping>>
    BY DEF Inbound!Respond
  <1>5. CASE inbox[m].state = "pending"
    BY <1>1, <1>2, <1>4, <1>5, LetGo
  <1>6. CASE inbox[m].state # "pending"
    BY <1>1, <1>2, <1>3, <1>4, <1>6, LetGo
  <1> QED
    BY <1>5, <1>6

\* A server dies, and its message stays pending until ack_wait.
LEMMA CrashStep ==
  ASSUME Inbound!InboundNatsAssumption, InboundInv, NEW s \in Servers, Inbound!Crash(s)
  PROVE  Guarded' /\ Inbound!TypeOK'
  <1>0. /\ Inbound!Fault /\ servers' = [servers EXCEPT ![s] = Inbound!Free]
        /\ UNCHANGED <<inbox, reserved, enqueued, heard, stopping>>
    BY DEF Inbound!Crash
  <1>1. CASE Inbound!Msg(s) \in Messages
    BY <1>0, <1>1, LetGo
  <1>2. CASE Inbound!Msg(s) = NoMessage
    <2>1. ServerBecomes(s, "fetch", NoMessage, 0)
      BY <1>0, InboundKnown, ServerEffects
    <2>2. InboundForward
      BY <1>0, FaultBounded, InboundKnown DEF InboundForward
    <2>3. /\ inbox' \in [Messages -> MessageRecs] /\ "fetch" \in Inbound!Places
          /\ reserved' \in [Messages -> Nat] /\ enqueued' \in [Messages -> Nat] /\ heard' \subseteq Messages
          /\ in_faults' \in 0..MaxInFaults
      BY <1>0, FaultBounded, InboundKnown DEF Inbound!TypeOK, Inbound!Places, MessageRecs
    <2>4. Inbound!TypeOK'
      BY <1>0, <2>1, <2>3, TypesKept
    <2>5. \A t \in Servers :
            servers'[t] = servers[t] \/ (Inbound!Msg(t) = NoMessage /\ servers'[t].msg = NoMessage)
      BY <1>2, <2>1 DEF ServerBecomes
    <2> QED
      BY <1>0, <2>2, <2>4, <2>5, QuietStep
  <1> QED
    BY <1>1, <1>2, InboundKnown

-----------------------------------------------------------------------------
(* The theorems.                                                           *)

\* Nothing is sent: every message has its one chance.
LEMMA InboundInvInit == Inbound!InboundNatsAssumption /\ Inbound!Init => InboundInv
  <1> SUFFICES ASSUME Inbound!InboundNatsAssumption, Inbound!Init PROVE InboundInv
    OBVIOUS
  <1>1. Inbound!TypeOK
    <2>1. 0 \in 0..Deliveries /\ 0 \in 0..MaxInFaults
      BY DEF Inbound!InboundNatsAssumption
    <2>2. inbox \in [Messages -> [state : Inbound!MessageStates, delivered : 0..Deliveries]]
      BY <2>1 DEF Inbound!Init, Inbound!MessageStates
    <2>3. servers \in [Servers -> [at : Inbound!Places, msg : Messages \union {NoMessage},
                                   delivery : 0..Deliveries]]
      BY <2>1 DEF Inbound!Init, Inbound!Places, Inbound!Free
    <2>4. \A s \in Servers :
            servers[s].at \in {"handle", "reserved", "ack", "nak"} <=> servers[s].msg # NoMessage
      BY DEF Inbound!Init, Inbound!Free
    <2> QED
      BY <2>1, <2>2, <2>3, <2>4 DEF Inbound!Init, Inbound!TypeOK
  <1>2. \A s \in Servers : Inbound!Msg(s) = NoMessage /\ servers[s].at = "fetch"
    BY DEF Inbound!Init, Inbound!Msg, Inbound!Free
  <1>3. ASSUME NEW m \in Messages PROVE InboundMessageInv(m)
    <2>1. Active(m) = {} /\ Reserving(m) = {} /\ Naking(m) = {}
      BY <1>2 DEF Active, Reserving, Naking, Inbound!At
    <2>2. InboundInStream(m) = 1 /\ Open(m) = 0
      BY DEF Inbound!Init, InboundInStream, Open
    <2> QED
      BY <2>1, <2>2, FS_EmptySet
      DEF Inbound!Init, InboundMessageInv, StreamInv, InboundChanceInv, RowInv, DeliveryInv, Inbound!Removed
  <1>4. \A s \in Servers : ServerInv(s)
    BY <1>2 DEF ServerInv
  <1> QED
    BY <1>1, <1>3, <1>4 DEF InboundInv

\* Every step keeps the invariant.
LEMMA InboundInvNext == Inbound!InboundNatsAssumption /\ InboundInv /\ [Inbound!Next]_Inbound!vars => InboundInv'
  <1> SUFFICES ASSUME Inbound!InboundNatsAssumption, InboundInv, [Inbound!Next]_Inbound!vars PROVE Guarded' /\ Inbound!TypeOK'
    BY DEF InboundInv, Guarded
  <1>1. ASSUME NEW m \in Messages, Inbound!Publish(m) \/ Inbound!AckWait(m) PROVE Guarded' /\ Inbound!TypeOK'
    BY <1>1, PublishStep, AckWaitStep
  <1>2. ASSUME NEW s \in Servers, Inbound!ServerStep(s) \/ Inbound!FetchFails(s) \/ Inbound!Crash(s)
        PROVE  Guarded' /\ Inbound!TypeOK'
    <2>1. ASSUME Inbound!Handle(s) \/ Inbound!Submit(s) PROVE Guarded' /\ Inbound!TypeOK'
      <3>1. Inbound!Msg(s) \in Messages
        BY <2>1, InboundKnown DEF Inbound!Handle, Inbound!Submit, Inbound!At
      <3> QED
        BY <2>1, <3>1, HandleStep, SubmitStep
    <2> QED
      BY <1>2, <2>1, FetchStep, IdleStep, RespondStep, CrashStep DEF Inbound!ServerStep
  <1>3. CASE UNCHANGED Inbound!vars
    <2>1. Inbound!TypeOK' /\ InboundForward
      BY <1>3, InboundKnown DEF Inbound!vars, Inbound!TypeOK, InboundForward
    <2> QED
      BY <1>3, <2>1, QuietStep DEF Inbound!vars
  <1> QED
    BY <1>1, <1>2, <1>3, ShutdownStep DEF Inbound!Next

\* The invariant of handle_message and its redeliveries: how many chances, rows and
\* deliveries a message can have for the faults there have been.
THEOREM InboundInvariant == Inbound!InboundNatsAssumption => (Inbound!Spec => []InboundInv)
  <1> SUFFICES ASSUME Inbound!InboundNatsAssumption PROVE Inbound!Spec => []InboundInv
    OBVIOUS
  <1>1. Inbound!Init => InboundInv
    BY InboundInvInit
  <1>2. InboundInv /\ [Inbound!Next]_Inbound!vars => InboundInv'
    BY InboundInvNext
  <1> QED
    BY <1>1, <1>2, PTL DEF Inbound!Spec

\* A submission that handle_message acks was enqueued or never can be, unless it has
\* an idempotency key and a fault interrupted it.
THEOREM InboundDropsNothing == Inbound!InboundNatsAssumption => (Inbound!Spec => []Inbound!NothingDropped)
  <1> SUFFICES ASSUME Inbound!InboundNatsAssumption PROVE Inbound!Spec => []Inbound!NothingDropped
    OBVIOUS
  <1>1. InboundInv => Inbound!NothingDropped
    BY DEF InboundInv, InboundMessageInv, StreamInv, InboundReason, Inbound!NothingDropped
  <1>2. Inbound!Spec => []InboundInv
    BY InboundInvariant
  <1> QED
    BY <1>1, <1>2, PTL

\* A redelivered submission is enqueued again at most once for each fault, and never
\* when it has an idempotency key.
THEOREM InboundCopiesAreBounded == Inbound!InboundNatsAssumption => (Inbound!Spec => []Inbound!CopiesBounded)
  <1> SUFFICES ASSUME Inbound!InboundNatsAssumption PROVE Inbound!Spec => []Inbound!CopiesBounded
    OBVIOUS
  <1>1. InboundInv => Inbound!CopiesBounded
    <2> SUFFICES ASSUME InboundInv, NEW m \in Messages
                 PROVE  enqueued[m] <= 1 + in_faults /\ (m \in Keyed => enqueued[m] <= 1)
      BY DEF Inbound!CopiesBounded
    <2>1. /\ enqueued[m] \in Nat /\ reserved[m] \in Nat /\ in_faults \in Nat /\ InboundInStream(m) \in {0, 1}
          /\ Cardinality(Active(m)) \in Nat /\ Cardinality(Reserving(m)) \in Nat
      BY InboundKnown, InboundNumbers
    <2>2. /\ enqueued[m] + Cardinality(Active(m)) + InboundInStream(m) <= 1 + in_faults
          /\ enqueued[m] + Cardinality(Reserving(m)) <= reserved[m]
          /\ m \in Keyed => reserved[m] <= 1
      BY InboundNumbers
    <2> QED
      BY <2>1, <2>2
  <1>2. Inbound!Spec => []InboundInv
    BY InboundInvariant
  <1> QED
    BY <1>1, <1>2, PTL

\* JetStream parks a submission only when each of its deliveries met a fault: every
\* other delivery is answered by handle_message.
THEOREM InboundParksByFaults == Inbound!InboundNatsAssumption => (Inbound!Spec => []Inbound!ParkedByFaults)
  <1> SUFFICES ASSUME Inbound!InboundNatsAssumption PROVE Inbound!Spec => []Inbound!ParkedByFaults
    OBVIOUS
  <1>1. InboundInv => Inbound!ParkedByFaults
    <2> SUFFICES ASSUME InboundInv, NEW m \in Messages, inbox[m].state = "parked", ~stopping
                 PROVE  in_faults >= Deliveries
      BY DEF Inbound!ParkedByFaults
    <2>1. inbox[m].delivered = Deliveries /\ ~Inbound!Removed(m) /\ Open(m) = 0
      BY InboundKnown DEF InboundMessageInv, StreamInv, Inbound!Removed, Open
    <2>2. inbox[m].delivered + Cardinality(Naking(m)) <= in_faults + Open(m)
      BY <2>1, InboundNumbers
    <2> QED
      BY <2>1, <2>2, InboundNumbers, InboundKnown
  <1>2. Inbound!Spec => []InboundInv
    BY InboundInvariant
  <1> QED
    BY <1>1, <1>2, PTL

-----------------------------------------------------------------------------
(* The parts together, as the run checks them.                             *)

\* The parts whose constants are those of the run.
Garbles == part = "garbled"
Lacks   == part = "keyless"

\* Each part is what its module specifies, the others resting, and stays the one that moves.
LEMMA PartsAreQueues ==
  /\ PartsSpec => Spec
  /\ PartsSpec /\ ~Garbles => Nats!Spec
  /\ PartsSpec => Inbound!Spec \/ []Lacks
  <1>1. PartsInit => Init /\ Nats!Init /\ Inbound!Init
    BY DEF PartsInit
  <1>2. [PartsNext]_allVars => [Next]_vars
    BY DEF PartsNext, allVars
  <1>3. [PartsNext]_allVars => (Garbles <=> Garbles') /\ (Lacks <=> Lacks')
    BY DEF PartsNext, allVars, Garbles, Lacks
  <1>4. ~Garbles /\ [PartsNext]_allVars => [Nats!Next]_Nats!vars
    BY DEF PartsNext, allVars, nats, Nats!vars, Garbles
  <1>5. ~Lacks /\ [PartsNext]_allVars => [Inbound!Next]_Inbound!vars
    BY DEF PartsNext, allVars, inbound, Inbound!vars, Lacks
  <1> QED
    BY <1>1, <1>2, <1>3, <1>4, <1>5, PTL DEF PartsSpec, Spec, Nats!Spec, Inbound!Spec

\* What the memory queue promises, as the run checks it: a behaviour of any part is one
\* of the memory queue.
THEOREM MemoryPartIsSafe == PartsSpec => []MemorySafe /\ KeepsPromise
  BY PartsAreQueues, MemoryIsSafe, Refinement, PTL

\* What the queue over NATS promises of every e-mail, whatever is lost, late, repeated
\* or restarted (queue.rs, and the worker on it): nothing is lost, sent more often or
\* parked but by faults, and it keeps the promise of AtLeastOnce.
THEOREM NatsIsSafe == PartsSpec /\ ~Garbles => NatsSafe
  <1>1. NatsInv => Nats!TypeOK
    BY DEF NatsInv
  <1>2. Nats!TypeOK /\ Nats!NothingLost /\ Nats!CopiesBounded /\ Nats!ParkedByFault =>
          (part # "garbled" => Nats!NatsSafe)
    BY DEF Nats!NatsSafe
  <1>3. Nats!NatsQueueAssumption
    BY PartsAssumption
  <1>4. Nats!Spec => []NatsInv /\ []Nats!NothingLost /\ []Nats!CopiesBounded /\ []Nats!ParkedByFault
    BY <1>3, NatsInvariant, NatsLosesNothing, NatsCopiesAreBounded, NatsParksByFault, PTL
  <1>5. Nats!Spec => Nats!KeepsPromise
    BY <1>3, NatsRefinement
  <1> QED
    BY <1>1, <1>2, <1>4, <1>5, PartsAreQueues, PTL DEF NatsSafe

\* What the submissions over NATS promise, the types included: no fault, redelivery or
\* shutdown drops a submission, multiplies it or gives it up unexcused (handle_message).
THEOREM InboundIsSafe == PartsSpec => []InboundSafe
  <1>1. InboundInv => Inbound!TypeOK
    BY DEF InboundInv
  <1>2. /\ Inbound!TypeOK /\ Inbound!NothingDropped /\ Inbound!CopiesBounded /\ Inbound!ParkedByFaults
             => InboundSafe
        /\ Lacks => InboundSafe
    BY DEF InboundSafe, Inbound!InboundSafe, Lacks
  <1>3. Inbound!InboundNatsAssumption
    BY PartsAssumption
  <1>4. Inbound!Spec => /\ []InboundInv /\ []Inbound!NothingDropped
                        /\ []Inbound!CopiesBounded /\ []Inbound!ParkedByFaults
    BY <1>3, InboundInvariant, InboundDropsNothing, InboundCopiesAreBounded, InboundParksByFaults, PTL
  <1> QED
    BY <1>1, <1>2, <1>4, PartsAreQueues, PTL
===============================================================================
