----------------------------- MODULE SendingProofs -----------------------------
(***************************************************************************)
(* Proofs about the parts of one delivery. RoutedSender: quotas are        *)
(* overshot by less than the number of concurrent sends and one more for   *)
(* each fault, and a quota neither drops an e-mail nor is bypassed without *)
(* need. SmtpDelivery and Rendering: what is sent is what was asked, to    *)
(* all of its recipients or none, with every part and every attachment.    *)
(* SenderUsage: quotas hold in every window, and listed counts are true.   *)
(***************************************************************************)
EXTENDS MCSending, FiniteSetTheorems, TLAPS

\* What one step does to the record of one slot, when the rest stay as they are.
LEMMA OneSlot ==
  ASSUME NEW s \in Slots, NEW t \in Slots, NEW u, send \in [Slots -> SendRecs],
         send' = [send EXCEPT ![s] = u]
  PROVE  send'[t] = IF t = s THEN u ELSE send[t]
  OBVIOUS

\* Candidates and their ranges are routes and ranges of the configuration.
LEMMA CandidatesType ==
  \A d : Candidates(d) \subseteq Routes /\ {Window[r] : r \in Candidates(d)} \subseteq Windows
  BY DEF Candidates, Windows

\* A slot without a send has a record of the right type.
LEMMA IdleType ==
  ASSUME NEW d \in Domains
  PROVE  Idle(d) \in SendRecs
  BY DEF Idle, SendRecs, Places

-----------------------------------------------------------------------------
(* Types.                                                                  *)

\* The initial state is typed.
LEMMA TypedInit == Init => TypeOK
  BY IdleType, RoutesAssumption DEF Init, TypeOK, Idle, SendRecs

\* A step that moves one slot to a typed record keeps the send table typed.
LEMMA SendTyped ==
  ASSUME NEW s \in Slots, NEW u \in SendRecs, TypeOK,
         u.at = "record" <=> u.by \in Routes,
         send' = [send EXCEPT ![s] = u]
  PROVE  /\ send' \in [Slots -> SendRecs]
         /\ \A t \in Slots : send'[t].at = "record" <=> send'[t].by \in Routes
  BY OneSlot DEF TypeOK

\* A fault is counted up to its bound.
LEMMA FaultTyped ==
  ASSUME TypeOK, Fault \/ NoFault
  PROVE  faults' \in 0..MaxFaults /\ faults <= faults' /\ (Fault => faults' = faults + 1)
  BY RoutesAssumption DEF TypeOK, Fault, NoFault

\* Steps keep the types.
LEMMA TypedNext == TypeOK /\ [Next]_vars => TypeOK'
  <1> SUFFICES ASSUME TypeOK, [Next]_vars PROVE TypeOK'
    OBVIOUS
  <1> USE RoutesAssumption
  <1>1. ASSUME NEW s \in Slots, NEW d \in Domains, Begin(s, d) PROVE TypeOK'
    <2> DEFINE u == [Idle(d) EXCEPT !.at = IF Candidates(d) = {} THEN "failed" ELSE "first"]
    <2>1. u \in SendRecs /\ u.at # "record" /\ u.by = NoRoute
      BY IdleType DEF Idle, SendRecs, Places
    <2>2. u.at = "record" <=> u.by \in Routes
      BY <2>1
    <2>3. send' = [send EXCEPT ![s] = u]
      BY <1>1 DEF Begin
    <2> HIDE DEF u
    <2> QED
      BY <1>1, <2>1, <2>2, <2>3, SendTyped DEF Begin, TypeOK
  <1>2. ASSUME NEW s \in Slots, NEW g \in Windows, CountUsage(s, g) PROVE TypeOK'
    <2>1. PICK over \in SUBSET Routes :
            send' = [send EXCEPT ![s] = [send[s] EXCEPT
                       !.counted = @ \union {g}, !.over = @ \union over]]
      <3>1. CASE send' = [send EXCEPT ![s].counted = @ \union {g}]
        <4>1. send[s] \in SendRecs
          BY DEF TypeOK
        <4>2. [send[s] EXCEPT !.counted = @ \union {g}]
                = [send[s] EXCEPT !.counted = @ \union {g}, !.over = @ \union {}]
          BY <4>1 DEF SendRecs
        <4>3. send' = [send EXCEPT ![s] = [send[s] EXCEPT !.counted = @ \union {g}]]
          BY <3>1
        <4>4. {} \in SUBSET Routes
          OBVIOUS
        <4> QED
          BY <4>2, <4>3, <4>4
      <3>2. CASE send' = [send EXCEPT
              ![s].counted = @ \union {g},
              ![s].over = @ \union {r \in Candidates(send[s].domain) :
                                      Window[r] = g /\ Exhausted(r)}]
        <4> DEFINE over == {r \in Candidates(send[s].domain) :
                              Window[r] = g /\ Exhausted(r)}
        <4>1. over \in SUBSET Routes
          BY CandidatesType
        <4>2. send' = [send EXCEPT ![s] = [send[s] EXCEPT
                         !.counted = @ \union {g}, !.over = @ \union over]]
          BY <3>2
        <4> HIDE DEF over
        <4> QED
          BY <4>1, <4>2
      <3> QED
        BY <1>2, <3>1, <3>2 DEF CountUsage
    <2> DEFINE u == [send[s] EXCEPT !.counted = @ \union {g}, !.over = @ \union over]
    <2>2. send[s] \in SendRecs /\ (send[s].at = "record" <=> send[s].by \in Routes)
      BY DEF TypeOK
    <2>3. u \in SendRecs /\ u.at = send[s].at /\ u.by = send[s].by
      BY <2>2 DEF SendRecs
    <2>4. u.at = "record" <=> u.by \in Routes
      BY <2>2, <2>3
    <2>5. send' = [send EXCEPT ![s] = u]
      BY <2>1
    <2>6. faults' \in 0..MaxFaults
      BY <1>2, FaultTyped DEF CountUsage
    <2> HIDE DEF u
    <2> QED
      BY <1>2, <2>3, <2>4, <2>5, <2>6, SendTyped DEF CountUsage, TypeOK
  <1>3. ASSUME NEW s \in Slots, NEW r \in Routes, Deliver(s, r) PROVE TypeOK'
    <2>1. send[s] \in SendRecs /\ send[s].at # "record" /\ send[s].by \notin Routes
      BY <1>3 DEF Deliver, TypeOK
    <2>2. within' \in [Routes -> Nat]
      BY <1>3 DEF Deliver, TypeOK
    <2>3. faults' \in 0..MaxFaults
      BY <1>3, FaultTyped DEF Deliver
    <2>4. CASE send' = [send EXCEPT ![s].at = "record", ![s].by = r]
      <3> DEFINE u == [send[s] EXCEPT !.at = "record", !.by = r]
      <3>1. u \in SendRecs /\ u.at = "record" /\ u.by = r
        BY <2>1 DEF SendRecs, Places
      <3>2. u.at = "record" <=> u.by \in Routes
        BY <3>1
      <3>3. send' = [send EXCEPT ![s] = u]
        BY <2>4
      <3> HIDE DEF u
      <3> QED
        BY <1>3, <2>2, <2>3, <3>1, <3>2, <3>3, SendTyped DEF Deliver, TypeOK
    <2>5. CASE send' = [send EXCEPT ![s].tried = @ \union {r}]
      <3> DEFINE u == [send[s] EXCEPT !.tried = @ \union {r}]
      <3>1. u \in SendRecs /\ u.at = send[s].at /\ u.by = send[s].by
        BY <2>1 DEF SendRecs
      <3>2. u.at = "record" <=> u.by \in Routes
        BY <2>1, <3>1
      <3>3. send' = [send EXCEPT ![s] = u]
        BY <2>5
      <3> HIDE DEF u
      <3> QED
        BY <1>3, <2>2, <2>3, <3>1, <3>2, <3>3, SendTyped DEF Deliver, TypeOK
    <2> QED
      BY <1>3, <2>4, <2>5 DEF Deliver
  <1>4. ASSUME NEW s \in Slots, EndOfPass(s) PROVE TypeOK'
    <2> DEFINE at  == IF send[s].at = "first" /\ send[s].tried = {} THEN "second" ELSE "failed"
               u   == [send[s] EXCEPT !.at = at]
    <2>1. send[s] \in SendRecs /\ send[s].by \notin Routes
      BY <1>4 DEF EndOfPass, TypeOK
    <2>2. u \in SendRecs /\ u.at # "record" /\ u.by = send[s].by
      BY <2>1 DEF SendRecs, Places
    <2>3. u.at = "record" <=> u.by \in Routes
      BY <2>1, <2>2
    <2>4. send' = [send EXCEPT ![s] = u]
      BY <1>4 DEF EndOfPass
    <2> HIDE DEF u
    <2> QED
      BY <1>4, <2>2, <2>3, <2>4, SendTyped DEF EndOfPass, TypeOK
  <1>5. ASSUME NEW s \in Slots, Record(s) PROVE TypeOK'
    <2> DEFINE u == Idle(send[s].domain)
    <2>1. send[s] \in SendRecs /\ send[s].by \in Routes
      BY <1>5 DEF Record, TypeOK
    <2>2. u \in SendRecs /\ u.at = "idle" /\ u.by = NoRoute
      BY <2>1, IdleType DEF Idle, SendRecs
    <2>3. u.at = "record" <=> u.by \in Routes
      BY <2>2
    <2>4. send' = [send EXCEPT ![s] = u]
      BY <1>5 DEF Record
    <2>5. usage' \in [Routes -> Nat] /\ faults' \in 0..MaxFaults
      BY <1>5, <2>1, FaultTyped DEF Record, TypeOK
    <2> HIDE DEF u
    <2> QED
      BY <1>5, <2>2, <2>3, <2>4, <2>5, SendTyped DEF Record, TypeOK
  <1>6. ASSUME NEW s \in Slots, Abandon(s) PROVE TypeOK'
    <2> DEFINE u == Idle(send[s].domain)
    <2>1. u \in SendRecs /\ u.at = "idle" /\ u.by = NoRoute
      BY IdleType DEF Idle, SendRecs, TypeOK
    <2>2. u.at = "record" <=> u.by \in Routes
      BY <2>1
    <2>3. send' = [send EXCEPT ![s] = u]
      BY <1>6 DEF Abandon
    <2> HIDE DEF u
    <2> QED
      BY <1>6, <2>1, <2>2, <2>3, SendTyped DEF Abandon, TypeOK
  <1>7. CASE UNCHANGED vars
    BY <1>7 DEF vars, TypeOK
  <1> QED
    BY <1>1, <1>2, <1>3, <1>4, <1>5, <1>6, <1>7 DEF Next

\* Sends are well typed: a slot names a route exactly while the event of its
\* delivery is still to be stored.
THEOREM SendsTyped == Spec => []TypeOK
  <1> QED
    BY TypedInit, TypedNext, PTL DEF Spec

-----------------------------------------------------------------------------
(* The overshoot of a quota. A slot that holds r has found r below its quota  *)
(* and may still use it; a slot that owes r has used it, but its event is not *)
(* stored yet.                                                                *)

Holding(r) ==
  {s \in Slots : /\ send[s].at = "first"
                 /\ r \in Candidates(send[s].domain)
                 /\ Window[r] \in send[s].counted
                 /\ r \notin send[s].over \union send[s].tried}

Owing(r) == {s \in Slots : send[s].by = r}

\* Acceptances are stored, about to be stored, or lost to a fault.
Accounted(r) == within[r] <= usage[r] + Cardinality(Owing(r)) + faults

\* Even if every slot that holds r uses it, the bound is kept.
Reserved(r) ==
  Limited(r) =>
    within[r] + Cardinality(Holding(r)) <= Quota[r] + Cardinality(Slots) - 1 + faults

QuotaInv == TypeOK /\ \A r \in Routes : Accounted(r) /\ Reserved(r)

\* Cardinalities of sets of slots that differ in at most one slot.
LEMMA SlotSets ==
  ASSUME NEW A \in SUBSET Slots, NEW B \in SUBSET Slots
  PROVE  /\ Cardinality(A) \in Nat /\ Cardinality(Slots) \in Nat \ {0}
         /\ Cardinality(A) <= Cardinality(Slots)
         /\ B \subseteq A => Cardinality(B) <= Cardinality(A)
         /\ \A s \in Slots : B \subseteq A \union {s} => Cardinality(B) <= Cardinality(A) + 1
         /\ \A s \in A : B \subseteq A \ {s} => Cardinality(B) <= Cardinality(A) - 1
         /\ A \intersect B = {} => Cardinality(A) + Cardinality(B) <= Cardinality(Slots)
  <1>1. IsFiniteSet(Slots) /\ Slots # {}
    BY RoutesAssumption
  <1>2. \A S \in SUBSET Slots : /\ IsFiniteSet(S) /\ Cardinality(S) \in Nat
                                /\ Cardinality(S) <= Cardinality(Slots)
    BY <1>1, FS_Subset, FS_CardinalityType
  <1>3. Cardinality(Slots) # 0
    BY <1>1, FS_EmptySet
  <1>4. ASSUME B \subseteq A PROVE Cardinality(B) <= Cardinality(A)
    BY <1>2, <1>4, FS_Subset
  <1>5. ASSUME NEW s \in Slots, B \subseteq A \union {s}
        PROVE  Cardinality(B) <= Cardinality(A) + 1
    <2>1. IsFiniteSet(A \union {s}) /\ Cardinality(A \union {s}) <= Cardinality(A) + 1
      BY <1>2, FS_AddElement
    <2>2. Cardinality(B) <= Cardinality(A \union {s})
      BY <1>5, <2>1, FS_Subset
    <2>3. Cardinality(A \union {s}) \in Nat
      BY <2>1, FS_CardinalityType
    <2> QED
      BY <1>2, <2>1, <2>2, <2>3
  <1>6. ASSUME NEW s \in A, B \subseteq A \ {s}
        PROVE  Cardinality(B) <= Cardinality(A) - 1
    <2>1. IsFiniteSet(A \ {s}) /\ Cardinality(A \ {s}) = Cardinality(A) - 1
      BY <1>2, FS_RemoveElement
    <2>2. Cardinality(B) <= Cardinality(A \ {s})
      BY <1>6, <2>1, FS_Subset
    <2> QED
      BY <2>1, <2>2
  <1>7. ASSUME A \intersect B = {}
        PROVE  Cardinality(A) + Cardinality(B) <= Cardinality(Slots)
    <2>1. Cardinality(A \union B) = Cardinality(A) + Cardinality(B) - Cardinality(A \intersect B)
      BY <1>2, FS_Union
    <2>2. Cardinality(A \intersect B) = 0
      BY <1>7, FS_EmptySet
    <2>3. A \union B \in SUBSET Slots
      OBVIOUS
    <2> QED
      BY <1>2, <2>1, <2>2, <2>3
  <1> QED
    BY <1>1, <1>2, <1>3, <1>4, <1>5, <1>6, <1>7, FS_CardinalityType

\* The terms of the two invariants are numbers.
LEMMA Numbers ==
  ASSUME TypeOK, NEW r \in Routes
  PROVE  /\ within[r] \in Nat /\ usage[r] \in Nat /\ faults \in Nat
         /\ Limited(r) => Quota[r] \in Nat
         /\ Cardinality(Owing(r)) \in Nat /\ Cardinality(Holding(r)) \in Nat
         /\ Cardinality(Slots) \in Nat \ {0}
         /\ Cardinality(Holding(r)) + Cardinality(Owing(r)) <= Cardinality(Slots)
  <1>1. Owing(r) \in SUBSET Slots /\ Holding(r) \in SUBSET Slots
    BY DEF Owing, Holding
  <1>2. Owing(r) \intersect Holding(r) = {}
    BY DEF Owing, Holding, TypeOK
  <1> QED
    BY <1>1, <1>2, SlotSets, RoutesAssumption DEF TypeOK, Limited

\* How the holders and owers of a route change when one slot moves.
LEMMA OneMoves ==
  ASSUME TypeOK, TypeOK', NEW s \in Slots, NEW r \in Routes,
         \A t \in Slots \ {s} : send'[t] = send[t]
  PROVE  LET h  == Cardinality(Holding(r))
             h2 == Cardinality(Holding(r)')
             o  == Cardinality(Owing(r))
             o2 == Cardinality(Owing(r)')
         IN /\ h2 \in Nat /\ o2 \in Nat
            /\ h2 <= h + 1 /\ o <= o2 + 1
            /\ (s \in Holding(r)' => s \in Holding(r)) => h2 <= h
            /\ s \in Holding(r) /\ s \notin Holding(r)' => h2 <= h - 1
            /\ (s \in Owing(r) => s \in Owing(r)') => o <= o2
            /\ s \notin Owing(r) /\ s \in Owing(r)' => o <= o2 - 1
            /\ h2 + o2 <= Cardinality(Slots)
  <1> DEFINE H == Holding(r)  H2 == Holding(r)'  O == Owing(r)  O2 == Owing(r)'
  <1>1. H \in SUBSET Slots /\ H2 \in SUBSET Slots /\ O \in SUBSET Slots /\ O2 \in SUBSET Slots
    BY DEF Holding, Owing
  <1>2. \A t \in Slots \ {s} : (t \in H <=> t \in H2) /\ (t \in O <=> t \in O2)
    BY DEF Holding, Owing, Candidates
  <1>3. H2 \intersect O2 = {}
    BY DEF Holding, Owing, TypeOK
  <1> HIDE DEF H, H2, O, O2
  <1>4. H2 \subseteq H \union {s} /\ O \subseteq O2 \union {s}
    BY <1>1, <1>2
  <1>5. /\ (s \in H2 => s \in H) => H2 \subseteq H
        /\ s \in H /\ s \notin H2 => H2 \subseteq H \ {s}
        /\ (s \in O => s \in O2) => O \subseteq O2
        /\ s \notin O /\ s \in O2 => O \subseteq O2 \ {s}
    BY <1>1, <1>2
  <1>6. /\ Cardinality(H2) \in Nat /\ Cardinality(O2) \in Nat
        /\ Cardinality(H2) <= Cardinality(H) + 1
        /\ Cardinality(O) <= Cardinality(O2) + 1
        /\ Cardinality(H2) + Cardinality(O2) <= Cardinality(Slots)
    BY <1>1, <1>3, <1>4, SlotSets
  <1>7. /\ (s \in H2 => s \in H) => Cardinality(H2) <= Cardinality(H)
        /\ s \in H /\ s \notin H2 => Cardinality(H2) <= Cardinality(H) - 1
        /\ (s \in O => s \in O2) => Cardinality(O) <= Cardinality(O2)
        /\ s \notin O /\ s \in O2 => Cardinality(O) <= Cardinality(O2) - 1
    BY <1>1, <1>5, SlotSets
  <1> QED
    BY <1>6, <1>7 DEF H, H2, O, O2

\* A step of one slot that moves nothing else than its place, or gives up r.
LEMMA Unmoved ==
  ASSUME QuotaInv, TypeOK', NEW s \in Slots, NEW r \in Routes,
         \A t \in Slots \ {s} : send'[t] = send[t],
         s \in Holding(r)' => s \in Holding(r),
         s \in Owing(r) => s \in Owing(r)',
         within' = within, usage' = usage, faults <= faults'
  PROVE  (Accounted(r) /\ Reserved(r))'
  <1> DEFINE h == Cardinality(Holding(r))  h2 == Cardinality(Holding(r)')
             o == Cardinality(Owing(r))    o2 == Cardinality(Owing(r)')
  <1>1. TypeOK /\ Accounted(r) /\ Reserved(r)
    BY DEF QuotaInv
  <1>2. h2 \in Nat /\ o2 \in Nat /\ h2 <= h /\ o <= o2
    BY <1>1, OneMoves
  <1>3. faults' \in Nat
    BY RoutesAssumption DEF TypeOK
  <1>4. h \in Nat /\ o \in Nat
    BY <1>1, Numbers
  <1>5. Accounted(r)'
    <2>1. within[r] <= usage[r] + o + faults
      BY <1>1 DEF Accounted
    <2> HIDE DEF h, h2, o, o2
    <2>2. within[r] <= usage[r] + o2 + faults'
      BY <1>1, <1>2, <1>3, <1>4, <2>1, Numbers
    <2> QED
      BY <2>2 DEF Accounted, o2
  <1>6. Reserved(r)'
    <2>1. Limited(r) => within[r] + h <= Quota[r] + Cardinality(Slots) - 1 + faults
      BY <1>1 DEF Reserved
    <2> HIDE DEF h, h2, o, o2
    <2>2. Limited(r) => within[r] + h2 <= Quota[r] + Cardinality(Slots) - 1 + faults'
      BY <1>1, <1>2, <1>3, <1>4, <2>1, Numbers
    <2> QED
      BY <2>2 DEF Reserved, h2, Limited
  <1> QED
    BY <1>5, <1>6

\* Nothing is used yet.
LEMMA QuotaInit == Init => QuotaInv
  <1> SUFFICES ASSUME Init PROVE QuotaInv
    OBVIOUS
  <1>1. TypeOK
    BY TypedInit
  <1>2. ASSUME NEW r \in Routes PROVE Accounted(r) /\ Reserved(r)
    <2>1. Holding(r) = {} /\ Owing(r) = {}
      BY RoutesAssumption DEF Init, Idle, Holding, Owing
    <2>2. Cardinality(Holding(r)) = 0
      BY <2>1, FS_EmptySet
    <2> QED
      BY <1>1, <1>2, <2>2, Numbers DEF Init, Accounted, Reserved
  <1> QED
    BY <1>1, <1>2 DEF QuotaInv

\* Steps keep the accounts: a new holder has just read a usage below the quota.
LEMMA QuotaNext == QuotaInv /\ [Next]_vars => QuotaInv'
  <1> SUFFICES ASSUME QuotaInv, [Next]_vars PROVE QuotaInv'
    OBVIOUS
  <1>t. TypeOK /\ TypeOK'
    BY TypedNext DEF QuotaInv
  <1>n. faults' \in Nat
    BY <1>t, RoutesAssumption DEF TypeOK
  <1>f. Fault \/ NoFault => faults <= faults' /\ (Fault => faults' = faults + 1)
    BY <1>t, FaultTyped
  <1> SUFFICES ASSUME NEW r \in Routes PROVE (Accounted(r) /\ Reserved(r))'
    BY <1>t DEF QuotaInv
  <1>b. /\ Accounted(r) /\ Reserved(r)
        /\ within[r] \in Nat /\ usage[r] \in Nat /\ faults \in Nat
    BY <1>t, Numbers DEF QuotaInv
  <1> DEFINE h == Cardinality(Holding(r))  h2 == Cardinality(Holding(r)')
             o == Cardinality(Owing(r))    o2 == Cardinality(Owing(r)')
             n == Cardinality(Slots)
  <1>c. /\ h \in Nat /\ o \in Nat /\ n \in Nat \ {0} /\ h + o <= n
        /\ within[r] <= usage[r] + o + faults
        /\ Limited(r) => Quota[r] \in Nat /\ within[r] + h <= Quota[r] + n - 1 + faults
    BY <1>t, <1>b, Numbers DEF Accounted, Reserved
  \* What is left to show, in numbers.
  <1>g. ASSUME within'[r] <= usage'[r] + o2 + faults',
               Limited(r) => within'[r] + h2 <= Quota[r] + n - 1 + faults'
        PROVE  (Accounted(r) /\ Reserved(r))'
    BY <1>g DEF Accounted, Reserved, Limited
  <1>1. ASSUME NEW s \in Slots, NEW d \in Domains, Begin(s, d)
        PROVE  (Accounted(r) /\ Reserved(r))'
    <2>1. /\ \A t \in Slots \ {s} : send'[t] = send[t]
          /\ send'[s].counted = {}
          /\ within' = within /\ usage' = usage /\ faults' = faults
      BY <1>1, <1>t DEF Begin, Idle, TypeOK
    <2>2. s \notin Holding(r)' /\ s \notin Owing(r)
      BY <1>1, <1>t, <2>1 DEF Begin, Holding, Owing, TypeOK
    <2> QED
      BY <1>t, <1>b, <2>1, <2>2, Unmoved
  <1>2. ASSUME NEW s \in Slots, NEW g \in Windows, CountUsage(s, g)
        PROVE  (Accounted(r) /\ Reserved(r))'
    <2>1. /\ \A t \in Slots \ {s} : send'[t] = send[t]
          /\ send'[s].at = send[s].at /\ send'[s].by = send[s].by
          /\ send'[s].domain = send[s].domain /\ send'[s].tried = send[s].tried
          /\ send'[s].counted = send[s].counted \union {g}
          /\ send[s].over \subseteq send'[s].over
      BY <1>2, <1>t DEF CountUsage, TypeOK, SendRecs
    <2>2. within' = within /\ usage' = usage /\ faults <= faults'
      BY <1>2, <1>f DEF CountUsage
    <2>3. s \in Owing(r) <=> s \in Owing(r)'
      BY <2>1 DEF Owing
    <2>4. CASE ~(s \in Holding(r)' /\ s \notin Holding(r) /\ Limited(r))
      <3>1. CASE s \in Holding(r)' => s \in Holding(r)
        BY <1>t, <1>b, <2>1, <2>2, <2>3, <3>1, Unmoved
      <3>2. CASE ~Limited(r)
        <4>1. o <= o2 /\ o2 \in Nat
          BY <1>t, <2>1, <2>3, OneMoves
        <4> HIDE DEF h, h2, o, o2, n
        <4> QED
          BY <1>b, <1>c, <1>n, <1>g, <2>2, <3>2, <4>1
      <3> QED
        BY <2>4, <3>1, <3>2
    <2>5. CASE s \in Holding(r)' /\ s \notin Holding(r) /\ Limited(r)
      <3>1. Window[r] = g /\ r \in Candidates(send[s].domain) /\ r \notin send'[s].over
        BY <2>1, <2>5 DEF Holding, Candidates
      <3>2. h2 \in Nat /\ o2 \in Nat /\ h2 <= h + 1 /\ o <= o2 /\ h2 + o2 <= n
        BY <1>t, <2>1, <2>3, OneMoves
      <3>3. CASE Fault
        <4>1. faults' = faults + 1
          BY <1>f, <3>3
        <4> HIDE DEF h, h2, o, o2, n
        <4> QED
          BY <1>b, <1>c, <1>g, <2>2, <2>5, <3>2, <4>1
      <3>4. CASE ~Fault
        <4>1. send'[s].over = send[s].over \union {q \in Candidates(send[s].domain) :
                                                     Window[q] = g /\ Exhausted(q)}
          BY <1>2, <1>t, <3>4 DEF CountUsage, TypeOK, SendRecs
        <4>2. ~Exhausted(r)
          BY <3>1, <4>1
        <4>3. usage[r] < Quota[r]
          BY <1>b, <1>c, <2>5, <4>2 DEF Exhausted
        <4> HIDE DEF h, h2, o, o2, n
        <4> QED
          BY <1>b, <1>c, <1>n, <1>g, <2>2, <2>5, <3>2, <4>3
      <3> QED
        BY <3>3, <3>4
    <2> QED
      BY <2>4, <2>5
  <1>3. ASSUME NEW s \in Slots, NEW q \in Routes, Deliver(s, q)
        PROVE  (Accounted(r) /\ Reserved(r))'
    <2>1. /\ \A t \in Slots \ {s} : send'[t] = send[t]
          /\ send[s].at \in {"first", "second"} /\ Uncounted(s) = {} /\ q \in Untried(s)
          /\ usage' = usage /\ faults <= faults'
          /\ s \notin Owing(r)
      BY <1>3, <1>f, <1>t, RoutesAssumption DEF Deliver, TypeOK, Owing
    <2>2. send[s] \in SendRecs
      BY <1>t DEF TypeOK
    <2>v. \/ send'[s].at = "record"
          \/ send'[s] = [send[s] EXCEPT !.tried = @ \union {q}]
      BY <1>3, <2>2, <1>t DEF Deliver, TypeOK, SendRecs
    <2>3. s \in Holding(r)' => s \in Holding(r)
      <3>1. s \in Holding(r)' =>
              /\ send'[s].at = "first" /\ r \in Candidates(send'[s].domain)
              /\ Window[r] \in send'[s].counted
              /\ r \notin send'[s].over \union send'[s].tried
        BY DEF Holding, Candidates
      <3>2. send'[s] = [send[s] EXCEPT !.tried = @ \union {q}] =>
              /\ send'[s].at = send[s].at /\ send'[s].domain = send[s].domain
              /\ send'[s].counted = send[s].counted /\ send'[s].over = send[s].over
              /\ send'[s].tried = send[s].tried \union {q}
        BY <2>2 DEF SendRecs
      <3> QED
        BY <2>v, <3>1, <3>2 DEF Holding
    <2>4. h2 \in Nat /\ o2 \in Nat /\ h2 <= h /\ o <= o2
      BY <1>t, <2>1, <2>3, OneMoves
    <2>5. CASE within' = within
      BY <1>t, <1>b, <2>1, <2>3, <2>5, Unmoved
    <2>6. CASE within' # within
      <3>1. send[s].at = "first" /\ within' = [within EXCEPT ![q] = @ + 1]
        BY <1>3, <2>6 DEF Deliver
      <3>2. CASE q # r
        <4>1. within'[r] = within[r]
          BY <3>1, <3>2, <1>t DEF TypeOK
        <4> HIDE DEF h, h2, o, o2, n
        <4> QED
          BY <1>b, <1>c, <1>n, <1>g, <2>1, <2>4, <4>1
      <3>3. CASE q = r
        <4>1. within'[r] = within[r] + 1
          BY <3>1, <3>3, <1>t DEF TypeOK
        <4>2. Limited(r) => s \in Holding(r)
          BY <2>1, <3>1, <3>3 DEF Holding, Untried, Eligible, Uncounted
        <4>3. s \notin Holding(r)'
          <5>1. send'[s] = [send[s] EXCEPT !.tried = @ \union {q}] => r \in send'[s].tried
            BY <2>2, <3>3 DEF SendRecs
          <5> QED
            BY <2>v, <5>1 DEF Holding
        <4>4. Limited(r) => h2 <= h - 1
          BY <1>t, <2>1, <4>2, <4>3, OneMoves
        <4>5. o <= o2 - 1 \/ faults' = faults + 1
          <5>1. CASE Fault
            BY <1>f, <5>1
          <5>2. CASE ~Fault
            <6>1. send' = [send EXCEPT ![s].at = "record", ![s].by = q]
              BY <1>3, <2>6, <5>2 DEF Deliver
            <6>2. s \in Owing(r)'
              BY <2>2, <3>3, <6>1, <1>t DEF Owing, SendRecs, TypeOK
            <6> QED
              BY <1>t, <2>1, <6>2, OneMoves
          <5> QED
            BY <5>1, <5>2
        <4> HIDE DEF h, h2, o, o2, n
        <4> QED
          BY <1>b, <1>c, <1>n, <1>g, <2>1, <2>4, <4>1, <4>4, <4>5
      <3> QED
        BY <3>2, <3>3
    <2> QED
      BY <2>5, <2>6
  <1>4. ASSUME NEW s \in Slots, EndOfPass(s) PROVE (Accounted(r) /\ Reserved(r))'
    <2>1. /\ \A t \in Slots \ {s} : send'[t] = send[t]
          /\ within' = within /\ usage' = usage /\ faults' = faults
      BY <1>4, <1>t DEF EndOfPass, TypeOK
    <2>2. s \notin Holding(r)' /\ s \notin Owing(r)
      BY <1>4, <1>t, RoutesAssumption DEF EndOfPass, Holding, Owing, TypeOK, SendRecs
    <2> QED
      BY <1>t, <1>b, <2>1, <2>2, Unmoved
  <1>5. ASSUME NEW s \in Slots, Record(s) PROVE (Accounted(r) /\ Reserved(r))'
    <2>1. /\ \A t \in Slots \ {s} : send'[t] = send[t]
          /\ within' = within /\ faults <= faults'
          /\ s \notin Holding(r)'
      BY <1>5, <1>f, <1>t DEF Record, TypeOK, Holding, Idle
    <2>2. h2 \in Nat /\ o2 \in Nat /\ h2 <= h /\ o <= o2 + 1
      BY <1>t, <2>1, OneMoves
    <2>3. CASE send[s].by # r
      <3>1. usage'[r] = usage[r]
        BY <1>5, <1>t, <2>3 DEF Record, TypeOK
      <3>2. o <= o2
        BY <1>t, <2>1, <2>3, OneMoves DEF Owing
      <3> HIDE DEF h, h2, o, o2, n
      <3> QED
        BY <1>b, <1>c, <1>n, <1>g, <2>1, <2>2, <3>1, <3>2
    <2>4. CASE send[s].by = r
      <3>1. \/ usage'[r] = usage[r] + 1
            \/ usage'[r] = usage[r] /\ faults' = faults + 1
        BY <1>5, <1>f, <1>t, <2>4 DEF Record, TypeOK
      <3> HIDE DEF h, h2, o, o2, n
      <3> QED
        BY <1>b, <1>c, <1>n, <1>g, <2>1, <2>2, <3>1
    <2> QED
      BY <2>3, <2>4
  <1>6. ASSUME NEW s \in Slots, Abandon(s) PROVE (Accounted(r) /\ Reserved(r))'
    <2>1. /\ \A t \in Slots \ {s} : send'[t] = send[t]
          /\ send'[s].counted = {}
          /\ within' = within /\ usage' = usage /\ faults' = faults
      BY <1>6, <1>t DEF Abandon, Idle, TypeOK
    <2>2. s \notin Holding(r)' /\ s \notin Owing(r)
      BY <1>6, <1>t, <2>1 DEF Abandon, Holding, Owing, TypeOK
    <2> QED
      BY <1>t, <1>b, <2>1, <2>2, Unmoved
  <1>7. CASE UNCHANGED vars
    BY <1>7, <1>b DEF vars, Accounted, Reserved, Holding, Owing, Candidates, Limited
  <1> QED
    BY <1>1, <1>2, <1>3, <1>4, <1>5, <1>6, <1>7 DEF Next

\* Whatever the routes, the number of concurrent sends and their interleaving,
\* a quota is overshot by less than that number and one more for each fault.
THEOREM OvershootIsBounded == Spec => []OvershootBounded
  <1>1. QuotaInv => OvershootBounded
    <2> SUFFICES ASSUME QuotaInv, NEW r \in Routes, Limited(r)
                 PROVE  within[r] <= Quota[r] + Cardinality(Slots) - 1 + faults
      BY DEF OvershootBounded
    <2> QED
      BY Numbers DEF QuotaInv, Reserved
  <1> QED
    BY <1>1, QuotaInit, QuotaNext, PTL DEF Spec

-----------------------------------------------------------------------------
(* The two passes.                                                         *)

\* The second pass starts when every candidate is over its quota.
PassOf(u) ==
  LET c == Candidates(u.domain)
  IN /\ u.at = "second" => c \subseteq u.over
     /\ u.by \in u.over => c \subseteq u.over
     /\ u.at = "failed" /\ c # {} => u.tried # {} /\ c \subseteq u.tried \union u.over

PassInv == TypeOK /\ \A s \in Slots : PassOf(send[s])

\* A slot without a send is in order.
LEMMA PassIdle == \A d \in Domains : PassOf(Idle(d))
  BY DEF PassOf, Idle

\* Steps keep every send in order.
LEMMA PassNext == PassInv /\ [Next]_vars => PassInv'
  <1> SUFFICES ASSUME PassInv, [Next]_vars PROVE PassInv'
    OBVIOUS
  <1>t. TypeOK /\ TypeOK' /\ \A s \in Slots : PassOf(send[s])
    BY TypedNext DEF PassInv
  \* It is enough that the slot that moves has a record that is in order.
  <1>s. ASSUME NEW s \in Slots, NEW u, PassOf(u), send' = [send EXCEPT ![s] = u]
        PROVE  PassInv'
    <2>1. \A t \in Slots : PassOf(send'[t])
      BY <1>s, <1>t, OneSlot DEF TypeOK
    <2> QED
      BY <1>t, <2>1 DEF PassInv, PassOf, Candidates
  <1>1. ASSUME NEW s \in Slots, NEW d \in Domains, Begin(s, d) PROVE PassInv'
    <2> DEFINE u == [Idle(d) EXCEPT !.at = IF Candidates(d) = {} THEN "failed" ELSE "first"]
    <2>1. PassOf(u)
      BY DEF PassOf, Idle
    <2> QED
      BY <1>1, <1>s, <2>1 DEF Begin
  <1>2. ASSUME NEW s \in Slots, NEW g \in Windows, CountUsage(s, g) PROVE PassInv'
    <2>1. send[s] \in SendRecs /\ send[s].at = "first" /\ send[s].by = NoRoute
      BY <1>2, <1>t DEF CountUsage, TypeOK, SendRecs
    <2>2. /\ send'[s].at = "first" /\ send'[s].by = NoRoute /\ send'[s].domain = send[s].domain
          /\ send'[s].over \subseteq Routes
          /\ send' = [send EXCEPT ![s] = send'[s]]
      BY <1>2, <1>t, <2>1, CandidatesType DEF CountUsage, TypeOK, SendRecs
    <2>3. PassOf(send'[s])
      BY <2>2, RoutesAssumption DEF PassOf
    <2> QED
      BY <1>s, <2>2, <2>3
  <1>3. ASSUME NEW s \in Slots, NEW r \in Routes, Deliver(s, r) PROVE PassInv'
    <2>1. /\ send[s] \in SendRecs /\ PassOf(send[s]) /\ r \in Untried(s)
          /\ send[s].at \in {"first", "second"}
      BY <1>3, <1>t DEF Deliver, TypeOK
    <2>2. r \in send[s].over => Candidates(send[s].domain) \subseteq send[s].over
      BY <2>1 DEF PassOf, Untried, Eligible
    <2>3. CASE send' = [send EXCEPT ![s].at = "record", ![s].by = r]
      <3> DEFINE u == [send[s] EXCEPT !.at = "record", !.by = r]
      <3>1. u.at = "record" /\ u.by = r /\ u.domain = send[s].domain /\ u.over = send[s].over
        BY <2>1 DEF SendRecs
      <3>2. PassOf(u)
        BY <2>2, <3>1 DEF PassOf
      <3> QED
        BY <1>s, <2>3, <3>2
    <2>4. CASE send' = [send EXCEPT ![s].tried = @ \union {r}]
      <3> DEFINE u == [send[s] EXCEPT !.tried = @ \union {r}]
      <3>1. /\ u.at = send[s].at /\ u.by = send[s].by /\ u.domain = send[s].domain
            /\ u.over = send[s].over
        BY <2>1 DEF SendRecs
      <3>2. PassOf(u)
        BY <2>1, <3>1 DEF PassOf
      <3> QED
        BY <1>s, <2>4, <3>2
    <2> QED
      BY <1>3, <2>3, <2>4 DEF Deliver
  <1>4. ASSUME NEW s \in Slots, EndOfPass(s) PROVE PassInv'
    <2> DEFINE at == IF send[s].at = "first" /\ send[s].tried = {} THEN "second" ELSE "failed"
               u  == [send[s] EXCEPT !.at = at]
    <2>1. /\ send[s] \in SendRecs /\ PassOf(send[s]) /\ Untried(s) = {}
          /\ send[s].at \in {"first", "second"}
      BY <1>4, <1>t DEF EndOfPass, TypeOK
    <2>2. /\ u.at = at /\ u.by = send[s].by /\ u.domain = send[s].domain
          /\ u.over = send[s].over /\ u.tried = send[s].tried
      BY <2>1 DEF SendRecs
    <2>3. PassOf(u)
      BY <2>1, <2>2 DEF PassOf, Untried, Eligible
    <2>4. send' = [send EXCEPT ![s] = u]
      BY <1>4 DEF EndOfPass
    <2> QED
      BY <1>s, <2>3, <2>4
  <1>5. ASSUME NEW s \in Slots, Record(s) \/ Abandon(s) PROVE PassInv'
    <2>1. send' = [send EXCEPT ![s] = Idle(send[s].domain)] /\ send[s].domain \in Domains
      BY <1>5, <1>t DEF Record, Abandon, TypeOK, SendRecs
    <2> QED
      BY <1>s, <2>1, PassIdle
  <1>6. CASE UNCHANGED vars
    BY <1>6, <1>t DEF PassInv, PassOf, Candidates, vars
  <1> QED
    BY <1>1, <1>2, <1>3, <1>4, <1>5, <1>6 DEF Next

\* Every send is in order.
LEMMA PassSafe == Spec => []PassInv
  <1>1. Init => PassInv
    BY TypedInit, PassIdle DEF Init, PassInv
  <1> QED
    BY <1>1, PassNext, PTL DEF Spec

\* No e-mail that has a candidate route fails on quotas alone.
THEOREM NoTrafficDropped == Spec => []FailsOnlyRefused
  <1>1. PassInv => FailsOnlyRefused
    BY DEF PassInv, PassOf, FailsOnlyRefused
  <1> QED
    BY <1>1, PassSafe, PTL

\* No quota is bypassed while another candidate was within its own.
THEOREM BypassIsLastResort == Spec => []BypassOnlyWhenAllOver
  <1>1. PassInv => BypassOnlyWhenAllOver
    BY DEF PassInv, PassOf, BypassOnlyWhenAllOver
  <1> QED
    BY <1>1, PassSafe, PTL

-----------------------------------------------------------------------------
(* The dialogue with the servers (SmtpDelivery).                           *)

Sending == {"compose", "connect", "transact", "sent", "error"}

\* A send has its e-mail and its sender; an e-mail that waits has an attempt left; and
\* copies has every e-mail.
SendInv ==
  /\ \A s \in Slots :
       task[s].at \in Sending => task[s].email \in Emails /\ task[s].nth \in 1..Len(Senders)
  /\ \A e \in Emails : queue[e] = "waiting" => attempt[e] < MAX_ATTEMPTS
  /\ DOMAIN copies = Emails

SmtpInv == Smtp!TypeOK /\ SendInv /\ Smtp!AllOrNobody /\ Smtp!BlindStaysBlind

Tasks == [at : {"idle"} \union Sending, email : Emails \union {NoEmail}, nth : 0..Len(Senders),
          link : {"none", "live", "broken"}]

\* The sender of a send has a pool.
LEMMA SenderHasPool ==
  ASSUME Smtp!SmtpDeliveryAssumption, SmtpInv, NEW s \in Slots, task[s].at \in Sending
  PROVE  /\ Smtp!By(s) \in Smtp!Names /\ task[s].email \in Emails
         /\ task[s].nth \in 1..Len(Senders) /\ Len(Senders) \in Nat \ {0}
  <1>1. Senders \in Seq(Smtp!Names) /\ Senders # <<>>
    BY DEF Smtp!SmtpDeliveryAssumption
  <1>2. task[s].nth \in 1..Len(Senders) /\ task[s].email \in Emails
    BY DEF SmtpInv, SendInv
  <1>3. DOMAIN Senders = 1..Len(Senders) /\ Len(Senders) \in Nat \ {0}
    BY <1>1
  <1> QED
    BY <1>2, <1>3 DEF Smtp!By, Smtp!Names

Untaken == UNCHANGED <<copies, shown>>

\* What a server has taken is changed by a transaction only.
LEMMA UntakenKeeps ==
  ASSUME Smtp!AllOrNobody, Smtp!BlindStaysBlind, Untaken
  PROVE  Smtp!AllOrNobody' /\ Smtp!BlindStaysBlind'
  BY DEF Untaken, Smtp!AllOrNobody, Smtp!BlindStaysBlind

\* The start, the beginning of a send, its message and its ends.
LEMMA AroundStep ==
  ASSUME Smtp!SmtpDeliveryAssumption, SmtpInv, NEW s \in Slots,
         \/ Smtp!Build \/ Smtp!Compose(s) \/ Smtp!Failover(s) \/ Smtp!Finish(s)
         \/ \E e \in Emails : Smtp!Begin(s, e)
  PROVE  SmtpInv'
  <1>1. Senders \in Seq(Smtp!Names) /\ Senders # <<>> /\ MAX_ATTEMPTS \in Nat \ {0} /\ NoEmail \notin Emails
    BY DEF Smtp!SmtpDeliveryAssumption
  <1>2. Len(Senders) \in Nat \ {0}
    BY <1>1
  <1>3. Untaken
    BY DEF Untaken, Smtp!Build, Smtp!Compose, Smtp!Failover, Smtp!Finish, Smtp!Begin
  <1>4. Smtp!AllOrNobody' /\ Smtp!BlindStaysBlind'
    BY <1>3, UntakenKeeps DEF SmtpInv
  <1>5. SUFFICES Smtp!TypeOK' /\ SendInv'
    BY <1>4 DEF SmtpInv
  <1> USE DEF SmtpInv, SendInv, Smtp!TypeOK, Untaken, Sending, Smtp!At
  <1>6. CASE Smtp!Build
    BY <1>3, <1>6 DEF Smtp!Build
  <1>7. CASE Smtp!Compose(s)
    <2>1. PICK place \in {"connect", "error"} : task' = [task EXCEPT ![s].at = place]
      BY <1>7 DEF Smtp!Compose
    <2>2. task[s].at = "compose" /\ UNCHANGED <<process, pool, queue, attempt, copies, shown, smtp_faults>>
      BY <1>7 DEF Smtp!Compose
    <2> QED
      BY <2>1, <2>2, ZenonT(30)
  <1>8. CASE Smtp!Failover(s)
    <2>1. task[s].at = "error" /\ UNCHANGED <<process, pool, attempt, copies, shown, smtp_faults>>
      BY <1>8 DEF Smtp!Failover
    <2>2. task[s].email \in Emails /\ task[s].nth \in 1..Len(Senders)
      BY <2>1
    <2>3. CASE task[s].nth < Len(Senders) /\ UNCHANGED queue
               /\ task' = [task EXCEPT ![s].at = "compose", ![s].nth = @ + 1]
      <3>1. task[s].nth + 1 \in 1..Len(Senders)
        BY <1>2, <2>2, <2>3
      <3>2. PICK r : r = [task[s] EXCEPT !.at = "compose", !.nth = @ + 1]
        OBVIOUS
      <3>3. r \in Tasks /\ r.email \in Emails /\ r.nth \in 1..Len(Senders)
        <4>1. task[s] \in Tasks
          BY DEF Tasks
        <4>2. task[s].nth + 1 \in 0..Len(Senders)
          BY <1>2, <3>1
        <4> QED
          BY <2>2, <3>1, <3>2, <4>1, <4>2 DEF Tasks
      <3>4. task' = [task EXCEPT ![s] = r]
        BY <2>3, <3>2
      <3>5. task' \in [Slots -> Tasks]
        BY <3>3, <3>4 DEF Tasks
      <3>6. Smtp!TypeOK'
        BY <2>1, <2>3, <3>5 DEF Tasks
      <3>7. SendInv'
        BY <2>1, <2>3, <3>3, <3>4
      <3> QED
        BY <3>6, <3>7
    <2>4. CASE task' = [task EXCEPT ![s] = Smtp!Idle]
               /\ queue' = [queue EXCEPT ![task[s].email] = Smtp!AfterError(task[s].email)]
      BY <1>1, <1>2, <2>1, <2>2, <2>4, SMTT(30) DEF Smtp!AfterError, Smtp!Idle
    <2> QED
      BY <1>8, <2>3, <2>4 DEF Smtp!Failover
  <1>9. CASE Smtp!Finish(s)
    BY <1>1, <1>2, <1>3, <1>9 DEF Smtp!Finish, Smtp!Idle
  <1>10. ASSUME NEW e \in Emails, Smtp!Begin(s, e) PROVE Smtp!TypeOK' /\ SendInv'
    BY <1>1, <1>2, <1>3, <1>10, SMTT(30) DEF Smtp!Begin
  <1> QED
    BY <1>6, <1>7, <1>8, <1>9, <1>10

Pools == [Smtp!Names -> [idle : Nat, broken : Nat]]
PoolOK == pool \in Pools /\ \A n \in Smtp!Names : pool[n].broken <= pool[n].idle

\* A pool that changes by a connection.
LEMMA PoolMoves ==
  ASSUME PoolOK, NEW n \in Smtp!Names, NEW i \in Nat, NEW b \in Nat, b <= i,
         pool' = [pool EXCEPT ![n].idle = i, ![n].broken = b]
  PROVE  PoolOK'
  <1>1. PICK r : r = [pool[n] EXCEPT !.idle = i, !.broken = b]
    OBVIOUS
  <1>2. pool[n] \in [idle : Nat, broken : Nat]
    BY DEF PoolOK, Pools
  <1>3. r \in [idle : Nat, broken : Nat] /\ r.idle = i /\ r.broken = b
    BY <1>1, <1>2
  <1>4. pool' = [pool EXCEPT ![n] = r]
    BY <1>1, <1>2 DEF PoolOK, Pools
  <1>5. pool' \in Pools
    BY <1>3, <1>4 DEF PoolOK, Pools
  <1> QED
    BY <1>3, <1>4, <1>5 DEF PoolOK, Pools

\* An idle connection, live or broken, is taken out of the pool.
LEMMA ConnectionTaken ==
  ASSUME PoolOK, NEW n \in Smtp!Names, NEW kind,
         IF kind = "broken" THEN pool[n].broken > 0 ELSE pool[n].idle > pool[n].broken,
         pool' = [pool EXCEPT ![n].idle = @ - 1,
                              ![n].broken = IF kind = "broken" THEN @ - 1 ELSE @]
  PROVE  PoolOK'
  <1>1. pool[n].idle \in Nat /\ pool[n].broken \in Nat /\ pool[n].broken <= pool[n].idle
    BY DEF PoolOK, Pools
  <1>2. PICK i : i = pool[n].idle - 1
    OBVIOUS
  <1>3. PICK b : b = IF kind = "broken" THEN pool[n].broken - 1 ELSE pool[n].broken
    OBVIOUS
  <1>4. i \in Nat /\ b \in Nat /\ b <= i
    BY <1>1, <1>2, <1>3
  <1>5. pool' = [pool EXCEPT ![n].idle = i, ![n].broken = b]
    BY <1>2, <1>3
  <1> QED
    BY <1>4, <1>5, PoolMoves

\* The steps that touch an idle connection only.
LEMMA IdleStep ==
  ASSUME Smtp!SmtpDeliveryAssumption, SmtpInv, NEW n \in Smtp!Names,
         Smtp!Drop(n) \/ \E kind \in {"live", "broken"} : Smtp!Expire(n, kind)
  PROVE  SmtpInv'
  <1>1. PoolOK
    BY DEF SmtpInv, Smtp!TypeOK, PoolOK, Pools
  <1>2. UNCHANGED <<process, task, queue, attempt, copies, shown>>
    BY DEF Smtp!Drop, Smtp!Expire
  <1>3. smtp_faults' \in 0..MaxSmtpFaults
    BY DEF Smtp!Drop, Smtp!Expire, Smtp!Fault, SmtpInv, Smtp!TypeOK, Smtp!SmtpDeliveryAssumption
  <1>4. PoolOK'
    <2>1. CASE Smtp!Drop(n)
      <3>1. pool[n].idle \in Nat /\ pool[n].broken + 1 \in Nat /\ pool[n].broken + 1 <= pool[n].idle
        BY <1>1, <2>1 DEF Smtp!Drop, PoolOK, Pools
      <3>2. PICK i : i = pool[n].idle
        OBVIOUS
      <3>3. PICK b : b = pool[n].broken + 1
        OBVIOUS
      <3>4. pool' = [pool EXCEPT ![n].idle = i, ![n].broken = b]
        BY <1>1, <2>1, <3>2, <3>3 DEF Smtp!Drop, PoolOK, Pools
      <3> QED
        BY <1>1, <3>1, <3>2, <3>3, <3>4, PoolMoves
    <2>2. ASSUME NEW kind \in {"live", "broken"}, Smtp!Expire(n, kind) PROVE PoolOK'
      BY <1>1, <2>2, ConnectionTaken DEF Smtp!Expire
    <2> QED
      BY <2>1, <2>2
  <1>5. Smtp!AllOrNobody' /\ Smtp!BlindStaysBlind'
    BY <1>2, UntakenKeeps DEF SmtpInv, Untaken
  <1>6. SendInv'
    BY <1>2 DEF SmtpInv, SendInv
  <1>7. Smtp!TypeOK'
    BY <1>2, <1>3, <1>4 DEF SmtpInv, Smtp!TypeOK, PoolOK, Pools
  <1> QED
    BY <1>5, <1>6, <1>7 DEF SmtpInv

\* A send that goes on with another stage and another connection.
LEMMA SendMoves ==
  ASSUME Smtp!SmtpDeliveryAssumption, SmtpInv, NEW s \in Slots, task[s].at \in Sending,
         NEW place \in Sending, NEW link \in {"none", "live", "broken"},
         task' = [task EXCEPT ![s].at = place, ![s].link = link],
         UNCHANGED <<queue, attempt>>, DOMAIN copies' = Emails
  PROVE  task' \in [Slots -> Tasks] /\ SendInv'
  <1>1. PICK r : r = [task[s] EXCEPT !.at = place, !.link = link]
    OBVIOUS
  <1>2. task \in [Slots -> Tasks]
    BY DEF SmtpInv, Smtp!TypeOK, Tasks, Sending
  <1>3. r \in Tasks /\ r.email = task[s].email /\ r.nth = task[s].nth /\ r.at = place
    BY <1>1, <1>2 DEF Tasks
  <1>4. task' = [task EXCEPT ![s] = r]
    BY <1>1, <1>2 DEF Tasks
  <1>5. task' \in [Slots -> Tasks]
    BY <1>2, <1>3, <1>4
  <1>6. SendInv'
    BY <1>2, <1>3, <1>4 DEF SmtpInv, SendInv
  <1> QED
    BY <1>5, <1>6

\* A connection is taken from the pool or made.
LEMMA ConnectStep ==
  ASSUME Smtp!SmtpDeliveryAssumption, SmtpInv, NEW s \in Slots,
         Smtp!Dial(s) \/ \E kind \in {"live", "broken"} : Smtp!Reuse(s, kind)
  PROVE  SmtpInv'
  <1>1. task[s].at \in Sending /\ UNCHANGED <<process, queue, attempt, copies, shown>>
    BY DEF Smtp!Dial, Smtp!Reuse, Smtp!At, Sending
  <1>2. DOMAIN copies' = Emails
    BY <1>1 DEF SmtpInv, SendInv
  <1>3. Smtp!AllOrNobody' /\ Smtp!BlindStaysBlind'
    BY <1>1, UntakenKeeps DEF SmtpInv, Untaken
  <1>4. PoolOK /\ Smtp!By(s) \in Smtp!Names
    BY <1>1, SenderHasPool DEF SmtpInv, Smtp!TypeOK, PoolOK, Pools
  <1>5. PoolOK' /\ smtp_faults' \in 0..MaxSmtpFaults
    <2>1. CASE Smtp!Dial(s)
      BY <1>4, <2>1 DEF Smtp!Dial, Smtp!Fault, Smtp!NoFault, SmtpInv, Smtp!TypeOK, PoolOK, Pools,
                        Smtp!SmtpDeliveryAssumption
    <2>2. ASSUME NEW kind \in {"live", "broken"}, Smtp!Reuse(s, kind)
          PROVE  PoolOK' /\ smtp_faults' \in 0..MaxSmtpFaults
      <3>1. smtp_faults' \in 0..MaxSmtpFaults
        BY <2>2 DEF Smtp!Reuse, SmtpInv, Smtp!TypeOK
      <3>2. PICK n : n = Smtp!By(s)
        OBVIOUS
      <3>3. PoolOK'
        BY <1>4, <2>2, <3>2, ConnectionTaken DEF Smtp!Reuse
      <3> QED
        BY <3>1, <3>3
    <2> QED
      BY <2>1, <2>2
  <1>6. PICK place \in Sending, link \in {"none", "live", "broken"} :
          task' = [task EXCEPT ![s].at = place, ![s].link = link]
    BY DEF Smtp!Dial, Smtp!Reuse, Sending
  <1>7. task' \in [Slots -> Tasks] /\ SendInv'
    BY <1>1, <1>2, <1>6, SendMoves
  <1>8. Smtp!TypeOK'
    BY <1>1, <1>5, <1>7 DEF SmtpInv, Smtp!TypeOK, PoolOK, Pools, Tasks, Sending
  <1> QED
    BY <1>3, <1>7, <1>8 DEF SmtpInv

\* The envelope has every address of the e-mail or none (apply_recipients), and the
\* headers only those that are there not just blindly (add_recipient).
LEMMA EnvelopeIsWhole ==
  ASSUME NEW e \in Emails
  PROVE  /\ Smtp!Envelope(e) = Smtp!Addressed(e) \/ Smtp!Envelope(e) = {}
         /\ \A a \in Smtp!Headers(e) : \E i \in DOMAIN Recipients[e] :
              Recipients[e][i].address = a /\ Recipients[e][i].kind # "bcc"
  <1> DEFINE rs == Recipients[e]
             all == \A i \in DOMAIN rs : Smtp!parse_mailbox(rs[i].address)
             item(i) == [header |-> rs[i].kind, address |-> rs[i].address]
  <1>1. Smtp!apply_recipients(e) = IF all THEN {item(i) : i \in DOMAIN rs} ELSE {}
    BY DEF Smtp!apply_recipients, Smtp!add_recipient
  <1>2. \A i : item(i).address = rs[i].address /\ item(i).header = rs[i].kind
    OBVIOUS
  <1> HIDE DEF rs, all, item
  <1>3. CASE all
    <2>1. Smtp!apply_recipients(e) = {item(i) : i \in DOMAIN rs}
      BY <1>1, <1>3
    <2>2. Smtp!Envelope(e) = Smtp!Addressed(e)
      BY <1>2, <2>1 DEF Smtp!Envelope, Smtp!Addressed, rs
    <2>3. \A a \in Smtp!Headers(e) : \E i \in DOMAIN rs : rs[i].address = a /\ rs[i].kind # "bcc"
      BY <1>2, <2>1 DEF Smtp!Headers
    <2> QED
      BY <2>2, <2>3 DEF rs
  <1>4. CASE ~all
    BY <1>1, <1>4 DEF Smtp!Envelope, Smtp!Headers
  <1> QED
    BY <1>3, <1>4

\* What a server takes, it takes for all the recipients or none.
LEMMA TakenForAll ==
  ASSUME SmtpInv, NEW e \in Emails,
         copies' = [copies EXCEPT ![e] =
                      [a \in Smtp!Addressed(e) |-> @[a] + (IF a \in Smtp!Envelope(e) THEN 1 ELSE 0)]],
         shown' = [shown EXCEPT ![e] = @ \union Smtp!Headers(e)]
  PROVE  /\ \A x \in Emails : copies'[x] \in [Smtp!Addressed(x) -> Nat]
         /\ DOMAIN copies' = Emails
         /\ shown' \in [Emails -> SUBSET Smtp!Addresses]
         /\ Smtp!AllOrNobody' /\ Smtp!BlindStaysBlind'
  <1>1. \A x \in Emails : copies[x] \in [Smtp!Addressed(x) -> Nat]
    BY DEF SmtpInv, Smtp!TypeOK
  <1>2. DOMAIN copies = Emails /\ shown \in [Emails -> SUBSET Smtp!Addresses]
    BY DEF SmtpInv, Smtp!TypeOK, SendInv
  <1>3. \A x \in Emails :
          copies'[x] = IF x = e
                       THEN [a \in Smtp!Addressed(e) |->
                               copies[e][a] + (IF a \in Smtp!Envelope(e) THEN 1 ELSE 0)]
                       ELSE copies[x]
    BY <1>2
  <1>4. \A x \in Emails : copies'[x] \in [Smtp!Addressed(x) -> Nat]
    BY <1>1, <1>3
  <1>5. Smtp!AllOrNobody'
    <2> SUFFICES ASSUME NEW x \in Emails, NEW a \in Smtp!Addressed(x), NEW b \in Smtp!Addressed(x)
                 PROVE  copies'[x][a] = copies'[x][b]
      BY DEF Smtp!AllOrNobody, Smtp!Addressed
    <2>1. copies[x][a] = copies[x][b]
      BY DEF SmtpInv, Smtp!AllOrNobody
    <2>2. a \in Smtp!Envelope(x) <=> b \in Smtp!Envelope(x)
      BY EnvelopeIsWhole
    <2> QED
      BY <1>3, <2>1, <2>2
  <1>6. Smtp!Headers(e) \subseteq Smtp!Addresses
    BY EnvelopeIsWhole DEF Smtp!Addresses, Smtp!Addressed
  <1>7. Smtp!BlindStaysBlind'
    BY <1>2, EnvelopeIsWhole DEF SmtpInv, Smtp!BlindStaysBlind
  <1>8. shown' \in [Emails -> SUBSET Smtp!Addresses]
    BY <1>2, <1>6
  <1> QED
    BY <1>2, <1>4, <1>5, <1>7, <1>8

\* A server takes the message or refuses it.
LEMMA TransactStep ==
  ASSUME Smtp!SmtpDeliveryAssumption, SmtpInv, NEW s \in Slots, Smtp!Transact(s)
  PROVE  SmtpInv'
  <1>1. task[s].at \in Sending /\ UNCHANGED <<process, queue, attempt>>
    BY DEF Smtp!Transact, Smtp!At, Sending
  <1>2. PICK e \in Emails : e = task[s].email
    BY <1>1, SenderHasPool
  <1>3. PICK n \in Smtp!Names : n = Smtp!By(s)
    BY <1>1, SenderHasPool
  <1>4. /\ \A x \in Emails : copies'[x] \in [Smtp!Addressed(x) -> Nat]
        /\ DOMAIN copies' = Emails
        /\ shown' \in [Emails -> SUBSET Smtp!Addresses]
        /\ Smtp!AllOrNobody' /\ Smtp!BlindStaysBlind'
    <2>1. CASE /\ copies' = [copies EXCEPT ![e] =
                    [a \in Smtp!Addressed(e) |-> @[a] + (IF a \in Smtp!Envelope(e) THEN 1 ELSE 0)]]
               /\ shown' = [shown EXCEPT ![e] = @ \union Smtp!Headers(e)]
      BY <2>1, TakenForAll
    <2>2. CASE Untaken
      BY <2>2, UntakenKeeps DEF Untaken, SmtpInv, Smtp!TypeOK, SendInv
    <2> QED
      BY <1>2, <2>1, <2>2 DEF Smtp!Transact, Untaken
  <1>5. PoolOK
    BY DEF SmtpInv, Smtp!TypeOK, PoolOK, Pools
  <1>6. PoolOK'
    <2>1. CASE pool' = [pool EXCEPT ![n].idle = @ + 1]
      BY <1>5, <2>1 DEF PoolOK, Pools
    <2>2. CASE UNCHANGED pool
      BY <1>5, <2>2 DEF PoolOK
    <2> QED
      BY <1>3, <2>1, <2>2 DEF Smtp!Transact
  <1>7. smtp_faults' \in 0..MaxSmtpFaults
    BY DEF Smtp!Transact, Smtp!Fault, Smtp!NoFault, SmtpInv, Smtp!TypeOK, Smtp!SmtpDeliveryAssumption
  <1>8. PICK place \in Sending, link \in {"none", "live", "broken"} :
          task' = [task EXCEPT ![s].at = place, ![s].link = link]
    BY DEF Smtp!Transact, Sending
  <1>9. task' \in [Slots -> Tasks] /\ SendInv'
    BY <1>1, <1>4, <1>8, SendMoves
  <1>10. Smtp!TypeOK'
    BY <1>1, <1>4, <1>6, <1>7, <1>9 DEF SmtpInv, Smtp!TypeOK, PoolOK, Pools, Tasks, Sending
  <1> QED
    BY <1>4, <1>9, <1>10 DEF SmtpInv

\* An e-mail reaches all of its recipients or none, as often each, whatever does not
\* parse, whoever refuses it and however often it is tried, and no copy names an
\* address that it has as a blind copy only (send_inner, apply_recipients).
THEOREM RecipientsAsAsked == Smtp!SmtpDeliveryAssumption => (Smtp!Spec => []Smtp!SentAsAsked)
  <1> SUFFICES ASSUME Smtp!SmtpDeliveryAssumption PROVE Smtp!Spec => []Smtp!SentAsAsked
    OBVIOUS
  <1>1. Smtp!Init => SmtpInv
    <2> SUFFICES ASSUME Smtp!Init PROVE SmtpInv
      OBVIOUS
    <2>1. \A e \in Emails : copies[e] = [a \in Smtp!Addressed(e) |-> 0]
      BY DEF Smtp!Init
    <2>2. Smtp!AllOrNobody /\ Smtp!BlindStaysBlind
      BY <2>1 DEF Smtp!Init, Smtp!AllOrNobody, Smtp!BlindStaysBlind
    <2>3. MAX_ATTEMPTS \in Nat \ {0} /\ MaxSmtpFaults \in Nat /\ Len(Senders) \in Nat
      BY DEF Smtp!SmtpDeliveryAssumption
    <2>4. SendInv
      BY <2>3 DEF Smtp!Init, Smtp!Idle, SendInv, Sending
    <2>5. Smtp!TypeOK
      BY <2>1, <2>3 DEF Smtp!Init, Smtp!Idle, Smtp!TypeOK
    <2> QED
      BY <2>2, <2>4, <2>5 DEF SmtpInv
  <1>2. SmtpInv /\ [Smtp!Next]_Smtp!vars => SmtpInv'
    <2> SUFFICES ASSUME SmtpInv, [Smtp!Next]_Smtp!vars PROVE SmtpInv'
      OBVIOUS
    <2>1. CASE Smtp!Build
      BY <2>1 DEF Smtp!Build, SmtpInv, Smtp!TypeOK, SendInv, Smtp!AllOrNobody, Smtp!BlindStaysBlind
    <2>2. CASE UNCHANGED Smtp!vars
      BY <2>2 DEF Smtp!vars, SmtpInv, Smtp!TypeOK, SendInv, Smtp!AllOrNobody, Smtp!BlindStaysBlind
    <2> QED
      BY <2>1, <2>2, AroundStep, ConnectStep, TransactStep, IdleStep DEF Smtp!Next, Smtp!SendStep
  <1>3. SmtpInv => Smtp!SentAsAsked
    BY DEF SmtpInv, Smtp!SentAsAsked
  <1> QED
    BY <1>1, <1>2, <1>3, PTL DEF Smtp!Spec

-----------------------------------------------------------------------------
(* The rendering of an e-mail (Rendering).                                 *)

Holds == [at : {"free"} \union Whole!Stages, email : Bodies \union {NoEmail}, attempt : Nat,
          parts : SUBSET {"text", "html"}, files : Seq(Whole!Blobs)]

\* What the task t has found out about its e-mail when it is at a stage.
Knows(t) ==
  /\ t.at = "fetch" => Source[t.email] = "remote" /\ t.email \in Allowed
  /\ t.at \in Whole!Stages \ {"resolve"} => Whole!Rejects(t.email) # "template_resolve"
  /\ t.at \in Whole!Stages \ {"resolve", "fetch", "interpolate"} =>
       Whole!Rejects(t.email) # "template_interpolate"
  /\ t.at = "include" => t.email \in Includes
  /\ t.at \in {"include", "attach", "send", "sent"} => Whole!Rejects(t.email) = "none"

\* What it has of the message: nothing before the attachments, of them the first ones
\* that it has read, and all of it from then on.
Has(t) ==
  /\ t.at \in Whole!Stages \ {"attach", "send", "sent"} => t.files = <<>>
  /\ t.at \in {"attach", "send", "sent"} => t.parts = Whole!Rendered(t.email)
  /\ t.at = "attach" => /\ Len(t.files) <= Len(Files[t.email])
                        /\ \A i \in 1..Len(t.files) : t.files[i] = Files[t.email][i]
  /\ t.at \in {"send", "sent"} => t.files = Files[t.email]

TaskOK(t) ==
  /\ t \in Holds
  /\ t.at = "free" <=> t = Whole!Free
  /\ t.at # "free" => t.email \in Bodies /\ t.attempt \in Nat \ {0}
  /\ t.at \in {"attach", "send"} => t.parts # {}
  /\ Knows(t) /\ Has(t)

TasksOK == DOMAIN renderer = Slots /\ \A s \in Slots : TaskOK(renderer[s])

RestOK ==
  /\ entry \in [Bodies -> {"visible", "hidden", "gone"}]
  /\ attempts \in [Bodies -> Nat]
  /\ blobs \subseteq Whole!Blobs
  /\ lapses \in 0..MaxLapses

OutcomesOK ==
  /\ DOMAIN sent = Bodies
  /\ failed \in [Bodies -> SUBSET Whole!Classes]
  /\ Whole!SentIsWhole /\ Whole!ClassNamesCause

RenderInv == TasksOK /\ RestOK /\ OutcomesOK

\* One task moves.
LEMMA TaskMoves ==
  ASSUME TasksOK, NEW s \in Slots, NEW t, TaskOK(t), renderer' = [renderer EXCEPT ![s] = t]
  PROVE  TasksOK'
  <1>1. \A x \in Slots : renderer'[x] = IF x = s THEN t ELSE renderer[x]
    BY DEF TasksOK
  <1>2. \A x \in Slots : TaskOK(renderer'[x])
    BY <1>1 DEF TasksOK
  <1>3. DOMAIN renderer' = Slots
    BY DEF TasksOK
  <1>4. ASSUME NEW x \in Slots PROVE TaskOK(renderer[x])'
    <2>1. TaskOK(renderer'[x])
      BY <1>2
    <2> QED
      BY <2>1 DEF TaskOK, Knows, Has, Holds
  <1> QED
    BY <1>3, <1>4 DEF TasksOK

\* The free slot.
LEMMA FreeIsOK == TaskOK(Whole!Free)
  BY DEF TaskOK, Knows, Has, Holds, Whole!Free, Whole!Stages

\* Of the invariant what a stage needs.
LEMMA Held ==
  ASSUME RenderInv, NEW s \in Slots, renderer[s].at # "free"
  PROVE  /\ renderer[s].email \in Bodies /\ renderer[s].attempt \in Nat \ {0}
         /\ TaskOK(renderer[s])
         /\ ~(renderer[s].at = "free")
  BY DEF RenderInv, TasksOK, TaskOK

\* A task that goes on to a stage at which it needs no more than it has.
LEMMA GoesOn ==
  ASSUME RenderInv, NEW s \in Slots, NEW stage \in Whole!Stages \ {"attach"},
         renderer[s].at # "free",
         [renderer[s] EXCEPT !.at = stage].at = stage =>
           Knows([renderer[s] EXCEPT !.at = stage]) /\ Has([renderer[s] EXCEPT !.at = stage]),
         stage = "send" => renderer[s].parts # {},
         Whole!Go(s, stage)
  PROVE  RenderInv'
  <1>1. renderer[s] \in Holds /\ renderer[s].email \in Bodies /\ renderer[s].attempt \in Nat \ {0}
    BY Held DEF TaskOK
  <1>2. PICK t : t = [renderer[s] EXCEPT !.at = stage]
    OBVIOUS
  <1>3. stage # "free" /\ stage \in {"free"} \union Whole!Stages
    BY DEF Whole!Stages
  <1>4. t \in Holds /\ t.at = stage /\ t.email = renderer[s].email /\ t.parts = renderer[s].parts
        /\ t.attempt = renderer[s].attempt
    BY <1>1, <1>2, <1>3 DEF Holds
  <1>5. TaskOK(t)
    <2>1. t # Whole!Free
      BY <1>3, <1>4 DEF Whole!Free
    <2>2. Knows(t) /\ Has(t)
      BY <1>2, <1>4
    <2> QED
      BY <1>1, <1>3, <1>4, <2>1, <2>2 DEF TaskOK
  <1>6. renderer' = [renderer EXCEPT ![s] = t]
    BY <1>2 DEF Whole!Go, Whole!Goto, RenderInv, TasksOK
  <1>7. TasksOK'
    BY <1>5, <1>6, TaskMoves DEF RenderInv
  <1>8. RestOK' /\ OutcomesOK'
    BY DEF Whole!Go, RenderInv, RestOK, OutcomesOK, Whole!SentIsWhole, Whole!ClassNamesCause
  <1> QED
    BY <1>7, <1>8 DEF RenderInv

\* Whom a class may blame.
Blames(e, c) ==
  \/ c = Whole!Rejects(e)
  \/ c = "template_resolve" /\ Source[e] = "remote" /\ e \in Allowed
  \/ /\ Whole!Rejects(e) = "none"
     /\ \/ c = "template_render" /\ e \in Includes
        \/ c = "routing" /\ e \in Unroutable
        \/ c \in {"attachment", "delivery"}

\* A failure with a class that names its cause.
LEMMA FailStep ==
  ASSUME RenderInv, NEW s \in Slots, NEW error \in DOMAIN Whole!ClassOf,
         renderer[s].at # "free", Blames(renderer[s].email, Whole!ClassOf[error]),
         Whole!Fail(s, error)
  PROVE  RenderInv'
  <1>1. PICK e \in Bodies : e = renderer[s].email
    BY Held
  <1>2. PICK c : c = Whole!ClassOf[error]
    OBVIOUS
  <1>3. c \in Whole!Classes
    BY <1>2 DEF Whole!ClassOf, Whole!Classes
  <1>4. /\ renderer' = [renderer EXCEPT ![s] = Whole!Free]
        /\ UNCHANGED <<attempts, blobs, sent, lapses>>
        /\ \/ entry' = [entry EXCEPT ![e] = "gone"] /\ failed' = [failed EXCEPT ![e] = @ \union {c}]
           \/ entry' = [entry EXCEPT ![e] = IF @ = "gone" THEN @ ELSE "hidden"] /\ UNCHANGED failed
    BY <1>1, <1>2 DEF Whole!Fail
  <1>5. TasksOK'
    BY <1>4, FreeIsOK, TaskMoves DEF RenderInv
  <1>6. RestOK'
    BY <1>4 DEF RenderInv, RestOK
  <1>7. OutcomesOK'
    <2>1. failed' \in [Bodies -> SUBSET Whole!Classes] /\ DOMAIN sent' = Bodies
      BY <1>3, <1>4 DEF RenderInv, OutcomesOK
    <2>2. \A x \in Bodies : \A d \in failed'[x] : d \in failed[x] \/ (x = e /\ d = c)
      BY <1>4 DEF RenderInv, OutcomesOK
    <2>3. \A x \in Bodies : \A d \in failed[x] : Blames(x, d)
      BY DEF RenderInv, OutcomesOK, Whole!ClassNamesCause, Blames
    <2>4. \A x \in Bodies : \A d \in failed'[x] : Blames(x, d)
      BY <1>1, <1>2, <2>2, <2>3
    <2>5. Whole!ClassNamesCause'
      BY <1>4, <2>4 DEF RenderInv, OutcomesOK, Whole!ClassNamesCause, Blames, Whole!Rejects
    <2>6. Whole!SentIsWhole'
      BY <1>4 DEF RenderInv, OutcomesOK, Whole!SentIsWhole
    <2> QED
      BY <2>1, <2>5, <2>6 DEF OutcomesOK
  <1> QED
    BY <1>5, <1>6, <1>7 DEF RenderInv

\* The message has its parts now and its attachments are yet to be read.
LEMMA ToAttachStep ==
  ASSUME Whole!RenderingAssumption, RenderInv, NEW s \in Slots,
         renderer[s].at \in {"render", "include"},
         Whole!Rejects(renderer[s].email) = "none", Whole!ToAttach(s)
  PROVE  RenderInv'
  <1>1. renderer[s].at # "free"
    OBVIOUS
  <1>2. PICK e \in Bodies : e = renderer[s].email
    BY <1>1, Held
  <1>3. renderer[s] \in Holds /\ renderer[s].attempt \in Nat \ {0} /\ renderer[s].files = <<>>
    BY <1>1, Held DEF TaskOK, Has, Whole!Stages
  <1>4. Whole!Rendered(e) # {} /\ Whole!Rendered(e) \subseteq {"text", "html"} /\ Files[e] \in Seq(Whole!Blobs)
    BY DEF Whole!Rendered, Whole!RenderingAssumption
  <1>5. PICK t : t = [renderer[s] EXCEPT !.at = "attach", !.parts = Whole!Rendered(e)]
    OBVIOUS
  <1>6. t \in Holds /\ t.at = "attach" /\ t.email = e /\ t.parts = Whole!Rendered(e)
        /\ t.attempt = renderer[s].attempt /\ t.files = <<>>
    BY <1>2, <1>3, <1>4, <1>5 DEF Holds, Whole!Stages
  <1>7. TaskOK(t)
    <2>1. Len(t.files) = 0 /\ Len(Files[e]) \in Nat
      BY <1>4, <1>6
    <2>2. Has(t)
      BY <1>6, <2>1 DEF Has, Whole!Stages
    <2>3. Knows(t)
      BY <1>2, <1>6 DEF Knows
    <2>4. t # Whole!Free
      BY <1>6 DEF Whole!Free
    <2> QED
      BY <1>3, <1>4, <1>6, <2>2, <2>3, <2>4 DEF TaskOK
  <1>8. renderer' = [renderer EXCEPT ![s] = t]
    BY <1>2, <1>5 DEF Whole!ToAttach, RenderInv, TasksOK
  <1>9. TasksOK'
    BY <1>7, <1>8, TaskMoves DEF RenderInv
  <1>10. RestOK' /\ OutcomesOK'
    BY DEF Whole!ToAttach, RenderInv, RestOK, OutcomesOK, Whole!SentIsWhole, Whole!ClassNamesCause
  <1> QED
    BY <1>9, <1>10 DEF RenderInv

\* The stages before the attachments.
LEMMA TemplateStep ==
  ASSUME Whole!RenderingAssumption, RenderInv, NEW s \in Slots,
         \/ Whole!Resolve(s) \/ Whole!Fetch(s) \/ Whole!Interpolate(s)
         \/ Whole!Render(s) \/ Whole!Include(s)
  PROVE  RenderInv'
  <1>0. renderer[s].at # "free" /\ renderer[s].at \in Whole!Stages
    BY DEF Whole!Resolve, Whole!Fetch, Whole!Interpolate, Whole!Render, Whole!Include, Whole!At, Whole!Stages
  <1>1. PICK e \in Bodies : e = renderer[s].email
    BY <1>0, Held
  <1>2. Knows(renderer[s]) /\ Has(renderer[s]) /\ renderer[s] \in Holds
    BY <1>0, Held DEF TaskOK
  <1>3. Source[e] \in Whole!Sources /\ Spoilt[e] \in {"none", "interpolate", "render"}
    BY DEF Whole!RenderingAssumption
  <1>4. ASSUME NEW stage \in Whole!Stages
        PROVE  LET t == [renderer[s] EXCEPT !.at = stage]
               IN t.at = stage /\ t.email = e /\ t.files = renderer[s].files /\ t.parts = renderer[s].parts
    BY <1>1, <1>2 DEF Holds
  <1>5. CASE Whole!Resolve(s)
    <2>1. renderer[s].at = "resolve"
      BY <1>5 DEF Whole!Resolve, Whole!At
    <2>2. CASE Source[e] \in {"plain", "inline"} \/ (Source[e] = "named" /\ e \in Loaded)
      <3>1. Whole!Go(s, "interpolate")
        BY <1>1, <1>5, <2>2 DEF Whole!Resolve
      <3>2. Whole!Rejects(e) # "template_resolve"
        BY <2>2 DEF Whole!Rejects
      <3> QED
        BY <1>0, <1>2, <1>4, <2>1, <3>1, <3>2, GoesOn DEF Knows, Has, Whole!Stages
    <2>3. CASE Source[e] = "remote" /\ e \in Allowed
      <3>1. Whole!Go(s, "fetch")
        BY <1>1, <1>5, <2>3 DEF Whole!Resolve, Whole!check_domain
      <3>2. ~((Source[e] = "named" /\ e \notin Loaded) \/ (Source[e] = "remote" /\ e \notin Allowed))
        BY <2>3
      <3>3. Whole!Rejects(e) # "template_resolve"
        BY <3>2 DEF Whole!Rejects
      <3> QED
        BY <1>0, <1>2, <1>4, <2>1, <2>3, <3>1, <3>3, GoesOn DEF Knows, Has, Whole!Stages
    <2>4. CASE (Source[e] = "named" /\ e \notin Loaded) \/ (Source[e] = "remote" /\ e \notin Allowed)
      <3>1. Whole!Fail(s, "Resolve")
        BY <1>1, <1>5, <2>4 DEF Whole!Resolve, Whole!check_domain
      <3>2. Whole!Rejects(e) = "template_resolve"
        BY <2>4 DEF Whole!Rejects
      <3> QED
        BY <1>0, <1>1, <3>1, <3>2, FailStep DEF Blames, Whole!ClassOf
    <2> QED
      BY <1>3, <2>2, <2>3, <2>4 DEF Whole!Sources
  <1>6. CASE Whole!Fetch(s)
    <2>1. renderer[s].at = "fetch" /\ (Whole!Go(s, "interpolate") \/ Whole!Fail(s, "Resolve"))
      BY <1>6 DEF Whole!Fetch, Whole!At
    <2>2. Source[e] = "remote" /\ e \in Allowed /\ Whole!Rejects(e) # "template_resolve"
      BY <1>1, <1>2, <2>1 DEF Knows, Whole!Stages
    <2>3. CASE Whole!Go(s, "interpolate")
      BY <1>0, <1>2, <1>4, <2>1, <2>2, <2>3, GoesOn DEF Knows, Has, Whole!Stages
    <2>4. CASE Whole!Fail(s, "Resolve")
      BY <1>0, <1>1, <2>2, <2>4, FailStep DEF Blames, Whole!ClassOf
    <2> QED
      BY <2>1, <2>3, <2>4
  <1>7. CASE Whole!Interpolate(s)
    <2>1. renderer[s].at = "interpolate"
      BY <1>7 DEF Whole!Interpolate, Whole!At
    <2>2. Whole!Rejects(e) # "template_resolve"
      BY <1>1, <1>2, <2>1 DEF Knows, Whole!Stages
    <2>3. CASE Spoilt[e] = "interpolate"
      <3>1. Whole!Fail(s, "Interpolate")
        BY <1>1, <1>7, <2>3 DEF Whole!Interpolate
      <3>2. Whole!Rejects(e) = "template_interpolate"
        BY <2>2, <2>3 DEF Whole!Rejects
      <3> QED
        BY <1>0, <1>1, <3>1, <3>2, FailStep DEF Blames, Whole!ClassOf
    <2>4. CASE Spoilt[e] # "interpolate"
      <3>1. Whole!Go(s, "render")
        BY <1>1, <1>7, <2>4 DEF Whole!Interpolate
      <3>2. Whole!Rejects(e) # "template_interpolate"
        BY <2>4 DEF Whole!Rejects
      <3> QED
        BY <1>0, <1>2, <1>4, <2>1, <2>2, <3>1, <3>2, GoesOn DEF Knows, Has, Whole!Stages
    <2> QED
      BY <2>3, <2>4
  <1>8. CASE Whole!Render(s)
    <2>1. renderer[s].at = "render"
      BY <1>8 DEF Whole!Render, Whole!At
    <2>2. Whole!Rejects(e) \notin {"template_resolve", "template_interpolate"}
      BY <1>1, <1>2, <2>1 DEF Knows, Whole!Stages
    <2>3. CASE Source[e] # "plain" /\ Spoilt[e] = "render"
      <3>1. Whole!Fail(s, "Render")
        BY <1>1, <1>8, <2>3 DEF Whole!Render
      <3>2. Whole!Rejects(e) = "template_render"
        BY <2>2, <2>3 DEF Whole!Rejects
      <3> QED
        BY <1>0, <1>1, <3>1, <3>2, FailStep DEF Blames, Whole!ClassOf
    <2>4. CASE ~(Source[e] # "plain" /\ Spoilt[e] = "render")
      <3>1. Whole!Rejects(e) = "none"
        BY <2>2, <2>4 DEF Whole!Rejects
      <3>2. CASE Source[e] # "plain" /\ e \in Includes
        <4>1. Whole!Go(s, "include")
          BY <1>1, <1>8, <2>4, <3>2 DEF Whole!Render
        <4> QED
          BY <1>0, <1>2, <1>4, <2>1, <3>1, <3>2, <4>1, GoesOn DEF Knows, Has, Whole!Stages
      <3>3. CASE ~(Source[e] # "plain" /\ e \in Includes)
        <4>1. Whole!ToAttach(s)
          BY <1>1, <1>8, <2>4, <3>3 DEF Whole!Render
        <4> QED
          BY <1>1, <2>1, <3>1, <4>1, ToAttachStep
      <3> QED
        BY <3>2, <3>3
    <2> QED
      BY <2>3, <2>4
  <1>9. CASE Whole!Include(s)
    <2>1. renderer[s].at = "include" /\ (Whole!ToAttach(s) \/ Whole!Fail(s, "Render"))
      BY <1>9 DEF Whole!Include, Whole!At
    <2>2. e \in Includes /\ Whole!Rejects(e) = "none"
      BY <1>1, <1>2, <2>1 DEF Knows
    <2>3. CASE Whole!ToAttach(s)
      BY <1>1, <2>1, <2>2, <2>3, ToAttachStep
    <2>4. CASE Whole!Fail(s, "Render")
      BY <1>0, <1>1, <2>2, <2>4, FailStep DEF Blames, Whole!ClassOf
    <2> QED
      BY <2>1, <2>3, <2>4
  <1> QED
    BY <1>5, <1>6, <1>7, <1>8, <1>9

\* One attachment after the other.
LEMMA AttachStep ==
  ASSUME Whole!RenderingAssumption, RenderInv, NEW s \in Slots, Whole!Attach(s)
  PROVE  RenderInv'
  <1>0. renderer[s].at = "attach" /\ renderer[s].at # "free"
    BY DEF Whole!Attach, Whole!At
  <1>1. PICK e \in Bodies : e = renderer[s].email
    BY <1>0, Held
  <1>2. Knows(renderer[s]) /\ Has(renderer[s]) /\ renderer[s] \in Holds /\ renderer[s].parts # {}
        /\ renderer[s].attempt \in Nat \ {0}
    BY <1>0, Held DEF TaskOK
  <1>3. PICK read : read = renderer[s].files
    OBVIOUS
  <1>4. Files[e] \in Seq(Whole!Blobs) /\ read \in Seq(Whole!Blobs)
    BY <1>2, <1>3 DEF Whole!RenderingAssumption, Holds
  <1>5. /\ Whole!Rejects(e) = "none" /\ renderer[s].parts = Whole!Rendered(e)
        /\ Len(read) <= Len(Files[e]) /\ \A i \in 1..Len(read) : read[i] = Files[e][i]
    BY <1>0, <1>1, <1>2, <1>3 DEF Knows, Has
  <1>6. CASE Len(read) + 1 > Len(Files[e]) /\ Whole!Go(s, "send")
    <2>1. read = Files[e]
      BY <1>4, <1>5, <1>6
    <2>2. LET t == [renderer[s] EXCEPT !.at = "send"]
          IN t.at = "send" /\ t.email = e /\ t.files = read /\ t.parts = renderer[s].parts
      BY <1>1, <1>2, <1>3 DEF Holds
    <2>3. Knows([renderer[s] EXCEPT !.at = "send"]) /\ Has([renderer[s] EXCEPT !.at = "send"])
      BY <1>5, <2>1, <2>2 DEF Knows, Has, Whole!Stages
    <2> QED
      BY <1>0, <1>2, <1>6, <2>3, GoesOn DEF Whole!Stages
  <1>7. CASE /\ Len(read) + 1 <= Len(Files[e])
             /\ renderer' = [renderer EXCEPT ![s].files = Append(@, Files[e][Len(read) + 1])]
             /\ UNCHANGED <<entry, attempts, blobs, sent, failed, lapses>>
    <2>1. PICK b : b = Files[e][Len(read) + 1]
      OBVIOUS
    <2>2. b \in Whole!Blobs
      BY <1>4, <1>7, <2>1
    <2>3. PICK more : more = Append(read, b)
      OBVIOUS
    <2>4. more \in Seq(Whole!Blobs) /\ Len(more) = Len(read) + 1
          /\ \A i \in 1..Len(more) : more[i] = Files[e][i]
      BY <1>4, <1>5, <2>1, <2>2, <2>3
    <2>5. PICK t : t = [renderer[s] EXCEPT !.files = more]
      OBVIOUS
    <2>6. t \in Holds /\ t.at = "attach" /\ t.email = e /\ t.files = more
          /\ t.parts = renderer[s].parts /\ t.attempt = renderer[s].attempt
      BY <1>0, <1>1, <1>2, <2>4, <2>5 DEF Holds
    <2>7. TaskOK(t)
      <3>1. Has(t)
        BY <1>5, <1>7, <2>4, <2>6 DEF Has, Whole!Stages
      <3>2. Knows(t)
        BY <1>5, <2>6 DEF Knows
      <3>3. t # Whole!Free
        BY <2>6 DEF Whole!Free
      <3> QED
        BY <1>2, <2>6, <3>1, <3>2, <3>3 DEF TaskOK
    <2>8. renderer' = [renderer EXCEPT ![s] = t]
      BY <1>3, <1>7, <2>1, <2>3, <2>5 DEF RenderInv, TasksOK
    <2>9. TasksOK'
      BY <2>7, <2>8, TaskMoves DEF RenderInv
    <2>10. RestOK' /\ OutcomesOK'
      BY <1>7 DEF RenderInv, RestOK, OutcomesOK, Whole!SentIsWhole, Whole!ClassNamesCause
    <2> QED
      BY <2>9, <2>10 DEF RenderInv
  <1>8. CASE Whole!Fail(s, "AttachmentResolve")
    BY <1>0, <1>1, <1>5, <1>8, FailStep DEF Blames, Whole!ClassOf
  <1> QED
    BY <1>1, <1>3, <1>6, <1>7, <1>8 DEF Whole!Attach

\* The message goes out, or the sender fails.
LEMMA SendStep ==
  ASSUME Whole!RenderingAssumption, RenderInv, NEW s \in Slots, Whole!Send(s)
  PROVE  RenderInv'
  <1>0. renderer[s].at = "send" /\ renderer[s].at # "free"
    BY DEF Whole!Send, Whole!At
  <1>1. PICK e \in Bodies : e = renderer[s].email
    BY <1>0, Held
  <1>2. Knows(renderer[s]) /\ Has(renderer[s]) /\ renderer[s] \in Holds
        /\ renderer[s].attempt \in Nat \ {0}
    BY <1>0, Held DEF TaskOK
  <1>3. /\ Whole!Rejects(e) = "none" /\ renderer[s].parts = Whole!Rendered(e)
        /\ renderer[s].files = Files[e]
    BY <1>0, <1>1, <1>2 DEF Knows, Has
  <1>4. CASE e \in Unroutable /\ Whole!Fail(s, "NoMatchingRoute")
    BY <1>0, <1>1, <1>3, <1>4, FailStep DEF Blames, Whole!ClassOf
  <1>5. CASE Whole!Fail(s, "Send")
    BY <1>0, <1>1, <1>3, <1>5, FailStep DEF Blames, Whole!ClassOf
  <1>6. CASE /\ sent' = [sent EXCEPT ![e] = @ \union {Whole!Message(s)}] /\ Whole!Goto(s, "sent")
             /\ UNCHANGED <<entry, attempts, blobs, failed, lapses>>
    <2>1. PICK t : t = [renderer[s] EXCEPT !.at = "sent"]
      OBVIOUS
    <2>2. t \in Holds /\ t.at = "sent" /\ t.email = e /\ t.files = Files[e]
          /\ t.parts = renderer[s].parts /\ t.attempt = renderer[s].attempt
      BY <1>1, <1>2, <1>3, <2>1 DEF Holds, Whole!Stages
    <2>3. TaskOK(t)
      BY <1>2, <1>3, <2>2 DEF TaskOK, Knows, Has, Whole!Free, Whole!Stages
    <2>4. renderer' = [renderer EXCEPT ![s] = t]
      BY <1>6, <2>1 DEF Whole!Goto, RenderInv, TasksOK
    <2>5. TasksOK'
      BY <2>3, <2>4, TaskMoves DEF RenderInv
    <2>6. PICK m : m = Whole!Message(s)
      OBVIOUS
    <2>7. m.files = Files[e] /\ m.parts = Whole!Rendered(e)
      BY <1>3, <2>6 DEF Whole!Message
    <2>8. \A x \in Bodies : sent'[x] = IF x = e THEN sent[e] \union {m} ELSE sent[x]
      BY <1>6, <2>6 DEF RenderInv, OutcomesOK
    <2>9. Whole!SentIsWhole'
      <3>1. \A x \in Bodies : \A n \in sent[x] : n.files = Files[x] /\ n.parts = Whole!Rendered(x)
        BY DEF RenderInv, OutcomesOK, Whole!SentIsWhole, Whole!Rendered
      <3>2. \A x \in Bodies : \A n \in sent'[x] : n.files = Files[x] /\ n.parts = Whole!Rendered(x)
        BY <2>7, <2>8, <3>1
      <3> QED
        BY <3>2 DEF Whole!SentIsWhole, Whole!Rendered
    <2>10. Whole!ClassNamesCause'
      BY <1>3, <1>6, <2>8 DEF RenderInv, OutcomesOK, Whole!ClassNamesCause, Whole!Rejects
    <2>11. RestOK' /\ DOMAIN sent' = Bodies /\ failed' \in [Bodies -> SUBSET Whole!Classes]
      BY <1>6 DEF RenderInv, RestOK, OutcomesOK
    <2> QED
      BY <2>5, <2>9, <2>10, <2>11 DEF RenderInv, OutcomesOK
  <1> QED
    BY <1>1, <1>4, <1>5, <1>6 DEF Whole!Send

\* The queue's steps and the end of a task.
LEMMA QueueStep ==
  ASSUME Whole!RenderingAssumption, RenderInv,
         \/ \E s \in Slots : Whole!Finish(s) \/ \E e \in Bodies : Whole!Claim(s, e)
         \/ \E e \in Bodies : Whole!Reappear(e)
  PROVE  RenderInv'
  <1>1. ASSUME NEW s \in Slots, Whole!Finish(s) PROVE RenderInv'
    <2>1. renderer[s].at # "free"
      BY <1>1 DEF Whole!Finish, Whole!At
    <2>2. PICK e \in Bodies : e = renderer[s].email
      BY <2>1, Held
    <2>3. TasksOK'
      BY <1>1, FreeIsOK, TaskMoves DEF Whole!Finish, RenderInv
    <2>4. RestOK'
      BY <1>1, <2>2 DEF Whole!Finish, RenderInv, RestOK
    <2>5. OutcomesOK'
      BY <1>1 DEF Whole!Finish, RenderInv, OutcomesOK, Whole!SentIsWhole, Whole!ClassNamesCause
    <2> QED
      BY <2>3, <2>4, <2>5 DEF RenderInv
  <1>2. ASSUME NEW s \in Slots, NEW e \in Bodies, Whole!Claim(s, e) PROVE RenderInv'
    <2>1. attempts[e] \in Nat
      BY DEF RenderInv, RestOK
    <2>2. PICK t : t = [Whole!Free EXCEPT !.at = "resolve", !.email = e, !.attempt = attempts[e] + 1]
      OBVIOUS
    <2>3. t \in Holds /\ t.at = "resolve" /\ t.email = e /\ t.files = <<>> /\ t.attempt \in Nat \ {0}
      <3>1. t = [at |-> "resolve", email |-> e, attempt |-> attempts[e] + 1, parts |-> {}, files |-> <<>>]
        BY <2>2 DEF Whole!Free
      <3>2. attempts[e] + 1 \in Nat \ {0}
        BY <2>1
      <3> QED
        BY <3>1, <3>2 DEF Holds, Whole!Stages
    <2>4. TaskOK(t)
      BY <2>3 DEF TaskOK, Knows, Has, Whole!Free, Whole!Stages
    <2>5. renderer' = [renderer EXCEPT ![s] = t]
      BY <1>2, <2>2 DEF Whole!Claim
    <2>6. TasksOK'
      BY <2>4, <2>5, TaskMoves DEF RenderInv
    <2>7. RestOK'
      <3>1. entry' \in [Bodies -> {"visible", "hidden", "gone"}]
        BY <1>2 DEF Whole!Claim, RenderInv, RestOK
      <3>2. attempts' = [attempts EXCEPT ![e] = attempts[e] + 1]
        BY <1>2 DEF Whole!Claim
      <3>3. attempts' \in [Bodies -> Nat]
        BY <2>1, <3>2 DEF RenderInv, RestOK
      <3> QED
        BY <1>2, <3>1, <3>3 DEF Whole!Claim, RenderInv, RestOK
    <2>8. OutcomesOK'
      BY <1>2 DEF Whole!Claim, RenderInv, OutcomesOK, Whole!SentIsWhole, Whole!ClassNamesCause
    <2> QED
      BY <2>6, <2>7, <2>8 DEF RenderInv
  <1>3. ASSUME NEW e \in Bodies, Whole!Reappear(e) PROVE RenderInv'
    <2>1. TasksOK'
      BY <1>3 DEF Whole!Reappear, RenderInv, TasksOK
    <2>2. RestOK'
      BY <1>3 DEF Whole!Reappear, RenderInv, RestOK, Whole!RenderingAssumption
    <2>3. OutcomesOK'
      BY <1>3 DEF Whole!Reappear, RenderInv, OutcomesOK, Whole!SentIsWhole, Whole!ClassNamesCause
    <2> QED
      BY <2>1, <2>2, <2>3 DEF RenderInv
  <1> QED
    BY <1>1, <1>2, <1>3

\* Whatever reaches a server has every part of the body and every attachment in
\* order, and the class of a failure names the first stage that rejects the e-mail
\* (execute, resolve_attachments, error_class): for any number of e-mails, tasks and
\* attachments, whoever deletes blobs meanwhile.
THEOREM RenderedAsAsked == Whole!RenderingAssumption => (Whole!Spec => []Whole!SentAsAsked)
  <1> SUFFICES ASSUME Whole!RenderingAssumption PROVE Whole!Spec => []Whole!SentAsAsked
    OBVIOUS
  <1>1. Whole!Init => RenderInv
    <2> SUFFICES ASSUME Whole!Init PROVE RenderInv
      OBVIOUS
    <2>1. TasksOK
      BY FreeIsOK DEF Whole!Init, TasksOK
    <2>2. RestOK
      BY DEF Whole!Init, RestOK, Whole!RenderingAssumption
    <2>3. OutcomesOK
      BY DEF Whole!Init, OutcomesOK, Whole!SentIsWhole, Whole!ClassNamesCause
    <2> QED
      BY <2>1, <2>2, <2>3 DEF RenderInv
  <1>2. RenderInv /\ [Whole!Next]_Whole!vars => RenderInv'
    <2> SUFFICES ASSUME RenderInv, [Whole!Next]_Whole!vars PROVE RenderInv'
      OBVIOUS
    <2>1. CASE UNCHANGED Whole!vars
      BY <2>1 DEF Whole!vars, RenderInv, TasksOK, RestOK, OutcomesOK, Whole!SentIsWhole,
                  Whole!ClassNamesCause
    <2> QED
      BY <2>1, TemplateStep, AttachStep, SendStep, QueueStep DEF Whole!Next, Whole!Own, Whole!Remote
  <1>3. RenderInv => Whole!SentAsAsked
    <2> SUFFICES ASSUME RenderInv PROVE Whole!SentAsAsked
      OBVIOUS
    <2>1. \A s \in Slots : TaskOK(renderer[s]) /\ renderer[s] \in Holds
      BY DEF RenderInv, TasksOK, TaskOK
    <2>2. Whole!TypeOK
      BY <2>1 DEF RenderInv, RestOK, OutcomesOK, TaskOK, Holds, Whole!TypeOK
    <2> QED
      BY <2>2 DEF RenderInv, OutcomesOK, Whole!SentAsAsked
  <1> QED
    BY <1>1, <1>2, <1>3, PTL DEF Whole!Spec

\* What a server is sent is what was asked: all of its recipients or none, no address
\* that is a blind copy only, every part of the body and every attachment; and the
\* class of a failure names its cause (send_inner, execute): for any servers, e-mails
\* and concurrent sends.
THEOREM SentIsAsked == PartsSpec => []SentAsAsked
  <1> DEFINE Other == part \in {"failing", "named"}
  <1>1. /\ PartsInit => Smtp!Init
        /\ PartsInit /\ ~Other => Whole!Init
    BY DEF PartsInit
  <1>2. /\ [PartsNext]_allVars => [Smtp!Next]_Smtp!vars
        /\ ~Other /\ [PartsNext]_allVars => [Whole!Next]_Whole!vars
    BY DEF PartsNext, allVars, smtp, rendering, Smtp!vars, Whole!vars
  <1>3. [PartsNext]_allVars => (Other <=> Other')
    BY DEF PartsNext, allVars
  <1>4. Smtp!SmtpDeliveryAssumption /\ Whole!RenderingAssumption
    BY PartsAssumption
  <1>5. (Smtp!Spec => []Smtp!SentAsAsked) /\ (Whole!Spec => []Whole!SentAsAsked)
    BY <1>4, RecipientsAsAsked, RenderedAsAsked
  <1>6. Smtp!SentAsAsked /\ (Other \/ Whole!SentAsAsked) => SentAsAsked
    BY DEF SentAsAsked
  <1> HIDE DEF Other
  <1> QED
    BY <1>1, <1>2, <1>3, <1>5, <1>6, PTL DEF PartsSpec, Smtp!Spec, Whole!Spec

-----------------------------------------------------------------------------
(* Usage of the senders (SenderUsage): counting in a sequence.             *)

\* How many of the first n of a sequence are in a set.
Hits(s, S, n) == {k \in 1..n : s[k] \in S}
Num(s, S, n)  == Cardinality(Hits(s, S, n))

\* They are a number.
LEMMA NumType ==
  ASSUME NEW s, NEW S, NEW n \in Nat
  PROVE  IsFiniteSet(Hits(s, S, n)) /\ Num(s, S, n) \in Nat
  <1>1. Hits(s, S, n) \in SUBSET (1..n) /\ IsFiniteSet(1..n)
    BY FS_Interval DEF Hits
  <1> QED
    BY <1>1, FS_Subset, FS_CardinalityType DEF Num

\* More of a sequence, and of a set, are no fewer.
LEMMA NumGrows ==
  ASSUME NEW s, NEW S, NEW T, NEW m \in Nat, NEW n \in Nat, m <= n,
         \A k \in 1..m : s[k] \in S => s[k] \in T
  PROVE  Num(s, S, m) <= Num(s, T, n)
  <1>1. IsFiniteSet(Hits(s, T, n))
    BY NumType
  <1>2. Hits(s, S, m) \in SUBSET Hits(s, T, n)
    BY DEF Hits
  <1> QED
    BY <1>1, <1>2, FS_Subset DEF Num

\* What is appended counts when it is in the set; what came before counts as before.
LEMMA NumAppend ==
  ASSUME NEW U, NEW s \in Seq(U), NEW x, NEW S
  PROVE  /\ Num(Append(s, x), S, Len(s) + 1) =
              IF x \in S THEN Num(s, S, Len(s)) + 1 ELSE Num(s, S, Len(s))
         /\ \A n \in 0..Len(s) : Num(Append(s, x), S, n) = Num(s, S, n)
  <1> DEFINE t == Append(s, x)
             l == Len(s)
  <1>1. l \in Nat /\ t[l + 1] = x /\ \A k \in 1..l : t[k] = s[k]
    OBVIOUS
  <1> HIDE DEF t, l
  <1>2. \A n \in 0..l : Hits(t, S, n) = Hits(s, S, n)
    BY <1>1 DEF Hits
  <1>3. l \in 0..l
    BY <1>1
  <1>4. CASE x \in S
    <2>1. Hits(t, S, l + 1) = Hits(s, S, l) \union {l + 1}
      BY <1>1, <1>4 DEF Hits
    <2>2. l + 1 \notin Hits(s, S, l)
      BY <1>1 DEF Hits
    <2>3. IsFiniteSet(Hits(s, S, l))
      BY <1>1, NumType
    <2> QED
      BY <1>2, <1>4, <2>1, <2>2, <2>3, FS_AddElement DEF Num, t, l
  <1>5. CASE x \notin S
    <2>1. Hits(t, S, l + 1) = Hits(s, S, l)
      BY <1>1, <1>5 DEF Hits
    <2> QED
      BY <1>2, <1>5, <2>1 DEF Num, t, l
  <1> QED
    BY <1>4, <1>5

-----------------------------------------------------------------------------
(* Usage of the senders: their windows.                                    *)

\* The names of the senders differ. (What quotas count is kept per name, and of several
\* senders with a name the last one's count is taken.)
NamesDiffer ==
  \A i, j \in Usage!Indices : Configs[i].name = Configs[j].name => i = j

\* The start of a sender's window.
Start(i, t) == Usage!Since(Configs[i].range, t)

\* Senders have a name, a quota of a number or none, and a window.
LEMMA SenderShapes ==
  /\ Len(Configs) \in Nat /\ Usage!Indices = 1..Len(Configs) /\ MaxTime \in Nat /\ MaxEvents \in Nat
  /\ \A i \in Usage!Indices : /\ Configs[i].name \in Usage!Names
                              /\ i \in Usage!Limited <=> Configs[i].count # Unlimited
                              /\ i \in Usage!Limited => Configs[i].count \in Nat
                              /\ Configs[i].range # Unlimited => Length[Configs[i].range] \in Nat
  <1>0. PICK S : S = [name : Usage!Names, count : Nat \union {Unlimited},
                      range : DOMAIN Length \union {Unlimited}]
    OBVIOUS
  <1>1. Configs \in Seq(S) /\ Length \in [DOMAIN Length -> Nat] /\ MaxTime \in Nat /\ MaxEvents \in Nat
    BY <1>0, PartsAssumption DEF Usage!UsageAssumption
  <1>2. Len(Configs) \in Nat /\ \A i \in 1..Len(Configs) : Configs[i] \in S
    BY <1>1
  <1>3. ASSUME NEW i \in 1..Len(Configs)
        PROVE  /\ Configs[i].name \in Usage!Names
               /\ Configs[i].count \in Nat \union {Unlimited}
               /\ Configs[i].range \in DOMAIN Length \union {Unlimited}
    BY <1>0, <1>2
  <1> QED
    BY <1>1, <1>2, <1>3 DEF Usage!Indices, Usage!Limited

\* A window starts no later than it ends, and moves forward with the clock.
LEMMA StartsMove ==
  ASSUME NEW i \in Usage!Indices, NEW t \in Nat, NEW u \in Nat, t <= u
  PROVE  Start(i, t) \in 0..t /\ Start(i, t) <= Start(i, u)
  <1>1. CASE Configs[i].range = Unlimited
    BY <1>1 DEF Start, Usage!Since
  <1>2. CASE Configs[i].range # Unlimited
    <2> PICK l \in Nat : l = Length[Configs[i].range]
      BY <1>2, SenderShapes
    <2>1. \A x \in Nat : Start(i, x) = IF x < l THEN 0 ELSE x - l
      BY <1>2 DEF Start, Usage!Since
    <2> QED
      BY <2>1
  <1> QED
    BY <1>1, <1>2

\* The limited senders are some of all.
LEMMA LimitedAreSenders == Usage!Limited \subseteq Usage!Indices
  BY DEF Usage!Limited

-----------------------------------------------------------------------------
(* Usage of the senders: what is counted.                                  *)

Kinds  == {"delivery.succeeded", "delivery.failed"}
Stored == [type : Kinds, sender : Usage!Names, at : Nat]

\* The events of a type and a sender from a time on, and how many of the first n are.
RowsOf(type, name, since)     == {e \in Stored : e.type = type /\ e.sender = name /\ e.at >= since}
Tally(type, name, since, n)   == Num(events, RowsOf(type, name, since), n)
Later(since)                  == {t \in Nat : t >= since}
Within(name, since)           == Num(accepted[name], Later(since), Len(accepted[name]))
Span(i, t)                    == Start(i, t)..t
InSpan(i, t)                  == Num(accepted[Configs[i].name], Span(i, t), Len(accepted[Configs[i].name]))

Stats == [name : Usage!Names, sent : Nat, failed : Nat]
Sends == [at : {"idle", "counting", "sent"}, started : Nat, left : SUBSET Nat,
          stats : [Usage!Names -> Stats], by : Usage!Names \union {None}, within : BOOLEAN,
          kind : {"Sent", "Failed"}]
Lists == [at : {"idle", "counting", "done"}, started : Nat, left : SUBSET Nat,
          stats : [Usage!Names -> Stats], seen : Nat]

\* The types.
UsageTyped ==
  /\ now \in 0..MaxTime
  /\ events \in Seq(Stored) /\ Len(events) <= MaxEvents
  /\ \A k \in 1..Len(events) : events[k].at <= now
  /\ accepted \in [Usage!Names -> Seq(Nat)]
  /\ \A name \in Usage!Names : \A k \in 1..Len(accepted[name]) : accepted[name][k] <= now
  /\ attempt_to_send \in Sends /\ attempt_to_send.started <= now
  /\ list \in Lists /\ list.started <= now /\ list.seen <= Len(events)
  /\ attempt_to_send.left # {} => attempt_to_send.at = "counting"
  /\ list.left # {} => list.at = "counting"
  /\ attempt_to_send.at # "idle" => Len(events) < MaxEvents
  /\ attempt_to_send.at = "sent" => attempt_to_send.by \in Usage!Names

\* One worker sends: no delivery is stored between its counts and its send, and the
\* windows it counted started no later than those of now. What it relies on is no less
\* than what is stored.
RelyInv ==
  /\ attempt_to_send.at = "counting" =>
       \A i \in Usage!Limited :
         Start(i, attempt_to_send.started) \notin attempt_to_send.left =>
           attempt_to_send.stats[Configs[i].name].sent
             >= Tally("delivery.succeeded", Configs[i].name, Start(i, attempt_to_send.started), Len(events))
  /\ attempt_to_send.at = "sent" /\ attempt_to_send.within =>
       \A i \in Usage!Limited : Configs[i].name = attempt_to_send.by =>
         Tally("delivery.succeeded", Configs[i].name, Start(i, now), Len(events)) < Configs[i].count

\* The deliveries that quotas allowed are among those stored, and at most the quota in any
\* window.
WindowInv ==
  /\ \A name \in Usage!Names : \A since \in Nat :
       Within(name, since) <= Tally("delivery.succeeded", name, since, Len(events))
  /\ \A i \in Usage!Limited : \A t \in 0..now : InSpan(i, t) <= Configs[i].count

\* A count that is listed is at least that of the events when the call began, and at most
\* that of now.
Lies(count, type, name, since) ==
  /\ count >= Tally(type, name, since, list.seen)
  /\ count <= Tally(type, name, since, Len(events))
ListInv ==
  list.at # "idle" =>
    \A i \in Usage!Indices : Start(i, list.started) \notin list.left =>
      /\ Lies(list.stats[Configs[i].name].sent, "delivery.succeeded", Configs[i].name, Start(i, list.started))
      /\ Lies(list.stats[Configs[i].name].failed, "delivery.failed", Configs[i].name, Start(i, list.started))

\* Cardinality means in the instance what it means here.
LEMMA UsageCounts ==
  ASSUME NEW S
  PROVE  Usage!Cardinality(S) = Cardinality(S)
  BY DEF Usage!Cardinality, Cardinality

\* What get_stats counts of the events is their tally.
LEMMA CountIsTally ==
  ASSUME UsageTyped, NEW type, NEW name, NEW since \in Nat, NEW n \in 0..Len(events)
  PROVE  Usage!Count(type, name, since, n) = Tally(type, name, since, n)
  <1>1. \A k \in 1..n : events[k] \in Stored
    <2>1. Len(events) \in Nat /\ \A k \in 1..Len(events) : events[k] \in Stored
      <3> HIDE DEF Stored
      <3> QED
        BY DEF UsageTyped
    <2> QED
      BY <2>1
  <1>2. {k \in 1..n : /\ events[k].type = type /\ events[k].sender = name
                      /\ Usage!InRange(events[k], since)}
          = Hits(events, RowsOf(type, name, since), n)
    BY <1>1 DEF Hits, RowsOf, Usage!InRange
  <1> QED
    BY <1>2, UsageCounts DEF Usage!Count, Tally, Num

\* A tally is a number; it grows with the events, and shrinks as its window starts later.
LEMMA TallyType ==
  ASSUME NEW type, NEW name, NEW since \in Nat, NEW later \in Nat, since <= later,
         NEW m \in Nat, NEW n \in Nat, m <= n
  PROVE  /\ Tally(type, name, since, n) \in Nat
         /\ Tally(type, name, later, m) <= Tally(type, name, since, n)
  <1>1. \A k \in 1..m : events[k] \in RowsOf(type, name, later) => events[k] \in RowsOf(type, name, since)
    BY DEF RowsOf, Stored
  <1> QED
    BY <1>1, NumType, NumGrows DEF Tally
-----------------------------------------------------------------------------
(* Usage of the senders: the groups of one start of a window.              *)

\* The members of P up to n, and how many they are.
Upto(P, n)  == {k \in 1..n : k \in P}
Count(P, n) == Cardinality(Upto(P, n))

\* Counts are numbers.
LEMMA CountType ==
  ASSUME NEW P, NEW n \in Nat
  PROVE  IsFiniteSet(Upto(P, n)) /\ Count(P, n) \in Nat /\ Count(P, 0) = 0
  <1>1. Upto(P, n) \in SUBSET (1..n) /\ IsFiniteSet(1..n)
    BY FS_Interval DEF Upto
  <1>2. IsFiniteSet(Upto(P, n))
    BY <1>1, FS_Subset
  <1>3. Upto(P, 0) = {}
    BY DEF Upto
  <1> QED
    BY <1>2, <1>3, FS_CardinalityType, FS_EmptySet DEF Count

\* Counts grow with the index, and at a member.
LEMMA CountGrows ==
  ASSUME NEW P, NEW m \in Nat, NEW n \in Nat, m <= n
  PROVE  Count(P, m) <= Count(P, n) /\ (m < n /\ n \in P => Count(P, m) < Count(P, n))
  <1>1. IsFiniteSet(Upto(P, n)) /\ Count(P, n) \in Nat /\ Count(P, m) \in Nat
    BY CountType
  <1>2. Upto(P, m) \in SUBSET Upto(P, n)
    BY DEF Upto
  <1>3. Cardinality(Upto(P, m)) <= Cardinality(Upto(P, n))
    BY <1>1, <1>2, FS_Subset
  <1>4. ASSUME m < n, n \in P
        PROVE  Cardinality(Upto(P, m)) # Cardinality(Upto(P, n))
    <2>1. n \in Upto(P, n) /\ n \notin Upto(P, m)
      BY <1>4 DEF Upto
    <2> QED
      BY <1>1, <1>2, <2>1, FS_Subset
  <1> QED
    BY <1>1, <1>3, <1>4 DEF Count

\* A member up to n is counted within the first n.
LEMMA CountWithin ==
  ASSUME NEW P, NEW n \in Nat, NEW k \in Upto(P, n)
  PROVE  Count(P, k) \in 1..Count(P, n)
  <1>1. k \in Nat /\ k - 1 \in Nat /\ k <= n /\ k \in P /\ k - 1 < k
    BY DEF Upto
  <1>2. Count(P, k) <= Count(P, n) /\ Count(P, k - 1) < Count(P, k)
    BY <1>1, CountGrows
  <1>3. Count(P, k) \in Nat /\ Count(P, n) \in Nat /\ Count(P, k - 1) \in Nat
    BY <1>1, CountType
  <1> QED
    BY <1>2, <1>3

\* Two members have two counts.
LEMMA CountsDiffer ==
  ASSUME NEW P, NEW n \in Nat, NEW j \in Upto(P, n), NEW k \in Upto(P, n), Count(P, j) = Count(P, k)
  PROVE  j = k
  <1>1. j \in Nat /\ k \in Nat /\ j \in P /\ k \in P
    BY DEF Upto
  <1>2. Count(P, j) \in Nat /\ Count(P, k) \in Nat
    BY <1>1, CountType
  <1>3. j < k => Count(P, j) < Count(P, k)
    BY <1>1, CountGrows
  <1>4. k < j => Count(P, k) < Count(P, j)
    BY <1>1, CountGrows
  <1> QED
    BY <1>1, <1>2, <1>3, <1>4

\* Every count up to the last is that of a member.
LEMMA CountsAreTaken ==
  ASSUME NEW P, NEW n \in Nat, NEW c \in 1..Count(P, n)
  PROVE  \E k \in Upto(P, n) : Count(P, k) = c
  <1> DEFINE S == Upto(P, n)
             m == Count(P, n)
             f == [k \in S |-> Count(P, k)]
  <1>1. m \in Nat /\ Cardinality(S) = m
    BY CountType DEF Count
  <1>2. \A k \in S : f[k] \in 1..m
    BY CountWithin
  <1>3. \A j, k \in S : f[j] = f[k] => j = k
    BY CountsDiffer
  <1>4. f \in Injection(S, 1..m)
    BY <1>2, <1>3 DEF Injection, IsInjective
  <1>5. IsFiniteSet(1..m) /\ Cardinality(1..m) = m
    <2> HIDE DEF m
    <2> QED
      BY <1>1, FS_Interval
  <1>6. f \in Surjection(S, 1..m)
    BY <1>1, <1>4, <1>5, FS_Injection
  <1>7. PICK k \in S : f[k] = c
    BY <1>6 DEF Surjection
  <1> QED
    BY <1>7

\* The senders of one start; and a list of them, by what Group makes of it.
Starting(is, t, since) == {i \in is : Start(i, t) = since}
Picks(is, t, since, m, pick) ==
  /\ Usage!Group(is, t, since) = [k \in 1..m |-> Configs[pick[k]].name]
  /\ \A k \in 1..m : pick[k] \in Starting(is, t, since)
  /\ \A j, k \in 1..m : pick[j] = pick[k] => j = k
  /\ \A i \in Starting(is, t, since) : \E k \in 1..m : pick[k] = i

\* A group is the senders of one start, each once.
LEMMA GroupShape ==
  ASSUME NEW is \in SUBSET Usage!Indices, NEW t, NEW since
  PROVE  \E m \in Nat : \E pick : Picks(is, t, since, m, pick)
  <1> DEFINE P        == {i \in is : Start(i, t) = since}
             L        == Len(Configs)
             m        == Count(P, L)
             In(i)    == i \in is /\ Usage!Since(Configs[i].range, t) = since
             chosen(k) == CHOOSE i \in Usage!Indices :
                            In(i) /\ Usage!Cardinality({j \in 1..i : In(j)}) = k
             pick     == [k \in 1..m |-> chosen(k)]
  <1>1. L \in Nat /\ Usage!Indices = 1..L
    BY SenderShapes
  <1>2. m \in Nat
    BY <1>1, CountType
  <1>3. Upto(P, L) = P
    BY <1>1 DEF Upto
  <1>4. \A i \in Nat : Usage!Cardinality({j \in 1..i : In(j)}) = Count(P, i)
    <2>1. \A i \in Nat : {j \in 1..i : In(j)} = Upto(P, i)
      BY DEF Upto, Start
    <2> QED
      BY <2>1, UsageCounts DEF Count
  <1>5. {i \in Usage!Indices : In(i)} = Upto(P, L)
    BY <1>1 DEF Upto, Start
  <1>6. \A i \in Usage!Indices : In(i) <=> i \in P
    BY DEF Start
  <1>7. Usage!Group(is, t, since) = [k \in 1..m |-> Configs[chosen(k)].name]
    <2>1. Usage!Cardinality({i \in Usage!Indices : In(i)}) = m
      BY <1>5, UsageCounts DEF Count
    <2> HIDE DEF m
    <2> QED
      BY <2>1 DEF Usage!Group
  <1>8. ASSUME NEW k \in 1..m
        PROVE  chosen(k) \in P /\ Count(P, chosen(k)) = k
    <2>1. PICK i \in Upto(P, L) : Count(P, i) = k
      BY <1>1, CountsAreTaken
    <2>2. i \in Usage!Indices /\ i \in Nat /\ In(i)
      <3>1. i \in P
        <4> HIDE DEF P
        <4> QED
          BY <1>3, <2>1
      <3> HIDE DEF P, In
      <3>2. i \in Usage!Indices
        BY <3>1 DEF P
      <3> QED
        BY <1>1, <1>6, <3>1, <3>2
    <2>3. Usage!Cardinality({j \in 1..i : In(j)}) = k
      BY <1>4, <2>1, <2>2
    <2> HIDE DEF In
    <2>4. /\ chosen(k) \in Usage!Indices
          /\ In(chosen(k)) /\ Usage!Cardinality({j \in 1..chosen(k) : In(j)}) = k
      BY <2>2, <2>3
    <2> HIDE DEF chosen, P
    <2>5. chosen(k) \in Nat
      BY <1>1, <2>4
    <2> QED
      BY <1>4, <1>6, <2>4, <2>5
  <1>9. ASSUME NEW i \in P
        PROVE  Count(P, i) \in 1..m /\ chosen(Count(P, i)) = i
    <2>1. Count(P, i) \in 1..m
      BY <1>1, <1>3, CountWithin
    <2>2. \A j \in P : Count(P, j) = Count(P, i) => j = i
      BY <1>1, <1>3, CountsDiffer
    <2> HIDE DEF chosen, P, m
    <2> QED
      BY <1>8, <2>1, <2>2
  <1> HIDE DEF m, chosen, P
  <1>10. \A k \in 1..m : pick[k] = chosen(k)
    OBVIOUS
  <1> HIDE DEF pick
  <1>11. \A k \in 1..m : pick[k] \in P
    BY <1>8, <1>10
  <1>12. \A j, k \in 1..m : pick[j] = pick[k] => j = k
    BY <1>8, <1>10
  <1>13. \A i \in P : \E k \in 1..m : pick[k] = i
    BY <1>9, <1>10
  <1>14. Usage!Group(is, t, since) = [k \in 1..m |-> Configs[pick[k]].name]
    BY <1>7, <1>10
  <1> QED
    BY <1>2, <1>11, <1>12, <1>13, <1>14 DEF P, Picks, Starting

\* What get_stats says of a sender; and what the statistics are before and after a group.
Row(i, since) ==
  [name |-> Configs[i].name,
   sent |-> Tally("delivery.succeeded", Configs[i].name, since, Len(events)),
   failed |-> Tally("delivery.failed", Configs[i].name, since, Len(events))]
Took(result, map, is, t, since) ==
  result = Usage!Insert(map, Usage!GetStats(Usage!Group(is, t, since), since))
Gets(result, map, is, t, since) ==
  /\ result \in [Usage!Names -> Stats]
  /\ \A i \in is : Start(i, t) = since => result[Configs[i].name] = Row(i, since)
  /\ \A i \in Usage!Indices : i \notin is \/ Start(i, t) # since =>
       result[Configs[i].name] = map[Configs[i].name]

\* The senders of a group are asked for together; each gets the count of its name, and the
\* others keep theirs.
LEMMA StatsOfGroup ==
  ASSUME NamesDiffer, UsageTyped, NEW is \in SUBSET Usage!Indices, NEW t, NEW since \in Nat,
         NEW map \in [Usage!Names -> Stats], NEW result, Took(result, map, is, t, since)
  PROVE  Gets(result, map, is, t, since)
  <1> DEFINE P == {i \in is : Start(i, t) = since}
             l == Len(events)
  <1>a. PICK m \in Nat : \E pick : Picks(is, t, since, m, pick)
    BY GroupShape
  <1>0. PICK pick : Picks(is, t, since, m, pick)
    BY <1>a
  <1>1. /\ Usage!Group(is, t, since) = [k \in 1..m |-> Configs[pick[k]].name]
        /\ \A k \in 1..m : pick[k] \in P
        /\ \A j, k \in 1..m : pick[j] = pick[k] => j = k
        /\ \A i \in P : \E k \in 1..m : pick[k] = i
    BY <1>0 DEF Picks, Starting
  <1>2. P \subseteq Usage!Indices
    OBVIOUS
  <1> HIDE DEF P
  <1> PICK group : group = Usage!Group(is, t, since)
    OBVIOUS
  <1>3. DOMAIN group = 1..m /\ \A k \in 1..m : group[k] = Configs[pick[k]].name
    BY <1>1
  <1>4. ASSUME NEW j \in 1..m, NEW k \in 1..m, group[j] = group[k]
        PROVE  j = k
    <2>1. pick[j] = pick[k]
      BY <1>1, <1>2, <1>3, <1>4 DEF NamesDiffer
    <2> QED
      BY <1>1, <2>1
  <1> PICK stats : stats = Usage!GetStats(group, since)
    OBVIOUS
  <1>5. DOMAIN stats = 1..m
    BY <1>3 DEF Usage!GetStats
  <1>6. ASSUME NEW k \in 1..m
        PROVE  stats[k] = Row(pick[k], since)
    <2>1. ~\E j \in 1..(k - 1) : group[j] = group[k]
      <3>1. \A j \in 1..(k - 1) : j \in 1..m /\ j # k
        OBVIOUS
      <3> QED
        BY <1>4, <3>1
    <2>2. Usage!Types.sent = "delivery.succeeded" /\ Usage!Types.failed = "delivery.failed"
      BY DEF Usage!Types, Usage!SqliteTypes
    <2>3. l \in Nat /\ l \in 0..l
      <3>1. l \in Nat
        <4> HIDE DEF Stored
        <4> QED
          BY DEF UsageTyped
      <3> HIDE DEF l
      <3> QED
        BY <3>1
    <2>4. /\ Usage!Count("delivery.succeeded", group[k], since, l)
               = Tally("delivery.succeeded", group[k], since, l)
          /\ Usage!Count("delivery.failed", group[k], since, l)
               = Tally("delivery.failed", group[k], since, l)
      BY <2>3, CountIsTally
    <2>5. stats[k] = [name |-> group[k], sent |-> Usage!Count("delivery.succeeded", group[k], since, l),
                      failed |-> Usage!Count("delivery.failed", group[k], since, l)]
      BY <1>3, <2>1, <2>2 DEF Usage!GetStats
    <2> QED
      BY <1>3, <2>4, <2>5 DEF Row
  <1>7. \A i \in P : Row(i, since) \in Stats
    <2>1. l \in Nat
      <3> HIDE DEF Stored
      <3> QED
        BY DEF UsageTyped
    <2>2. \A type, name : Tally(type, name, since, l) \in Nat
      BY <2>1, TallyType
    <2>3. \A i \in P : Configs[i].name \in Usage!Names
      BY <1>2, SenderShapes
    <2> QED
      BY <2>2, <2>3 DEF Stats, Row
  <1>8. \A k \in 1..m : stats[k].name = group[k]
    <2>1. \A i : Row(i, since).name = Configs[i].name
      BY DEF Row
    <2> QED
      BY <1>3, <1>6, <2>1
  <1>9. result = Usage!Insert(map, stats)
    BY DEF Took
  <1>10. ASSUME NEW i \in P
         PROVE  result[Configs[i].name] = Row(i, since)
    <2> PICK name : name = Configs[i].name
      OBVIOUS
    <2>1. PICK c \in 1..m : pick[c] = i
      BY <1>1
    <2>2. name \in Usage!Names /\ group[c] = name /\ stats[c] = Row(i, since)
      BY <1>2, <1>3, <1>6, <2>1, SenderShapes
    <2>3. \A k \in DOMAIN stats : stats[k].name = name => k = c
      BY <1>4, <1>5, <1>8, <2>2
    <2>4. c \in DOMAIN stats /\ stats[c].name = name
      BY <1>5, <1>8, <2>2
    <2>5. \A j \in DOMAIN stats : stats[j].name = name => j <= c
      BY <2>1, <2>3
    <2> DEFINE last == CHOOSE k \in DOMAIN stats :
                         /\ stats[k].name = name
                         /\ \A j \in DOMAIN stats : stats[j].name = name => j <= k
    <2>6. last \in DOMAIN stats /\ stats[last].name = name
      BY <2>4, <2>5
    <2> HIDE DEF last
    <2>7. last = c
      BY <2>3, <2>6
    <2>8. result[name] = stats[last]
      <3>1. \E k \in DOMAIN stats : stats[k].name = name
        BY <2>4
      <3> QED
        BY <1>9, <2>2, <3>1, Zenon DEF Usage!Insert, last
    <2> QED
      BY <2>2, <2>7, <2>8
  <1>11. ASSUME NEW name \in Usage!Names, \A i \in P : Configs[i].name # name
         PROVE  result[name] = map[name]
    <2>1. \A k \in DOMAIN stats : stats[k].name # name
      BY <1>1, <1>3, <1>5, <1>8, <1>11
    <2> QED
      BY <1>9, <2>1 DEF Usage!Insert
  <1>12. result \in [Usage!Names -> Stats]
    <2>1. result = [name \in Usage!Names |-> result[name]]
      BY <1>9 DEF Usage!Insert
    <2>2. ASSUME NEW name \in Usage!Names
          PROVE  result[name] \in Stats
      <3>1. CASE \A i \in P : Configs[i].name # name
        <4>1. result[name] = map[name]
          BY <1>11, <3>1
        <4> HIDE DEF Stats
        <4> QED
          BY <4>1
      <3>2. CASE ~\A i \in P : Configs[i].name # name
        <4>1. PICK i \in P : Configs[i].name = name
          BY <3>2
        <4> QED
          BY <1>7, <1>10, <4>1
      <3> QED
        BY <3>1, <3>2
    <2> HIDE DEF Stats
    <2> QED
      BY <2>1, <2>2
  <1>13. ASSUME NEW i \in Usage!Indices, i \notin P
         PROVE  result[Configs[i].name] = map[Configs[i].name]
    <2>1. \A j \in P : Configs[j].name # Configs[i].name
      BY <1>2, <1>13 DEF NamesDiffer
    <2>2. Configs[i].name \in Usage!Names
      BY SenderShapes
    <2> QED
      BY <1>11, <2>1, <2>2
  <1> QED
    BY <1>10, <1>12, <1>13 DEF P, Gets

-----------------------------------------------------------------------------
(* Usage of the senders: the steps.                                        *)

UsageInv == UsageTyped /\ RelyInv /\ WindowInv /\ ListInv

\* The lengths are numbers, and what is told apart is typed.
LEMMA UsageFacts ==
  ASSUME UsageTyped
  PROVE  /\ Len(events) \in Nat /\ now \in Nat /\ MaxTime \in Nat
         /\ \A name \in Usage!Names : accepted[name] \in Seq(Nat) /\ Len(accepted[name]) \in Nat
         /\ attempt_to_send \in Sends /\ list \in Lists
         /\ attempt_to_send.started \in Nat /\ list.started \in Nat /\ list.seen \in Nat
  <1>1. attempt_to_send \in Sends /\ list \in Lists
    BY DEF UsageTyped
  <1>2. attempt_to_send.started \in Nat /\ list.started \in Nat /\ list.seen \in Nat
    BY <1>1 DEF Sends, Lists
  <1>3. Len(events) \in Nat
    <2> HIDE DEF Stored
    <2> QED
      BY DEF UsageTyped
  <1>4. now \in Nat /\ MaxTime \in Nat
    BY SenderShapes DEF UsageTyped
  <1>5. \A name \in Usage!Names : accepted[name] \in Seq(Nat) /\ Len(accepted[name]) \in Nat
    BY DEF UsageTyped
  <1> QED
    BY <1>1, <1>2, <1>3, <1>4, <1>5

\* Nothing is counted yet.
LEMMA NothingCounted == Usage!NoStats \in [Usage!Names -> Stats]
  BY DEF Usage!NoStats, Stats

\* The starts of windows are times up to now.
LEMMA StartsAreTimes ==
  ASSUME NEW is \in SUBSET Usage!Indices, NEW t \in Nat
  PROVE  Usage!Starts(is, t) \in SUBSET Nat /\ \A i \in is : Start(i, t) \in Usage!Starts(is, t)
  BY StartsMove DEF Usage!Starts, Start

\* What does not change keeps the counts.
LEMMA TalliesStay ==
  ASSUME events' = events, NEW type, NEW name, NEW since, NEW n
  PROVE  Tally(type, name, since, n)' = Tally(type, name, since, n)
  BY DEF Tally

\* A send asks for the counts of every window.
LEMMA BeginSendStep ==
  ASSUME UsageInv, Usage!BeginSend
  PROVE  UsageInv'
  <1>1. UsageTyped /\ RelyInv /\ WindowInv /\ ListInv
    BY DEF UsageInv
  <1>2. UNCHANGED <<now, events, accepted, list>> /\ Len(events) < MaxEvents
    BY DEF Usage!BeginSend
  <1> PICK left : left = Usage!Starts(Usage!Limited, now)
    OBVIOUS
  <1>3. left \in SUBSET Nat /\ \A i \in Usage!Limited : Start(i, now) \in left
    BY <1>1, UsageFacts, StartsAreTimes, LimitedAreSenders
  <1>4. attempt_to_send' = [at |-> "counting", started |-> now, left |-> left, stats |-> Usage!NoStats,
                            by |-> None, within |-> FALSE, kind |-> "Sent"]
    BY DEF Usage!BeginSend, Usage!NoSend
  <1>5. attempt_to_send' \in Sends
    <2> HIDE DEF Stats
    <2> QED
      BY <1>1, <1>3, <1>4, UsageFacts, NothingCounted DEF Sends
  <1>6. /\ attempt_to_send'.at = "counting" /\ attempt_to_send'.started = now
        /\ attempt_to_send'.left = left
    BY <1>4
  <1>7. UsageTyped'
    <2> HIDE DEF Sends, Lists, Stored
    <2> QED
      BY <1>1, <1>2, <1>5, <1>6, UsageFacts DEF UsageTyped
  <1>8. RelyInv'
    BY <1>1, <1>3, <1>6 DEF RelyInv
  <1>9. WindowInv' /\ ListInv'
    BY <1>1, <1>2 DEF WindowInv, ListInv, Lies, Tally, Within, InSpan
  <1> QED
    BY <1>7, <1>8, <1>9 DEF UsageInv

\* The counts of one start are taken.
LEMMA CountForSendStep ==
  ASSUME NamesDiffer, UsageInv, NEW s, Usage!CountForSend(s)
  PROVE  UsageInv'
  <1>1. UsageTyped /\ RelyInv /\ WindowInv /\ ListInv
    BY DEF UsageInv
  <1>2. /\ UNCHANGED <<now, events, accepted, list>> /\ attempt_to_send.at = "counting"
        /\ s \in attempt_to_send.left
    BY DEF Usage!CountForSend
  <1> PICK t : t = attempt_to_send.started
    OBVIOUS
  <1> PICK map : map = attempt_to_send.stats
    OBVIOUS
  <1> PICK left : left = attempt_to_send.left
    OBVIOUS
  <1> PICK result : result = Usage!Insert(map, Usage!GetStats(Usage!Group(Usage!Limited, t, s), s))
    OBVIOUS
  <1>3. attempt_to_send \in Sends /\ t \in Nat /\ map \in [Usage!Names -> Stats] /\ left \in SUBSET Nat /\ s \in Nat
    <2> HIDE DEF Stats
    <2> QED
      BY <1>1, <1>2, UsageFacts DEF Sends
  <1>4. /\ result \in [Usage!Names -> Stats]
        /\ \A i \in Usage!Limited : Start(i, t) = s => result[Configs[i].name] = Row(i, s)
        /\ \A i \in Usage!Limited : Start(i, t) # s => result[Configs[i].name] = map[Configs[i].name]
    <2> HIDE DEF Stats
    <2>1. Usage!Limited \in SUBSET Usage!Indices
      BY LimitedAreSenders
    <2>2. Took(result, map, Usage!Limited, t, s)
      BY DEF Took
    <2>3. Gets(result, map, Usage!Limited, t, s)
      BY <1>1, <1>3, <2>1, <2>2, StatsOfGroup
    <2> QED
      BY <2>1, <2>3 DEF Gets
  <1>5. attempt_to_send' = [attempt_to_send EXCEPT !.left = left \ {s}, !.stats = result]
    BY DEF Usage!CountForSend
  <1> PICK c : c = [attempt_to_send EXCEPT !.left = left \ {s}, !.stats = result]
    OBVIOUS
  <1>6. /\ c \in Sends /\ c.at = "counting" /\ c.started = t /\ c.left = left \ {s} /\ c.stats = result
    <2> HIDE DEF Stats
    <2> QED
      BY <1>2, <1>3, <1>4 DEF Sends
  <1>7. attempt_to_send' = c
    BY <1>5
  <1>8. UsageTyped'
    <2> HIDE DEF Sends, Lists, Stored
    <2> QED
      BY <1>1, <1>2, <1>6, <1>7, UsageFacts DEF UsageTyped
  <1>9. RelyInv'
    <2>1. ASSUME NEW i \in Usage!Limited, Start(i, t) \notin left \ {s}
          PROVE  result[Configs[i].name].sent
                   >= Tally("delivery.succeeded", Configs[i].name, Start(i, t), Len(events))
      <3> PICK n : n = Tally("delivery.succeeded", Configs[i].name, Start(i, t), Len(events))
        OBVIOUS
      <3>1. n \in Nat
        BY <1>1, <1>3, StartsMove, LimitedAreSenders, TallyType, UsageFacts
      <3>2. CASE Start(i, t) = s
        <4>1. Row(i, s).sent = n
          BY <3>2 DEF Row
        <4> QED
          BY <1>4, <3>1, <3>2, <4>1
      <3>3. CASE Start(i, t) # s
        <4>1. Start(i, t) \notin left /\ result[Configs[i].name] = map[Configs[i].name]
          BY <1>4, <2>1, <3>3
        <4>2. map[Configs[i].name].sent >= n
          BY <1>1, <1>2, <4>1 DEF RelyInv
        <4> QED
          BY <4>1, <4>2
      <3> QED
        BY <3>2, <3>3
    <2> QED
      BY <1>2, <1>6, <1>7, <2>1 DEF RelyInv, Tally
  <1>10. WindowInv' /\ ListInv'
    BY <1>1, <1>2 DEF WindowInv, ListInv, Lies, Tally, Within, InSpan
  <1> QED
    BY <1>8, <1>9, <1>10 DEF UsageInv

\* A sender that is below its quota in what was counted is below it in what is stored.
LEMMA DeliverStep ==
  ASSUME NamesDiffer, UsageInv, NEW i \in Usage!Indices, Usage!Deliver(i)
  PROVE  UsageInv'
  <1>1. UsageTyped /\ RelyInv /\ WindowInv /\ ListInv
    BY DEF UsageInv
  <1>2. /\ UNCHANGED <<now, events, accepted, list>> /\ attempt_to_send.at = "counting"
        /\ attempt_to_send.left = {}
    BY DEF Usage!Deliver
  <1> PICK allowed : allowed = ~Usage!OverQuota(i)
    OBVIOUS
  <1>3. PICK kind \in {"Sent", "Failed"} :
          attempt_to_send' = [attempt_to_send EXCEPT !.at = "sent", !.by = Configs[i].name, !.kind = kind,
                                                     !.within = allowed]
    BY DEF Usage!Deliver
  <1> PICK c : c = [attempt_to_send EXCEPT !.at = "sent", !.by = Configs[i].name, !.kind = kind,
                                           !.within = allowed]
    OBVIOUS
  <1>4. Configs[i].name \in Usage!Names /\ attempt_to_send \in Sends
    BY <1>1, SenderShapes, UsageFacts
  <1>5. allowed \in BOOLEAN
    BY Zenon
  <1>6. /\ c \in Sends /\ c.at = "sent" /\ c.by = Configs[i].name /\ c.within = allowed /\ c.left = {}
        /\ c.started = attempt_to_send.started
    BY <1>2, <1>4, <1>5 DEF Sends
  <1>7. attempt_to_send' = c
    BY <1>3
  <1>8. UsageTyped'
    <2> HIDE DEF Sends, Lists, Stored
    <2> QED
      BY <1>1, <1>2, <1>4, <1>6, <1>7, UsageFacts DEF UsageTyped
  <1>9. RelyInv'
    <2>1. ASSUME allowed, NEW j \in Usage!Limited, Configs[j].name = Configs[i].name
          PROVE  Tally("delivery.succeeded", Configs[j].name, Start(j, now), Len(events)) < Configs[j].count
      <3>1. j = i /\ i \in Usage!Limited
        BY <2>1, LimitedAreSenders DEF NamesDiffer
      <3> PICK known : known = attempt_to_send.stats[Configs[i].name].sent
        OBVIOUS
      <3> PICK quota : quota = Configs[i].count
        OBVIOUS
      <3>2. known \in Nat /\ quota \in Nat
        BY <1>4, <3>1, SenderShapes DEF Sends, Stats
      <3>3. ~(known >= quota)
        BY <2>1, <3>1 DEF Usage!OverQuota
      <3> PICK early : early = Tally("delivery.succeeded", Configs[i].name,
                                     Start(i, attempt_to_send.started), Len(events))
        OBVIOUS
      <3> PICK late : late = Tally("delivery.succeeded", Configs[i].name, Start(i, now), Len(events))
        OBVIOUS
      <3>4. known >= early
        BY <1>1, <1>2, <3>1 DEF RelyInv
      <3>5. /\ Start(i, attempt_to_send.started) \in Nat /\ Start(i, now) \in Nat
            /\ Start(i, attempt_to_send.started) <= Start(i, now) /\ Len(events) \in Nat
        <4>1. /\ attempt_to_send.started \in Nat /\ now \in Nat /\ attempt_to_send.started <= now
              /\ Len(events) \in Nat
          BY <1>1, UsageFacts DEF UsageTyped
        <4>2. /\ Start(i, attempt_to_send.started) \in 0..attempt_to_send.started
              /\ Start(i, now) \in 0..now
              /\ Start(i, attempt_to_send.started) <= Start(i, now)
          BY <4>1, StartsMove
        <4> QED
          BY <4>1, <4>2
      <3>6. early \in Nat /\ late \in Nat /\ late <= early
        BY <3>5, TallyType
      <3> QED
        BY <3>1, <3>2, <3>3, <3>4, <3>6
    <2> QED
      BY <1>2, <1>6, <1>7, <2>1 DEF RelyInv, Tally
  <1>10. WindowInv' /\ ListInv'
    BY <1>1, <1>2 DEF WindowInv, ListInv, Lies, Tally, Within, InSpan
  <1> QED
    BY <1>8, <1>9, <1>10 DEF UsageInv

\* What is appended to the events counts from now on when it is asked for.
LEMMA TallyAppend ==
  ASSUME UsageTyped, NEW e \in Stored, events' = Append(events, e), NEW type, NEW name, NEW since \in Nat
  PROVE  /\ Len(events)' = Len(events) + 1
         /\ \A n \in 0..Len(events) : Num(events', RowsOf(type, name, since), n) = Tally(type, name, since, n)
         /\ Num(events', RowsOf(type, name, since), Len(events) + 1) =
              IF e \in RowsOf(type, name, since) THEN Tally(type, name, since, Len(events)) + 1
                                                 ELSE Tally(type, name, since, Len(events))
  <1>0. PICK S : S = Stored
    OBVIOUS
  <1>1. events \in Seq(S) /\ e \in S
    BY <1>0 DEF UsageTyped
  <1>2. Len(events)' = Len(events) + 1
    BY <1>1
  <1>3. /\ Num(events', RowsOf(type, name, since), Len(events) + 1) =
             IF e \in RowsOf(type, name, since) THEN Num(events, RowsOf(type, name, since), Len(events)) + 1
                                                ELSE Num(events, RowsOf(type, name, since), Len(events))
        /\ \A n \in 0..Len(events) : Num(events', RowsOf(type, name, since), n)
                                       = Num(events, RowsOf(type, name, since), n)
    <2> PICK R : R = RowsOf(type, name, since)
      OBVIOUS
    <2>1. /\ Num(Append(events, e), R, Len(events) + 1) =
               IF e \in R THEN Num(events, R, Len(events)) + 1 ELSE Num(events, R, Len(events))
          /\ \A n \in 0..Len(events) : Num(Append(events, e), R, n) = Num(events, R, n)
      BY <1>1, NumAppend
    <2> QED
      BY <2>1
  <1> QED
    BY <1>2, <1>3 DEF Tally

\* The time of a delivery that is allowed counts in the windows that now is in.
LEMMA WindowsAppend ==
  ASSUME UsageTyped, NEW name \in Usage!Names, accepted' = [accepted EXCEPT ![name] = Append(@, now)]
  PROVE  /\ accepted' \in [Usage!Names -> Seq(Nat)]
         /\ \A other \in Usage!Names : other # name => accepted'[other] = accepted[other]
         /\ Len(accepted'[name]) = Len(accepted[name]) + 1
         /\ \A k \in 1..Len(accepted'[name]) : accepted'[name][k] <= now
         /\ \A S : Num(accepted'[name], S, Len(accepted[name]) + 1) =
              IF now \in S THEN Num(accepted[name], S, Len(accepted[name])) + 1
                           ELSE Num(accepted[name], S, Len(accepted[name]))
  <1>a. PICK old : old = accepted[name]
    OBVIOUS
  <1>b. PICK new : new = Append(old, now)
    OBVIOUS
  <1>1. now \in Nat /\ old \in Seq(Nat) /\ accepted \in [Usage!Names -> Seq(Nat)]
    BY <1>a, UsageFacts DEF UsageTyped
  <1>2. accepted' = [accepted EXCEPT ![name] = new]
    BY <1>a, <1>b
  <1>3. new \in Seq(Nat) /\ Len(new) = Len(old) + 1
    BY <1>1, <1>b
  <1>4. accepted' \in [Usage!Names -> Seq(Nat)] /\ accepted'[name] = new
    BY <1>1, <1>2, <1>3
  <1>5. \A other \in Usage!Names : other # name => accepted'[other] = accepted[other]
    BY <1>1, <1>2
  <1>6. \A k \in 1..Len(old) : old[k] <= now
    BY <1>a DEF UsageTyped
  <1>7. \A k \in 1..Len(new) : new[k] <= now
    BY <1>1, <1>3, <1>6, <1>b
  <1>8. \A S : Num(new, S, Len(old) + 1) = IF now \in S THEN Num(old, S, Len(old)) + 1
                                                         ELSE Num(old, S, Len(old))
    <2>1. ASSUME NEW S
          PROVE  Num(Append(old, now), S, Len(old) + 1) =
                   IF now \in S THEN Num(old, S, Len(old)) + 1 ELSE Num(old, S, Len(old))
      BY <1>1, NumAppend
    <2> QED
      BY <2>1, <1>b
  <1> QED
    BY <1>3, <1>4, <1>5, <1>7, <1>8, <1>a

\* The outcome is stored, and the delivery counts against the quota that allowed it.
LEMMA StoreStep ==
  ASSUME UsageInv, Usage!Store
  PROVE  UsageInv'
  <1>1. UsageTyped /\ RelyInv /\ WindowInv /\ ListInv
    BY DEF UsageInv
  <1>2. UNCHANGED <<now, list>> /\ attempt_to_send.at = "sent"
    BY DEF Usage!Store
  <1> PICK by : by = attempt_to_send.by
    OBVIOUS
  <1> PICK l : l = Len(events)
    OBVIOUS
  <1>3. by \in Usage!Names /\ l \in Nat /\ now \in Nat /\ l < MaxEvents
    BY <1>1, <1>2, UsageFacts DEF UsageTyped
  <1> PICK type : type = Usage!EventType[attempt_to_send.kind]
    OBVIOUS
  <1>4. /\ attempt_to_send.kind = "Sent" => type = "delivery.succeeded"
        /\ type \in Kinds
    <2>1. attempt_to_send.kind \in {"Sent", "Failed"}
      BY <1>1, UsageFacts DEF Sends
    <2> QED
      BY <2>1 DEF Usage!EventType, Kinds
  <1> PICK e : e = [type |-> type, sender |-> by, at |-> now]
    OBVIOUS
  <1>5. e \in Stored /\ e.type = type /\ e.sender = by /\ e.at = now
    BY <1>3, <1>4 DEF Stored
  <1>6. events' = Append(events, e)
    BY DEF Usage!Store
  <1>7. attempt_to_send' = Usage!NoSend
    BY DEF Usage!Store
  <1>8. Usage!NoSend \in Sends /\ Usage!NoSend.at = "idle" /\ Usage!NoSend.left = {} /\ Usage!NoSend.started = 0
    <2> HIDE DEF Stats
    <2> QED
      BY NothingCounted DEF Usage!NoSend, Sends
  <1>9. /\ events' \in Seq(Stored) /\ Len(events') = l + 1
        /\ \A k \in 1..(l + 1) : events'[k].at <= now
    <2>0. PICK S : S = Stored
      OBVIOUS
    <2>1. events \in Seq(S) /\ e \in S
      BY <1>1, <1>5, <2>0 DEF UsageTyped
    <2>2. events' \in Seq(S) /\ Len(events') = l + 1 /\ events'[l + 1] = e
          /\ \A k \in 1..l : events'[k] = events[k]
      BY <1>6, <2>1
    <2>3. \A k \in 1..l : events[k].at <= now
      BY <1>1 DEF UsageTyped
    <2>4. \A k \in 1..(l + 1) : events'[k].at <= now
      BY <1>3, <1>5, <2>2, <2>3
    <2> QED
      BY <2>0, <2>2, <2>4
  <1>10. ASSUME NEW kind, NEW name, NEW since \in Nat
         PROVE  /\ \A n \in 0..l : Num(events', RowsOf(kind, name, since), n) = Tally(kind, name, since, n)
                /\ Num(events', RowsOf(kind, name, since), l + 1) =
                     IF e \in RowsOf(kind, name, since) THEN Tally(kind, name, since, l) + 1
                                                        ELSE Tally(kind, name, since, l)
    BY <1>1, <1>5, <1>6, TallyAppend
  <1>11. \A kind, name : \A since \in Nat : Tally(kind, name, since, l) \in Nat
    BY <1>3, TallyType
  <1>12. ASSUME NEW kind, NEW name, NEW since \in Nat
         PROVE  Tally(kind, name, since, l) <= Num(events', RowsOf(kind, name, since), l + 1)
    <2> PICK n : n = Tally(kind, name, since, l)
      OBVIOUS
    <2>1. n \in Nat
      BY <1>11
    <2> QED
      BY <1>10, <2>1
  <1> DEFINE Allowed_ == attempt_to_send.kind = "Sent" /\ attempt_to_send.within
  <1>13. /\ Allowed_ => accepted' = [accepted EXCEPT ![by] = Append(@, now)]
         /\ ~Allowed_ => accepted' = accepted
    BY DEF Usage!Store
  <1> HIDE DEF Allowed_
  <1>14. /\ accepted' \in [Usage!Names -> Seq(Nat)]
         /\ \A name \in Usage!Names : \A k \in 1..Len(accepted'[name]) : accepted'[name][k] <= now
    <2>1. CASE ~Allowed_
      BY <1>1, <1>13, <2>1 DEF UsageTyped
    <2>2. CASE Allowed_
      <3>1. /\ accepted' \in [Usage!Names -> Seq(Nat)]
            /\ \A other \in Usage!Names : other # by => accepted'[other] = accepted[other]
            /\ \A k \in 1..Len(accepted'[by]) : accepted'[by][k] <= now
        BY <1>1, <1>3, <1>13, <2>2, WindowsAppend
      <3>2. \A name \in Usage!Names : \A k \in 1..Len(accepted[name]) : accepted[name][k] <= now
        BY <1>1 DEF UsageTyped
      <3>3. ASSUME NEW name \in Usage!Names
            PROVE  \A k \in 1..Len(accepted'[name]) : accepted'[name][k] <= now
        BY <3>1, <3>2
      <3> QED
        BY <3>1, <3>3
    <2> QED
      BY <2>1, <2>2
  <1>15. UsageTyped'
    <2>1. /\ now' = now /\ list' = list /\ attempt_to_send' \in Sends
          /\ attempt_to_send'.at = "idle" /\ attempt_to_send'.left = {} /\ attempt_to_send'.started = 0
      BY <1>2, <1>7, <1>8
    <2>2. list.seen <= l + 1 /\ l + 1 <= MaxEvents /\ list \in Lists /\ list.started <= now
      <3>1. list.seen \in Nat /\ list.seen <= l /\ MaxEvents \in Nat
        BY <1>1, UsageFacts, SenderShapes DEF UsageTyped
      <3> QED
        BY <1>1, <1>3, <3>1 DEF UsageTyped
    <2> HIDE DEF Sends, Lists, Stored
    <2> QED
      BY <1>1, <1>3, <1>9, <1>14, <2>1, <2>2 DEF UsageTyped
  <1>16. RelyInv'
    BY <1>7, <1>8 DEF RelyInv
  <1>17. WindowInv'
    <2>1. ASSUME NEW name \in Usage!Names, NEW since \in Nat
          PROVE  Num(accepted'[name], Later(since), Len(accepted'[name]))
                   <= Num(events', RowsOf("delivery.succeeded", name, since), l + 1)
      <3> PICK stored : stored = Tally("delivery.succeeded", name, since, l)
        OBVIOUS
      <3> PICK inside : inside = Within(name, since)
        OBVIOUS
      <3>1. stored \in Nat
        BY <1>11
      <3>2. inside \in Nat /\ inside <= stored
        <4>1. Len(accepted[name]) \in Nat
          BY <1>1, UsageFacts
        <4> QED
          BY <1>1, <4>1, NumType DEF WindowInv, Within
      <3>3. stored <= Num(events', RowsOf("delivery.succeeded", name, since), l + 1)
        BY <1>12
      <3>4. Num(events', RowsOf("delivery.succeeded", name, since), l + 1) \in Nat
        BY <1>3, NumType
      <3>5. CASE ~Allowed_ \/ name # by
        <4>1. accepted'[name] = accepted[name]
          <5>1. CASE ~Allowed_
            BY <1>13, <5>1
          <5>2. CASE Allowed_ /\ name # by
            BY <1>1, <1>3, <1>13, <5>2, WindowsAppend
          <5> QED
            BY <3>5, <5>1, <5>2
        <4> QED
          BY <3>1, <3>2, <3>3, <3>4, <4>1 DEF Within
      <3>6. CASE Allowed_ /\ name = by
        <4>1. /\ Len(accepted'[name]) = Len(accepted[name]) + 1
              /\ Num(accepted'[name], Later(since), Len(accepted[name]) + 1) =
                   IF now \in Later(since) THEN inside + 1 ELSE inside
          BY <1>1, <1>3, <1>13, <3>6, WindowsAppend DEF Within
        <4>2. CASE now >= since
          <5>1. e \in RowsOf("delivery.succeeded", name, since) /\ now \in Later(since)
            BY <1>3, <1>4, <1>5, <3>6, <4>2 DEF RowsOf, Later, Allowed_
          <5>2. Num(events', RowsOf("delivery.succeeded", name, since), l + 1) = stored + 1
            BY <1>10, <5>1
          <5>3. Num(accepted'[name], Later(since), Len(accepted'[name])) = inside + 1
            BY <4>1, <5>1
          <5> QED
            BY <3>1, <3>2, <5>2, <5>3
        <4>3. CASE ~(now >= since)
          <5>1. Num(accepted'[name], Later(since), Len(accepted'[name])) = inside
            BY <4>1, <4>3 DEF Later
          <5> QED
            BY <3>1, <3>2, <3>3, <3>4, <5>1
        <4> QED
          BY <4>2, <4>3
      <3> QED
        BY <3>5, <3>6
    <2>2. ASSUME NEW i \in Usage!Limited, NEW t \in 0..now
          PROVE  Num(accepted'[Configs[i].name], Span(i, t), Len(accepted'[Configs[i].name]))
                   <= Configs[i].count
      <3> PICK name : name = Configs[i].name
        OBVIOUS
      <3> PICK inside : inside = InSpan(i, t)
        OBVIOUS
      <3> PICK quota : quota = Configs[i].count
        OBVIOUS
      <3>1. quota \in Nat /\ name \in Usage!Names /\ i \in Usage!Indices /\ t \in Nat /\ t <= now
        BY <1>3, LimitedAreSenders, SenderShapes
      <3>2. inside \in Nat /\ inside <= quota
        <4>1. Len(accepted[name]) \in Nat
          BY <1>1, <3>1, UsageFacts
        <4> QED
          BY <1>1, <4>1, NumType DEF WindowInv, InSpan
      <3>3. CASE ~Allowed_ \/ name # by
        <4>1. accepted'[name] = accepted[name]
          <5>1. CASE ~Allowed_
            BY <1>13, <5>1
          <5>2. CASE Allowed_ /\ name # by
            BY <1>1, <1>3, <1>13, <3>1, <5>2, WindowsAppend
          <5> QED
            BY <3>3, <5>1, <5>2
        <4> QED
          BY <3>2, <4>1 DEF InSpan
      <3>4. CASE Allowed_ /\ name = by
        <4>1. Num(accepted'[name], Span(i, t), Len(accepted'[name])) =
                IF now \in Span(i, t) THEN inside + 1 ELSE inside
          BY <1>1, <1>3, <1>13, <3>4, WindowsAppend DEF InSpan
        <4>2. CASE t = now
          <5>1. Tally("delivery.succeeded", name, Start(i, now), l) < quota
            BY <1>1, <1>2, <3>4 DEF RelyInv, Allowed_
          <5>2. Start(i, now) \in Nat /\ Start(i, now) <= now
            BY <1>3, <3>1, StartsMove
          <5> PICK start : start = Start(i, now)
            OBVIOUS
          <5>3. inside <= Within(name, start)
            <6>1. Len(accepted[name]) \in Nat
              BY <1>1, <3>1, UsageFacts
            <6>2. \A x : x \in Span(i, now) => x \in Later(start)
              <7>1. \A x \in start..now : x \in Nat /\ x >= start
                BY <5>2
              <7> QED
                BY <7>1 DEF Span, Later
            <6>3. inside = Num(accepted[name], Span(i, now), Len(accepted[name]))
              BY <4>2 DEF InSpan
            <6>4. Num(accepted[name], Span(i, now), Len(accepted[name]))
                    <= Num(accepted[name], Later(start), Len(accepted[name]))
              <7>1. Len(accepted[name]) <= Len(accepted[name])
                BY <6>1
              <7> QED
                BY <6>1, <6>2, <7>1, NumGrows
            <6> QED
              BY <6>3, <6>4 DEF Within
          <5> PICK passed : passed = Within(name, start)
            OBVIOUS
          <5> PICK stored : stored = Tally("delivery.succeeded", name, start, l)
            OBVIOUS
          <5>4. passed \in Nat /\ passed <= stored /\ stored \in Nat
            <6>1. Len(accepted[name]) \in Nat
              BY <1>1, <3>1, UsageFacts
            <6>2. passed \in Nat
              BY <6>1, NumType DEF Within
            <6>3. passed <= stored
              BY <1>1, <3>1, <5>2 DEF WindowInv
            <6>4. stored \in Nat
              BY <1>11, <5>2
            <6> QED
              BY <6>2, <6>3, <6>4
          <5>5. inside + 1 <= quota
            BY <3>1, <3>2, <5>1, <5>3, <5>4
          <5> QED
            BY <3>2, <4>1, <5>5
        <4>3. CASE t # now
          <5>1. now \notin Span(i, t)
            BY <1>3, <3>1, <4>3 DEF Span
          <5> QED
            BY <3>2, <4>1, <5>1
        <4> QED
          BY <4>2, <4>3
      <3> QED
        BY <3>3, <3>4
    <2>3. \A name \in Usage!Names : \A since \in Nat :
            (Within(name, since) <= Tally("delivery.succeeded", name, since, Len(events)))'
      BY <1>9, <2>1 DEF Within, Tally
    <2>4. \A i \in Usage!Limited : \A t \in 0..now : (InSpan(i, t) <= Configs[i].count)'
      BY <2>2 DEF InSpan
    <2> QED
      BY <1>2, <2>3, <2>4 DEF WindowInv, Within, InSpan, Tally
  <1>18. ListInv'
    <2>1. ASSUME NEW count \in Nat, NEW kind, NEW name, NEW since \in Nat, Lies(count, kind, name, since)
          PROVE  /\ count >= Num(events', RowsOf(kind, name, since), list.seen)
                 /\ count <= Num(events', RowsOf(kind, name, since), l + 1)
      <3>1. list.seen \in 0..l
        BY <1>1, <1>3, UsageFacts DEF UsageTyped
      <3>2. Num(events', RowsOf(kind, name, since), list.seen) = Tally(kind, name, since, list.seen)
        BY <1>10, <3>1
      <3>3. Num(events', RowsOf(kind, name, since), l + 1) \in Nat
        BY <1>3, NumType
      <3>4. count >= Tally(kind, name, since, list.seen) /\ count <= Tally(kind, name, since, l)
        BY <2>1 DEF Lies
      <3>5. Tally(kind, name, since, l) <= Num(events', RowsOf(kind, name, since), l + 1)
        BY <1>12
      <3>6. Tally(kind, name, since, l) \in Nat
        BY <1>11
      <3> QED
        BY <3>2, <3>3, <3>4, <3>5, <3>6
    <2>2. ASSUME NEW count \in Nat, NEW kind, NEW name, NEW since \in Nat, Lies(count, kind, name, since)
          PROVE  Lies(count, kind, name, since)'
      BY <1>2, <1>9, <2>1, <2>2 DEF Lies, Tally
    <2>3. ASSUME NEW i \in Usage!Indices
          PROVE  /\ Start(i, list.started) \in Nat
                 /\ list.stats[Configs[i].name].sent \in Nat /\ list.stats[Configs[i].name].failed \in Nat
      <3>1. Configs[i].name \in Usage!Names /\ list \in Lists /\ list.started \in Nat
        BY <1>1, SenderShapes, UsageFacts
      <3>2. list.stats[Configs[i].name] \in Stats
        <4> HIDE DEF Stats
        <4> QED
          BY <3>1 DEF Lists
      <3> QED
        BY <3>1, <3>2, StartsMove DEF Stats
    <2>4. ASSUME list.at # "idle", NEW i \in Usage!Indices, Start(i, list.started) \notin list.left
          PROVE  /\ Lies(list.stats[Configs[i].name].sent, "delivery.succeeded", Configs[i].name,
                         Start(i, list.started))
                 /\ Lies(list.stats[Configs[i].name].failed, "delivery.failed", Configs[i].name,
                         Start(i, list.started))
      BY <1>1, <2>4 DEF ListInv
    <2>5. PICK sofar : sofar = list
      OBVIOUS
    <2>6. ASSUME sofar.at # "idle", NEW i \in Usage!Indices, Start(i, sofar.started) \notin sofar.left
          PROVE  /\ Lies(sofar.stats[Configs[i].name].sent, "delivery.succeeded", Configs[i].name,
                         Start(i, sofar.started))'
                 /\ Lies(sofar.stats[Configs[i].name].failed, "delivery.failed", Configs[i].name,
                         Start(i, sofar.started))'
      BY <2>2, <2>3, <2>4, <2>5, <2>6
    <2> QED
      BY <1>2, <2>5, <2>6 DEF ListInv, Lies
  <1> QED
    BY <1>15, <1>16, <1>17, <1>18 DEF UsageInv

\* A call asks for the counts of every window.
LEMMA BeginListStep ==
  ASSUME UsageInv, Usage!BeginList
  PROVE  UsageInv'
  <1>1. UsageTyped /\ RelyInv /\ WindowInv /\ ListInv
    BY DEF UsageInv
  <1>2. UNCHANGED <<now, events, accepted, attempt_to_send>>
    BY DEF Usage!BeginList
  <1> PICK left : left = Usage!Starts(Usage!Indices, now)
    OBVIOUS
  <1>3. left \in SUBSET Nat /\ \A i \in Usage!Indices : Start(i, now) \in left
    BY <1>1, UsageFacts, StartsAreTimes
  <1>4. list' = [at |-> "counting", started |-> now, left |-> left, stats |-> Usage!NoStats,
                 seen |-> Len(events)]
    BY DEF Usage!BeginList, Usage!NoList
  <1>5. list' \in Lists
    <2> HIDE DEF Stats
    <2> QED
      BY <1>1, <1>3, <1>4, UsageFacts, NothingCounted DEF Lists
  <1>6. /\ list'.at = "counting" /\ list'.started = now /\ list'.left = left /\ list'.seen = Len(events)
    BY <1>4
  <1>7. UsageTyped'
    <2> HIDE DEF Sends, Lists, Stored
    <2> QED
      BY <1>1, <1>2, <1>5, <1>6, UsageFacts DEF UsageTyped
  <1>8. ListInv'
    BY <1>1, <1>3, <1>6 DEF ListInv
  <1>9. WindowInv' /\ RelyInv'
    BY <1>1, <1>2 DEF WindowInv, RelyInv, Tally, Within, InSpan
  <1> QED
    BY <1>7, <1>8, <1>9 DEF UsageInv

\* The counts of one start are taken, between what was stored at first and what is now.
LEMMA CountForListStep ==
  ASSUME NamesDiffer, UsageInv, NEW s, Usage!CountForList(s)
  PROVE  UsageInv'
  <1>1. UsageTyped /\ RelyInv /\ WindowInv /\ ListInv
    BY DEF UsageInv
  <1>2. UNCHANGED <<now, events, accepted, attempt_to_send>> /\ list.at = "counting" /\ s \in list.left
    BY DEF Usage!CountForList
  <1> PICK t : t = list.started
    OBVIOUS
  <1> PICK map : map = list.stats
    OBVIOUS
  <1> PICK left : left = list.left
    OBVIOUS
  <1> PICK result : result = Usage!Insert(map, Usage!GetStats(Usage!Group(Usage!Indices, t, s), s))
    OBVIOUS
  <1>3. list \in Lists /\ t \in Nat /\ map \in [Usage!Names -> Stats] /\ left \in SUBSET Nat /\ s \in Nat
    <2> HIDE DEF Stats
    <2> QED
      BY <1>1, <1>2, UsageFacts DEF Lists
  <1>4. /\ result \in [Usage!Names -> Stats]
        /\ \A i \in Usage!Indices : Start(i, t) = s => result[Configs[i].name] = Row(i, s)
        /\ \A i \in Usage!Indices : Start(i, t) # s => result[Configs[i].name] = map[Configs[i].name]
    <2> HIDE DEF Stats
    <2>1. Usage!Indices \in SUBSET Usage!Indices
      OBVIOUS
    <2>2. Took(result, map, Usage!Indices, t, s)
      BY DEF Took
    <2>3. Gets(result, map, Usage!Indices, t, s)
      BY <1>1, <1>3, <2>1, <2>2, StatsOfGroup
    <2> QED
      BY <2>3 DEF Gets
  <1>5. list' = [list EXCEPT !.left = left \ {s}, !.stats = result]
    BY DEF Usage!CountForList
  <1> PICK c : c = [list EXCEPT !.left = left \ {s}, !.stats = result]
    OBVIOUS
  <1>6. /\ c \in Lists /\ c.at = "counting" /\ c.started = t /\ c.left = left \ {s} /\ c.stats = result
        /\ c.seen = list.seen
    <2> HIDE DEF Stats
    <2> QED
      BY <1>2, <1>3, <1>4 DEF Lists
  <1>7. list' = c
    BY <1>5
  <1>8. UsageTyped'
    <2> HIDE DEF Sends, Lists, Stored
    <2> QED
      BY <1>1, <1>2, <1>6, <1>7, UsageFacts DEF UsageTyped
  <1>9. ListInv'
    <2>1. ASSUME NEW kind, NEW name, NEW since \in Nat
          PROVE  Lies(Tally(kind, name, since, Len(events)), kind, name, since)
      <3>1. list.seen \in Nat /\ Len(events) \in Nat /\ list.seen <= Len(events)
        BY <1>1, UsageFacts DEF UsageTyped
      <3>2. /\ Tally(kind, name, since, Len(events)) \in Nat
            /\ Tally(kind, name, since, list.seen) \in Nat
            /\ Tally(kind, name, since, list.seen) <= Tally(kind, name, since, Len(events))
        BY <3>1, TallyType
      <3> QED
        BY <3>2 DEF Lies
    <2>2. ASSUME NEW i \in Usage!Indices, Start(i, t) \notin left \ {s}
          PROVE  /\ Lies(result[Configs[i].name].sent, "delivery.succeeded", Configs[i].name, Start(i, t))
                 /\ Lies(result[Configs[i].name].failed, "delivery.failed", Configs[i].name, Start(i, t))
      <3>1. Start(i, t) \in Nat
        BY <1>3, StartsMove
      <3>2. CASE Start(i, t) = s
        <4>1. /\ Row(i, s).sent = Tally("delivery.succeeded", Configs[i].name, s, Len(events))
              /\ Row(i, s).failed = Tally("delivery.failed", Configs[i].name, s, Len(events))
          BY DEF Row
        <4> QED
          BY <1>3, <1>4, <2>1, <3>2, <4>1
      <3>3. CASE Start(i, t) # s
        <4>1. Start(i, t) \notin left /\ result[Configs[i].name] = map[Configs[i].name]
          BY <1>4, <2>2, <3>3
        <4> QED
          BY <1>1, <1>2, <4>1 DEF ListInv
      <3> QED
        BY <3>2, <3>3
    <2> QED
      BY <1>2, <1>6, <1>7, <2>2 DEF ListInv, Lies, Tally
  <1>10. WindowInv' /\ RelyInv'
    BY <1>1, <1>2 DEF WindowInv, RelyInv, Tally, Within, InSpan
  <1> QED
    BY <1>8, <1>9, <1>10 DEF UsageInv

\* The call ends.
LEMMA AnswerStep ==
  ASSUME UsageInv, Usage!Answer \/ Usage!Forget
  PROVE  UsageInv'
  <1>1. UsageTyped /\ RelyInv /\ WindowInv /\ ListInv
    BY DEF UsageInv
  <1>2. UNCHANGED <<now, events, accepted, attempt_to_send>>
    BY DEF Usage!Answer, Usage!Forget
  <1>3. WindowInv' /\ RelyInv'
    BY <1>1, <1>2 DEF WindowInv, RelyInv, Tally, Within, InSpan
  <1>4. CASE Usage!Answer
    <2> PICK c : c = [list EXCEPT !.at = "done"]
      OBVIOUS
    <2>1. list' = c /\ list.at = "counting" /\ list.left = {} /\ list \in Lists
      BY <1>1, <1>4, UsageFacts DEF Usage!Answer
    <2>2. /\ c \in Lists /\ c.at = "done" /\ c.started = list.started /\ c.left = {}
          /\ c.stats = list.stats /\ c.seen = list.seen
      <3> HIDE DEF Stats
      <3> QED
        BY <2>1 DEF Lists
    <2>3. UsageTyped'
      <3> HIDE DEF Sends, Lists, Stored
      <3> QED
        BY <1>1, <1>2, <2>1, <2>2 DEF UsageTyped
    <2>4. ListInv'
      BY <1>1, <1>2, <2>1, <2>2 DEF ListInv, Lies, Tally
    <2> QED
      BY <1>3, <2>3, <2>4 DEF UsageInv
  <1>5. CASE Usage!Forget
    <2>1. list' = Usage!NoList
      BY <1>5 DEF Usage!Forget
    <2>2. /\ Usage!NoList \in Lists /\ Usage!NoList.at = "idle" /\ Usage!NoList.left = {}
          /\ Usage!NoList.started = 0 /\ Usage!NoList.seen = 0
      <3> HIDE DEF Stats
      <3> QED
        BY NothingCounted DEF Usage!NoList, Lists
    <2>3. UsageTyped'
      <3> HIDE DEF Sends, Lists, Stored
      <3> QED
        BY <1>1, <1>2, <2>1, <2>2, UsageFacts DEF UsageTyped
    <2>4. ListInv'
      BY <2>1, <2>2 DEF ListInv
    <2> QED
      BY <1>3, <2>3, <2>4 DEF UsageInv
  <1> QED
    BY <1>4, <1>5

\* The windows move on: what they lose does not count any more, and they gain nothing.
LEMMA TickStep ==
  ASSUME UsageInv, Usage!Tick
  PROVE  UsageInv'
  <1>1. UsageTyped /\ RelyInv /\ WindowInv /\ ListInv
    BY DEF UsageInv
  <1>2. UNCHANGED <<events, accepted, attempt_to_send, list>> /\ now' = now + 1 /\ now < MaxTime
    BY DEF Usage!Tick
  <1>3. now \in Nat /\ MaxTime \in Nat /\ Len(events) \in Nat
    BY <1>1, UsageFacts
  <1>4. UsageTyped'
    <2>1. /\ \A k \in 1..Len(events) : events[k].at <= now + 1
          /\ \A name \in Usage!Names : \A k \in 1..Len(accepted[name]) : accepted[name][k] <= now + 1
      <3>1. \A k \in 1..Len(events) : events[k].at \in Nat
        <4>1. \A k \in 1..Len(events) : events[k] \in Stored
          <5> HIDE DEF Stored
          <5> QED
            BY <1>1 DEF UsageTyped
        <4> QED
          BY <4>1 DEF Stored
      <3>2. \A name \in Usage!Names : \A k \in 1..Len(accepted[name]) : accepted[name][k] \in Nat
        <4>1. \A name \in Usage!Names : accepted[name] \in Seq(Nat)
          BY <1>1, UsageFacts
        <4> QED
          BY <4>1
      <3>3. /\ \A k \in 1..Len(events) : events[k].at <= now
            /\ \A name \in Usage!Names : \A k \in 1..Len(accepted[name]) : accepted[name][k] <= now
        BY <1>1 DEF UsageTyped
      <3>4. \A x \in Nat : x <= now => x <= now + 1
        BY <1>3
      <3> QED
        BY <3>1, <3>2, <3>3, <3>4
    <2>2. now + 1 \in 0..MaxTime
      BY <1>2, <1>3
    <2>3. attempt_to_send.started <= now + 1 /\ list.started <= now + 1
      BY <1>1, <1>3, UsageFacts DEF UsageTyped
    <2> HIDE DEF Sends, Lists, Stored
    <2> QED
      BY <1>1, <1>2, <2>1, <2>2, <2>3 DEF UsageTyped
  <1>5. ASSUME NEW i \in Usage!Indices
        PROVE  /\ Start(i, now) \in Nat /\ Start(i, now + 1) \in Nat /\ Start(i, now) <= Start(i, now + 1)
    <2>1. now + 1 \in Nat /\ now <= now + 1
      BY <1>3
    <2>2. /\ Start(i, now) \in 0..now /\ Start(i, now) <= Start(i, now + 1)
          /\ Start(i, now + 1) \in 0..(now + 1)
      BY <1>3, <2>1, StartsMove
    <2> QED
      BY <2>2
  <1>6. RelyInv'
    <2>1. ASSUME attempt_to_send.at = "sent" /\ attempt_to_send.within,
                 NEW i \in Usage!Limited, Configs[i].name = attempt_to_send.by
          PROVE  Tally("delivery.succeeded", Configs[i].name, Start(i, now + 1), Len(events))
                   < Configs[i].count
      <3> PICK early : early = Tally("delivery.succeeded", Configs[i].name, Start(i, now), Len(events))
        OBVIOUS
      <3> PICK late : late = Tally("delivery.succeeded", Configs[i].name, Start(i, now + 1), Len(events))
        OBVIOUS
      <3>1. early \in Nat /\ late \in Nat /\ late <= early
        BY <1>3, <1>5, LimitedAreSenders, TallyType
      <3>2. early < Configs[i].count /\ Configs[i].count \in Nat
        BY <1>1, <2>1, SenderShapes, LimitedAreSenders DEF RelyInv
      <3> QED
        BY <3>1, <3>2
    <2>2. PICK later : later = now + 1
      OBVIOUS
    <2>3. now' = later
      BY <1>2, <2>2
    <2> QED
      BY <1>1, <1>2, <2>1, <2>2, <2>3 DEF RelyInv, Tally
  <1>7. WindowInv'
    <2>1. ASSUME NEW i \in Usage!Limited
          PROVE  InSpan(i, now + 1) <= Configs[i].count
      <3> PICK name : name = Configs[i].name
        OBVIOUS
      <3>1. i \in Usage!Indices /\ name \in Usage!Names /\ Configs[i].count \in Nat
        BY LimitedAreSenders, SenderShapes
      <3> PICK times : times = accepted[name]
        OBVIOUS
      <3>2. times \in Seq(Nat) /\ Len(times) \in Nat /\ \A k \in 1..Len(times) : times[k] <= now
        BY <1>1, <3>1, UsageFacts DEF UsageTyped
      <3>3. \A k \in 1..Len(times) : times[k] \in Span(i, now + 1) => times[k] \in Span(i, now)
        <4>1. \A k \in 1..Len(times) : times[k] \in Nat
          BY <3>2
        <4> QED
          BY <1>3, <1>5, <3>1, <3>2, <4>1, SMTT(30) DEF Span
      <3>4. Num(times, Span(i, now + 1), Len(times)) <= Num(times, Span(i, now), Len(times))
        <4>1. Len(times) <= Len(times)
          BY <3>2
        <4> QED
          BY <3>2, <3>3, <4>1, NumGrows
      <3>5. /\ Num(times, Span(i, now + 1), Len(times)) \in Nat
            /\ Num(times, Span(i, now), Len(times)) \in Nat
        BY <3>2, NumType
      <3>6. Num(times, Span(i, now), Len(times)) <= Configs[i].count
        <4>1. now \in 0..now
          BY <1>3
        <4> QED
          BY <1>1, <4>1 DEF WindowInv, InSpan
      <3> QED
        BY <3>1, <3>4, <3>5, <3>6 DEF InSpan
    <2>2. \A t \in 0..(now + 1) : t \in 0..now \/ t = now + 1
      BY <1>3
    <2>3. \A i \in Usage!Limited : \A t \in 0..(now + 1) : InSpan(i, t) <= Configs[i].count
      BY <1>1, <2>1, <2>2 DEF WindowInv
    <2>4. \A name \in Usage!Names : \A since \in Nat :
            Within(name, since) <= Tally("delivery.succeeded", name, since, Len(events))
      BY <1>1 DEF WindowInv
    <2> QED
      BY <1>2, <2>3, <2>4 DEF WindowInv, Within, InSpan, Tally
  <1>8. ListInv'
    BY <1>1, <1>2 DEF ListInv, Lies, Tally
  <1> QED
    BY <1>4, <1>6, <1>7, <1>8 DEF UsageInv

\* Nothing is stored, sent or listed.
LEMMA UsageStart == Usage!Init => UsageInv
  <1> SUFFICES ASSUME Usage!Init PROVE UsageInv
    OBVIOUS
  <1>1. /\ now = 0 /\ events = <<>> /\ attempt_to_send = Usage!NoSend /\ list = Usage!NoList
        /\ accepted = [name \in Usage!Names |-> <<>>]
    BY DEF Usage!Init
  <1>2. /\ Usage!NoSend \in Sends /\ Usage!NoSend.at = "idle" /\ Usage!NoSend.left = {}
        /\ Usage!NoSend.started = 0
    <2> HIDE DEF Stats
    <2> QED
      BY NothingCounted DEF Usage!NoSend, Sends
  <1>3. /\ Usage!NoList \in Lists /\ Usage!NoList.at = "idle" /\ Usage!NoList.left = {}
        /\ Usage!NoList.started = 0 /\ Usage!NoList.seen = 0
    <2> HIDE DEF Stats
    <2> QED
      BY NothingCounted DEF Usage!NoList, Lists
  <1>4. /\ Len(events) = 0 /\ events \in Seq(Stored) /\ accepted \in [Usage!Names -> Seq(Nat)]
        /\ \A name \in Usage!Names : Len(accepted[name]) = 0
    <2> HIDE DEF Stored
    <2> QED
      BY <1>1
  <1>5. UsageTyped
    <2> HIDE DEF Sends, Lists, Stored
    <2> QED
      BY <1>1, <1>2, <1>3, <1>4, SenderShapes DEF UsageTyped
  <1>6. \A s, S : Num(s, S, 0) = 0
    <2>1. \A s, S : Hits(s, S, 0) = {}
      BY DEF Hits
    <2> QED
      BY <2>1, FS_EmptySet DEF Num
  <1>7. WindowInv
    <2>1. \A i \in Usage!Limited : Configs[i].count \in Nat /\ Configs[i].name \in Usage!Names
      BY SenderShapes, LimitedAreSenders
    <2> QED
      BY <1>4, <1>6, <2>1 DEF WindowInv, Within, Tally, InSpan
  <1>8. RelyInv /\ ListInv
    BY <1>1, <1>2, <1>3 DEF RelyInv, ListInv
  <1> QED
    BY <1>5, <1>7, <1>8 DEF UsageInv

\* The invariant holds.
LEMMA UsageHolds == NamesDiffer => (Usage!Spec => []UsageInv)
  <1> SUFFICES ASSUME NamesDiffer PROVE Usage!Spec => []UsageInv
    OBVIOUS
  <1>1. UsageInv /\ [Usage!Next]_Usage!vars => UsageInv'
    <2> SUFFICES ASSUME UsageInv, [Usage!Next]_Usage!vars PROVE UsageInv'
      OBVIOUS
    <2>1. CASE Usage!BeginSend
      BY <2>1, BeginSendStep
    <2>2. CASE Usage!Store
      BY <2>2, StoreStep
    <2>3. CASE Usage!Tick
      BY <2>3, TickStep
    <2>4. CASE \E i \in Usage!Indices : Usage!Deliver(i)
      BY <2>4, DeliverStep
    <2>5. CASE Usage!BeginList
      BY <2>5, BeginListStep
    <2>6. CASE Usage!Answer \/ Usage!Forget
      BY <2>6, AnswerStep
    <2>7. CASE \E s \in 0..MaxTime : Usage!CountForSend(s) \/ Usage!CountForList(s)
      BY <2>7, CountForSendStep, CountForListStep
    <2>8. CASE UNCHANGED Usage!vars
      BY <2>8 DEF Usage!vars, UsageInv, UsageTyped, RelyInv, WindowInv, ListInv, Lies, Tally, Within, InSpan
    <2> QED
      BY <2>1, <2>2, <2>3, <2>4, <2>5, <2>6, <2>7, <2>8 DEF Usage!Next
  <1> QED
    BY <1>1, UsageStart, PTL DEF Usage!Spec

\* What the invariant says of the quotas and of the listing.
LEMMA UsageFollows ==
  ASSUME UsageInv
  PROVE  Usage!TypeOK /\ Usage!QuotaInWindow /\ Usage!ListedWasTrue
  <1>1. UsageTyped /\ RelyInv /\ WindowInv /\ ListInv
    BY DEF UsageInv
  <1>2. Usage!TypeOK
    <2>1. \A k \in 1..Len(events) : events[k].at \in 0..now /\ events[k].sender \in Usage!Names
      <3>1. \A k \in 1..Len(events) : events[k] \in Stored
        <4> HIDE DEF Stored
        <4> QED
          BY <1>1 DEF UsageTyped
      <3>2. now \in Nat /\ \A k \in 1..Len(events) : events[k].at <= now
        BY <1>1, UsageFacts DEF UsageTyped
      <3> QED
        BY <3>1, <3>2 DEF Stored
    <2>2. ASSUME NEW name \in Usage!Names, NEW k \in DOMAIN accepted[name]
          PROVE  accepted[name][k] \in 0..now
      <3>1. accepted[name] \in Seq(Nat) /\ now \in Nat
        BY <1>1, UsageFacts
      <3>2. k \in 1..Len(accepted[name]) /\ accepted[name][k] \in Nat
        BY <3>1
      <3>3. accepted[name][k] <= now
        BY <1>1, <3>2 DEF UsageTyped
      <3> QED
        BY <3>1, <3>2, <3>3
    <2>3. /\ attempt_to_send.at \in {"idle", "counting", "sent"} /\ list.at \in {"idle", "counting", "done"}
      BY <1>1, UsageFacts DEF Sends, Lists
    <2> QED
      BY <1>1, <2>1, <2>2, <2>3 DEF Usage!TypeOK, UsageTyped
  <1>3. Usage!QuotaInWindow
    <2> SUFFICES ASSUME NEW i \in Usage!Limited, NEW t \in 0..now
                 PROVE  Usage!Cardinality({k \in DOMAIN accepted[Configs[i].name] :
                                             accepted[Configs[i].name][k] \in Usage!Since(Configs[i].range, t)..t})
                          <= Configs[i].count
      BY DEF Usage!QuotaInWindow
    <2>1. accepted[Configs[i].name] \in Seq(Nat)
      BY <1>1, UsageFacts, SenderShapes, LimitedAreSenders
    <2>2. {k \in DOMAIN accepted[Configs[i].name] :
             accepted[Configs[i].name][k] \in Usage!Since(Configs[i].range, t)..t}
            = Hits(accepted[Configs[i].name], Span(i, t), Len(accepted[Configs[i].name]))
      <3> PICK times : times = accepted[Configs[i].name]
        OBVIOUS
      <3>1. DOMAIN times = 1..Len(times)
        BY <2>1
      <3> QED
        BY <3>1 DEF Hits, Span, Start
    <2>3. InSpan(i, t) <= Configs[i].count
      BY <1>1 DEF WindowInv
    <2> QED
      BY <2>2, <2>3, UsageCounts DEF InSpan, Num
  <1>4. Usage!ListedWasTrue
    <2> SUFFICES ASSUME list.at = "done", NEW i \in Usage!Indices
                 PROVE  LET since == Usage!Since(Configs[i].range, list.started)
                            Between(type, n) ==
                              /\ n >= Usage!Count(Usage!EventType[type], Configs[i].name, since, list.seen)
                              /\ n <= Usage!Count(Usage!EventType[type], Configs[i].name, since, Len(events))
                        IN Between("Sent", Usage!Listed(i).sent) /\ Between("Failed", Usage!Listed(i).failed)
      BY DEF Usage!ListedWasTrue
    <2>1. PICK since : since = Start(i, list.started)
      OBVIOUS
    <2>2. since \in Nat /\ since = Usage!Since(Configs[i].range, list.started)
      <3>1. list.started \in Nat
        BY <1>1, UsageFacts
      <3>2. Start(i, list.started) \in 0..list.started
        BY <3>1, StartsMove
      <3> QED
        BY <2>1, <3>1, <3>2 DEF Start
    <2>3. list.seen \in 0..Len(events) /\ Len(events) \in 0..Len(events)
      <3>1. list.seen \in Nat /\ Len(events) \in Nat /\ list.seen <= Len(events)
        BY <1>1, UsageFacts DEF UsageTyped
      <3> QED
        BY <3>1
    <2>4. \A type, name : /\ Usage!Count(type, name, since, list.seen) = Tally(type, name, since, list.seen)
                          /\ Usage!Count(type, name, since, Len(events)) = Tally(type, name, since, Len(events))
      BY <1>1, <2>2, <2>3, CountIsTally
    <2>5. Usage!EventType["Sent"] = "delivery.succeeded" /\ Usage!EventType["Failed"] = "delivery.failed"
      BY DEF Usage!EventType
    <2>6. list.left = {}
      BY <1>1 DEF UsageTyped
    <2>7. /\ Lies(list.stats[Configs[i].name].sent, "delivery.succeeded", Configs[i].name, since)
          /\ Lies(list.stats[Configs[i].name].failed, "delivery.failed", Configs[i].name, since)
      BY <1>1, <2>1, <2>6 DEF ListInv
    <2> QED
      BY <2>2, <2>4, <2>5, <2>7 DEF Usage!Listed, Lies
  <1> QED
    BY <1>2, <1>3, <1>4

\* Of senders with different names, on SQLite and with one worker: in no window of its
\* range, wherever it is put, did a sender's quota allow more deliveries than its count,
\* and a count that is listed was true while the call ran (get_stats, since_ms,
\* allowed_senders, list_senders): for any configuration, any length of the ranges and
\* however sends, listings and the clock interleave.
THEOREM UsageStaysTrue == NamesDiffer => (PartsSpec => []UsageIsTrue)
  <1> SUFFICES ASSUME NamesDiffer PROVE PartsSpec => []UsageIsTrue
    OBVIOUS
  <1>1. PartsInit => Init /\ Usage!Init
    BY DEF PartsInit
  <1>2. [PartsNext]_allVars => [Next]_vars /\ [Usage!Next]_Usage!vars
    BY DEF PartsNext, allVars, vars, quotas, Usage!vars
  <1>3. UsageInv /\ TypeOK => UsageIsTrue
    BY UsageFollows DEF UsageIsTrue
  <1>4. Usage!Spec => []UsageInv
    BY UsageHolds
  <1> QED
    BY <1>1, <1>2, <1>3, <1>4, SendsTyped, PTL DEF PartsSpec, Spec, Usage!Spec
================================================================================
