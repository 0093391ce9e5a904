------------------------------ MODULE HttpProofs ------------------------------
(***************************************************************************)
(* Proofs about the HTTP interface, for any e-mails, events, queries,      *)
(* requests and limits: a client that pages through a listing by offset    *)
(* while rows come and go, what the events listed tell, and the requests   *)
(* from the router to the answer.                                          *)
(***************************************************************************)
EXTENDS MCHttp, FiniteSetTheorems, TLAPS

-----------------------------------------------------------------------------
(* Places in an order by time and id, newest first.                        *)

\* a is listed before b, by the times t.
Before(t, a, b) == t[a] > t[b] \/ (t[a] = t[b] /\ a > b)

\* How many of S are listed before x.
Place(t, S, x) == Cardinality({y \in S : Before(t, y, x)})

\* The rows of T, some of S, with a place before a cursor.
Behind(t, S, T, cursor) == {x \in T : Place(t, S, x) < cursor}

\* A set of ids with a time each.
Timed(t, S) == IsFiniteSet(S) /\ \A x \in S : x \in Nat /\ t[x] \in Nat

\* A place is a number below the number of rows.
LEMMA PlaceIsBounded ==
  ASSUME NEW t, NEW S, Timed(t, S), NEW x \in S
  PROVE  Place(t, S, x) \in Nat /\ Place(t, S, x) < Cardinality(S)
  <1> DEFINE P == {y \in S : Before(t, y, x)}
  <1>1. x \in Nat /\ t[x] \in Nat
    BY DEF Timed
  <1>2. x \notin P
    BY <1>1 DEF Before
  <1>3. P \in SUBSET S /\ P # S
    BY <1>2
  <1>4. IsFiniteSet(S)
    BY DEF Timed
  <1>5. IsFiniteSet(P) /\ Cardinality(P) <= Cardinality(S) /\ Cardinality(P) # Cardinality(S)
    BY <1>3, <1>4, FS_Subset
  <1>6. Cardinality(P) \in Nat /\ Cardinality(S) \in Nat
    BY <1>4, <1>5, FS_CardinalityType
  <1>7. Place(t, S, x) = Cardinality(P)
    BY DEF Place
  <1> QED
    BY <1>5, <1>6, <1>7

\* What is listed before another has a lower place.
LEMMA EarlierIsLower ==
  ASSUME NEW t, NEW S, Timed(t, S), NEW x \in S, NEW y \in S, Before(t, y, x)
  PROVE  Place(t, S, y) < Place(t, S, x)
  <1> DEFINE P(z) == {w \in S : Before(t, w, z)}
  <1>1. \A z \in S : z \in Nat /\ t[z] \in Nat
    BY DEF Timed
  <1>2. P(y) \in SUBSET P(x)
    BY <1>1 DEF Before
  <1>3. y \in P(x) /\ y \notin P(y)
    BY <1>1 DEF Before
  <1>4. IsFiniteSet(P(x))
    <2>1. P(x) \in SUBSET S
      OBVIOUS
    <2> QED
      BY <2>1, FS_Subset DEF Timed
  <1>5. IsFiniteSet(P(y)) /\ Cardinality(P(y)) <= Cardinality(P(x)) /\ Cardinality(P(y)) # Cardinality(P(x))
    BY <1>2, <1>3, <1>4, FS_Subset
  <1>6. Cardinality(P(y)) \in Nat /\ Cardinality(P(x)) \in Nat
    BY <1>4, <1>5, FS_CardinalityType
  <1> QED
    BY <1>5, <1>6 DEF Place

\* Two rows have two places.
LEMMA PlacesDiffer ==
  ASSUME NEW t, NEW S, Timed(t, S), NEW x \in S, NEW y \in S, x # y
  PROVE  Place(t, S, x) # Place(t, S, y)
  <1>1. \A z \in S : z \in Nat /\ t[z] \in Nat
    BY DEF Timed
  <1>2. Before(t, x, y) \/ Before(t, y, x)
    BY <1>1 DEF Before
  <1>3. Place(t, S, x) \in Nat /\ Place(t, S, y) \in Nat
    BY PlaceIsBounded
  <1> QED
    BY <1>2, <1>3, EarlierIsLower

\* Every place before that of a row is taken.
LEMMA NoPlaceIsFree ==
  ASSUME NEW t, NEW S, Timed(t, S), NEW x \in S, NEW n \in Nat, n < Place(t, S, x)
  PROVE  \E y \in S : Place(t, S, y) = n
  <1> DEFINE P == {y \in S : Before(t, y, x)}
             p == Place(t, S, x)
             f == [y \in P |-> Place(t, S, y)]
  <1>1. p \in Nat
    BY PlaceIsBounded
  <1>2. \A y \in P : f[y] \in 0..(p - 1)
    <2> SUFFICES ASSUME NEW y \in P
                 PROVE  f[y] \in 0..(p - 1)
      OBVIOUS
    <2>1. y \in S /\ Before(t, y, x)
      OBVIOUS
    <2>2. Place(t, S, y) \in Nat
      BY <2>1, PlaceIsBounded
    <2>3. Place(t, S, y) < p
      BY <2>1, EarlierIsLower
    <2>4. f[y] = Place(t, S, y)
      OBVIOUS
    <2> HIDE DEF f, p
    <2> QED
      BY <2>2, <2>3, <2>4, <1>1
  <1>3. \A y, z \in P : f[y] = f[z] => y = z
    <2> SUFFICES ASSUME NEW y \in P, NEW z \in P, y # z
                 PROVE  f[y] # f[z]
      OBVIOUS
    <2>1. y \in S /\ z \in S
      OBVIOUS
    <2> QED
      BY <2>1, PlacesDiffer
  <1>4. f \in Injection(P, 0..(p - 1))
    BY <1>2, <1>3 DEF Injection, IsInjective
  <1>5. IsFiniteSet(0..(p - 1)) /\ Cardinality(0..(p - 1)) = p
    <2> HIDE DEF p
    <2> QED
      BY <1>1, FS_Interval
  <1>6. Cardinality(P) = p
    BY DEF Place
  <1>7. f \in Surjection(P, 0..(p - 1))
    BY <1>4, <1>5, <1>6, FS_Injection
  <1>8. n \in 0..(p - 1)
    BY <1>1
  <1>9. PICK y \in P : f[y] = n
    BY <1>7, <1>8 DEF Surjection
  <1> QED
    BY <1>9

\* At most n rows have their places in a range of n.
LEMMA RangeIsBounded ==
  ASSUME NEW t, NEW S, Timed(t, S), NEW T \in SUBSET S, NEW a \in Nat, NEW n \in Nat,
         \A x \in T : Place(t, S, x) \in a..(a + n - 1)
  PROVE  IsFiniteSet(T) /\ Cardinality(T) \in Nat /\ Cardinality(T) <= n
  <1> DEFINE f == [y \in T |-> Place(t, S, y)]
  <1>1. \A y \in T : f[y] \in a..(a + n - 1)
    OBVIOUS
  <1>2. \A y, z \in T : f[y] = f[z] => y = z
    <2> SUFFICES ASSUME NEW y \in T, NEW z \in T, y # z
                 PROVE  f[y] # f[z]
      OBVIOUS
    <2>1. y \in S /\ z \in S
      OBVIOUS
    <2> QED
      BY <2>1, PlacesDiffer
  <1>3. f \in Injection(T, a..(a + n - 1))
    BY <1>1, <1>2 DEF Injection, IsInjective
  <1>4. IsFiniteSet(a..(a + n - 1)) /\ Cardinality(a..(a + n - 1)) = n
    BY FS_Interval
  <1>5. IsFiniteSet(T) /\ Cardinality(T) <= n
    BY <1>3, <1>4, FS_Injection
  <1> QED
    BY <1>5, FS_CardinalityType

\* A range of places before that of a row is full.
LEMMA RangeIsFull ==
  ASSUME NEW t, NEW S, Timed(t, S), NEW x \in S, NEW a \in Nat, NEW n \in Nat,
         Place(t, S, x) >= a + n
  PROVE  n <= Cardinality({y \in S : Place(t, S, y) \in a..(a + n - 1)})
  <1> DEFINE T == {y \in S : Place(t, S, y) \in a..(a + n - 1)}
             f == [y \in T |-> Place(t, S, y)]
  <1>1. IsFiniteSet(T)
    BY RangeIsBounded
  <1>2. f \in [T -> a..(a + n - 1)]
    OBVIOUS
  <1>3. \A k \in a..(a + n - 1) : \E y \in T : f[y] = k
    <2> SUFFICES ASSUME NEW k \in a..(a + n - 1)
                 PROVE  \E y \in T : f[y] = k
      OBVIOUS
    <2>1. Place(t, S, x) \in Nat
      BY PlaceIsBounded
    <2>2. k \in Nat /\ k < Place(t, S, x)
      BY <2>1
    <2>3. PICK y \in S : Place(t, S, y) = k
      BY <2>2, NoPlaceIsFree
    <2> QED
      BY <2>3
  <1>4. f \in Surjection(T, a..(a + n - 1))
    BY <1>2, <1>3 DEF Surjection
  <1>5. Cardinality(a..(a + n - 1)) = n
    BY FS_Interval
  <1> QED
    BY <1>1, <1>4, <1>5, FS_Surjection

\* A row that stays comes forward by no more places than rows leave.
LEMMA ComesForwardByLeaving ==
  ASSUME NEW t, NEW S, Timed(t, S), NEW u, NEW R, Timed(u, R),
         \A x \in S \intersect R : u[x] = t[x],
         NEW x \in S \intersect R
  PROVE  /\ Cardinality(S \ R) \in Nat
         /\ Place(t, S, x) <= Place(u, R, x) + Cardinality(S \ R)
  <1> DEFINE P == {y \in S : Before(t, y, x)}
             Q == {y \in R : Before(u, y, x)}
  <1>1. IsFiniteSet(S \ R)
    BY FS_Subset DEF Timed
  <1>2. IsFiniteSet(Q)
    <2>1. Q \in SUBSET R
      OBVIOUS
    <2> QED
      BY <2>1, FS_Subset DEF Timed
  <1>3. P \in SUBSET (Q \union (S \ R))
    BY DEF Before
  <1>4. /\ IsFiniteSet(Q \union (S \ R))
        /\ Cardinality(Q \union (S \ R))
             = Cardinality(Q) + Cardinality(S \ R) - Cardinality(Q \intersect (S \ R))
    BY <1>1, <1>2, FS_Union
  <1>5. Cardinality(P) <= Cardinality(Q \union (S \ R)) /\ IsFiniteSet(P)
    BY <1>3, <1>4, FS_Subset
  <1>6. IsFiniteSet(Q \intersect (S \ R))
    BY <1>2, FS_Subset
  <1>7. /\ Cardinality(P) \in Nat /\ Cardinality(Q) \in Nat /\ Cardinality(S \ R) \in Nat
        /\ Cardinality(Q \intersect (S \ R)) \in Nat /\ Cardinality(Q \union (S \ R)) \in Nat
    BY <1>1, <1>2, <1>4, <1>5, <1>6, FS_CardinalityType
  <1>8. Place(t, S, x) = Cardinality(P) /\ Place(u, R, x) = Cardinality(Q)
    BY DEF Place
  <1> HIDE DEF P, Q
  <1> QED
    BY <1>4, <1>5, <1>7, <1>8

\* Of the rows that a cursor at o has passed, and that were not seen, there are at most
\* n; when rows leave, at most as many more are passed.
LEMMA PassedByLeaving ==
  ASSUME NEW t, NEW S, Timed(t, S), NEW u, NEW R, Timed(u, R),
         \A x \in S \intersect R : u[x] = t[x],
         NEW T \in SUBSET S, NEW o \in Nat, NEW n \in Nat,
         Cardinality(Behind(t, S, T, o)) <= n
  PROVE  Cardinality(Behind(u, R, T \intersect R, o)) <= n + Cardinality(S \ R)
  <1> DEFINE d   == Cardinality(S \ R)
             old == Behind(t, S, T, o)
             new == Behind(u, R, T \intersect R, o)
             mov == {x \in new : x \notin old}
  <1> USE DEF Behind
  <1>1. IsFiniteSet(S) /\ IsFiniteSet(S \ R)
    BY FS_Subset DEF Timed
  <1>2. d \in Nat
    BY <1>1, FS_CardinalityType
  <1>3. IsFiniteSet(old) /\ Cardinality(old) \in Nat
    <2>1. old \in SUBSET S
      OBVIOUS
    <2> QED
      BY <2>1, <1>1, FS_Subset, FS_CardinalityType
  <1>4. IsFiniteSet(mov) /\ Cardinality(mov) \in Nat /\ Cardinality(mov) <= d
    <2>1. mov \in SUBSET S
      OBVIOUS
    <2>2. ASSUME NEW x \in mov
          PROVE  Place(t, S, x) \in o..(o + d - 1)
      <3>1. x \in S \intersect R /\ Place(u, R, x) < o /\ ~(Place(t, S, x) < o)
        OBVIOUS
      <3>2. Place(t, S, x) \in Nat /\ Place(u, R, x) \in Nat
        BY <3>1, PlaceIsBounded
      <3>3. Place(t, S, x) <= Place(u, R, x) + d
        BY <3>1, ComesForwardByLeaving
      <3> HIDE DEF d, mov
      <3> QED
        BY <1>2, <3>1, <3>2, <3>3
    <2> HIDE DEF d, mov
    <2> QED
      BY <1>2, <2>1, <2>2, RangeIsBounded
  <1>5. new \in SUBSET (old \union mov)
    OBVIOUS
  <1>6. /\ IsFiniteSet(old \union mov)
        /\ Cardinality(old \union mov)
             = Cardinality(old) + Cardinality(mov) - Cardinality(old \intersect mov)
    BY <1>3, <1>4, FS_Union
  <1>7. IsFiniteSet(old \intersect mov)
    BY <1>3, FS_Subset
  <1>8. Cardinality(old \intersect mov) \in Nat /\ Cardinality(old \union mov) \in Nat
    BY <1>6, <1>7, FS_CardinalityType
  <1>9. IsFiniteSet(new) /\ Cardinality(new) <= Cardinality(old \union mov)
    BY <1>5, <1>6, FS_Subset
  <1>10. Cardinality(new) \in Nat
    BY <1>9, FS_CardinalityType
  <1>11. Cardinality(old) <= n
    OBVIOUS
  <1> HIDE DEF old, new, mov, d
  <1>12. Cardinality(new) <= n + d /\ n + d \in Nat
    BY <1>2, <1>3, <1>4, <1>6, <1>8, <1>9, <1>10, <1>11
  <1> QED
    BY <1>12 DEF new, d

\* Of some rows, those that a cursor at o has not passed.
Ahead(t, S, T, o) == {x \in T : ~(Place(t, S, x) < o)}

\* When rows come, at most as many more are ahead of the cursor again.
LEMMA PushedByArriving ==
  ASSUME NEW t, NEW S, Timed(t, S), NEW u, NEW R, Timed(u, R),
         \A x \in S \intersect R : u[x] = t[x],
         NEW T \in SUBSET S, NEW o \in Nat, NEW n \in Nat, NEW m \in Nat,
         n + Cardinality(Ahead(t, S, T, o)) <= m
  PROVE  n + Cardinality(Ahead(u, R, T \intersect R, o)) <= m + Cardinality(R \ S)
  <1> DEFINE d   == Cardinality(R \ S)
             old == Ahead(t, S, T, o)
             new == Ahead(u, R, T \intersect R, o)
             mov == {x \in new : x \notin old}
  <1> USE DEF Ahead
  <1>1. IsFiniteSet(S) /\ IsFiniteSet(R \ S)
    BY FS_Subset DEF Timed
  <1>2. d \in Nat
    BY <1>1, FS_CardinalityType
  <1>3. IsFiniteSet(old) /\ Cardinality(old) \in Nat
    <2>1. old \in SUBSET S
      OBVIOUS
    <2> QED
      BY <2>1, <1>1, FS_Subset, FS_CardinalityType
  <1>4. IsFiniteSet(mov) /\ Cardinality(mov) \in Nat /\ Cardinality(mov) <= d
    <2>1. mov \in SUBSET R
      OBVIOUS
    <2>2. ASSUME NEW x \in mov
          PROVE  Place(u, R, x) \in o..(o + d - 1)
      <3>1. x \in R \intersect S /\ ~(Place(u, R, x) < o) /\ Place(t, S, x) < o
        OBVIOUS
      <3>2. Place(t, S, x) \in Nat /\ Place(u, R, x) \in Nat
        BY <3>1, PlaceIsBounded
      <3>3. \A y \in R \intersect S : t[y] = u[y]
        OBVIOUS
      <3>4. Place(u, R, x) <= Place(t, S, x) + d
        BY <3>1, <3>3, ComesForwardByLeaving
      <3> HIDE DEF d, mov
      <3> QED
        BY <1>2, <3>1, <3>2, <3>4
    <2> HIDE DEF d, mov
    <2> QED
      BY <1>2, <2>1, <2>2, RangeIsBounded
  <1>5. new \in SUBSET (old \union mov)
    OBVIOUS
  <1>6. /\ IsFiniteSet(old \union mov)
        /\ Cardinality(old \union mov)
             = Cardinality(old) + Cardinality(mov) - Cardinality(old \intersect mov)
    BY <1>3, <1>4, FS_Union
  <1>7. IsFiniteSet(old \intersect mov)
    BY <1>3, FS_Subset
  <1>8. Cardinality(old \intersect mov) \in Nat /\ Cardinality(old \union mov) \in Nat
    BY <1>6, <1>7, FS_CardinalityType
  <1>9. IsFiniteSet(new) /\ Cardinality(new) <= Cardinality(old \union mov)
    BY <1>5, <1>6, FS_Subset
  <1>10. Cardinality(new) \in Nat
    BY <1>9, FS_CardinalityType
  <1>11. n + Cardinality(old) <= m
    OBVIOUS
  <1> HIDE DEF old, new, mov, d
  <1>12. n + Cardinality(new) <= m + d
    BY <1>2, <1>3, <1>4, <1>6, <1>8, <1>9, <1>10, <1>11
  <1> QED
    BY <1>12 DEF new, d

-----------------------------------------------------------------------------
(* The rows of a listing.                                                  *)

\* The tables are of the right types, whoever reads them.
TablesTyped ==
  /\ now \in Times
  /\ DOMAIN emails \subseteq Emails /\ \A e \in DOMAIN emails : emails[e] \in Times
  /\ gone \in SUBSET (Emails \ DOMAIN emails)
  /\ events \in Seq([email : Emails, type : EventTypes, created : Times]) /\ Len(events) <= MaxEvents

LEMMA TypesOfTables == TypeOK <=> TablesTyped /\ reader \in Readers
  BY DEF TypeOK, TablesTyped

\* When the rows were created, by the index of an event.
Created == [i \in DOMAIN events |-> events[i].created]

\* The limit of a query is positive, and at most MAX_LIMIT.
LEMMA LimitIsPositive ==
  ASSUME NEW q, q.limit \in (Nat \ {0}) \union {None}
  PROVE  Limit(q) \in Nat /\ 1 <= Limit(q) /\ Limit(q) <= MAX_LIMIT
  BY ListingAssumption DEF Limit

\* What a query finds are rows with an id and a time each.
LEMMA RowsAreTimed ==
  ASSUME TablesTyped
  PROVE  /\ \A q : EmailsMatching(q) \subseteq DOMAIN emails /\ Timed(emails, EmailsMatching(q))
         /\ \A q : EventsMatching(q) \subseteq DOMAIN events /\ Timed(Created, EventsMatching(q))
         /\ DOMAIN events \subseteq 1..MaxEvents
  <1>1. \A q : EmailsMatching(q) \in SUBSET Emails /\ EmailsMatching(q) \subseteq DOMAIN emails
    BY DEF TablesTyped, EmailsMatching
  <1>2. DOMAIN events = 1..Len(events) /\ Len(events) \in Nat
    BY DEF TablesTyped
  <1>3. DOMAIN events \subseteq 1..MaxEvents
    BY <1>2, ListingAssumption DEF TablesTyped
  <1>4. \A q : EventsMatching(q) \in SUBSET (DOMAIN events)
    BY DEF EventsMatching
  <1>5. IsFiniteSet(DOMAIN events)
    BY <1>2, FS_Interval
  <1>6. \A q : IsFiniteSet(EmailsMatching(q)) /\ IsFiniteSet(EventsMatching(q))
    BY <1>1, <1>4, <1>5, ListingAssumption, FS_Subset
  <1>7. \A e \in DOMAIN emails : e \in Nat /\ emails[e] \in Nat
    <2>1. Emails \subseteq Nat /\ Times \subseteq Nat
      BY ListingAssumption DEF Times
    <2> QED
      BY <2>1 DEF TablesTyped
  <1>8. \A i \in DOMAIN events : i \in Nat /\ Created[i] \in Nat
    <2>1. Times \subseteq Nat
      BY ListingAssumption DEF Times
    <2> DEFINE R == [email : Emails, type : EventTypes, created : Times]
    <2>2. events \in Seq(R)
      BY DEF TablesTyped
    <2>3. \A x \in R : x.created \in Times
      OBVIOUS
    <2> HIDE DEF R
    <2> SUFFICES ASSUME NEW i \in DOMAIN events
                 PROVE  i \in Nat /\ Created[i] \in Nat
      OBVIOUS
    <2>4. i \in 1..Len(events)
      BY <1>2
    <2>5. events[i] \in R
      BY <2>2, <2>4
    <2>6. Created[i] = events[i].created
      BY DEF Created
    <2>7. i \in Nat
      BY <1>2, <2>4
    <2> QED
      BY <2>1, <2>3, <2>5, <2>6, <2>7
  <1> QED
    BY <1>1, <1>3, <1>4, <1>6, <1>7, <1>8 DEF Timed

\* A page is the rows with a place in its range.
LEMMA PagesByPlace ==
  ASSUME TypeOK, NEW q, NEW n, NEW o
  PROVE  /\ EmailsPage(q, n, o)
              = {e \in EmailsMatching(q) : Place(emails, EmailsMatching(q), e) \in o..(o + n - 1)}
         /\ EventsPage(q, n, o)
              = {i \in EventsMatching(q) : Place(Created, EventsMatching(q), i) \in o..(o + n - 1)}
  <1>1. \A x, y : EmailBefore(x, y) <=> Before(emails, x, y)
    BY DEF EmailBefore, Before
  <1>2. \A x, y \in EventsMatching(q) : EventBefore(x, y) <=> Before(Created, x, y)
    BY DEF EventBefore, Before, Created, EventsMatching
  <1>3. \A x \in EmailsMatching(q) :
          {y \in EmailsMatching(q) : EmailBefore(y, x)}
            = {y \in EmailsMatching(q) : Before(emails, y, x)}
    BY <1>1
  <1>4. \A x \in EventsMatching(q) :
          {y \in EventsMatching(q) : EventBefore(y, x)}
            = {y \in EventsMatching(q) : Before(Created, y, x)}
    BY <1>2
  <1> QED
    BY <1>3, <1>4 DEF EmailsPage, EventsPage, PageOf, Place

\* The rows of a response are as many as those of the page, under their ids.
LEMMA ResponsesByPage ==
  ASSUME TypeOK, NEW q, NEW o, NEW e, q.limit \in (Nat \ {0}) \union {None}, o \in Nat
  PROVE  /\ Cardinality(list_emails(q, o).rows) = Cardinality(EmailsPage(q, Limit(q), o))
         /\ {row.id : row \in list_emails(q, o).rows} = EmailsPage(q, Limit(q), o)
         /\ list_emails(q, o).limit = Limit(q)
         /\ Cardinality(list_events(q, o).rows) = Cardinality(EventsPage(q, Limit(q), o))
         /\ {row.id : row \in list_events(q, o).rows} = EventsPage(q, Limit(q), o)
         /\ list_events(q, o).limit = Limit(q)
  <1> DEFINE A == EmailsPage(q, Limit(q), o)
             B == EventsPage(q, Limit(q), o)
             f == [x \in A |-> EmailRecordDto(x)]
             dto(x) == [id |-> x, created_at_ms |-> events[x].created]
             g == [x \in B |-> dto(x)]
  <1>1. Limit(q) \in Nat
    BY LimitIsPositive
  <1>2. IsFiniteSet(A)
    <2>1. A \in SUBSET EmailsMatching(q)
      BY PagesByPlace
    <2>2. IsFiniteSet(EmailsMatching(q))
      BY RowsAreTimed, TypesOfTables DEF Timed
    <2> QED
      BY <2>1, <2>2, FS_Subset
  <1>3. IsFiniteSet(B)
    <2>1. B \in SUBSET EventsMatching(q)
      BY PagesByPlace
    <2>2. IsFiniteSet(EventsMatching(q))
      BY RowsAreTimed, TypesOfTables DEF Timed
    <2> QED
      BY <2>1, <2>2, FS_Subset
  <1>4. /\ list_emails(q, o).rows = {EmailRecordDto(x) : x \in A}
        /\ list_emails(q, o).limit = Limit(q)
    BY DEF list_emails, EchoedLimit
  <1>5. /\ list_events(q, o).rows = {dto(x) : x \in B}
        /\ list_events(q, o).limit = Limit(q)
    BY DEF list_events, EchoedLimit
  <1> HIDE DEF A, B
  <1>6. \A x : EmailRecordDto(x).id = x /\ dto(x).id = x
    BY DEF EmailRecordDto
  <1>7. f \in Bijection(A, list_emails(q, o).rows)
    BY <1>4, <1>6 DEF Bijection, Injection, Surjection, IsInjective
  <1> HIDE DEF dto
  <1>8. g \in Bijection(B, list_events(q, o).rows)
    BY <1>5, <1>6 DEF Bijection, Injection, Surjection, IsInjective
  <1>9. /\ Cardinality(list_emails(q, o).rows) = Cardinality(A)
        /\ Cardinality(list_events(q, o).rows) = Cardinality(B)
    BY <1>2, <1>3, <1>7, <1>8, FS_Bijection DEF ExistsBijection
  <1>10. {row.id : row \in list_emails(q, o).rows} = A
    BY <1>4, <1>6
  <1>11. {row.id : row \in list_events(q, o).rows} = B
    BY <1>5, <1>6
  <1> QED
    BY <1>4, <1>5, <1>9, <1>10, <1>11 DEF A, B

-----------------------------------------------------------------------------
(* A client that pages through a listing.                                  *)

\* The readers of the two listings.
EmailReaders ==
  [of : {"emails"}, query : EmailQueries, offset : Nat, seen : SUBSET Emails,
   initial : SUBSET Emails, left : SUBSET Emails, departures : Nat,
   arrivals : Nat, repeats : Nat, done : BOOLEAN]
QueriesOfReaders == EventQueries \union {OfEmail(q, e) : q \in EventQueries, e \in Emails}
EventReaders ==
  [of : {"events"}, query : QueriesOfReaders, offset : Nat, seen : SUBSET (1..MaxEvents),
   initial : SUBSET (1..MaxEvents), left : SUBSET (1..MaxEvents), departures : Nat,
   arrivals : Nat, repeats : Nat, done : BOOLEAN]

\* The times of a reader's rows, and of those it was to show, the ones that its cursor
\* has passed without.
TimesOf(r) == IF r.of = "emails" THEN emails ELSE Created
Unseen(r)  == r.initial \ (r.seen \union r.left)
Passed(r)  == Behind(TimesOf(r), Matching(r), Unseen(r), r.offset)

\* Of those it has shown and that stayed, the ones ahead of its cursor.
Stayed(r) == r.seen \ r.left
Again(r)  == Ahead(TimesOf(r), Matching(r), Stayed(r), r.offset)

\* While a client pages, what its cursor has passed is bounded by what has left; when
\* it is done, what it has missed. No event ever leaves. What it has seen again, and
\* would see again, is bounded by what has come.
ReaderInv ==
  reader # Idle =>
    /\ reader.initial \ reader.left \subseteq Matching(reader)
    /\ Stayed(reader) \subseteq Matching(reader)
    /\ reader.repeats + Cardinality(Again(reader)) <= reader.arrivals
    /\ reader.of = "events" => reader.departures = 0
    /\ reader.done  => Cardinality(Unseen(reader)) <= reader.departures
    /\ ~reader.done => Cardinality(Passed(reader)) <= reader.departures

ListingInv == TypeOK /\ ReaderInv

\* The limits and filters of what clients ask for.
LEMMA QueryFields ==
  /\ \A q \in EmailQueries : q.limit \in (Nat \ {0}) \union {None} /\ q.passes \in SUBSET Emails
  /\ \A q \in EventQueries : q.limit \in (Nat \ {0}) \union {None} /\ q.passes \in SUBSET Emails
  /\ \A q \in EventQueries, e \in Emails :
       OfEmail(q, e).limit \in (Nat \ {0}) \union {None} /\ OfEmail(q, e).passes \in SUBSET Emails
  <1>1. EmailQueries \subseteq
          [status : Statuses \union {None}, passes : SUBSET Emails, after_ms : Times \union {None},
           before_ms : Times \union {None}, limit : (Nat \ {0}) \union {None}]
    BY ListingAssumption
  <1>2. EventQueries \subseteq
          [event_type : EventTypes \union {None}, passes : SUBSET Emails, after_ms : Times \union {None},
           before_ms : Times \union {None}, limit : (Nat \ {0}) \union {None}]
    BY ListingAssumption
  <1> QED
    BY <1>1, <1>2 DEF OfEmail

\* A reader reads one of the two listings.
LEMMA ReaderKinds ==
  ASSUME NEW r \in Readers, r # Idle
  PROVE  /\ r \in EmailReaders \/ r \in EventReaders
         /\ r.query.limit \in (Nat \ {0}) \union {None}
         /\ r.offset \in Nat /\ r.departures \in Nat /\ r.done \in BOOLEAN
         /\ r.arrivals \in Nat /\ r.repeats \in Nat
  <1>1. r \in EmailReaders \/ r \in EventReaders
    BY DEF Readers, EmailReaders, EventReaders, QueriesOfReaders
  <1>2. CASE r \in EmailReaders
    BY <1>1, <1>2, QueryFields DEF EmailReaders
  <1>3. CASE r \in EventReaders
    <2>1. r.query \in EventQueries \/ \E q \in EventQueries, e \in Emails : r.query = OfEmail(q, e)
      BY <1>3 DEF EventReaders, QueriesOfReaders
    <2>2. r.query.limit \in (Nat \ {0}) \union {None}
      BY <2>1, QueryFields
    <2>3. /\ r.offset \in Nat /\ r.departures \in Nat /\ r.done \in BOOLEAN
          /\ r.arrivals \in Nat /\ r.repeats \in Nat
      BY <1>3 DEF EventReaders
    <2> QED
      BY <1>1, <2>2, <2>3
  <1> QED
    BY <1>1, <1>2, <1>3

\* What a reader's query finds: e-mails, or indices of events, with a time each.
LEMMA ReaderRows ==
  ASSUME TablesTyped, NEW r \in Readers, r # Idle
  PROVE  /\ Timed(TimesOf(r), Matching(r)) /\ IsFiniteSet(Matching(r))
         /\ r \in EmailReaders => Matching(r) \subseteq Emails
         /\ r \in EventReaders => Matching(r) \subseteq 1..MaxEvents
  <1>1. DOMAIN emails \subseteq Emails
    BY DEF TablesTyped
  <1>2. CASE r \in EmailReaders
    <2>1. r.of = "emails" /\ r \notin EventReaders
      BY <1>2 DEF EmailReaders, EventReaders
    <2> QED
      BY <1>1, <1>2, <2>1, RowsAreTimed DEF TimesOf, Matching, Timed
  <1>3. CASE r \in EventReaders
    <2>1. r.of # "emails" /\ r \notin EmailReaders
      BY <1>3 DEF EmailReaders, EventReaders
    <2> QED
      BY <1>3, <2>1, RowsAreTimed DEF TimesOf, Matching, Timed
  <1> QED
    BY <1>2, <1>3, ReaderKinds

\* That, in every state.
AllRowsTimed ==
  \A r \in Readers : r # Idle => Timed(TimesOf(r), Matching(r)) /\ IsFiniteSet(Matching(r))

\* In a state of the right types the rows of every reader are timed.
LEMMA RowsStayTimed == TablesTyped => AllRowsTimed
  BY ReaderRows DEF AllRowsTimed

\* A write moves the rows of a reader under way.
LEMMA NotedByWrite ==
  ASSUME Note, NEW r, r = reader
  PROVE  reader' = IF r = Idle THEN r
                   ELSE [r EXCEPT !.left = @ \union (Matching(r) \ Matching(r)'),
                                  !.departures = @ + Cardinality(Matching(r) \ Matching(r)'),
                                  !.arrivals = @ + Cardinality(Matching(r)' \ Matching(r))]
  BY DEF Note

\* A write that lets rows out of a listing, and others in, keeps what is known of its
\* reader: the client misses at most one more for each that left, and sees at most one
\* more again for each that came.
LEMMA WriteKeepsReader ==
  ASSUME TypeOK, TypeOK', ReaderInv, NEW r, r = reader, r # Idle,
         reader' = [r EXCEPT !.left = @ \union (Matching(r) \ Matching(r)'),
                             !.departures = @ + Cardinality(Matching(r) \ Matching(r)'),
                             !.arrivals = @ + Cardinality(Matching(r)' \ Matching(r))],
         \A x \in Matching(r) \intersect Matching(r)' : TimesOf(r)'[x] = TimesOf(r)[x],
         r.of = "events" => Matching(r) \subseteq Matching(r)'
  PROVE  ReaderInv'
  <1> DEFINE S == Matching(r)
             R == Matching(r)'
             t == TimesOf(r)
             u == TimesOf(r)'
             n == reader'
             d == Cardinality(S \ R)
             g == Cardinality(R \ S)
  <1>1. r \in Readers /\ n \in Readers
    BY DEF TypeOK
  <1>2. /\ r \in EmailReaders \/ r \in EventReaders
        /\ r.offset \in Nat /\ r.departures \in Nat /\ r.done \in BOOLEAN
        /\ r.arrivals \in Nat /\ r.repeats \in Nat
    BY <1>1, ReaderKinds
  <1>3. PICK c : c = [r EXCEPT !.left = @ \union (S \ R), !.departures = @ + d, !.arrivals = @ + g]
    OBVIOUS
  <1>4. reader' = c
    BY <1>3
  <1>5. /\ c.of = r.of /\ c.query = r.query /\ c.offset = r.offset /\ c.seen = r.seen
        /\ c.initial = r.initial /\ c.left = r.left \union (S \ R)
        /\ c.departures = r.departures + d /\ c.done = r.done
        /\ c.arrivals = r.arrivals + g /\ c.repeats = r.repeats
    BY <1>2, <1>3 DEF EmailReaders, EventReaders
  <1>6. Timed(t, S) /\ IsFiniteSet(S)
    BY <1>1, ReaderRows, TypesOfTables
  <1>7. Timed(u, R)
    <2>1. AllRowsTimed'
      BY RowsStayTimed, TypesOfTables, PTL
    <2> QED
      BY <1>1, <2>1 DEF AllRowsTimed, Readers, Idle
  <1>8. c # Idle
    BY <1>2, <1>5 DEF EmailReaders, EventReaders, Idle
  <1>9. Matching(c)' = R /\ TimesOf(c)' = u
    BY <1>5 DEF Matching, TimesOf
  <1>10. d \in Nat
    BY <1>6, FS_Subset, FS_CardinalityType
  <1>19. /\ Stayed(r) \in SUBSET S
         /\ r.repeats + Cardinality(Ahead(t, S, Stayed(r), r.offset)) <= r.arrivals
    BY DEF ReaderInv, Again
  <1>11. /\ r.initial \ r.left \subseteq S /\ IsFiniteSet(Unseen(r))
         /\ r.of = "events" => r.departures = 0
         /\ r.done  => Cardinality(Unseen(r)) <= r.departures
         /\ ~r.done => Cardinality(Behind(t, S, Unseen(r), r.offset)) <= r.departures
    BY <1>6, FS_Subset DEF ReaderInv, Passed, Unseen
  <1>22. \A x \in S \intersect R : u[x] = t[x]
    OBVIOUS
  <1> HIDE DEF S, R, t, u, d, g
  <1>12. c.initial \ c.left \subseteq R
    BY <1>5, <1>11
  <1>13. c.of = "events" => c.departures = 0
    <2>1. r.of = "events" => S \ R = {}
      BY DEF S, R
    <2>2. r.of = "events" => d = 0
      BY <2>1, FS_EmptySet DEF d
    <2> QED
      BY <1>5, <1>11, <2>2
  <1>14. Unseen(c) = Unseen(r) \intersect R /\ Unseen(r) \subseteq S
    BY <1>5, <1>11 DEF Unseen
  <1>15. ASSUME c.done
         PROVE  Cardinality(Unseen(c)) <= c.departures
    <2>1. Cardinality(Unseen(c)) <= Cardinality(Unseen(r)) /\ IsFiniteSet(Unseen(c))
      BY <1>11, <1>14, FS_Subset
    <2>2. Cardinality(Unseen(c)) \in Nat /\ Cardinality(Unseen(r)) \in Nat
      BY <1>11, <2>1, FS_CardinalityType
    <2>3. Cardinality(Unseen(r)) <= r.departures
      BY <1>5, <1>11, <1>15
    <2> QED
      BY <1>2, <1>5, <1>10, <2>1, <2>2, <2>3
  <1>16. ASSUME ~c.done
         PROVE  Cardinality(Behind(u, R, Unseen(c), c.offset)) <= c.departures
    <2>2. Cardinality(Behind(t, S, Unseen(r), r.offset)) <= r.departures
      BY <1>5, <1>11, <1>16
    <2>3. Unseen(r) \in SUBSET S /\ r.offset \in Nat /\ r.departures \in Nat
      BY <1>2, <1>14
    <2>4. Cardinality(Behind(u, R, Unseen(r) \intersect R, r.offset))
            <= r.departures + Cardinality(S \ R)
      BY <1>6, <1>7, <1>22, <2>2, <2>3, PassedByLeaving
    <2> QED
      BY <1>5, <1>14, <2>4 DEF d
  <1>20. /\ Stayed(c) \subseteq R
         /\ c.repeats + Cardinality(Ahead(u, R, Stayed(c), c.offset)) <= c.arrivals
    <2>1. Stayed(c) = Stayed(r) \intersect R
      BY <1>5, <1>19 DEF Stayed
    <2>2. r.repeats + Cardinality(Ahead(u, R, Stayed(r) \intersect R, r.offset))
            <= r.arrivals + Cardinality(R \ S)
      BY <1>2, <1>6, <1>7, <1>19, <1>22, PushedByArriving
    <2> QED
      BY <1>5, <2>1, <2>2 DEF g
  <1>17. /\ Stayed(reader)' = Stayed(c) /\ Unseen(reader)' = Unseen(c) /\ Matching(reader)' = R
         /\ TimesOf(reader)' = u /\ reader'.offset = c.offset
    BY <1>4, <1>9 DEF Unseen, Stayed, Matching, TimesOf
  <1>18. Cardinality(Passed(reader))' = Cardinality(Behind(u, R, Unseen(c), c.offset))
    BY <1>4, <1>17 DEF Passed
  <1>21. Cardinality(Again(reader))' = Cardinality(Ahead(u, R, Stayed(c), c.offset))
    BY <1>4, <1>17 DEF Again
  <1> QED
    BY <1>4, <1>12, <1>13, <1>15, <1>16, <1>18, <1>17, <1>20, <1>21 DEF ReaderInv

\* The reader keeps its type when a write is noted.
LEMMA NotedReaderType ==
  ASSUME TypeOK, TablesTyped', Note
  PROVE  reader' \in Readers
  <1> PICK r : r = reader
    OBVIOUS
  <1>1. r \in Readers
    BY DEF TypeOK
  <1>2. CASE r = Idle
    BY <1>1, <1>2, NotedByWrite
  <1>3. CASE r # Idle
    <2> DEFINE gap == Matching(r) \ Matching(r)'
               n   == Cardinality(gap)
               g   == Cardinality(Matching(r)' \ Matching(r))
    <2>1. reader' = [r EXCEPT !.left = @ \union gap, !.departures = @ + n, !.arrivals = @ + g]
      BY <1>3, NotedByWrite
    <2>2. IsFiniteSet(gap) /\ n \in Nat
      BY <1>1, <1>3, ReaderRows, TypesOfTables, FS_Subset, FS_CardinalityType
    <2>7. g \in Nat
      <3>1. AllRowsTimed'
        BY RowsStayTimed, PTL
      <3>2. IsFiniteSet(Matching(r)')
        BY <1>1, <1>3, <3>1 DEF AllRowsTimed, Readers, Idle
      <3> QED
        BY <3>2, FS_Subset, FS_CardinalityType
    <2>3. /\ r \in EmailReaders => gap \subseteq Emails
          /\ r \in EventReaders => gap \subseteq 1..MaxEvents
      BY <1>1, <1>3, ReaderRows, TypesOfTables
    <2> HIDE DEF gap, n, g
    <2>4. PICK c : c = [r EXCEPT !.left = @ \union gap, !.departures = @ + n, !.arrivals = @ + g]
      OBVIOUS
    <2>5. CASE r \in EmailReaders
      <3>1. r.left \union gap \in SUBSET Emails /\ r.departures + n \in Nat /\ r.arrivals + g \in Nat
        BY <2>2, <2>3, <2>5, <2>7 DEF EmailReaders
      <3>2. c \in EmailReaders
        BY <2>4, <2>5, <3>1 DEF EmailReaders
      <3> QED
        BY <2>1, <2>4, <3>2 DEF Readers, EmailReaders
    <2>6. CASE r \in EventReaders
      <3>1. r.left \union gap \in SUBSET (1..MaxEvents) /\ r.departures + n \in Nat /\ r.arrivals + g \in Nat
        BY <2>2, <2>3, <2>6, <2>7 DEF EventReaders
      <3>2. c \in EventReaders
        BY <2>4, <2>6, <3>1 DEF EventReaders
      <3> QED
        BY <2>1, <2>4, <3>2 DEF Readers, EventReaders, QueriesOfReaders
    <2> QED
      BY <1>1, <1>3, <2>5, <2>6, ReaderKinds
  <1> QED
    BY <1>2, <1>3

\* The rows of the page that a reader asks for.
PageRead(r) ==
  {x \in Matching(r) : Place(TimesOf(r), Matching(r), x) \in r.offset..(r.offset + Limit(r.query) - 1)}

\* A client adds the page to what it has seen, and is done when the page is not full.
LEMMA PageIsRead ==
  ASSUME TypeOK, NextPage
  PROVE  /\ reader \in Readers /\ reader # Idle /\ ~reader.done /\ reader' # Idle
         /\ reader' = [reader EXCEPT !.seen = @ \union PageRead(reader),
                                     !.repeats = @ + Cardinality(PageRead(reader) \intersect Stayed(reader)),
                                     !.offset = @ + Limit(reader.query),
                                     !.done = Cardinality(PageRead(reader)) < Limit(reader.query)]
         /\ reader' \in EmailReaders \/ reader' \in EventReaders
  <1> PICK r : r = reader
    OBVIOUS
  <1>1. r \in Readers /\ r # Idle /\ ~r.done
    BY DEF TypeOK, NextPage
  <1>2. r.offset \in Nat /\ r.query.limit \in (Nat \ {0}) \union {None}
    BY <1>1, ReaderKinds
  <1>3. Limit(r.query) \in Nat
    BY <1>2, LimitIsPositive
  <1> DEFINE ids == PageRead(r)
             m   == Limit(r.query)
             b   == Cardinality(ids) < m
             k   == Cardinality(ids \intersect Stayed(r))
  <1>4. reader' = [r EXCEPT !.seen = @ \union ids, !.repeats = @ + k, !.offset = @ + m, !.done = b]
    <2>1. CASE r.of = "emails"
      <3>1. EmailsPage(r.query, m, r.offset) = ids
        BY <2>1, PagesByPlace DEF PageRead, Matching, TimesOf
      <3> DEFINE P == list_emails(r.query, r.offset)
      <3>2. reader' = [r EXCEPT !.seen = @ \union {row.id : row \in P.rows},
                                !.repeats = @ + Cardinality({row.id : row \in P.rows} \intersect (r.seen \ r.left)),
                                !.offset = @ + P.limit,
                                !.done = Cardinality(P.rows) < P.limit]
        BY <2>1 DEF NextPage
      <3>3. {row.id : row \in P.rows} = ids /\ P.limit = m /\ Cardinality(P.rows) = Cardinality(ids)
        BY <1>2, <3>1, ResponsesByPage
      <3> HIDE DEF P, ids, m
      <3> QED
        BY <3>2, <3>3 DEF Stayed
    <2>2. CASE r.of # "emails"
      <3>1. EventsPage(r.query, m, r.offset) = ids
        BY <2>2, PagesByPlace DEF PageRead, Matching, TimesOf
      <3> DEFINE P == list_events(r.query, r.offset)
      <3>2. reader' = [r EXCEPT !.seen = @ \union {row.id : row \in P.rows},
                                !.repeats = @ + Cardinality({row.id : row \in P.rows} \intersect (r.seen \ r.left)),
                                !.offset = @ + P.limit,
                                !.done = Cardinality(P.rows) < P.limit]
        BY <2>2 DEF NextPage
      <3>3. {row.id : row \in P.rows} = ids /\ P.limit = m /\ Cardinality(P.rows) = Cardinality(ids)
        BY <1>2, <3>1, ResponsesByPage
      <3> HIDE DEF P, ids, m
      <3> QED
        BY <3>2, <3>3 DEF Stayed
    <2> QED
      BY <2>1, <2>2
  <1>5. b \in BOOLEAN /\ ids \subseteq Matching(r)
    BY DEF PageRead
  <1>9. k \in Nat
    <2>1. IsFiniteSet(Matching(r))
      BY <1>1, ReaderRows, TypesOfTables
    <2>2. ids \intersect Stayed(r) \in SUBSET Matching(r)
      BY <1>5
    <2> QED
      BY <2>1, <2>2, FS_Subset, FS_CardinalityType
  <1> HIDE DEF ids, m, b, k
  <1>6. PICK c : c = [r EXCEPT !.seen = @ \union ids, !.repeats = @ + k, !.offset = @ + m, !.done = b]
    OBVIOUS
  <1>7. CASE r \in EmailReaders
    <2>1. r.seen \union ids \in SUBSET Emails /\ r.offset + m \in Nat /\ r.repeats + k \in Nat
      BY <1>1, <1>2, <1>3, <1>5, <1>7, <1>9, ReaderRows, TypesOfTables DEF EmailReaders, m
    <2>2. c \in EmailReaders
      BY <1>5, <1>6, <1>7, <2>1 DEF EmailReaders
    <2> QED
      BY <1>1, <1>4, <1>6, <2>2 DEF EmailReaders, Idle, ids, m, b, k
  <1>8. CASE r \in EventReaders
    <2>1. r.seen \union ids \in SUBSET (1..MaxEvents) /\ r.offset + m \in Nat /\ r.repeats + k \in Nat
      BY <1>1, <1>2, <1>3, <1>5, <1>8, <1>9, ReaderRows, TypesOfTables DEF EventReaders, m
    <2>2. c \in EventReaders
      BY <1>5, <1>6, <1>8, <2>1 DEF EventReaders
    <2> QED
      BY <1>1, <1>4, <1>6, <2>2 DEF EventReaders, Idle, ids, m, b, k
  <1> QED
    BY <1>1, <1>7, <1>8, ReaderKinds

\* Every step of the gateway and of the client keeps the types.
LEMMA ListingTypeStep ==
  ASSUME TypeOK, [Next]_vars
  PROVE  TypeOK'
  <1> DEFINE R == [email : Emails, type : EventTypes, created : Times]
  <1>1. /\ now \in Times /\ DOMAIN emails \subseteq Emails /\ \A e \in DOMAIN emails : emails[e] \in Times
        /\ gone \in SUBSET (Emails \ DOMAIN emails)
        /\ events \in Seq(R) /\ Len(events) <= MaxEvents /\ reader \in Readers
    BY DEF TypeOK
  <1> HIDE DEF R
  <1>2. CASE Tick
    BY <1>1, <1>2, ListingAssumption DEF Tick, TypeOK, R, Times
  <1>3. ASSUME NEW e \in Emails, Save(e)
        PROVE  TypeOK'
    <2>1. DOMAIN emails' = DOMAIN emails \union {e}
      BY <1>3 DEF Save
    <2>2. \A x \in DOMAIN emails' : emails'[x] \in Times
      BY <1>1, <1>3 DEF Save
    <2>3. gone' \in SUBSET (Emails \ DOMAIN emails')
      BY <1>1, <1>3, <2>1 DEF Save
    <2>5. TablesTyped'
      BY <1>1, <1>3, <2>1, <2>2, <2>3 DEF Save, TablesTyped, R
    <2>4. reader' \in Readers
      BY <1>3, <2>5, NotedReaderType DEF Save
    <2> QED
      BY <2>4, <2>5 DEF TypeOK, TablesTyped
  <1>4. ASSUME NEW e \in Emails, Delete(e)
        PROVE  TypeOK'
    <2>1. DOMAIN emails' = DOMAIN emails \ {e}
      BY <1>4 DEF Delete
    <2>2. \A x \in DOMAIN emails' : emails'[x] \in Times
      BY <1>1, <1>4 DEF Delete
    <2>3. gone' \in SUBSET (Emails \ DOMAIN emails')
      BY <1>1, <1>4, <2>1 DEF Delete
    <2>5. TablesTyped'
      BY <1>1, <1>4, <2>1, <2>2, <2>3 DEF Delete, TablesTyped, R
    <2>4. reader' \in Readers
      BY <1>4, <2>5, NotedReaderType DEF Delete
    <2> QED
      BY <2>4, <2>5 DEF TypeOK, TablesTyped
  <1>5. ASSUME NEW e \in Emails, NEW type \in EventTypes, Publish(e, type)
        PROVE  TypeOK'
    <2>1. PICK row : row = [email |-> e, type |-> type, created |-> now]
      OBVIOUS
    <2>2. row \in R
      BY <1>1, <2>1 DEF R
    <2>3. events' = Append(events, row) /\ Len(events) < MaxEvents
      BY <1>5, <2>1 DEF Publish
    <2>4. events' \in Seq(R) /\ Len(events') = Len(events) + 1 /\ Len(events) \in Nat
      BY <1>1, <2>2, <2>3
    <2>5. Len(events') <= MaxEvents
      BY <2>3, <2>4, ListingAssumption
    <2>7. TablesTyped'
      BY <1>1, <1>5, <2>4, <2>5 DEF Publish, TablesTyped, R
    <2>6. reader' \in Readers
      BY <1>5, <2>7, NotedReaderType DEF Publish
    <2> QED
      BY <2>6, <2>7 DEF TypeOK, TablesTyped
  <1>6. ASSUME NEW q \in EmailQueries, Begin("emails", q, EmailsMatching(q))
        PROVE  TypeOK'
    <2>1. EmailsMatching(q) \subseteq Emails
      BY <1>1, RowsAreTimed, TypesOfTables
    <2>2. reader' \in EmailReaders
      BY <1>6, <2>1 DEF Begin, EmailReaders
    <2>3. reader' \in Readers
      BY <2>2 DEF EmailReaders, Readers
    <2> QED
      BY <1>1, <1>6, <2>3 DEF Begin, TypeOK, R
  <1>7. ASSUME NEW q \in EventQueries, NEW e \in Emails, NEW query \in {q, OfEmail(q, e)},
               Begin("events", query, EventsMatching(query))
        PROVE  TypeOK'
    <2>1. EventsMatching(query) \subseteq 1..MaxEvents
      BY RowsAreTimed, TypesOfTables
    <2>2. reader' \in EventReaders
      BY <1>7, <2>1 DEF Begin, EventReaders, QueriesOfReaders
    <2>3. reader' \in Readers
      BY <2>2 DEF EventReaders, Readers, QueriesOfReaders
    <2> QED
      BY <1>1, <1>7, <2>3 DEF Begin, TypeOK, R
  <1>8. CASE NextPage
    <2>1. reader' \in Readers
      BY <1>8, PageIsRead DEF Readers, EmailReaders, EventReaders, QueriesOfReaders
    <2> QED
      BY <1>1, <1>8, <2>1 DEF NextPage, TypeOK, R
  <1>9. CASE Finish
    BY <1>1, <1>9 DEF Finish, TypeOK, Readers, R
  <1>10. CASE UNCHANGED vars
    BY <1>1, <1>10 DEF vars, TypeOK, R
  <1> QED
    BY <1>2, <1>3, <1>4, <1>5, <1>6, <1>7, <1>8, <1>9, <1>10 DEF Next

\* What is known of a reader is about its own fields and the rows.
About(c) ==
  c # Idle =>
    /\ c.initial \ c.left \subseteq Matching(c)
    /\ Stayed(c) \subseteq Matching(c)
    /\ c.repeats + Cardinality(Again(c)) <= c.arrivals
    /\ c.of = "events" => c.departures = 0
    /\ c.done  => Cardinality(Unseen(c)) <= c.departures
    /\ ~c.done => Cardinality(Passed(c)) <= c.departures

\* A step that leaves the rows as they are makes of a reader what is known of the next.
LEMMA ReaderMoves ==
  ASSUME UNCHANGED <<emails, events>>, NEW c, c = reader', About(c)
  PROVE  ReaderInv'
  <1>1. /\ Matching(reader)' = Matching(c) /\ TimesOf(reader)' = TimesOf(c)
        /\ Unseen(reader)' = Unseen(c) /\ Stayed(reader)' = Stayed(c) /\ reader'.offset = c.offset
    BY DEF Matching, EmailsMatching, EventsMatching, HasStatus, LatestEvent, TimesOf, Created, Unseen, Stayed
  <1>2. Passed(reader)' = Passed(c) /\ Again(reader)' = Again(c)
    BY <1>1 DEF Passed, Again
  <1> QED
    BY <1>1, <1>2 DEF ReaderInv, About

\* A write keeps what is known of the reader when the rows that stay keep their times,
\* and the events their places.
LEMMA NotedKeepsReader ==
  ASSUME TypeOK, TypeOK', ReaderInv, Note,
         \A x \in (DOMAIN emails) \intersect (DOMAIN emails') : emails'[x] = emails[x],
         DOMAIN events \subseteq DOMAIN events',
         \A i \in DOMAIN events : events'[i] = events[i]
  PROVE  ReaderInv'
  <1> PICK r : r = reader
    OBVIOUS
  <1>1. CASE r = Idle
    <2>1. reader' = Idle
      BY <1>1, NotedByWrite
    <2> QED
      BY <2>1 DEF ReaderInv, Idle
  <1>2. CASE r # Idle
    <2>1. /\ Matching(r)' \subseteq (IF r.of = "emails" THEN DOMAIN emails' ELSE DOMAIN events')
          /\ Matching(r) \subseteq (IF r.of = "emails" THEN DOMAIN emails ELSE DOMAIN events)
      BY DEF Matching, EmailsMatching, EventsMatching
    <2>2. ASSUME NEW x \in Matching(r) \intersect Matching(r)'
          PROVE  TimesOf(r)'[x] = TimesOf(r)[x]
      BY <2>1, <2>2 DEF TimesOf, Created
    <2>3. ASSUME r.of = "events"
          PROVE  Matching(r) \subseteq Matching(r)'
      BY <2>3 DEF Matching, EventsMatching, Within
    <2>4. reader' = [r EXCEPT !.left = @ \union (Matching(r) \ Matching(r)'),
                              !.departures = @ + Cardinality(Matching(r) \ Matching(r)'),
                              !.arrivals = @ + Cardinality(Matching(r)' \ Matching(r))]
      BY <1>2, NotedByWrite
    <2> QED
      BY <1>2, <2>2, <2>3, <2>4, WriteKeepsReader
  <1> QED
    BY <1>1, <1>2

\* A page moves the cursor over rows that it shows; when it is not full there are no more.
LEMMA PageKeepsReader ==
  ASSUME TypeOK, ReaderInv, NextPage
  PROVE  ReaderInv'
  <1> PICK r : r = reader
    OBVIOUS
  <1> DEFINE S == Matching(r)
             t == TimesOf(r)
             m == Limit(r.query)
             a == r.offset
             p == PageRead(r)
             k == Cardinality(p \intersect Stayed(r))
  <1>1. r \in Readers /\ r # Idle /\ ~r.done
    BY PageIsRead
  <1>2. /\ r \in EmailReaders \/ r \in EventReaders
        /\ a \in Nat /\ r.departures \in Nat /\ r.query.limit \in (Nat \ {0}) \union {None}
        /\ r.arrivals \in Nat /\ r.repeats \in Nat
    BY <1>1, ReaderKinds
  <1>3. m \in Nat /\ 1 <= m
    BY <1>2, LimitIsPositive
  <1>4. Timed(t, S) /\ IsFiniteSet(S)
    BY <1>1, ReaderRows, TypesOfTables
  <1>5. p = {x \in S : Place(t, S, x) \in a..(a + m - 1)}
    BY DEF PageRead
  <1>6. PICK c : c = [r EXCEPT !.seen = @ \union p, !.repeats = @ + k, !.offset = @ + m, !.done = Cardinality(p) < m]
    OBVIOUS
  <1>7. reader' = c
    BY <1>6, PageIsRead
  <1>8. /\ c.of = r.of /\ c.query = r.query /\ c.offset = a + m /\ c.seen = r.seen \union p
        /\ c.initial = r.initial /\ c.left = r.left /\ c.departures = r.departures
        /\ c.done = (Cardinality(p) < m)
        /\ c.arrivals = r.arrivals /\ c.repeats = r.repeats + k
    BY <1>2, <1>6 DEF EmailReaders, EventReaders
  <1>9. Matching(c) = S /\ TimesOf(c) = t
    BY <1>8 DEF Matching, TimesOf
  <1>10. /\ r.initial \ r.left \subseteq S
         /\ r.of = "events" => r.departures = 0
         /\ Cardinality(Behind(t, S, Unseen(r), a)) <= r.departures
    BY <1>1 DEF ReaderInv, Passed
  <1>16. /\ Stayed(r) \subseteq S
         /\ r.repeats + Cardinality(Ahead(t, S, Stayed(r), a)) <= r.arrivals
    BY <1>1 DEF ReaderInv, Again
  <1>19. k = Cardinality(p \intersect Stayed(r))
    OBVIOUS
  <1> HIDE DEF S, t, m, a, p, k
  <1>11. Unseen(c) = Unseen(r) \ p /\ Unseen(r) \subseteq S
    BY <1>8, <1>10 DEF Unseen
  <1>12. Behind(t, S, Unseen(c), a + m) \in SUBSET Behind(t, S, Unseen(r), a)
    <2> SUFFICES ASSUME NEW x \in Unseen(c), Place(t, S, x) < a + m
                 PROVE  x \in Unseen(r) /\ Place(t, S, x) < a
      BY DEF Behind
    <2>1. x \in S /\ x \in Unseen(r) /\ x \notin p
      BY <1>11
    <2>2. Place(t, S, x) \in Nat
      BY <1>4, <2>1, PlaceIsBounded
    <2>3. ~(Place(t, S, x) \in a..(a + m - 1))
      BY <1>5, <2>1
    <2> QED
      BY <1>2, <1>3, <2>1, <2>2, <2>3
  <1>13. /\ IsFiniteSet(Behind(t, S, Unseen(r), a)) /\ IsFiniteSet(Behind(t, S, Unseen(c), a + m))
         /\ Cardinality(Behind(t, S, Unseen(c), a + m)) <= r.departures
    <2>1. Behind(t, S, Unseen(r), a) \in SUBSET S
      BY <1>11 DEF Behind
    <2>2. IsFiniteSet(Behind(t, S, Unseen(r), a))
      BY <1>4, <2>1, FS_Subset
    <2>3. /\ IsFiniteSet(Behind(t, S, Unseen(c), a + m))
          /\ Cardinality(Behind(t, S, Unseen(c), a + m)) <= Cardinality(Behind(t, S, Unseen(r), a))
      BY <1>12, <2>2, FS_Subset
    <2>4. /\ Cardinality(Behind(t, S, Unseen(c), a + m)) \in Nat
          /\ Cardinality(Behind(t, S, Unseen(r), a)) \in Nat
      BY <2>2, <2>3, FS_CardinalityType
    <2> QED
      BY <1>2, <1>10, <2>2, <2>3, <2>4
  <1>14. ASSUME Cardinality(p) < m
         PROVE  Unseen(c) = Behind(t, S, Unseen(c), a + m)
    <2>1. IsFiniteSet(p) /\ Cardinality(p) \in Nat
      <3>1. p \in SUBSET S
        BY <1>5
      <3> QED
        BY <1>4, <3>1, FS_Subset, FS_CardinalityType
    <2>2. ASSUME NEW x \in S
          PROVE  Place(t, S, x) < a + m
      <3>1. Place(t, S, x) \in Nat
        BY <1>4, PlaceIsBounded
      <3>2. ~(Place(t, S, x) >= a + m)
        BY <1>2, <1>3, <1>4, <1>5, <1>14, <2>1, RangeIsFull
      <3> QED
        BY <1>2, <1>3, <3>1, <3>2
    <2> QED
      BY <1>11, <2>2 DEF Behind
  <1>17. Stayed(c) \subseteq S
    BY <1>5, <1>8, <1>16 DEF Stayed
  <1>18. c.repeats + Cardinality(Ahead(t, S, Stayed(c), a + m)) <= c.arrivals
    <2> DEFINE old == Ahead(t, S, Stayed(r), a)
               new == Ahead(t, S, Stayed(c), a + m)
               twice == p \intersect Stayed(r)
    <2>1. ASSUME NEW x \in new
          PROVE  x \in old /\ x \notin twice
      <3>1. x \in Stayed(c) /\ x \in S /\ ~(Place(t, S, x) < a + m)
        BY <1>17 DEF Ahead
      <3>2. Place(t, S, x) \in Nat
        BY <1>4, <3>1, PlaceIsBounded
      <3>3. x \notin p /\ ~(Place(t, S, x) < a)
        BY <1>2, <1>3, <1>5, <3>1, <3>2
      <3>4. x \in Stayed(r)
        BY <1>8, <3>1, <3>3 DEF Stayed
      <3> QED
        BY <3>3, <3>4 DEF Ahead
    <2>2. ASSUME NEW x \in twice
          PROVE  x \in old
      <3>1. x \in Stayed(r) /\ x \in S /\ Place(t, S, x) \in a..(a + m - 1)
        BY <1>5
      <3> QED
        BY <1>2, <1>3, <3>1 DEF Ahead
    <2>3. IsFiniteSet(old)
      <3>1. old \in SUBSET S
        BY <1>16 DEF Ahead
      <3> QED
        BY <1>4, <3>1, FS_Subset
    <2> HIDE DEF old, new, twice
    <2>4. IsFiniteSet(new) /\ IsFiniteSet(twice) /\ new \intersect twice = {} /\ new \union twice \in SUBSET old
      BY <2>1, <2>2, <2>3, FS_Subset
    <2>5. Cardinality(new \union twice) = Cardinality(new) + Cardinality(twice) - 0
      BY <2>4, FS_Union, FS_EmptySet
    <2>6. Cardinality(new \union twice) <= Cardinality(old)
      BY <2>3, <2>4, FS_Subset
    <2>7. Cardinality(new) \in Nat /\ Cardinality(twice) \in Nat /\ Cardinality(old) \in Nat
      BY <2>3, <2>4, FS_CardinalityType
    <2>8. r.repeats + Cardinality(old) <= r.arrivals
      BY <1>16 DEF old
    <2>9. c.repeats = r.repeats + Cardinality(twice) /\ c.arrivals = r.arrivals
      BY <1>8, <1>19 DEF twice
    <2>10. c.repeats + Cardinality(new) <= c.arrivals
      BY <1>2, <2>5, <2>6, <2>7, <2>8, <2>9
    <2> QED
      BY <2>10 DEF new
  <1>15. About(c)
    BY <1>8, <1>9, <1>10, <1>13, <1>14, <1>17, <1>18 DEF About, Passed, Again
  <1> QED
    BY <1>7, <1>15, ReaderMoves DEF NextPage

\* Every step of the gateway and of the client keeps what is known of the client.
LEMMA ReaderStep ==
  ASSUME TypeOK, TypeOK', ReaderInv, [Next]_vars
  PROVE  ReaderInv'
  <1>1. CASE Tick \/ UNCHANGED vars
    <2>1. About(reader) /\ reader' = reader /\ UNCHANGED <<emails, events>>
      BY <1>1 DEF Tick, vars, About, ReaderInv
    <2> QED
      BY <2>1, ReaderMoves
  <1>2. ASSUME NEW e \in Emails, Save(e)
        PROVE  ReaderInv'
    BY <1>2, NotedKeepsReader DEF Save
  <1>3. ASSUME NEW e \in Emails, Delete(e)
        PROVE  ReaderInv'
    BY <1>3, NotedKeepsReader DEF Delete
  <1>4. ASSUME NEW e \in Emails, NEW type \in EventTypes, Publish(e, type)
        PROVE  ReaderInv'
    <2> PICK row : row = [email |-> e, type |-> type, created |-> now]
      OBVIOUS
    <2>1. events' = Append(events, row) /\ emails' = emails /\ Note
      BY <1>4 DEF Publish
    <2> DEFINE R == [email : Emails, type : EventTypes, created : Times]
    <2>2. events \in Seq(R)
      BY DEF TypeOK
    <2> HIDE DEF R
    <2>3. /\ DOMAIN events \subseteq DOMAIN events'
          /\ \A i \in DOMAIN events : events'[i] = events[i]
      BY <2>1, <2>2
    <2> QED
      BY <2>1, <2>3, NotedKeepsReader
  <1>5. ASSUME NEW of \in {"emails", "events"}, NEW q, NEW S, Begin(of, q, S),
               S = IF of = "emails" THEN EmailsMatching(q) ELSE EventsMatching(q)
        PROVE  ReaderInv'
    <2> PICK c : c = [of |-> of, query |-> q, offset |-> 0, seen |-> {},
                      initial |-> S, left |-> {}, departures |-> 0,
                      arrivals |-> 0, repeats |-> 0, done |-> FALSE]
      OBVIOUS
    <2>1. reader' = c /\ UNCHANGED <<emails, events>>
      BY <1>5 DEF Begin
    <2>2. Matching(c) = S /\ Unseen(c) \subseteq S /\ c.initial \ c.left \subseteq Matching(c)
      BY <1>5 DEF Matching, Unseen
    <2>3. Timed(TimesOf(c), S)
      BY <1>5, RowsAreTimed, TypesOfTables DEF TimesOf
    <2>4. Passed(c) = {}
      <3> SUFFICES ASSUME NEW x \in S
                   PROVE  ~(Place(TimesOf(c), S, x) < 0)
        BY <2>2 DEF Passed, Behind
      <3>1. Place(TimesOf(c), S, x) \in Nat
        BY <2>3, PlaceIsBounded
      <3> QED
        BY <3>1
    <2>5. Cardinality(Passed(c)) = 0
      BY <2>4, FS_EmptySet
    <2>7. Stayed(c) = {} /\ Cardinality(Again(c)) = 0
      <3>1. Again(c) = {} /\ Stayed(c) = {}
        BY DEF Again, Ahead, Stayed
      <3> QED
        BY <3>1, FS_EmptySet
    <2>6. About(c)
      <3>1. c.departures = 0 /\ c.done = FALSE /\ c.arrivals = 0 /\ c.repeats = 0
        OBVIOUS
      <3>2. Cardinality(Passed(c)) <= c.departures
        BY <2>5, <3>1
      <3>3. c.repeats + Cardinality(Again(c)) <= c.arrivals /\ Stayed(c) \subseteq Matching(c)
        <4> DEFINE n == Cardinality(Again(c))
        <4>1. n = 0 /\ Stayed(c) = {}
          BY <2>7
        <4>2. Stayed(c) \subseteq Matching(c)
          BY ONLY <4>1
        <4> HIDE DEF n
        <4>3. c.repeats + n <= c.arrivals
          BY ONLY <4>1, <3>1
        <4> QED
          BY <4>2, <4>3 DEF n
      <3>4. c.of = "events" => c.departures = 0
        BY <3>1
      <3>5. c.initial \ c.left \subseteq Matching(c) /\ ~c.done
        BY <2>2, <3>1
      <3> QED
        BY ONLY <3>2, <3>3, <3>4, <3>5 DEF About
    <2> QED
      BY <2>1, <2>6, ReaderMoves
  <1>6. CASE NextPage
    BY <1>6, PageKeepsReader
  <1>7. CASE Finish
    <2>1. About(Idle) /\ reader' = Idle /\ UNCHANGED <<emails, events>>
      BY <1>7 DEF Finish, About
    <2> QED
      BY <2>1, ReaderMoves
  <1>8. ASSUME NEW q \in EmailQueries, Begin("emails", q, EmailsMatching(q))
        PROVE  ReaderInv'
    BY <1>5, <1>8
  <1>9. ASSUME NEW query, Begin("events", query, EventsMatching(query))
        PROVE  ReaderInv'
    BY <1>5, <1>9
  <1> QED
    BY <1>1, <1>2, <1>3, <1>4, <1>6, <1>7, <1>8, <1>9 DEF Next

\* The pages of one snapshot share no row, and one that is not full is the last.
LEMMA PagesAreParts ==
  ASSUME TypeOK
  PROVE  PagesPartition
  <1> SUFFICES ASSUME NEW q \in EmailQueries, NEW o \in 0..Cardinality(Emails)
               PROVE  /\ Cardinality(list_emails(q, o).rows) <= MAX_LIMIT
                      /\ list_emails(q, o).rows \intersect list_emails(q, o + Limit(q)).rows = {}
                      /\ Cardinality(list_emails(q, o).rows) < Limit(q)
                           => list_emails(q, o + Limit(q)).rows = {}
    BY DEF PagesPartition
  <1> DEFINE S == EmailsMatching(q)
             m == Limit(q)
             A == EmailsPage(q, m, o)
             B == EmailsPage(q, m, o + m)
  <1>1. q.limit \in (Nat \ {0}) \union {None}
    BY QueryFields
  <1>2. m \in Nat /\ m <= MAX_LIMIT /\ MAX_LIMIT \in Nat
    BY <1>1, LimitIsPositive, ListingAssumption
  <1>3. o \in Nat /\ o + m \in Nat
    BY <1>2
  <1>4. Timed(emails, S)
    BY RowsAreTimed, TypesOfTables
  <1>5. /\ A = {e \in S : Place(emails, S, e) \in o..(o + m - 1)}
        /\ B = {e \in S : Place(emails, S, e) \in (o + m)..((o + m) + m - 1)}
    BY PagesByPlace
  <1>6. /\ Cardinality(list_emails(q, o).rows) = Cardinality(A)
        /\ list_emails(q, o).rows = {EmailRecordDto(e) : e \in A}
        /\ list_emails(q, o + m).rows = {EmailRecordDto(e) : e \in B}
    BY <1>1, <1>3, ResponsesByPage DEF list_emails
  <1> HIDE DEF S, m, A, B
  <1>7. Cardinality(A) \in Nat /\ Cardinality(A) <= m
    <2>1. A \in SUBSET S /\ \A e \in A : Place(emails, S, e) \in o..(o + m - 1)
      BY <1>5
    <2> QED
      BY <1>2, <1>3, <1>4, <2>1, RangeIsBounded
  <1>8. A \intersect B = {}
    <2> SUFFICES ASSUME NEW e \in A, e \in B
                 PROVE  FALSE
      OBVIOUS
    <2>1. Place(emails, S, e) \in o..(o + m - 1) /\ Place(emails, S, e) \in (o + m)..((o + m) + m - 1)
      BY <1>5
    <2> QED
      BY <1>2, <1>3, <2>1
  <1>9. \A e : EmailRecordDto(e).id = e
    BY DEF EmailRecordDto
  <1>10. ASSUME Cardinality(A) < m
         PROVE  B = {}
    <2> SUFFICES ASSUME NEW e \in B
                 PROVE  FALSE
      OBVIOUS
    <2>1. e \in S /\ Place(emails, S, e) >= o + m
      BY <1>2, <1>3, <1>5
    <2>2. m <= Cardinality(A)
      BY <1>2, <1>3, <1>4, <1>5, <2>1, RangeIsFull
    <2> QED
      BY <1>2, <1>7, <1>10, <2>2
  <1>11. list_emails(q, o).rows \intersect list_emails(q, o + m).rows = {}
    BY <1>6, <1>8, <1>9
  <1>12. Cardinality(list_emails(q, o).rows) < m => list_emails(q, o + m).rows = {}
    BY <1>6, <1>10
  <1> QED
    BY <1>2, <1>6, <1>7, <1>11, <1>12 DEF m

\* The status of the response is the one that the filter looks for.
LEMMA StatusIsFiltered ==
  ASSUME NEW e, NEW s \in Statuses
  PROVE  HasStatus(e, s) <=> EmailRecordDto(e).status = s
  <1> DEFINE names == [Queued |-> "queued", Sent |-> "sent", Failed |-> "failed"]
  <1>1. EmailRecordDto(e).status = names[StatusOf(e)]
    BY DEF EmailRecordDto
  <1>2. names["Sent"] = "sent" /\ names["Failed"] = "failed" /\ names["Queued"] = "queued"
    OBVIOUS
  <1>3. /\ HasStatus(e, "sent")   <=> LatestEvent(e) = "delivery.succeeded"
        /\ HasStatus(e, "failed") <=> LatestEvent(e) = "delivery.failed"
        /\ HasStatus(e, "queued") <=> LatestEvent(e) \notin {"delivery.succeeded", "delivery.failed"}
    BY DEF HasStatus
  <1>4. s \in {"sent", "failed", "queued"}
    BY DEF Statuses
  <1> HIDE DEF names
  <1>5. CASE LatestEvent(e) = "delivery.succeeded"
    <2>1. StatusOf(e) = "Sent"
      BY <1>5 DEF StatusOf
    <2> QED
      BY <1>1, <1>2, <1>3, <1>4, <1>5, <2>1
  <1>6. CASE LatestEvent(e) = "delivery.failed"
    <2>1. StatusOf(e) = "Failed"
      BY <1>6 DEF StatusOf
    <2> QED
      BY <1>1, <1>2, <1>3, <1>4, <1>6, <2>1
  <1>7. CASE LatestEvent(e) \notin {"delivery.succeeded", "delivery.failed"}
    <2>1. StatusOf(e) = "Queued"
      BY <1>7 DEF StatusOf
    <2> QED
      BY <1>1, <1>2, <1>3, <1>4, <1>7, <2>1
  <1> QED
    BY <1>5, <1>6, <1>7

\* A listing filtered by a status shows e-mails of that status, and the three show all.
LEMMA FiltersAreShown ==
  ASSUME TypeOK
  PROVE  FilterIsShown
  <1> SUFFICES ASSUME NEW q \in EmailQueries
               PROVE  LET all == [q EXCEPT !.limit = MAX_LIMIT]
                          of(s) == EmailsMatching([all EXCEPT !.status = s])
                      IN /\ \A s \in Statuses :
                              \A row \in list_emails([all EXCEPT !.status = s], 0).rows : row.status = s
                         /\ UNION {of(s) : s \in Statuses} = of(None)
    BY DEF FilterIsShown
  <1> DEFINE all == [q EXCEPT !.limit = MAX_LIMIT]
             with(s) == [all EXCEPT !.status = s]
  <1>1. q \in [status : Statuses \union {None}, passes : SUBSET Emails, after_ms : Times \union {None},
                before_ms : Times \union {None}, limit : (Nat \ {0}) \union {None}]
    BY ListingAssumption
  <1>2. \A s : /\ with(s).status = s /\ with(s).passes = q.passes /\ with(s).after_ms = q.after_ms
               /\ with(s).before_ms = q.before_ms
    BY <1>1
  <1> HIDE DEF all, with
  <1>3. None \notin Statuses
    BY ListingAssumption
  <1>4. \A s \in Statuses :
          EmailsMatching(with(s)) = {e \in EmailsMatching(with(None)) : HasStatus(e, s)}
    BY <1>2, <1>3 DEF EmailsMatching, Within
  <1>5. ASSUME NEW s \in Statuses, NEW row \in list_emails(with(s), 0).rows
        PROVE  row.status = s
    <2>1. PICK e \in EmailsPage(with(s), Limit(with(s)), 0) : row = EmailRecordDto(e)
      BY DEF list_emails
    <2>2. e \in EmailsMatching(with(s))
      BY <2>1, PagesByPlace
    <2>3. HasStatus(e, s)
      BY <1>4, <2>2
    <2> QED
      BY <2>1, <2>3, StatusIsFiltered
  <1>6. \A e : \E s \in Statuses : HasStatus(e, s)
    <2> SUFFICES ASSUME NEW e
                 PROVE  \E s \in Statuses : HasStatus(e, s)
      OBVIOUS
    <2>1. /\ HasStatus(e, "sent")   <=> LatestEvent(e) = "delivery.succeeded"
          /\ HasStatus(e, "failed") <=> LatestEvent(e) = "delivery.failed"
          /\ HasStatus(e, "queued") <=> LatestEvent(e) \notin {"delivery.succeeded", "delivery.failed"}
      BY DEF HasStatus
    <2>2. "sent" \in Statuses /\ "failed" \in Statuses /\ "queued" \in Statuses
      BY DEF Statuses
    <2> QED
      BY <2>1, <2>2
  <1>7. UNION {EmailsMatching(with(s)) : s \in Statuses} = EmailsMatching(with(None))
    BY <1>4, <1>6
  <1> QED
    BY <1>5, <1>7 DEF with, all

\* What the runs check of the listing follows from the invariant.
LEMMA PagingFollows ==
  ASSUME ListingInv
  PROVE  TypeOK /\ EmailsMissedBounded /\ EventsNeverMissed /\ RepeatsBounded /\ PagesPartition /\ FilterIsShown
  <1>1. TypeOK /\ PagesPartition /\ FilterIsShown
    BY PagesAreParts, FiltersAreShown DEF ListingInv
  <1>2. EmailsMissedBounded
    BY DEF EmailsMissedBounded, Missed, ListingInv, ReaderInv, Unseen
  <1>3. ASSUME reader # Idle, reader.of = "events", reader.done
        PROVE  Missed = {}
    <2>1. Missed = Unseen(reader)
      BY DEF Missed, Unseen
    <2>2. reader \in Readers
      BY DEF ListingInv, TypeOK
    <2>3. reader.initial \ reader.left \subseteq Matching(reader) /\ IsFiniteSet(Matching(reader))
      BY <1>1, <1>3, <2>2, ReaderRows, TypesOfTables DEF ListingInv, ReaderInv
    <2>4. IsFiniteSet(Unseen(reader))
      BY <2>3, FS_Subset DEF Unseen
    <2>5. Cardinality(Unseen(reader)) <= 0 /\ Cardinality(Unseen(reader)) \in Nat
      BY <1>3, <2>4, FS_CardinalityType DEF ListingInv, ReaderInv
    <2>6. Cardinality(Unseen(reader)) = 0
      BY <2>5
    <2> QED
      BY <2>1, <2>4, <2>6, FS_EmptySet
  <1>4. ASSUME reader # Idle
        PROVE  reader.repeats <= reader.arrivals
    <2>1. reader \in Readers
      BY DEF ListingInv, TypeOK
    <2>2. reader.repeats \in Nat /\ reader.arrivals \in Nat
      BY <1>4, <2>1, ReaderKinds
    <2>3. Stayed(reader) \subseteq Matching(reader) /\ IsFiniteSet(Matching(reader))
      BY <1>1, <1>4, <2>1, ReaderRows, TypesOfTables DEF ListingInv, ReaderInv
    <2>4. Again(reader) \in SUBSET Matching(reader)
      BY <2>3 DEF Again, Ahead
    <2>5. Cardinality(Again(reader)) \in Nat
      BY <2>3, <2>4, FS_Subset, FS_CardinalityType
    <2>6. reader.repeats + Cardinality(Again(reader)) <= reader.arrivals
      BY <1>4 DEF ListingInv, ReaderInv
    <2> QED
      BY <2>2, <2>5, <2>6
  <1> QED
    BY <1>1, <1>2, <1>3, <1>4 DEF RepeatsBounded, EventsNeverMissed

\* The listing while the gateway works: the types, what is known of the client that
\* pages, and what follows of them.
THEOREM ListingInvariant == Spec => []ListingInv
  <1>1. Init => ListingInv
    <2> SUFFICES ASSUME Init
                 PROVE  ListingInv
      OBVIOUS
    <2> USE DEF Init
    <2>1. events \in Seq([email : Emails, type : EventTypes, created : Times]) /\ Len(events) <= MaxEvents
      BY ListingAssumption
    <2>2. now \in Times /\ gone \in SUBSET (Emails \ DOMAIN emails)
      BY ListingAssumption DEF Times
    <2>3. DOMAIN emails = {}
      OBVIOUS
    <2> QED
      BY <2>1, <2>2, <2>3 DEF ListingInv, TypeOK, ReaderInv, Readers
  <1>2. ListingInv /\ [Next]_vars => ListingInv'
    BY ListingTypeStep, ReaderStep DEF ListingInv
  <1> QED
    BY <1>1, <1>2, PTL DEF Spec

\* A client that pages through a listing while e-mails are saved, rolled back and moved
\* on misses no more e-mails than have left the listing meanwhile, and no event, and
\* sees no more rows again than have come into it; the pages of a snapshot are its
\* parts, and a filter shows the status it filters by.
THEOREM PagingStaysSound == PartsSpec => []PagingIsSound
  <1>1. PartsInit => Init
    BY DEF PartsInit
  <1>2. [PartsNext]_allVars => [Next]_vars
    BY DEF PartsNext, allVars, vars
  <1>3. PartsSpec => Spec
    BY <1>1, <1>2, PTL DEF PartsSpec, Spec
  <1>4. ListingInv => PagingIsSound
    BY PagingFollows DEF PagingIsSound
  <1> QED
    BY <1>3, <1>4, ListingInvariant, PTL

-----------------------------------------------------------------------------
(* What the events tell (EventLog).                                        *)

\* A row says what is true of its e-mail, n being the attempt that one has reached: the
\* columns are those of the payload, and a failure is explained by its class.
RowOk(row, n) ==
  LET p == row.payload IN
    /\ "attempt" \in DOMAIN p => p.attempt \in 1..n
    /\ row.sender_name = Told!Of(p, "sender_name")
    /\ Told!Of(p, "error_class") = row.error_class
    /\ row.error_class # None =>
         Told!from_str(row.error_class) # None
           /\ Told!as_str(Told!from_str(row.error_class)) = row.error_class
    /\ row.event_type \in Told!Failures =>
         /\ (row.sender_name # None) <=> (row.error_class = "delivery")
         /\ (row.event_type = "delivery.failed")
              <=> (row.error_class = "routing" \/ p.attempt >= MAX_ATTEMPTS)

\* Where the e-mails are, and what their rows say. An attempt is under way only when
\* there was one.
LogInv ==
  /\ phase \in [Reported -> Told!Phases] /\ attempt \in [Reported -> 0..MaxAttempts]
  /\ \A e \in Reported : phase[e] = "sending" => attempt[e] >= 1
  /\ DOMAIN log = 1..Len(log) /\ Len(log) \in Nat
  /\ \A i \in DOMAIN log : log[i].email \in Reported /\ RowOk(log[i], attempt[log[i].email])

\* The vocabulary of error classes is read as it is written.
LEMMA ClassesAreRead ==
  ASSUME NEW c \in Told!Classes
  PROVE  /\ Told!from_str(Told!as_str(c)) = c /\ c # None
         /\ Told!as_str(c) = "delivery" <=> c = "Delivery"
         /\ Told!as_str(c) = "routing" <=> c = "Routing"
  <1>1. c # None
    BY PartsAssumption DEF Told!EventLogAssumption
  <1>2. CASE c = "TemplateResolve"
    BY <1>1, <1>2 DEF Told!as_str, Told!from_str
  <1>3. CASE c = "TemplateInterpolate"
    BY <1>1, <1>3 DEF Told!as_str, Told!from_str
  <1>4. CASE c = "TemplateRender"
    BY <1>1, <1>4 DEF Told!as_str, Told!from_str
  <1>5. CASE c = "Attachment"
    BY <1>1, <1>5 DEF Told!as_str, Told!from_str
  <1>6. CASE c = "Delivery"
    BY <1>1, <1>6 DEF Told!as_str, Told!from_str
  <1>7. CASE c = "Routing"
    BY <1>1, <1>7 DEF Told!as_str, Told!from_str
  <1> QED
    BY <1>2, <1>3, <1>4, <1>5, <1>6, <1>7 DEF Told!Classes

\* An error has a class: delivery when the senders were tried, routing when there was
\* no route, and only then.
LEMMA ErrorsAreClassed ==
  ASSUME NEW err \in Told!Errors
  PROVE  /\ Told!class_of(err) \in Told!Classes
         /\ Told!class_of(err) = "Delivery" <=> err.sender # None
         /\ Told!class_of(err) = "Routing" <=> ~Told!is_transient(err)
  <1>1. None \notin Senders
    BY PartsAssumption DEF Told!EventLogAssumption
  <1>2. CASE err.kind = "Send"
    <2>1. err.sender \in Senders
      BY <1>2 DEF Told!Errors
    <2> QED
      BY <1>1, <1>2, <2>1 DEF Told!class_of, Told!Classes, Told!is_transient
  <1>3. CASE err.kind # "Send"
    <2>1. /\ err.sender = None
          /\ err.kind \in {"Resolve", "Interpolate", "Render", "AttachmentResolve", "NoMatchingRoute"}
      BY <1>3 DEF Told!Errors
    <2> QED
      BY <2>1 DEF Told!class_of, Told!Classes, Told!is_transient
  <1> QED
    BY <1>2, <1>3

\* The row of an event without a class is true.
LEMMA PlainRowsAreOk ==
  ASSUME NEW e, NEW s, NEW n \in Nat
  PROVE  /\ RowOk(Told!Row([kind |-> "Queued", id |-> e]), n)
         /\ n >= 1 => RowOk(Told!Row([kind |-> "Sending", id |-> e, attempt |-> n]), n)
         /\ RowOk(Told!Row([kind |-> "Sent", id |-> e, sender |-> s]), n)
         /\ Told!Row([kind |-> "Queued", id |-> e]).email = e
         /\ Told!Row([kind |-> "Sending", id |-> e, attempt |-> n]).email = e
         /\ Told!Row([kind |-> "Sent", id |-> e, sender |-> s]).email = e
  <1> USE DEF RowOk, Told!Row, Told!payload, Told!event_type, Told!sender_name, Told!error_class,
              Told!Of, Told!Has, Told!Failures
  <1>1. RowOk(Told!Row([kind |-> "Queued", id |-> e]), n)
    OBVIOUS
  <1>2. n >= 1 => RowOk(Told!Row([kind |-> "Sending", id |-> e, attempt |-> n]), n)
    OBVIOUS
  <1>3. RowOk(Told!Row([kind |-> "Sent", id |-> e, sender |-> s]), n)
    OBVIOUS
  <1> QED
    BY <1>1, <1>2, <1>3

\* The row of a failure that is reported as its error and the attempt demand is true.
LEMMA ReportedRowsAreOk ==
  ASSUME NEW e, NEW kind \in {"Failed", "Retrying"}, NEW err \in Told!Errors, NEW n \in Nat, n >= 1,
         kind = "Failed" <=> Told!is_terminal(err, n),
         NEW ev, ev = [kind |-> kind, id |-> e, attempt |-> n, reason |-> err.kind,
                       class |-> Told!class_of(err), sender |-> err.sender]
  PROVE  RowOk(Told!Row(ev), n) /\ Told!Row(ev).email = e
  <1> DEFINE c == Told!class_of(err)
             r == Told!Row(ev)
  <1>1. c \in Told!Classes /\ (c = "Delivery" <=> err.sender # None)
        /\ (c = "Routing" <=> ~Told!is_transient(err))
    BY ErrorsAreClassed
  <1>2. /\ Told!from_str(Told!as_str(c)) = c /\ c # None
        /\ Told!as_str(c) = "delivery" <=> c = "Delivery"
        /\ Told!as_str(c) = "routing" <=> c = "Routing"
    BY <1>1, ClassesAreRead
  <1> HIDE DEF c
  <1>3. /\ ev.kind = kind /\ ev.id = e /\ ev.attempt = n /\ ev.class = c /\ ev.sender = err.sender
        /\ "sender" \in DOMAIN ev /\ "class" \in DOMAIN ev
    BY DEF c
  <1>4. Told!payload(ev) = [attempt |-> n, reason |-> ev.reason, error_class |-> Told!as_str(c),
                            sender_name |-> err.sender, correlation_id |-> e]
    BY <1>3 DEF Told!payload
  <1>5. /\ r.email = e /\ r.payload = Told!payload(ev)
        /\ r.sender_name = err.sender /\ r.error_class = Told!as_str(c)
    BY <1>3 DEF Told!Row, Told!sender_name, Told!error_class, Told!Has
  <1>6. r.event_type = IF kind = "Failed" THEN "delivery.failed" ELSE "retrying"
    BY <1>3 DEF Told!Row, Told!event_type
  <1> HIDE DEF r
  <1>7. /\ Told!Of(r.payload, "sender_name") = err.sender
        /\ Told!Of(r.payload, "error_class") = Told!as_str(c)
        /\ r.payload.attempt = n
    BY <1>4, <1>5 DEF Told!Of
  <1>8. n \in 1..n
    OBVIOUS
  <1>9. (r.event_type = "delivery.failed") <=> (r.error_class = "routing" \/ n >= MAX_ATTEMPTS)
    BY <1>1, <1>2, <1>5, <1>6 DEF Told!is_terminal
  <1> QED
    BY <1>1, <1>2, <1>5, <1>7, <1>8, <1>9 DEF RowOk, r

\* What a row says stays true when its e-mail reaches another attempt.
LEMMA RowsStayOk ==
  ASSUME NEW row, NEW m \in Nat, NEW n \in Nat, m <= n, RowOk(row, m)
  PROVE  RowOk(row, n)
  BY DEF RowOk

\* A step of the submission or of the worker keeps what the rows say.
LEMMA LogStep ==
  ASSUME LogInv, [Told!Next]_Told!vars
  PROVE  LogInv'
  <1>1. /\ phase \in [Reported -> Told!Phases] /\ attempt \in [Reported -> 0..MaxAttempts]
        /\ \A e \in Reported : phase[e] = "sending" => attempt[e] >= 1
        /\ DOMAIN log = 1..Len(log) /\ Len(log) \in Nat
        /\ \A i \in DOMAIN log : log[i].email \in Reported /\ RowOk(log[i], attempt[log[i].email])
        /\ MaxAttempts \in Nat
    BY PartsAssumption DEF LogInv, Told!EventLogAssumption
  <1>2. \A e \in Reported : attempt[e] \in Nat
    BY <1>1
  \* A step moves one e-mail, and adds its row to the others or loses it.
  <1>3. ASSUME NEW e \in Reported, NEW to \in Told!Phases, NEW n \in 0..MaxAttempts, NEW row,
               phase' = [phase EXCEPT ![e] = to], attempt' = [attempt EXCEPT ![e] = n],
               to = "sending" => n >= 1, attempt[e] <= n,
               row.email = e, RowOk(row, n),
               log' = Append(log, row) \/ log' = log
        PROVE  LogInv'
    <2>1. /\ phase' \in [Reported -> Told!Phases] /\ attempt' \in [Reported -> 0..MaxAttempts]
          /\ \A x \in Reported : phase'[x] = "sending" => attempt'[x] >= 1
      BY <1>1, <1>3
    <2>2. \A i \in DOMAIN log : log[i].email \in Reported /\ RowOk(log[i], attempt'[log[i].email])
      <3> SUFFICES ASSUME NEW i \in DOMAIN log
                   PROVE  log[i].email \in Reported /\ RowOk(log[i], attempt'[log[i].email])
        OBVIOUS
      <3>1. PICK x \in Reported : x = log[i].email /\ RowOk(log[i], attempt[x])
        BY <1>1
      <3>2. attempt[x] \in Nat /\ attempt'[x] \in Nat /\ attempt[x] <= attempt'[x]
        BY <1>1, <1>2, <1>3
      <3> QED
        BY <3>1, <3>2, RowsStayOk
    <2>3. CASE log' = log
      BY <1>1, <2>1, <2>2, <2>3 DEF LogInv
    <2>4. CASE log' = Append(log, row)
      <3>1. /\ DOMAIN log' = 1..Len(log') /\ Len(log') \in Nat /\ Len(log') = Len(log) + 1
            /\ \A i \in DOMAIN log : log'[i] = log[i]
            /\ log'[Len(log) + 1] = row
        BY <1>1, <2>4
      <3>2. attempt'[e] = n
        BY <1>1, <1>3
      <3>3. \A i \in DOMAIN log' : log'[i].email \in Reported /\ RowOk(log'[i], attempt'[log'[i].email])
        BY <1>1, <1>3, <2>2, <3>1, <3>2
      <3> QED
        BY <2>1, <3>1, <3>3 DEF LogInv
    <2> QED
      BY <1>3, <2>3, <2>4
  <1>4. CASE UNCHANGED Told!vars
    BY <1>1, <1>4 DEF Told!vars, LogInv
  <1>5. ASSUME NEW e \in Reported, Told!Submit(e)
        PROVE  LogInv'
    <2> PICK row : row = Told!Row([kind |-> "Queued", id |-> e])
      OBVIOUS
    <2>1. row.email = e /\ RowOk(row, attempt[e])
      BY <1>2, PlainRowsAreOk
    <2>2. phase' = [phase EXCEPT ![e] = "waiting"] /\ attempt' = [attempt EXCEPT ![e] = attempt[e]]
      BY <1>1, <1>5 DEF Told!Submit
    <2>3. log' = Append(log, row) \/ log' = log
      BY <1>5 DEF Told!Submit, Told!Publish
    <2>4. "waiting" \in Told!Phases /\ attempt[e] \in 0..MaxAttempts /\ attempt[e] <= attempt[e]
      BY <1>1, <1>2 DEF Told!Phases
    <2> QED
      BY <2>1, <2>2, <2>3, <2>4, <1>3
  <1>6. ASSUME NEW e \in Reported, Told!Dequeue(e)
        PROVE  LogInv'
    <2> PICK n : n = attempt[e] + 1
      OBVIOUS
    <2> PICK row : row = Told!Row([kind |-> "Sending", id |-> e, attempt |-> n])
      OBVIOUS
    <2>1. attempt[e] \in Nat /\ attempt[e] < MaxAttempts
      BY <1>2, <1>6 DEF Told!Dequeue
    <2>2. n \in 0..MaxAttempts /\ n \in Nat /\ n >= 1 /\ attempt[e] <= n
      BY <1>1, <2>1
    <2>3. row.email = e /\ RowOk(row, n)
      BY <2>2, PlainRowsAreOk
    <2>4. phase' = [phase EXCEPT ![e] = "sending"] /\ attempt' = [attempt EXCEPT ![e] = n]
      BY <1>1, <1>6 DEF Told!Dequeue
    <2>5. attempt'[e] = n
      BY <1>1, <2>4
    <2>6. log' = Append(log, row) \/ log' = log
      BY <1>6, <2>5 DEF Told!Dequeue, Told!Publish
    <2>7. "sending" \in Told!Phases
      BY DEF Told!Phases
    <2> QED
      BY <2>2, <2>3, <2>4, <2>6, <2>7, <1>3
  <1>7. ASSUME NEW e \in Reported, Told!Crash(e)
        PROVE  LogInv'
    <2> PICK row : row = Told!Row([kind |-> "Queued", id |-> e])
      OBVIOUS
    <2>1. row.email = e /\ RowOk(row, attempt[e])
      BY <1>2, PlainRowsAreOk
    <2>2. /\ phase' = [phase EXCEPT ![e] = "waiting"] /\ attempt' = [attempt EXCEPT ![e] = attempt[e]]
          /\ log' = log
      BY <1>1, <1>7 DEF Told!Crash
    <2>3. "waiting" \in Told!Phases /\ attempt[e] \in 0..MaxAttempts /\ attempt[e] <= attempt[e]
      BY <1>1, <1>2 DEF Told!Phases
    <2> QED
      BY <2>1, <2>2, <2>3, <1>3
  <1>8. ASSUME NEW e \in Reported, NEW s \in Senders, Told!Sent(e, s)
        PROVE  LogInv'
    <2> PICK row : row = Told!Row([kind |-> "Sent", id |-> e, sender |-> s])
      OBVIOUS
    <2>1. row.email = e /\ RowOk(row, attempt[e])
      BY <1>2, PlainRowsAreOk
    <2>2. phase' = [phase EXCEPT ![e] = "done"] /\ attempt' = [attempt EXCEPT ![e] = attempt[e]]
      BY <1>1, <1>8 DEF Told!Sent
    <2>3. log' = Append(log, row) \/ log' = log
      BY <1>8 DEF Told!Sent, Told!Publish
    <2>4. "done" \in Told!Phases /\ attempt[e] \in 0..MaxAttempts /\ attempt[e] <= attempt[e]
      BY <1>1, <1>2 DEF Told!Phases
    <2> QED
      BY <2>1, <2>2, <2>3, <2>4, <1>3
  <1>9. ASSUME NEW e \in Reported, NEW err \in Told!Errors, Told!Failed(e, err) \/ Told!Retrying(e, err)
        PROVE  LogInv'
    <2> PICK kind \in {"Failed", "Retrying"} :
          (kind = "Failed" /\ Told!Failed(e, err)) \/ (kind = "Retrying" /\ Told!Retrying(e, err))
      BY <1>9
    <2> PICK n : n = attempt[e]
      OBVIOUS
    <2> PICK ev : ev = [kind |-> kind, id |-> e, attempt |-> n, reason |-> err.kind,
                        class |-> Told!class_of(err), sender |-> err.sender]
      OBVIOUS
    <2> PICK row : row = Told!Row(ev)
      OBVIOUS
    <2>1. n \in Nat /\ n >= 1 /\ n \in 0..MaxAttempts
      BY <1>1, <1>2 DEF Told!Failed, Told!Retrying
    <2>2. kind = "Failed" <=> Told!is_terminal(err, n)
      BY DEF Told!Failed, Told!Retrying
    <2>3. row.email = e /\ RowOk(row, n)
      BY <2>1, <2>2, ReportedRowsAreOk
    <2>4. attempt' = [attempt EXCEPT ![e] = n]
      BY <1>1 DEF Told!Failed, Told!Retrying
    <2>5. PICK to \in {"done", "waiting"} : phase' = [phase EXCEPT ![e] = to]
      BY DEF Told!Failed, Told!Retrying
    <2>6. log' = Append(log, row) \/ log' = log
      BY DEF Told!Failed, Told!Retrying, Told!ReportFailure, Told!Publish
    <2>7. to \in Told!Phases /\ to # "sending" /\ attempt[e] <= n
      BY <2>1 DEF Told!Phases
    <2> QED
      BY <2>1, <2>3, <2>4, <2>5, <2>6, <2>7, <1>3
  <1> QED
    BY <1>4, <1>5, <1>6, <1>7, <1>8, <1>9 DEF Told!Next

\* What the runs check of the events follows from what the rows say.
LEMMA LogFollows ==
  ASSUME LogInv
  PROVE  Told!TypeOK /\ Told!FoundByWhatItShows /\ Told!FailuresExplained
  <1>1. Told!TypeOK
    BY DEF LogInv, RowOk, Told!TypeOK
  <1>2. Told!FailuresExplained
    BY DEF LogInv, RowOk, Told!FailuresExplained
  <1>3. ASSUME NEW s \in Senders
        PROVE  Told!list_events([sender_name |-> s, error_class |-> None])
                 = {i \in DOMAIN log : Told!Of(log[i].payload, "sender_name") = s}
    <2>1. s # None
      BY PartsAssumption DEF Told!EventLogAssumption
    <2>2. \A i \in DOMAIN log : log[i].sender_name = Told!Of(log[i].payload, "sender_name")
      BY DEF LogInv, RowOk
    <2> QED
      BY <2>1, <2>2 DEF Told!list_events, Told!Accepts
  <1>4. ASSUME NEW i \in DOMAIN log, NEW c, c = Told!Of(log[i].payload, "error_class"), c # None
        PROVE  i \in Told!list_events([sender_name |-> None, error_class |-> c])
    <2>1. /\ log[i].error_class = c
          /\ Told!from_str(c) # None /\ Told!as_str(Told!from_str(c)) = c
      BY <1>4 DEF LogInv, RowOk
    <2> QED
      BY <2>1 DEF Told!list_events, Told!Accepts
  <1> QED
    BY <1>1, <1>2, <1>3, <1>4 DEF Told!FoundByWhatItShows

\* The events that the worker reports, attempt after attempt and over its crashes: every
\* row is found by what its payload shows, and a failure is explained by its class.
THEOREM EventsAreTold ==
  Told!Spec => [](Told!TypeOK /\ Told!FoundByWhatItShows /\ Told!FailuresExplained)
  <1>1. Told!Init => LogInv
    <2> SUFFICES ASSUME Told!Init
                 PROVE  LogInv
      OBVIOUS
    <2>1. MaxAttempts \in Nat
      BY PartsAssumption DEF Told!EventLogAssumption
    <2> QED
      BY <2>1 DEF Told!Init, LogInv, Told!Phases
  <1>2. LogInv /\ [Told!Next]_Told!vars => LogInv'
    BY LogStep
  <1>3. LogInv => Told!TypeOK /\ Told!FoundByWhatItShows /\ Told!FailuresExplained
    BY LogFollows
  <1> QED
    BY <1>1, <1>2, <1>3, PTL DEF Told!Spec

-----------------------------------------------------------------------------
(* The handlers (HttpApi): counting up to an index.                        *)

\* The members of P up to n, and how many they are.
Upto(P, n)  == {k \in 1..n : k \in P}
Count(P, n) == Cardinality(Upto(P, n))

\* Cardinality means in the instance what it means here.
LEMMA ApiCounts ==
  ASSUME NEW S
  PROVE  Http!Cardinality(S) = Cardinality(S)
  BY DEF Http!Cardinality, Cardinality

\* Counts are numbers.
LEMMA CountType ==
  ASSUME NEW P, NEW n \in Nat
  PROVE  IsFiniteSet(Upto(P, n)) /\ Count(P, n) \in Nat /\ Count(P, 0) = 0
  <1>1. Upto(P, n) \in SUBSET (1..n) /\ IsFiniteSet(1..n)
    BY FS_Interval DEF Upto
  <1>2. IsFiniteSet(Upto(P, n))
    BY <1>1, FS_Subset
  <1>3. Upto(P, 0) = {}
    BY DEF Upto
  <1> QED
    BY <1>2, <1>3, FS_CardinalityType, FS_EmptySet DEF Count

\* The next index counts when it is a member.
LEMMA CountNext ==
  ASSUME NEW P, NEW n \in Nat
  PROVE  Count(P, n + 1) = IF n + 1 \in P THEN Count(P, n) + 1 ELSE Count(P, n)
  <1>1. IsFiniteSet(Upto(P, n))
    BY CountType
  <1>2. n + 1 \notin Upto(P, n)
    BY DEF Upto
  <1>3. CASE n + 1 \in P
    <2>1. Upto(P, n + 1) = Upto(P, n) \union {n + 1}
      BY <1>3 DEF Upto
    <2> QED
      BY <1>1, <1>2, <1>3, <2>1, FS_AddElement DEF Count
  <1>4. CASE n + 1 \notin P
    <2>1. Upto(P, n + 1) = Upto(P, n)
      BY <1>4 DEF Upto
    <2> QED
      BY <1>4, <2>1 DEF Count
  <1> QED
    BY <1>3, <1>4

\* Counts grow with the index, and at a member.
LEMMA CountGrows ==
  ASSUME NEW P, NEW m \in Nat, NEW n \in Nat, m <= n
  PROVE  Count(P, m) <= Count(P, n) /\ (m < n /\ n \in P => Count(P, m) < Count(P, n))
  <1>1. IsFiniteSet(Upto(P, n)) /\ Count(P, n) \in Nat /\ Count(P, m) \in Nat
    BY CountType
  <1>2. Upto(P, m) \in SUBSET Upto(P, n)
    BY DEF Upto
  <1>3. Cardinality(Upto(P, m)) <= Cardinality(Upto(P, n))
    BY <1>1, <1>2, FS_Subset
  <1>4. ASSUME m < n, n \in P
        PROVE  Cardinality(Upto(P, m)) # Cardinality(Upto(P, n))
    <2>1. n \in Upto(P, n) /\ n \notin Upto(P, m)
      BY <1>4 DEF Upto
    <2> QED
      BY <1>1, <1>2, <2>1, FS_Subset
  <1> QED
    BY <1>1, <1>3, <1>4 DEF Count

\* A member up to n is counted within the first n.
LEMMA CountWithin ==
  ASSUME NEW P, NEW n \in Nat, NEW k \in Upto(P, n)
  PROVE  Count(P, k) \in 1..Count(P, n)
  <1>1. k \in Nat /\ k - 1 \in Nat /\ k <= n /\ k \in P /\ k - 1 < k
    BY DEF Upto
  <1>2. Count(P, k) <= Count(P, n) /\ Count(P, k - 1) < Count(P, k)
    BY <1>1, CountGrows
  <1>3. Count(P, k) \in Nat /\ Count(P, n) \in Nat /\ Count(P, k - 1) \in Nat
    BY <1>1, CountType
  <1> QED
    BY <1>2, <1>3

\* Two members have two counts.
LEMMA CountsDiffer ==
  ASSUME NEW P, NEW n \in Nat, NEW j \in Upto(P, n), NEW k \in Upto(P, n), Count(P, j) = Count(P, k)
  PROVE  j = k
  <1>1. j \in Nat /\ k \in Nat /\ j \in P /\ k \in P
    BY DEF Upto
  <1>2. Count(P, j) \in Nat /\ Count(P, k) \in Nat
    BY <1>1, CountType
  <1>3. j < k => Count(P, j) < Count(P, k)
    BY <1>1, CountGrows
  <1>4. k < j => Count(P, k) < Count(P, j)
    BY <1>1, CountGrows
  <1> QED
    BY <1>1, <1>2, <1>3, <1>4

\* Every count up to the last is that of a member.
LEMMA CountsAreTaken ==
  ASSUME NEW P, NEW n \in Nat, NEW c \in 1..Count(P, n)
  PROVE  \E k \in Upto(P, n) : Count(P, k) = c
  <1> DEFINE S == Upto(P, n)
             m == Count(P, n)
             f == [k \in S |-> Count(P, k)]
  <1>1. m \in Nat /\ Cardinality(S) = m
    BY CountType DEF Count
  <1>2. \A k \in S : f[k] \in 1..m
    BY CountWithin
  <1>3. \A j, k \in S : f[j] = f[k] => j = k
    BY CountsDiffer
  <1>4. f \in Injection(S, 1..m)
    BY <1>2, <1>3 DEF Injection, IsInjective
  <1>5. IsFiniteSet(1..m) /\ Cardinality(1..m) = m
    <2> HIDE DEF m
    <2> QED
      BY <1>1, FS_Interval
  <1>6. f \in Surjection(S, 1..m)
    BY <1>1, <1>4, <1>5, FS_Injection
  <1>7. PICK k \in S : f[k] = c
    BY <1>6 DEF Surjection
  <1> QED
    BY <1>7

-----------------------------------------------------------------------------
(* The handlers: where a request is.                                       *)

\* The statuses that an answer may have, and the parts of a multipart submission.
Answers == {200, 400, 401, 408, 500, 503}
Parcels == [from : {"inline"}, size : Nat]
Reading == [remaining : Nat, exhausted : BOOLEAN, left : Nat, buf : Nat]

\* A request is one of those considered, with the sequences that its route needs.
LEMMA RequestShapes ==
  ASSUME NEW r \in Requests
  PROVE  /\ r.route \in {"submit", "batch", "list", "live", "ready"}
         /\ r.route = "batch" => Len(r.emails) \in Nat /\ DOMAIN r.emails = 1..Len(r.emails)
         /\ r.route = "submit" /\ r.multipart =>
              /\ Len(r.fields) \in Nat /\ DOMAIN r.fields = 1..Len(r.fields)
              /\ \A i \in DOMAIN r.fields : r.fields[i].size \in Nat
  <1>1. /\ r.route \in {"submit", "batch", "list", "live", "ready"}
        /\ r.route = "batch" => r.emails \in Seq(Http!ToSet(r.emails))
        /\ r.route = "submit" /\ r.multipart =>
             r.fields \in Seq(Http!ToSet(r.fields)) /\ \A f \in Http!ToSet(r.fields) : f.size \in Nat
    BY PartsAssumption DEF Http!HttpApiAssumption
  <1>2. ASSUME r.route = "submit", r.multipart, NEW i \in DOMAIN r.fields
        PROVE  r.fields[i].size \in Nat
    <2>1. r.fields[i] \in Http!ToSet(r.fields)
      BY <1>2 DEF Http!ToSet
    <2> QED
      BY <1>1, <1>2, <2>1
  <1> QED
    BY <1>1, <1>2

\* The limits are numbers.
LEMMA LimitsAreNumbers ==
  /\ MAX_ATTACHMENTS_PER_EMAIL \in Nat /\ MAX_EMAILS_PER_BATCH \in Nat
  /\ MAX_ATTACHMENT_BYTES \in Nat /\ MAX_ENVELOPE_BYTES \in Nat
  BY PartsAssumption DEF Http!HttpApiAssumption

\* What a handler has is that of its route; before it is routed it has nothing.
RouteInv ==
  /\ at = "route" => pos = 0 /\ envelope = None /\ parts = <<>> /\ results = <<>> /\ accepted = <<>>
  /\ at \in {"submit", "field", "read"} => request.route = "submit"
  /\ at \in {"field", "read"} => request.multipart
  /\ at = "submit" => ~request.multipart
  /\ at \in {"batch", "list", "live", "ready"} => request.route = at
  /\ at \in {"execute", "publish"} => request.route \in {"submit", "batch"}
  /\ at = "read" => pos \in 1..Len(request.fields)
  /\ at = "read" /\ request.fields[pos].name # "envelope" =>
       Len(parts) < MAX_ATTACHMENTS_PER_EMAIL
  /\ Len(accepted) \in Nat

HandlerInv == Http!TypeOK /\ RouteInv

\* An error is answered with 400 or 500.
LEMMA ErrorsAreAnswered ==
  ASSUME NEW error
  PROVE  Http!into_response(error) \in {400, 500}
  BY DEF Http!into_response

\* A read moves bytes of the field into the buffer.
LEMMA ReadsMoveBytes ==
  ASSUME NEW r \in Reading, NEW x \in Http!PollRead(r)
  PROVE  /\ x \in Reading
         /\ x.buf + x.left = r.buf + r.left /\ x.buf + x.remaining = r.buf + r.remaining
         /\ x.exhausted => r.exhausted \/ (x.remaining = 0 /\ x.left > 0)
  <1>1. CASE r.remaining = 0 /\ r.left > 0
    BY <1>1 DEF Http!PollRead, Reading
  <1>2. CASE ~(r.remaining = 0 /\ r.left > 0)
    <2>1. PICK n \in 1..r.left : /\ n <= r.remaining
                                 /\ x = [r EXCEPT !.remaining = r.remaining - n, !.left = r.left - n,
                                                   !.buf = r.buf + n]
      BY <1>2 DEF Http!PollRead
    <2>2. r.remaining \in Nat /\ r.left \in Nat /\ r.buf \in Nat /\ n \in Nat
      BY <2>1 DEF Reading
    <2>3. r.remaining - n \in Nat /\ r.left - n \in Nat /\ r.buf + n \in Nat
      BY <2>1, <2>2
    <2>4. /\ x \in Reading /\ x.exhausted = r.exhausted
          /\ x.remaining = r.remaining - n /\ x.left = r.left - n /\ x.buf = r.buf + n
      BY <2>1, <2>3 DEF Reading
    <2> QED
      BY <2>2, <2>4
  <1> QED
    BY <1>1, <1>2

\* What happens at the next field of a multipart submission.
LEMMA NextFieldCases ==
  ASSUME HandlerInv, Http!NextField, NEW f, f = request.fields[pos + 1]
  PROVE  /\ at = "field" /\ UNCHANGED <<request, envelope, parts, results, accepted>>
         /\ \/ /\ pos = Len(request.fields) /\ (~request.parses \/ envelope = None)
               /\ Http!Fail("BadRequestRaw") /\ UNCHANGED <<input, pos, field>>
            \/ /\ pos = Len(request.fields) /\ request.parses /\ envelope # None
               /\ Http!Submit(Http!core_into_submit_input(envelope, parts)) /\ UNCHANGED <<pos, field>>
            \/ /\ pos < Len(request.fields) /\ pos' = pos + 1 /\ input' = input
               /\ \/ /\ f.name = "envelope" /\ at' = "read" /\ response' = response
                     /\ field' = Http!NewReader(f.size, MAX_ENVELOPE_BYTES)
                  \/ /\ f.name = "attachment" /\ (Len(parts) >= MAX_ATTACHMENTS_PER_EMAIL \/ ~f.filename)
                     /\ Http!Fail("BadRequestRaw") /\ field' = field
                  \/ /\ f.name = "attachment" /\ Len(parts) < MAX_ATTACHMENTS_PER_EMAIL /\ f.filename
                     /\ at' = "read" /\ response' = response
                     /\ field' = Http!NewReader(f.size, MAX_ATTACHMENT_BYTES)
                  \/ /\ f.name \notin {"envelope", "attachment"}
                     /\ UNCHANGED <<at, response, field>>
  <1>1. CASE f.name = "envelope"
    BY <1>1 DEF Http!NextField, Http!Broken
  <1>2. CASE f.name = "attachment" /\ (Len(parts) >= MAX_ATTACHMENTS_PER_EMAIL \/ ~f.filename)
    BY <1>2 DEF Http!NextField, Http!Broken
  <1>3. CASE f.name = "attachment" /\ Len(parts) < MAX_ATTACHMENTS_PER_EMAIL /\ f.filename
    BY <1>3 DEF Http!NextField, Http!Broken
  <1>4. CASE f.name \notin {"envelope", "attachment"}
    BY <1>4 DEF Http!NextField, Http!Broken
  <1>5. CASE f.name = "attachment" /\ ~(Len(parts) >= MAX_ATTACHMENTS_PER_EMAIL)
                                 /\ ~(Len(parts) < MAX_ATTACHMENTS_PER_EMAIL)
    <2>1. Len(parts) \in Nat
      BY DEF HandlerInv, Http!TypeOK
    <2> QED
      BY <1>5, <2>1, LimitsAreNumbers
  <1> QED
    BY <1>1, <1>2, <1>3, <1>4, <1>5

\* A reader over a new field has all of it left.
LEMMA NewReaders ==
  ASSUME NEW left \in Nat, NEW limit \in Nat
  PROVE  /\ Http!NewReader(left, limit) \in Reading
         /\ Http!NewReader(left, limit).left = left /\ Http!NewReader(left, limit).remaining = limit
         /\ Http!NewReader(left, limit).buf = 0 /\ ~Http!NewReader(left, limit).exhausted
  BY DEF Http!NewReader, Reading

\* Every step keeps the types, and what a handler has.
LEMMA HandlerStep ==
  ASSUME HandlerInv, [Http!Next]_Http!vars
  PROVE  HandlerInv'
  <1> USE DEF HandlerInv, Http!TypeOK, RouteInv
  <1>1. /\ request \in Requests /\ pos \in Nat
        /\ parts \in Seq(Parcels) /\ Len(parts) <= MAX_ATTACHMENTS_PER_EMAIL
        /\ field \in Reading /\ results \in Seq({"accepted", "rejected"})
    BY DEF Parcels, Reading
  <1>2. CASE Http!Route
    BY <1>1, <1>2, RequestShapes DEF Http!Route, Http!Respond
  <1>3. CASE Http!RequestTimeout
    BY <1>3 DEF Http!RequestTimeout, Http!Respond
  <1>4. CASE Http!Disconnect
    BY <1>4 DEF Http!Disconnect
  <1>5. CASE Http!HandleJson
    BY <1>5, ErrorsAreAnswered DEF Http!HandleJson, Http!Submit, Http!Fail, Http!Respond
  <1>6. CASE Http!NextField
    <2> DEFINE f == request.fields[pos + 1]
    <2>1. /\ at = "field" /\ request.route = "submit" /\ request.multipart
          /\ UNCHANGED <<request, envelope, parts, results, accepted>>
      BY <1>6, NextFieldCases
    <2>2. Len(request.fields) \in Nat /\ \A i \in 1..Len(request.fields) : request.fields[i].size \in Nat
      BY <1>1, <2>1, RequestShapes
    <2>3. CASE pos = Len(request.fields) /\ Http!Fail("BadRequestRaw") /\ UNCHANGED <<input, pos, field>>
      BY <1>1, <2>1, <2>3, ErrorsAreAnswered DEF Http!Fail, Http!Respond
    <2>4. CASE /\ pos = Len(request.fields) /\ UNCHANGED <<pos, field>>
               /\ Http!Submit(Http!core_into_submit_input(envelope, parts))
      BY <1>1, <2>1, <2>4, ErrorsAreAnswered DEF Http!Submit, Http!Fail, Http!Respond
    <2>5. CASE pos < Len(request.fields) /\ pos' = pos + 1 /\ input' = input
      <3>1. pos' \in Nat /\ pos' \in 1..Len(request.fields) /\ f.size \in Nat
        BY <1>1, <2>2, <2>5
      <3>2. CASE f.name = "envelope" /\ at' = "read" /\ response' = response
                 /\ field' = Http!NewReader(f.size, MAX_ENVELOPE_BYTES)
        <4>1. field' \in Reading
          BY <3>1, <3>2, NewReaders, LimitsAreNumbers, ZenonT(30)
        <4> QED
          BY <1>1, <2>1, <2>5, <3>1, <3>2, <4>1 DEF Reading
      <3>3. CASE Http!Fail("BadRequestRaw") /\ field' = field
        BY <1>1, <2>1, <2>5, <3>1, <3>3, ErrorsAreAnswered DEF Http!Fail, Http!Respond
      <3>4. CASE Len(parts) < MAX_ATTACHMENTS_PER_EMAIL /\ at' = "read" /\ response' = response
                 /\ field' = Http!NewReader(f.size, MAX_ATTACHMENT_BYTES)
        <4>1. field' \in Reading
          BY <3>1, <3>4, NewReaders, LimitsAreNumbers, ZenonT(30)
        <4> QED
          BY <1>1, <2>1, <2>5, <3>1, <3>4, <4>1 DEF Reading
      <3>5. CASE UNCHANGED <<at, response, field>>
        BY <1>1, <2>1, <2>5, <3>1, <3>5
      <3> HIDE DEF f
      <3> QED
        BY <1>6, <2>1, <2>5, <3>2, <3>3, <3>4, <3>5, NextFieldCases, SMTT(30) DEF f
    <2> HIDE DEF f
    <2> QED
      BY <1>6, <2>3, <2>4, <2>5, NextFieldCases DEF f
  <1>7. CASE Http!ReadField
    BY <1>1, <1>7, ReadsMoveBytes DEF Http!ReadField, Reading
  <1>8. CASE Http!FieldDone
    <2>1. CASE at' = "answered"
      BY <1>1, <1>8, <2>1, ErrorsAreAnswered DEF Http!FieldDone, Http!Fail, Http!Respond
    <2>2. CASE at' = "field" /\ parts' = parts
      BY <1>1, <1>8, <2>2 DEF Http!FieldDone, Http!Fail, Http!Respond
    <2>3. CASE at' = "field" /\ parts' # parts
      <3> PICK parcel : parcel = [from |-> "inline", size |-> field.buf]
        BY ZenonT(30)
      <3>1. parcel \in Parcels
        BY <1>1 DEF Parcels, Reading
      <3>2. parts' = Append(parts, parcel) /\ Http!Field.name # "envelope"
        BY <1>8, <2>3 DEF Http!FieldDone, Http!Fail, Http!Respond
      <3>3. parts' \in Seq(Parcels) /\ Len(parts') = Len(parts) + 1 /\ Len(parts) \in Nat
        BY <1>1, <3>1, <3>2
      <3>4. Len(parts) < MAX_ATTACHMENTS_PER_EMAIL
        BY <1>8, <3>2 DEF Http!FieldDone, Http!Field
      <3>5. Len(parts') <= MAX_ATTACHMENTS_PER_EMAIL
        BY <3>3, <3>4, LimitsAreNumbers
      <3> QED
        BY <1>1, <1>8, <2>3, <3>3, <3>5 DEF Http!FieldDone, Http!Fail, Http!Respond, Parcels
    <2> QED
      BY <1>8, <2>1, <2>2, <2>3 DEF Http!FieldDone, Http!Fail, Http!Respond
  <1>9. CASE Http!BatchItem
    <2>1. CASE at' = "answered"
      BY <1>1, <1>9, <2>1, ErrorsAreAnswered DEF Http!BatchItem, Http!Fail, Http!Respond
    <2>2. CASE at' = "execute"
      BY <1>1, <1>9, <2>2 DEF Http!BatchItem, Http!Fail, Http!Respond
    <2>3. CASE at' = "batch"
      <3>1. results' = Append(results, "rejected")
        BY <1>9, <2>3 DEF Http!BatchItem, Http!Fail, Http!Respond
      <3>2. results' \in Seq({"accepted", "rejected"})
        BY <1>1, <3>1
      <3> QED
        BY <1>1, <1>9, <2>3, <3>2 DEF Http!BatchItem, Http!Fail, Http!Respond
    <2> QED
      BY <1>9, <2>1, <2>2, <2>3 DEF Http!BatchItem, Http!Fail, Http!Respond
  <1>10. CASE Http!Execute
    BY <1>1, <1>10, ErrorsAreAnswered DEF Http!Execute, Http!Fail, Http!Respond
  <1>11. CASE Http!Executed
    <2>1. Append(results, "accepted") \in Seq({"accepted", "rejected"})
      BY <1>1
    <2>2. CASE request.route = "batch"
      <3>1. results' = Append(results, "accepted") /\ at' = "batch"
        BY <1>11, <2>2 DEF Http!Executed
      <3>2. results' \in Seq({"accepted", "rejected"})
        BY <2>1, <3>1
      <3> QED
        BY <1>1, <1>11, <2>2, <3>1, <3>2 DEF Http!Executed
    <2>3. CASE request.route # "batch"
      BY <1>1, <1>11, <2>3 DEF Http!Executed, Http!Respond
    <2> QED
      BY <2>2, <2>3
  <1>12. CASE Http!List \/ Http!Live \/ Http!Ready
    BY <1>1, <1>12, ErrorsAreAnswered, SMTT(30) DEF Http!List, Http!Live, Http!Ready, Http!Fail, Http!Respond
  <1>13. CASE UNCHANGED Http!vars
    BY <1>13 DEF Http!vars
  <1> QED
    BY <1>2, <1>3, <1>4, <1>5, <1>6, <1>7, <1>8, <1>9, <1>10, <1>11, <1>12, <1>13 DEF Http!Next

-----------------------------------------------------------------------------
(* The handlers: a single submission.                                      *)

\* A single submission is queued once at most, and before its answer; it was when the
\* answer is 200, and was not when that is neither 200 nor 500.
SubmitInv ==
  request.route = "submit" =>
    /\ at \in {"route", "submit", "field", "read", "execute"} => accepted = <<>>
    /\ at = "publish" => Len(accepted) = 1
    /\ at = "answered" =>
         /\ Len(accepted) <= 1
         /\ response.status = 200 => Len(accepted) = 1
         /\ response.status \notin {200, 500} => accepted = <<>>

\* Every step keeps that.
LEMMA SubmitStep ==
  ASSUME HandlerInv, SubmitInv, [Http!Next]_Http!vars
  PROVE  SubmitInv'
  <1> USE DEF SubmitInv
  <1>1. CASE request.route # "submit"
    <2>1. request' = request
      BY DEF Http!Next, Http!vars, Http!Route, Http!RequestTimeout, Http!Disconnect, Http!HandleJson,
             Http!NextField, Http!ReadField, Http!FieldDone, Http!BatchItem, Http!Execute,
             Http!Executed, Http!List, Http!Live, Http!Ready
    <2> QED
      BY <1>1, <2>1
  <1>2. ASSUME request.route = "submit"
        PROVE  SubmitInv'
    <2> USE <1>2 DEF HandlerInv, RouteInv
    <2>1. CASE Http!Route
      BY <2>1 DEF Http!Route, Http!Respond
    <2>2. CASE Http!RequestTimeout
      BY <2>2 DEF Http!RequestTimeout, Http!TimeoutApplies
    <2>3. CASE Http!Disconnect
      BY <2>3 DEF Http!Disconnect
    <2>4. CASE Http!HandleJson
      BY <2>4, ErrorsAreAnswered DEF Http!HandleJson, Http!Submit, Http!Fail, Http!Respond
    <2>5. CASE Http!NextField
      <3>1. /\ at = "field" /\ UNCHANGED <<request, accepted>>
            /\ \/ \E error : Http!Fail(error)
               \/ at' \in {"field", "read", "execute"}
        BY <2>5, NextFieldCases DEF Http!Submit
      <3> QED
        BY <3>1, ErrorsAreAnswered DEF Http!Fail, Http!Respond
    <2>6. CASE Http!ReadField
      BY <2>6 DEF Http!ReadField
    <2>7. CASE Http!FieldDone
      BY <2>7, ErrorsAreAnswered DEF Http!FieldDone, Http!Fail, Http!Respond
    <2>8. CASE Http!BatchItem \/ Http!List \/ Http!Live \/ Http!Ready
      BY <2>8 DEF Http!BatchItem, Http!List, Http!Live, Http!Ready
    <2>9. CASE Http!Execute
      <3>1. /\ accepted = <<>> /\ request' = request
            /\ accepted' = Append(accepted, input) => Len(accepted') = 1
        BY <1>2, <2>9 DEF Http!Execute
      <3>2. CASE accepted' = Append(accepted, input) /\ at' = "publish"
        <4>1. Len(accepted') = 1
          BY ONLY <3>1, <3>2
        <4> QED
          BY ONLY <3>2, <4>1 DEF SubmitInv
      <3>3. CASE Http!Fail("Enqueue") /\ accepted' \in {accepted, Append(accepted, input)}
        <4>1. at' = "answered" /\ response'.status = 500
          BY ONLY <3>3 DEF Http!Fail, Http!Respond, Http!into_response
        <4>2. Len(accepted') <= 1
          <5>1. accepted' = <<>> \/ Len(accepted') = 1
            BY ONLY <3>1, <3>3
          <5>2. accepted' = <<>> => Len(accepted') = 0
            OBVIOUS
          <5> QED
            BY ONLY <5>1, <5>2
        <4> QED
          BY ONLY <4>1, <4>2 DEF SubmitInv
      <3>4. CASE accepted' = accepted /\ \E error : Http!Fail(error)
        <4>1. at' = "answered" /\ response'.status \in {400, 500}
          BY <3>4, ErrorsAreAnswered DEF Http!Fail, Http!Respond
        <4>2. accepted' = <<>> /\ Len(accepted') = 0
          BY ONLY <3>1, <3>4
        <4> QED
          BY ONLY <4>1, <4>2 DEF SubmitInv
      <3> QED
        BY ONLY <2>9, <3>2, <3>3, <3>4 DEF Http!Execute
    <2>10. CASE Http!Executed
      <3>1. at = "publish" /\ accepted' = accepted /\ request' = request
        BY <2>10 DEF Http!Executed
      <3>2. Len(accepted') = 1
        BY <1>2, <3>1
      <3>3. at' = "answered" /\ response'.status = 200
        BY <1>2, <2>10 DEF Http!Executed, Http!Respond
      <3> QED
        BY ONLY <3>2, <3>3 DEF SubmitInv
    <2>11. CASE UNCHANGED Http!vars
      BY <2>11 DEF Http!vars
    <2> QED
      BY <2>1, <2>2, <2>3, <2>4, <2>5, <2>6, <2>7, <2>8, <2>9, <2>10, <2>11 DEF Http!Next
  <1> QED
    BY <1>1, <1>2

-----------------------------------------------------------------------------
(* The handlers: a batch.                                                  *)

\* The indices of valid e-mails.
ValidIndices == {k \in Nat : ~Http!IsErr(Http!into_submit_input(request.emails[k]))}

\* The first n e-mails were submitted when valid, in order; and their results say so.
SubmittedFirst(n) ==
  /\ Len(accepted) = Count(ValidIndices, n)
  /\ \A k \in Upto(ValidIndices, n) :
       accepted[Count(ValidIndices, k)] = Http!into_submit_input(request.emails[k])
ResultsFirst(s, n) ==
  Len(s) = n /\ DOMAIN s = 1..n /\ \A k \in 1..n : s[k] = "accepted" <=> k \in ValidIndices

\* What a batch has done at each place: the item at pos is being submitted, was
\* submitted, or is done.
BatchInv ==
  request.route = "batch" =>
    /\ at = "batch" => pos <= Len(request.emails) /\ SubmittedFirst(pos) /\ ResultsFirst(results, pos)
    /\ at = "batch" /\ pos > 0 => request.parses /\ Len(request.emails) <= MAX_EMAILS_PER_BATCH
    /\ at \in {"execute", "publish"} =>
         /\ pos \in 1..Len(request.emails) /\ pos \in ValidIndices
         /\ request.parses /\ Len(request.emails) <= MAX_EMAILS_PER_BATCH
         /\ ResultsFirst(results, pos - 1)
    /\ at = "execute" => SubmittedFirst(pos - 1) /\ input = Http!into_submit_input(request.emails[pos])
    /\ at = "publish" => SubmittedFirst(pos)
    /\ at = "answered" /\ response.status = 200 =>
         pos = Len(request.emails) /\ SubmittedFirst(pos) /\ ResultsFirst(response.body, pos)
    /\ at = "answered" /\ response.status # 200 /\ pos > 0 =>
         SubmittedFirst(pos - 1) \/ (response.status = 500 /\ SubmittedFirst(pos))

\* An item that is refused is one more done.
LEMMA RefusedIsDone ==
  ASSUME NEW n \in Nat, SubmittedFirst(n), n + 1 \notin ValidIndices
  PROVE  SubmittedFirst(n + 1)
  <1>1. Count(ValidIndices, n + 1) = Count(ValidIndices, n)
    BY CountNext
  <1>2. Upto(ValidIndices, n + 1) = Upto(ValidIndices, n)
    BY DEF Upto
  <1> QED
    BY <1>1, <1>2 DEF SubmittedFirst

\* An item that is accepted is one more done.
LEMMA AcceptedIsDone ==
  ASSUME HandlerInv, NEW n \in Nat, SubmittedFirst(n), n + 1 \in ValidIndices, request' = request,
         accepted' = Append(accepted, Http!into_submit_input(request.emails[n + 1]))
  PROVE  SubmittedFirst(n + 1)'
  <1> DEFINE V == ValidIndices
             m == Count(V, n)
             into(k) == Http!into_submit_input(request.emails[k])
  <1>1. V' = V /\ \A k : into(k)' = into(k)
    BY DEF ValidIndices
  <1>2. DOMAIN accepted = 1..Len(accepted) /\ Len(accepted) \in Nat
    BY DEF HandlerInv, Http!TypeOK, RouteInv
  <1>3. m \in Nat /\ Count(V, n + 1) = m + 1 /\ Len(accepted) = m
    BY CountType, CountNext DEF SubmittedFirst
  <1>4. /\ Len(accepted') = m + 1 /\ accepted'[m + 1] = into(n + 1)
        /\ \A i \in 1..m : accepted'[i] = accepted[i]
    BY <1>2, <1>3
  <1>5. \A k \in Upto(V, n) : Count(V, k) \in 1..m /\ accepted[Count(V, k)] = into(k)
    BY CountWithin DEF SubmittedFirst
  <1>6. Upto(V, n + 1) = Upto(V, n) \union {n + 1}
    BY DEF Upto
  <1> HIDE DEF V, m, into
  <1>7. \A k \in Upto(V, n + 1) : accepted'[Count(V, k)] = into(k)
    BY <1>3, <1>4, <1>5, <1>6
  <1> QED
    BY <1>1, <1>3, <1>4, <1>7 DEF SubmittedFirst, V, into, Count, Upto

\* Every step keeps what a batch has done.
LEMMA BatchStep ==
  ASSUME HandlerInv, BatchInv, [Http!Next]_Http!vars
  PROVE  BatchInv'
  <1>1. request' = request /\ ValidIndices' = ValidIndices
    BY DEF Http!Next, Http!vars, Http!Route, Http!RequestTimeout, Http!Disconnect, Http!HandleJson,
           Http!NextField, Http!ReadField, Http!FieldDone, Http!BatchItem, Http!Execute,
           Http!Executed, Http!List, Http!Live, Http!Ready, ValidIndices
  <1>2. CASE request.route # "batch"
    BY <1>1, <1>2 DEF BatchInv
  <1>3. ASSUME request.route = "batch"
        PROVE  BatchInv'
    <2>1. /\ Len(request.emails) \in Nat /\ pos \in Nat
          /\ results \in Seq({"accepted", "rejected"})
      BY <1>3, RequestShapes DEF HandlerInv, Http!TypeOK
    <2>2. \A n : accepted' = accepted => SubmittedFirst(n)' = SubmittedFirst(n)
      BY <1>1 DEF SubmittedFirst, Count, Upto
    <2>3. \A s, n : ResultsFirst(s, n)' = ResultsFirst(s, n)
      BY <1>1 DEF ResultsFirst
    <2>4. CASE Http!Route
      <3>1. pos' = 0 /\ accepted' = <<>> /\ results' = <<>> /\ at' \in {"batch", "answered"}
        BY <1>3, <2>4 DEF Http!Route, Http!Respond, HandlerInv, RouteInv
      <3>2. at' = "answered" => response'.status = 401
        BY <1>3, <2>4 DEF Http!Route, Http!Respond
      <3>3. SubmittedFirst(0)'
        <4>1. Count(ValidIndices, 0) = 0 /\ Upto(ValidIndices, 0) = {}
          <5>1. 1..0 = {} /\ 0 \in Nat
            OBVIOUS
          <5>2. Upto(ValidIndices, 0) = {}
            BY <5>1 DEF Upto
          <5> QED
            BY <5>1, <5>2, CountType
        <4> QED
          BY <1>1, <3>1, <4>1 DEF SubmittedFirst, Count, Upto
      <3>4. ResultsFirst(results, 0)'
        BY <3>1 DEF ResultsFirst
      <3> QED
        BY <1>1, <2>1, <3>1, <3>2, <3>3, <3>4 DEF BatchInv
    <2>5. CASE Http!Disconnect
      BY <2>5 DEF Http!Disconnect, BatchInv
    <2>6. CASE \/ Http!RequestTimeout \/ Http!HandleJson \/ Http!NextField \/ Http!ReadField
               \/ Http!FieldDone \/ Http!List \/ Http!Live \/ Http!Ready
      BY <1>3, <2>6 DEF Http!RequestTimeout, Http!TimeoutApplies, Http!HandleJson, Http!NextField,
         Http!ReadField, Http!FieldDone, Http!List, Http!Live, Http!Ready, HandlerInv, RouteInv
    <2>7. CASE Http!BatchItem
      <3>1. /\ at = "batch" /\ pos <= Len(request.emails) /\ SubmittedFirst(pos) /\ ResultsFirst(results, pos)
            /\ pos > 0 => request.parses /\ Len(request.emails) <= MAX_EMAILS_PER_BATCH
            /\ accepted' = accepted
        BY <1>3, <2>7 DEF Http!BatchItem, BatchInv
      <3>2. CASE ~request.parses \/ Len(request.emails) > MAX_EMAILS_PER_BATCH
        <4>1. pos' = pos /\ at' = "answered" /\ response'.status \in {400, 500}
          BY <2>7, <3>2, ErrorsAreAnswered DEF Http!BatchItem, Http!Fail, Http!Respond
        <4>2. ~(pos > 0)
          BY <2>1, <3>1, <3>2, LimitsAreNumbers
        <4> QED
          BY <4>1, <4>2 DEF BatchInv
      <3>3. CASE ~(~request.parses \/ Len(request.emails) > MAX_EMAILS_PER_BATCH) /\ pos = Len(request.emails)
        <4>1. pos' = pos /\ at' = "answered" /\ response'.status = 200 /\ response'.body = results
          BY <2>7, <3>3 DEF Http!BatchItem, Http!Respond
        <4>2. SubmittedFirst(pos)' /\ ResultsFirst(response.body, pos)'
          <5> PICK p, s : p = pos /\ s = results
            OBVIOUS
          <5>1. SubmittedFirst(p)' /\ ResultsFirst(s, p)'
            BY <2>2, <2>3, <3>1
          <5> QED
            BY <4>1, <5>1
        <4> QED
          BY <1>1, <3>3, <4>1, <4>2 DEF BatchInv
      <3>4. CASE ~(~request.parses \/ Len(request.emails) > MAX_EMAILS_PER_BATCH) /\ pos # Len(request.emails)
        <4> PICK p, s, q : p = pos /\ s = results /\ q = p + 1
          OBVIOUS
        <4>1. /\ pos' = q /\ q \in 1..Len(request.emails) /\ p \in Nat /\ q > 0
              /\ request.parses /\ Len(request.emails) <= MAX_EMAILS_PER_BATCH
          BY <2>1, <2>7, <3>1, <3>4, LimitsAreNumbers DEF Http!BatchItem
        <4>2. SubmittedFirst(p) /\ ResultsFirst(s, p)
          BY <3>1
        <4>3. CASE Http!IsErr(Http!into_submit_input(request.emails[q]))
          <5>1. results' = Append(s, "rejected") /\ at' = "batch"
            BY <2>7, <3>4, <4>3 DEF Http!BatchItem
          <5>2. q \notin ValidIndices
            BY <4>3 DEF ValidIndices
          <5>3. SubmittedFirst(q)'
            BY <2>2, <3>1, <4>1, <4>2, <5>2, RefusedIsDone
          <5>4. ResultsFirst(results, pos)'
            <6> PICK r : r = Append(s, "rejected")
              OBVIOUS
            <6>1. /\ Len(r) = q /\ r[q] = "rejected" /\ \A k \in 1..p : r[k] = s[k]
              BY <2>1, <4>1, <4>2 DEF ResultsFirst
            <6>2. ResultsFirst(r, q)
              BY <4>1, <4>2, <5>2, <6>1 DEF ResultsFirst
            <6>3. ResultsFirst(r, q)'
              BY <2>3, <6>2
            <6> QED
              BY <4>1, <5>1, <6>3
          <5> QED
            BY <1>1, <4>1, <5>1, <5>3, <5>4 DEF BatchInv
        <4>4. CASE ~Http!IsErr(Http!into_submit_input(request.emails[q]))
          <5>1. results' = s /\ at' = "execute" /\ input' = Http!into_submit_input(request.emails[q])
            BY <2>7, <3>4, <4>4 DEF Http!BatchItem
          <5>2. q \in ValidIndices
            BY <4>1, <4>4 DEF ValidIndices
          <5>3. SubmittedFirst(p)' /\ ResultsFirst(s, p)'
            BY <2>2, <2>3, <3>1, <4>2
          <5>4. pos' - 1 = p
            BY <4>1
          <5>5. (Http!into_submit_input(request.emails[pos]))' = Http!into_submit_input(request.emails[q])
            BY <1>1, <4>1
          <5>6. SubmittedFirst(pos - 1)' /\ ResultsFirst(results, pos - 1)'
            BY <5>1, <5>3, <5>4
          <5> QED
            BY <1>1, <4>1, <5>1, <5>2, <5>5, <5>6 DEF BatchInv
        <4> QED
          BY <4>3, <4>4
      <3> QED
        BY <3>2, <3>3, <3>4
    <2>8. CASE Http!Execute
      <3> PICK p, s, o : p = pos /\ s = results /\ o = p - 1
        OBVIOUS
      <3>1. /\ at = "execute" /\ p \in 1..Len(request.emails) /\ p \in ValidIndices
            /\ request.parses /\ Len(request.emails) <= MAX_EMAILS_PER_BATCH
            /\ ResultsFirst(s, o) /\ SubmittedFirst(o) /\ input = Http!into_submit_input(request.emails[p])
            /\ pos' = p /\ results' = s /\ o \in Nat /\ o + 1 = p
        BY <1>3, <2>1, <2>8 DEF Http!Execute, BatchInv
      <3>2. CASE accepted' = Append(accepted, input) /\ at' = "publish"
        <4>1. SubmittedFirst(o + 1)'
          BY <1>1, <3>1, <3>2, AcceptedIsDone
        <4>2. SubmittedFirst(pos)' /\ ResultsFirst(results, pos - 1)'
          BY <2>3, <3>1, <4>1
        <4> QED
          BY <1>1, <3>1, <3>2, <4>2 DEF BatchInv
      <3>3. CASE accepted' = accepted /\ \E error : Http!Fail(error)
        <4>1. at' = "answered" /\ response'.status \in {400, 500}
          BY <3>3, ErrorsAreAnswered DEF Http!Fail, Http!Respond
        <4>2. SubmittedFirst(pos - 1)'
          BY <2>2, <3>1, <3>3
        <4> QED
          BY <4>1, <4>2 DEF BatchInv
      <3>4. CASE accepted' = Append(accepted, input) /\ Http!Fail("Enqueue")
        <4>1. at' = "answered" /\ response'.status = 500
          BY <3>4 DEF Http!Fail, Http!Respond, Http!into_response
        <4>2. SubmittedFirst(o + 1)'
          BY <1>1, <3>1, <3>4, AcceptedIsDone
        <4>3. SubmittedFirst(pos)'
          BY <3>1, <4>2
        <4> QED
          BY <4>1, <4>3 DEF BatchInv
      <3> QED
        BY <2>8, <3>2, <3>3, <3>4 DEF Http!Execute
    <2>9. CASE Http!Executed
      <3> PICK p, s, o : p = pos /\ s = results /\ o = p - 1
        OBVIOUS
      <3>1. /\ at = "publish" /\ p \in 1..Len(request.emails) /\ p \in ValidIndices
            /\ request.parses /\ Len(request.emails) <= MAX_EMAILS_PER_BATCH
            /\ ResultsFirst(s, o) /\ SubmittedFirst(p)
            /\ pos' = p /\ accepted' = accepted /\ o \in Nat /\ o + 1 = p
            /\ at' = "batch"
        BY <1>3, <2>1, <2>9 DEF Http!Executed, BatchInv
      <3>2. results' = Append(s, "accepted")
        BY <1>3, <2>9 DEF Http!Executed
      <3> PICK r : r = Append(s, "accepted")
        OBVIOUS
      <3>3. /\ Len(r) = p /\ r[p] = "accepted" /\ \A k \in 1..o : r[k] = s[k]
        BY <2>1, <3>1 DEF ResultsFirst
      <3>4. ResultsFirst(r, p)
        BY <3>1, <3>3 DEF ResultsFirst
      <3>5. SubmittedFirst(p)' /\ ResultsFirst(r, p)'
        BY <2>2, <2>3, <3>1, <3>4
      <3>6. SubmittedFirst(pos)' /\ ResultsFirst(results, pos)'
        BY <3>1, <3>2, <3>5
      <3> QED
        BY <1>1, <3>1, <3>6 DEF BatchInv
    <2>10. CASE UNCHANGED Http!vars
      <3> PICK p, s, b, o : p = pos /\ s = results /\ b = response.body /\ o = p - 1
        OBVIOUS
      <3>1. /\ UNCHANGED <<request, at, pos, input, results, accepted, response>>
        BY <2>10 DEF Http!vars
      <3>2. /\ SubmittedFirst(p)' = SubmittedFirst(p) /\ SubmittedFirst(o)' = SubmittedFirst(o)
            /\ ResultsFirst(s, p)' = ResultsFirst(s, p) /\ ResultsFirst(s, o)' = ResultsFirst(s, o)
            /\ ResultsFirst(b, p)' = ResultsFirst(b, p)
        BY <2>2, <2>3, <3>1
      <3>3. /\ SubmittedFirst(pos)' = SubmittedFirst(pos) /\ SubmittedFirst(pos - 1)' = SubmittedFirst(pos - 1)
            /\ ResultsFirst(results, pos)' = ResultsFirst(results, pos)
            /\ ResultsFirst(results, pos - 1)' = ResultsFirst(results, pos - 1)
            /\ ResultsFirst(response.body, pos)' = ResultsFirst(response.body, pos)
        BY <3>1, <3>2
      <3> QED
        BY <1>1, <3>1, <3>3 DEF BatchInv
    <2> QED
      BY <2>4, <2>5, <2>6, <2>7, <2>8, <2>9, <2>10 DEF Http!Next
  <1> QED
    BY <1>2, <1>3

\* What the runs check of a batch follows from what it has done.
LEMMA BatchFollows ==
  ASSUME HandlerInv, BatchInv
  PROVE  Http!BatchPositional
  <1> SUFFICES ASSUME request.route = "batch"
               PROVE  Http!BatchPositional
    BY DEF Http!BatchPositional
  <1>1. Len(request.emails) \in Nat /\ pos \in Nat
    BY RequestShapes DEF HandlerInv, Http!TypeOK
  <1>2. \A n \in Nat : Http!Valid(n) = Upto(ValidIndices, n)
    BY DEF Http!Valid, Upto, ValidIndices
  <1>3. \A n \in Nat : Http!Cardinality(Http!Valid(n)) = Count(ValidIndices, n)
    BY <1>2, ApiCounts DEF Count
  <1>4. ASSUME NEW n \in Nat, SubmittedFirst(n)
        PROVE  Http!SubmittedUpTo(n)
    <2>1. \A k \in Upto(ValidIndices, n) : k \in Nat
      BY DEF Upto
    <2> QED
      BY <1>2, <1>3, <1>4, <2>1 DEF SubmittedFirst, Http!SubmittedUpTo
  <1>5. at = "batch" => Http!SubmittedUpTo(pos)
    BY <1>1, <1>4 DEF BatchInv
  <1>6. at = "answered" /\ response.status # 200 /\ pos > 0 =>
          Http!SubmittedUpTo(pos - 1) \/ (response.status = 500 /\ Http!SubmittedUpTo(pos))
    <2>1. pos > 0 => pos - 1 \in Nat
      BY <1>1
    <2> QED
      BY <1>1, <1>4, <2>1 DEF BatchInv
  <1>7. ASSUME at = "answered", response.status = 200
        PROVE  /\ Len(response.body) = Len(request.emails)
               /\ \A k \in DOMAIN response.body :
                    response.body[k] = "accepted" <=> ~Http!IsErr(Http!into_submit_input(request.emails[k]))
               /\ Http!SubmittedUpTo(Len(request.emails))
    <2>1. pos = Len(request.emails) /\ SubmittedFirst(pos) /\ ResultsFirst(response.body, pos)
      BY <1>7 DEF BatchInv
    <2>2. Len(response.body) = pos /\ DOMAIN response.body = 1..pos
      BY <2>1 DEF ResultsFirst
    <2> QED
      BY <1>1, <1>4, <2>1, <2>2 DEF ResultsFirst, ValidIndices
  <1> QED
    BY <1>5, <1>6, <1>7 DEF Http!BatchPositional

-----------------------------------------------------------------------------
(* The handlers: a multipart submission.                                   *)

\* A set that has members up to n has a first one and a last one.
LEMMA FirstAndLast ==
  ASSUME NEW P, NEW n \in Nat, Upto(P, n) # {}
  PROVE  /\ \E k \in Upto(P, n) : \A j \in Upto(P, n) : j <= k
         /\ \E k \in Upto(P, n) : \A j \in Upto(P, n) : k <= j
  <1>1. Count(P, n) \in Nat
    BY CountType
  <1>2. PICK x \in Upto(P, n) : TRUE
    OBVIOUS
  <1>3. Count(P, x) \in 1..Count(P, n)
    BY CountWithin
  <1>4. Count(P, n) \in 1..Count(P, n) /\ 1 \in 1..Count(P, n)
    BY <1>1, <1>3
  <1>5. PICK k \in Upto(P, n) : Count(P, k) = Count(P, n)
    BY <1>4, CountsAreTaken
  <1>6. PICK i \in Upto(P, n) : Count(P, i) = 1
    BY <1>4, CountsAreTaken
  <1>7. \A j \in Upto(P, n) : /\ j \in Nat /\ j \in P /\ Count(P, j) \in Nat
                               /\ 1 <= Count(P, j) /\ Count(P, j) <= Count(P, n)
    <2> SUFFICES ASSUME NEW j \in Upto(P, n)
                 PROVE  /\ j \in Nat /\ j \in P /\ Count(P, j) \in Nat
                        /\ 1 <= Count(P, j) /\ Count(P, j) <= Count(P, n)
      OBVIOUS
    <2>1. j \in Nat /\ j \in P
      BY DEF Upto
    <2>2. Count(P, j) \in 1..Count(P, n)
      BY CountWithin
    <2> QED
      BY <1>1, <2>1, <2>2
  <1>8. \A j \in Upto(P, n) : j <= k
    <2> SUFFICES ASSUME NEW j \in Upto(P, n), k < j
                 PROVE  FALSE
      BY <1>5, <1>7
    <2>1. Count(P, k) < Count(P, j)
      BY <1>5, <1>7, CountGrows
    <2> QED
      BY <1>1, <1>5, <1>7, <2>1
  <1>9. \A j \in Upto(P, n) : i <= j
    <2> SUFFICES ASSUME NEW j \in Upto(P, n), j < i
                 PROVE  FALSE
      BY <1>6, <1>7
    <2>1. Count(P, j) < Count(P, i)
      BY <1>6, <1>7, CountGrows
    <2> QED
      BY <1>6, <1>7, <2>1
  <1> QED
    BY <1>5, <1>6, <1>8, <1>9

\* The fields of a name, by their indices.
FieldsNamed(name) == {i \in Nat : request.fields[i].name = name}
EnvelopeFields        == FieldsNamed("envelope")
ParcelFields          == FieldsNamed("attachment")

\* What has been read of the first n fields: the attachments, in order, and the last
\* envelope.
PartsFirst(s, n) ==
  /\ Len(s) = Count(ParcelFields, n)
  /\ \A i \in Upto(ParcelFields, n) :
       /\ s[Count(ParcelFields, i)] = [from |-> "inline", size |-> request.fields[i].size]
       /\ request.fields[i].size <= MAX_ATTACHMENT_BYTES /\ request.fields[i].filename
EnvelopeFirst(e, n) ==
  /\ e = None <=> Upto(EnvelopeFields, n) = {}
  /\ \A i \in Upto(EnvelopeFields, n) :
       /\ request.fields[i].envelope # None /\ request.fields[i].size <= MAX_ENVELOPE_BYTES
       /\ (\A j \in Upto(EnvelopeFields, n) : j <= i) => e = request.fields[i].envelope

\* The JSON request of the fields, and what it would submit.
JsonForm    == Http!AsJson(request.fields)
JsonInput   == Http!into_submit_input(JsonForm)
ProperForm  ==
  /\ request.parses
  /\ \E i \in DOMAIN request.fields : request.fields[i].name = "envelope"
  /\ \A i \in DOMAIN request.fields : Http!Proper(request.fields[i])

\* The JSON form has as many attachments as there are fields of them; the one of a field
\* is where the fields before it are counted.
LEMMA JsonParcels ==
  ASSUME Len(request.fields) \in Nat
  PROVE  /\ DOMAIN JsonForm.attachments = 1..Count(ParcelFields, Len(request.fields))
         /\ Len(JsonForm.attachments) = Count(ParcelFields, Len(request.fields))
         /\ \A i \in Upto(ParcelFields, Len(request.fields)) :
              JsonForm.attachments[Count(ParcelFields, i)]
                = [inline_base64 |-> "ok", url |-> None, size |-> request.fields[i].size]
  <1> DEFINE F == request.fields
             P == ParcelFields
             L == Len(F)
             c == Count(P, L)
             parcel(n) == CHOOSE i \in Upto(P, L) : Count(P, i) = n
             dto(i) == [inline_base64 |-> "ok", url |-> None, size |-> F[i].size]
  <1>1. \A n \in Nat : Http!Named(F, "attachment", n) = Upto(P, n)
    BY DEF Http!Named, Upto, ParcelFields, FieldsNamed
  <1>2. \A n \in Nat : Http!Cardinality(Http!Named(F, "attachment", n)) = Count(P, n)
    BY <1>1, ApiCounts DEF Count
  <1>3. \A i \in Upto(P, L) : i \in Nat
    BY DEF Upto
  <1>4. \A n : (CHOOSE i \in Http!Named(F, "attachment", L) : Http!Cardinality(Http!Named(F, "attachment", i)) = n)
                 = parcel(n)
    BY <1>1, <1>2, <1>3
  <1>5. JsonForm.attachments = [n \in 1..c |-> dto(parcel(n))]
    BY <1>2, <1>4 DEF JsonForm, Http!AsJson
  <1>6. c \in Nat
    BY CountType
  <1>7. ASSUME NEW i \in Upto(P, L)
        PROVE  Count(P, i) \in 1..c /\ parcel(Count(P, i)) = i
    <2>1. Count(P, i) \in 1..c
      BY CountWithin
    <2>2. \A j \in Upto(P, L) : Count(P, j) = Count(P, i) => j = i
      BY CountsDiffer
    <2> QED
      BY <2>1, <2>2
  <1> HIDE DEF c, parcel, dto, P
  <1>8. DOMAIN JsonForm.attachments = 1..c /\ Len(JsonForm.attachments) = c
    BY <1>5, <1>6
  <1>9. \A i \in Upto(P, L) : JsonForm.attachments[Count(P, i)] = dto(i)
    BY <1>5, <1>7
  <1> QED
    BY <1>8, <1>9 DEF c, dto, P

\* The JSON form has the last envelope.
LEMMA JsonEnvelope ==
  ASSUME Len(request.fields) \in Nat, NEW e, EnvelopeFirst(e, Len(request.fields)), e # None
  PROVE  JsonForm.envelope = e
  <1> DEFINE F == request.fields
             S == Upto(EnvelopeFields, Len(F))
             last == CHOOSE i \in S : \A j \in S : j <= i
  <1>1. Http!Named(F, "envelope", Len(F)) = S
    BY DEF Http!Named, Upto, EnvelopeFields, FieldsNamed
  <1>2. JsonForm.envelope = F[last].envelope
    BY <1>1 DEF JsonForm, Http!AsJson
  <1>3. S # {}
    BY DEF EnvelopeFirst
  <1>4. last \in S /\ \A j \in S : j <= last
    BY <1>3, FirstAndLast
  <1> HIDE DEF last, S
  <1> QED
    BY <1>2, <1>4 DEF EnvelopeFirst, S

\* A ready attachment is taken as it is when it fits, and refused otherwise.
LEMMA ReadyAttachments ==
  ASSUME NEW size \in Nat, NEW a, a = [inline_base64 |-> "ok", url |-> None, size |-> size]
  PROVE  /\ size <= MAX_ATTACHMENT_BYTES =>
              /\ Http!attachment_dto_to_input(a) = [from |-> "inline", size |-> size]
              /\ ~Http!IsErr(Http!attachment_dto_to_input(a))
         /\ size > MAX_ATTACHMENT_BYTES => Http!IsErr(Http!attachment_dto_to_input(a))
  <1>1. None \notin {"ok", "bad"}
    BY PartsAssumption DEF Http!HttpApiAssumption
  <1>2. ASSUME size <= MAX_ATTACHMENT_BYTES
        PROVE  Http!attachment_dto_to_input(a) = [from |-> "inline", size |-> size]
    BY <1>1, <1>2, LimitsAreNumbers DEF Http!attachment_dto_to_input
  <1>3. ASSUME size > MAX_ATTACHMENT_BYTES
        PROVE  Http!attachment_dto_to_input(a) = Http!Err("AttachmentTooLarge")
    BY <1>1, <1>3 DEF Http!attachment_dto_to_input
  <1> QED
    BY <1>2, <1>3 DEF Http!IsErr, Http!Err

\* Whether an envelope is refused is not a matter of its attachments.
LEMMA RefusalsOfEnvelopes ==
  ASSUME NEW e, NEW s, NEW u
  PROVE  /\ Http!IsErr(Http!core_into_submit_input(e, s)) <=> Http!IsErr(Http!core_into_submit_input(e, u))
         /\ ~Http!IsErr(Http!core_into_submit_input(e, s)) =>
              Http!core_into_submit_input(e, s) = [envelope |-> e, attachments |-> s]
  <1>1. CASE ~Http!validate_sender(e.sender)
    BY <1>1 DEF Http!core_into_submit_input, Http!IsErr, Http!Err
  <1>2. CASE Http!validate_sender(e.sender) /\ ~Http!validate_recipients(e.recipients)
    BY <1>2 DEF Http!core_into_submit_input, Http!IsErr, Http!Err
  <1>3. CASE Http!validate_sender(e.sender) /\ Http!validate_recipients(e.recipients)
               /\ ~Http!body_is_valid(e.body)
    BY <1>3 DEF Http!core_into_submit_input, Http!IsErr, Http!Err
  <1>4. CASE Http!validate_sender(e.sender) /\ Http!validate_recipients(e.recipients)
               /\ Http!body_is_valid(e.body)
    BY <1>4 DEF Http!core_into_submit_input, Http!IsErr, Http!Err
  <1> QED
    BY <1>1, <1>2, <1>3, <1>4

\* The first error of some is an error.
LEMMA FirstErrorIsError ==
  ASSUME NEW n \in Nat, NEW s, DOMAIN s = 1..n, NEW i \in 1..n, Http!IsErr(s[i])
  PROVE  Http!IsErr(Http!FirstError(s))
  <1> DEFINE P == {k \in 1..n : Http!IsErr(s[k])}
  <1>1. i \in Upto(P, n)
    BY DEF Upto
  <1>2. PICK k \in Upto(P, n) : \A j \in Upto(P, n) : k <= j
    BY <1>1, FirstAndLast
  <1>3. k \in 1..n /\ Http!IsErr(s[k])
    BY DEF Upto
  <1>4. ASSUME NEW j \in 1..(k - 1)
        PROVE  ~Http!IsErr(s[j])
    <2>1. j \in 1..n /\ ~(k <= j)
      BY <1>3
    <2> QED
      BY <1>2, <2>1 DEF Upto
  <1>5. \E x \in DOMAIN s : Http!IsErr(s[x]) /\ \A j \in 1..(x - 1) : ~Http!IsErr(s[j])
    BY <1>3, <1>4
  <1> QED
    BY <1>5 DEF Http!FirstError

\* The JSON form is refused when its envelope is, when it has too many attachments, or
\* when one is too large.
LEMMA JsonRefusals ==
  ASSUME Len(request.fields) \in Nat
  PROVE  /\ \A s : Http!IsErr(Http!core_into_submit_input(JsonForm.envelope, s)) => Http!IsErr(JsonInput)
         /\ Count(ParcelFields, Len(request.fields)) > MAX_ATTACHMENTS_PER_EMAIL => Http!IsErr(JsonInput)
         /\ \A i \in Upto(ParcelFields, Len(request.fields)) :
              request.fields[i].size \in Nat /\ request.fields[i].size > MAX_ATTACHMENT_BYTES
                => Http!IsErr(JsonInput)
  <1> DEFINE a      == JsonForm.attachments
             c      == Count(ParcelFields, Len(request.fields))
             inputs == [i \in DOMAIN a |-> Http!attachment_dto_to_input(a[i])]
             core   == Http!core_into_submit_input(JsonForm.envelope, inputs)
  <1>1. DOMAIN a = 1..c /\ Len(a) = c /\ c \in Nat
    BY JsonParcels, CountType
  <1>2. JsonInput = IF Http!IsErr(core) THEN core
                    ELSE IF Len(a) > MAX_ATTACHMENTS_PER_EMAIL THEN Http!Err("TooManyAttachments")
                    ELSE IF \E i \in DOMAIN inputs : Http!IsErr(inputs[i]) THEN Http!FirstError(inputs)
                    ELSE core
    BY DEF JsonInput, Http!into_submit_input
  <1>3. Http!IsErr(Http!Err("TooManyAttachments"))
    BY DEF Http!IsErr, Http!Err
  <1>4. DOMAIN inputs = 1..c
    BY <1>1
  <1>5. ASSUME NEW i \in 1..c, Http!IsErr(inputs[i])
        PROVE  Http!IsErr(Http!FirstError(inputs))
    BY <1>1, <1>4, <1>5, FirstErrorIsError
  <1>6. ASSUME NEW i \in Upto(ParcelFields, Len(request.fields)),
               request.fields[i].size \in Nat, request.fields[i].size > MAX_ATTACHMENT_BYTES
        PROVE  \E k \in 1..c : Http!IsErr(inputs[k])
    <2> PICK k : k = Count(ParcelFields, i)
      OBVIOUS
    <2>1. k \in 1..c
      BY CountWithin
    <2>2. a[k] = [inline_base64 |-> "ok", url |-> None, size |-> request.fields[i].size]
      BY JsonParcels
    <2>3. Http!IsErr(Http!attachment_dto_to_input(a[k]))
      BY <1>6, <2>2, ReadyAttachments
    <2> QED
      BY <1>1, <2>1, <2>3
  <1>7. \A s : Http!IsErr(Http!core_into_submit_input(JsonForm.envelope, s)) => Http!IsErr(core)
    BY RefusalsOfEnvelopes
  <1> HIDE DEF a, c, inputs, core
  <1> QED
    BY <1>1, <1>2, <1>3, <1>4, <1>5, <1>6, <1>7 DEF c

\* When all fields have been read, the JSON form submits what they do.
LEMMA JsonSubmitsTheSame ==
  ASSUME Len(request.fields) \in Nat, DOMAIN request.fields = 1..Len(request.fields),
         \A i \in DOMAIN request.fields : request.fields[i].size \in Nat,
         NEW s \in Seq(Parcels), Len(s) <= MAX_ATTACHMENTS_PER_EMAIL,
         PartsFirst(s, Len(request.fields)),
         NEW e, e # None, EnvelopeFirst(e, Len(request.fields)), request.parses,
         ~Http!IsErr(Http!core_into_submit_input(e, s))
  PROVE  JsonInput = Http!core_into_submit_input(e, s) /\ ProperForm
  <1> DEFINE F      == request.fields
             L      == Len(F)
             P      == ParcelFields
             a      == JsonForm.attachments
             c      == Count(P, L)
             inputs == [i \in DOMAIN a |-> Http!attachment_dto_to_input(a[i])]
             core   == Http!core_into_submit_input(e, inputs)
  <1>1. DOMAIN a = 1..c /\ Len(a) = c /\ c \in Nat /\ Len(s) = c /\ JsonForm.envelope = e
    BY JsonParcels, JsonEnvelope, CountType DEF PartsFirst
  <1>2. JsonInput = IF Http!IsErr(core) THEN core
                    ELSE IF Len(a) > MAX_ATTACHMENTS_PER_EMAIL THEN Http!Err("TooManyAttachments")
                    ELSE IF \E i \in DOMAIN inputs : Http!IsErr(inputs[i]) THEN Http!FirstError(inputs)
                    ELSE core
    BY <1>1 DEF JsonInput, Http!into_submit_input
  <1>3. ASSUME NEW n \in 1..c
        PROVE  inputs[n] = s[n] /\ ~Http!IsErr(inputs[n])
    <2>1. PICK i \in Upto(P, L) : Count(P, i) = n
      BY CountsAreTaken
    <2>2. i \in 1..L
      BY DEF Upto
    <2> PICK z \in Nat : z = F[i].size
      BY <2>2
    <2>3. a[n] = [inline_base64 |-> "ok", url |-> None, size |-> z]
      BY <2>1, JsonParcels
    <2>4. s[n] = [from |-> "inline", size |-> z] /\ z <= MAX_ATTACHMENT_BYTES
      BY <2>1 DEF PartsFirst
    <2> QED
      BY <1>1, <2>3, <2>4, ReadyAttachments
  <1>4. DOMAIN s = 1..c /\ DOMAIN inputs = 1..c
    BY <1>1
  <1>5. inputs = s
    <2>1. s = [n \in 1..c |-> s[n]]
      BY <1>4
    <2>2. inputs = [n \in 1..c |-> inputs[n]]
      BY <1>4
    <2> HIDE DEF inputs, c
    <2> QED
      BY <1>3, <2>1, <2>2
  <1>6. JsonInput = Http!core_into_submit_input(e, s)
    <2> HIDE DEF inputs, c, a
    <2> QED
      BY <1>1, <1>2, <1>3, <1>4, <1>5, LimitsAreNumbers
  <1>7. PICK i \in Upto(EnvelopeFields, L) : TRUE
    BY DEF EnvelopeFirst
  <1>8. i \in DOMAIN F /\ F[i].name = "envelope"
    BY DEF Upto, EnvelopeFields, FieldsNamed
  <1>9. ASSUME NEW k \in DOMAIN F
        PROVE  Http!Proper(F[k])
    <2>1. F[k].name = "envelope" => k \in Upto(EnvelopeFields, L)
      BY DEF Upto, EnvelopeFields, FieldsNamed
    <2>2. F[k].name = "attachment" => k \in Upto(ParcelFields, L)
      BY DEF Upto, ParcelFields, FieldsNamed
    <2> QED
      BY <2>1, <2>2 DEF Http!Proper, EnvelopeFirst, PartsFirst
  <1> QED
    BY <1>6, <1>8, <1>9 DEF ProperForm

\* A field of neither name adds nothing.
LEMMA SkippedIsRead ==
  ASSUME NEW n \in Nat, NEW s, NEW e
  PROVE  /\ PartsFirst(s, n) /\ n + 1 \notin ParcelFields => PartsFirst(s, n + 1)
         /\ EnvelopeFirst(e, n) /\ n + 1 \notin EnvelopeFields => EnvelopeFirst(e, n + 1)
  <1>1. ASSUME PartsFirst(s, n), n + 1 \notin ParcelFields
        PROVE  PartsFirst(s, n + 1)
    <2>1. Count(ParcelFields, n + 1) = Count(ParcelFields, n)
      BY <1>1, CountNext
    <2>2. Upto(ParcelFields, n + 1) = Upto(ParcelFields, n)
      BY <1>1 DEF Upto
    <2> QED
      BY <1>1, <2>1, <2>2 DEF PartsFirst
  <1>2. ASSUME EnvelopeFirst(e, n), n + 1 \notin EnvelopeFields
        PROVE  EnvelopeFirst(e, n + 1)
    <2>1. Upto(EnvelopeFields, n + 1) = Upto(EnvelopeFields, n)
      BY <1>2 DEF Upto
    <2> QED
      BY <1>2, <2>1 DEF EnvelopeFirst
  <1> QED
    BY <1>1, <1>2

\* An attachment that fits is the next part.
LEMMA PartIsRead ==
  ASSUME NEW n \in Nat, NEW s \in Seq(Parcels), PartsFirst(s, n), n + 1 \in ParcelFields,
         request.fields[n + 1].size <= MAX_ATTACHMENT_BYTES, request.fields[n + 1].filename,
         NEW p, p = [from |-> "inline", size |-> request.fields[n + 1].size]
  PROVE  PartsFirst(Append(s, p), n + 1)
  <1> DEFINE P == ParcelFields
             m == Count(P, n)
  <1>1. m \in Nat /\ Count(P, n + 1) = m + 1 /\ Len(s) = m
    BY CountType, CountNext DEF PartsFirst
  <1>2. /\ Len(Append(s, p)) = m + 1 /\ Append(s, p)[m + 1] = p
        /\ \A i \in 1..m : Append(s, p)[i] = s[i]
    BY <1>1
  <1>3. \A i \in Upto(P, n) : Count(P, i) \in 1..m
    BY CountWithin
  <1>4. Upto(P, n + 1) = Upto(P, n) \union {n + 1}
    BY DEF Upto
  <1> HIDE DEF P, m
  <1>5. ASSUME NEW i \in Upto(P, n + 1)
        PROVE  /\ Append(s, p)[Count(P, i)] = [from |-> "inline", size |-> request.fields[i].size]
               /\ request.fields[i].size <= MAX_ATTACHMENT_BYTES /\ request.fields[i].filename
    <2>1. CASE i = n + 1
      BY <1>1, <1>2, <2>1
    <2>2. CASE i \in Upto(P, n)
      BY <1>2, <1>3, <2>2 DEF PartsFirst, P
    <2> QED
      BY <1>4, <2>1, <2>2
  <1> QED
    BY <1>1, <1>2, <1>5 DEF PartsFirst, P

\* An envelope that fits and parses is the last one.
LEMMA EnvelopeIsRead ==
  ASSUME NEW n \in Nat, NEW e, EnvelopeFirst(e, n), n + 1 \in EnvelopeFields,
         request.fields[n + 1].envelope # None, request.fields[n + 1].size <= MAX_ENVELOPE_BYTES
  PROVE  EnvelopeFirst(request.fields[n + 1].envelope, n + 1)
  <1>1. Upto(EnvelopeFields, n + 1) = Upto(EnvelopeFields, n) \union {n + 1}
    BY DEF Upto
  <1>2. \A i \in Upto(EnvelopeFields, n) : i \in Nat /\ ~(n + 1 <= i)
    BY DEF Upto
  <1> QED
    BY <1>1, <1>2 DEF EnvelopeFirst

\* What a part may have of bytes, and the read of one of the request's fields.
SizeLimit(name) == IF name = "envelope" THEN MAX_ENVELOPE_BYTES ELSE MAX_ATTACHMENT_BYTES

ReadsField(r, i) ==
  /\ request.fields[i].name \in {"envelope", "attachment"}
  /\ request.fields[i].name = "attachment" => request.fields[i].filename
  /\ r.buf + r.left = request.fields[i].size
  /\ r.buf + r.remaining = SizeLimit(request.fields[i].name)
  /\ r.exhausted => r.remaining = 0 /\ r.left > 0

\* What a multipart submission has read at each place: all fields up to pos, or all before
\* pos and a part of that one; what it submits is what its JSON form submits, and it is
\* refused only for what refuses the JSON form, or for a field that is not proper.
MultiInv ==
  request.route = "submit" /\ request.multipart =>
    /\ at = "field" => /\ pos \in 0..Len(request.fields)
                       /\ PartsFirst(parts, pos) /\ EnvelopeFirst(envelope, pos)
    /\ at = "read" => /\ pos \in 1..Len(request.fields)
                      /\ PartsFirst(parts, pos - 1) /\ EnvelopeFirst(envelope, pos - 1)
                      /\ ReadsField(field, pos)
    /\ at = "execute" => ProperForm /\ input = JsonInput /\ ~Http!HasRemote(input)
    /\ at = "answered" /\ response.status = 400 /\ ProperForm => Http!IsErr(JsonInput)

\* A field read in whole fits its limit; one that exhausts the reader does not, nor then
\* is the submission acceptable.
LEMMA ReadsEnd ==
  ASSUME NEW n \in Nat, Len(request.fields) \in Nat, n \in 1..Len(request.fields),
         DOMAIN request.fields = 1..Len(request.fields), request.fields[n].size \in Nat,
         NEW r \in Reading, ReadsField(r, n)
  PROVE  /\ r.exhausted /\ ProperForm => Http!IsErr(JsonInput)
         /\ ~r.exhausted /\ r.left = 0 =>
              r.buf = request.fields[n].size /\ r.buf <= SizeLimit(request.fields[n].name)
  <1> PICK b, l, m, z, limit : /\ b = r.buf /\ l = r.left /\ m = r.remaining
                               /\ z = request.fields[n].size /\ limit = SizeLimit(request.fields[n].name)
    OBVIOUS
  <1>1. b \in Nat /\ l \in Nat /\ m \in Nat /\ z \in Nat /\ limit \in Nat
    BY LimitsAreNumbers DEF Reading, SizeLimit
  <1>3. b + l = z /\ b + m = limit /\ (r.exhausted => m = 0 /\ l > 0)
    BY DEF ReadsField
  <1>4. ASSUME r.exhausted, ProperForm
        PROVE  Http!IsErr(JsonInput)
    <2>1. z > limit
      BY <1>1, <1>3, <1>4
    <2>2. Http!Proper(request.fields[n])
      BY <1>4 DEF ProperForm
    <2>3. request.fields[n].name # "envelope"
      BY <1>1, <2>1, <2>2 DEF Http!Proper, SizeLimit
    <2>4. request.fields[n].name = "attachment" /\ n \in Upto(ParcelFields, Len(request.fields))
      BY <2>3 DEF ReadsField, Upto, ParcelFields, FieldsNamed
    <2> QED
      BY <1>1, <2>1, <2>3, <2>4, JsonRefusals DEF SizeLimit
  <1> QED
    BY <1>1, <1>3, <1>4

\* Too many attachments refuse the JSON form.
LEMMA TooManyAreRefused ==
  ASSUME NEW n \in Nat, Len(request.fields) \in Nat, n < Len(request.fields), n + 1 \in ParcelFields,
         NEW s, PartsFirst(s, n), Len(s) >= MAX_ATTACHMENTS_PER_EMAIL
  PROVE  Http!IsErr(JsonInput)
  <1> DEFINE c == Count(ParcelFields, n)
             d == Count(ParcelFields, n + 1)
             l == Count(ParcelFields, Len(request.fields))
  <1>1. c \in Nat /\ d = c + 1 /\ l \in Nat /\ c >= MAX_ATTACHMENTS_PER_EMAIL
    BY CountType, CountNext DEF PartsFirst
  <1>2. d <= l
    BY CountGrows
  <1> HIDE DEF c, d, l
  <1>3. l > MAX_ATTACHMENTS_PER_EMAIL
    BY <1>1, <1>2, LimitsAreNumbers
  <1> QED
    BY <1>3, JsonRefusals DEF l

\* Every step keeps what a multipart submission has read.
LEMMA MultiStep ==
  ASSUME HandlerInv, MultiInv, [Http!Next]_Http!vars
  PROVE  MultiInv'
  <1>1. request' = request
    BY DEF Http!Next, Http!vars, Http!Route, Http!RequestTimeout, Http!Disconnect, Http!HandleJson,
           Http!NextField, Http!ReadField, Http!FieldDone, Http!BatchItem, Http!Execute,
           Http!Executed, Http!List, Http!Live, Http!Ready
  <1>2. CASE ~(request.route = "submit" /\ request.multipart)
    BY <1>1, <1>2 DEF MultiInv
  <1>3. ASSUME request.route = "submit", request.multipart
        PROVE  MultiInv'
    <2> PICK p, s, e, o, r : p = pos /\ s = parts /\ e = envelope /\ o = pos - 1 /\ r = field
      OBVIOUS
    <2> PICK L : L = Len(request.fields)
      OBVIOUS
    <2>1. /\ L \in Nat /\ DOMAIN request.fields = 1..L
          /\ \A i \in 1..L : request.fields[i].size \in Nat
          /\ p \in Nat /\ s \in Seq(Parcels) /\ Len(s) <= MAX_ATTACHMENTS_PER_EMAIL /\ r \in Reading
      BY <1>3, RequestShapes DEF HandlerInv, Http!TypeOK, Parcels, Reading
    <2>2. /\ \A t, n : PartsFirst(t, n)' = PartsFirst(t, n)
          /\ \A t, n : EnvelopeFirst(t, n)' = EnvelopeFirst(t, n)
          /\ \A t, n : ReadsField(t, n)' = ReadsField(t, n)
          /\ ProperForm' = ProperForm /\ JsonInput' = JsonInput /\ Len(request.fields)' = L
      BY <1>1 DEF PartsFirst, EnvelopeFirst, ReadsField, ProperForm, JsonInput, JsonForm, Count, Upto,
                  ParcelFields, EnvelopeFields, FieldsNamed
    <2>3. \A error : Http!Fail(error) => at' = "answered"
      BY DEF Http!Fail, Http!Respond
    <2>4. ASSUME at' = "answered", ProperForm => Http!IsErr(JsonInput)
          PROVE  MultiInv'
      BY <1>1, <2>2, <2>4 DEF MultiInv
    <2>5. ASSUME NEW n \in 0..L, pos' = n, parts' = s, envelope' = e, at' = "field",
                 PartsFirst(s, n), EnvelopeFirst(e, n)
          PROVE  MultiInv'
      <3>1. PartsFirst(s, n)' /\ EnvelopeFirst(e, n)'
        BY <2>2, <2>5
      <3>2. PartsFirst(parts, pos)' /\ EnvelopeFirst(envelope, pos)'
        BY <2>5, <3>1
      <3> QED
        BY <1>1, <2>2, <2>5, <3>2 DEF MultiInv
    <2>6. ASSUME NEW n \in 1..L, NEW x, pos' = n, parts' = s, envelope' = e, field' = x, at' = "read",
                 PartsFirst(s, n - 1), EnvelopeFirst(e, n - 1), ReadsField(x, n)
          PROVE  MultiInv'
      <3> PICK m : m = n - 1
        OBVIOUS
      <3>1. PartsFirst(s, m)' /\ EnvelopeFirst(e, m)' /\ ReadsField(x, n)'
        BY <2>2, <2>6
      <3>2. m = (pos - 1)'
        BY <2>6
      <3>3. PartsFirst(parts, pos - 1)' /\ EnvelopeFirst(envelope, pos - 1)' /\ ReadsField(field, pos)'
        BY <2>6, <3>1, <3>2
      <3> QED
        BY <1>1, <2>2, <2>6, <3>3 DEF MultiInv
    <2>7. CASE Http!Route
      <3>1. /\ at = "route" /\ pos' = 0 /\ parts' = <<>> /\ envelope' = None
            /\ s = <<>> /\ e = None /\ at' \in {"field", "answered"}
        BY <1>3, <2>7 DEF Http!Route, Http!Respond, HandlerInv, RouteInv
      <3>2. at' = "answered" => response'.status = 401
        BY <1>3, <2>7 DEF Http!Route, Http!Respond
      <3>3. PartsFirst(s, 0) /\ EnvelopeFirst(e, 0)
        <4>1. 1..0 = {} /\ 0 \in Nat /\ Len(<<>>) = 0
          OBVIOUS
        <4>2. Upto(ParcelFields, 0) = {} /\ Upto(EnvelopeFields, 0) = {}
          BY <4>1 DEF Upto
        <4>3. Count(ParcelFields, 0) = 0
          BY <4>1, CountType
        <4> QED
          BY <3>1, <4>1, <4>2, <4>3 DEF PartsFirst, EnvelopeFirst
      <3>4. CASE at' = "field"
        BY <2>1, <2>5, <3>1, <3>3, <3>4
      <3>5. CASE at' = "answered"
        BY <3>2, <3>5 DEF MultiInv
      <3> QED
        BY <3>1, <3>4, <3>5
    <2>8. CASE Http!Disconnect
      BY <2>8 DEF Http!Disconnect, MultiInv
    <2>9. CASE \/ Http!RequestTimeout \/ Http!HandleJson \/ Http!BatchItem
               \/ Http!List \/ Http!Live \/ Http!Ready
      BY <1>3, <2>9 DEF Http!RequestTimeout, Http!TimeoutApplies, Http!HandleJson, Http!BatchItem,
         Http!List, Http!Live, Http!Ready, HandlerInv, RouteInv
    <2>10. CASE Http!NextField
      <3> PICK f : f = request.fields[pos + 1]
        OBVIOUS
      <3>1. /\ at = "field" /\ parts' = s /\ envelope' = e
            /\ p \in 0..L /\ PartsFirst(s, p) /\ EnvelopeFirst(e, p)
        BY <1>3, <2>10, NextFieldCases DEF MultiInv
      <3>2. CASE p = L /\ (~request.parses \/ e = None) /\ Http!Fail("BadRequestRaw")
        <4>1. ~ProperForm
          BY <2>1, <3>1, <3>2 DEF ProperForm, EnvelopeFirst, Upto, EnvelopeFields, FieldsNamed
        <4> QED
          BY <2>3, <2>4, <3>2, <4>1
      <3>3. CASE p = L /\ request.parses /\ e # None /\ Http!Submit(Http!core_into_submit_input(e, s))
        <4>1. CASE Http!IsErr(Http!core_into_submit_input(e, s))
          <5>1. Http!IsErr(JsonInput)
            <6>1. JsonForm.envelope = e
              BY <2>1, <3>1, <3>3, JsonEnvelope
            <6> QED
              BY <2>1, <4>1, <6>1, JsonRefusals
          <5>2. at' = "answered"
            BY <2>3, <3>3, <4>1 DEF Http!Submit
          <5> QED
            BY <2>4, <5>1, <5>2
        <4>2. CASE ~Http!IsErr(Http!core_into_submit_input(e, s))
          <5> PICK i : i = Http!core_into_submit_input(e, s)
            OBVIOUS
          <5>1. at' = "execute" /\ input' = i
            BY <3>3, <4>2 DEF Http!Submit
          <5>2. JsonInput = i /\ ProperForm
            BY <2>1, <3>1, <3>3, <4>2, JsonSubmitsTheSame
          <5>3. i = [envelope |-> e, attachments |-> s]
            BY <4>2, RefusalsOfEnvelopes
          <5>4. ~Http!HasRemote(i)
            <6>1. \A k \in DOMAIN s : s[k].from # "remote"
              <7>1. \A k \in 1..Len(s) : s[k] \in Parcels
                <8> HIDE DEF Parcels
                <8> QED
                  BY <2>1
              <7> QED
                BY <2>1, <7>1 DEF Parcels
            <6> QED
              BY <5>3, <6>1 DEF Http!HasRemote
          <5> QED
            BY <1>1, <2>2, <5>1, <5>2, <5>4 DEF MultiInv, Http!HasRemote
        <4> QED
          BY <4>1, <4>2
      <3>4. CASE p < L /\ pos' = p + 1
        <4> PICK q : q = p + 1
          OBVIOUS
        <4>1. q \in 1..L /\ q \in Nat /\ q - 1 = p /\ f = request.fields[q] /\ q \in 0..L
          BY <2>1, <3>4
        <4>2. f.size \in Nat
          BY <2>1, <4>1
        <4>3. ASSUME NEW limit \in Nat, at' = "read", field' = Http!NewReader(f.size, limit),
                     f.name \in {"envelope", "attachment"}, limit = SizeLimit(f.name),
                     f.name = "attachment" => f.filename
              PROVE  MultiInv'
          <5> PICK x : x = Http!NewReader(f.size, limit)
            OBVIOUS
          <5>1. /\ x.left = f.size /\ x.remaining = limit /\ x.buf = 0 /\ ~x.exhausted
            BY <4>2, NewReaders
          <5>2. ReadsField(x, q)
            BY <4>1, <4>2, <4>3, <5>1 DEF ReadsField
          <5> QED
            BY <2>6, <3>1, <3>4, <4>1, <4>3, <5>2
        <4>4. CASE f.name = "envelope" /\ at' = "read" /\ field' = Http!NewReader(f.size, MAX_ENVELOPE_BYTES)
          BY <4>3, <4>4, LimitsAreNumbers DEF SizeLimit
        <4>5. CASE f.name = "attachment" /\ f.filename
                   /\ at' = "read" /\ field' = Http!NewReader(f.size, MAX_ATTACHMENT_BYTES)
          BY <4>3, <4>5, LimitsAreNumbers DEF SizeLimit
        <4>6. CASE f.name = "attachment" /\ Len(s) >= MAX_ATTACHMENTS_PER_EMAIL /\ Http!Fail("BadRequestRaw")
          <5>1. q \in ParcelFields
            BY <4>1, <4>6 DEF ParcelFields, FieldsNamed
          <5>2. Http!IsErr(JsonInput)
            BY <2>1, <3>1, <3>4, <4>1, <4>6, <5>1, TooManyAreRefused
          <5> QED
            BY <2>3, <2>4, <4>6, <5>2
        <4>7. CASE f.name = "attachment" /\ ~f.filename /\ Http!Fail("BadRequestRaw")
          <5>1. ~ProperForm
            BY <2>1, <4>1, <4>7 DEF ProperForm, Http!Proper
          <5> QED
            BY <2>3, <2>4, <4>7, <5>1
        <4>8. CASE f.name \notin {"envelope", "attachment"} /\ at' = at
          <5>1. q \notin ParcelFields /\ q \notin EnvelopeFields
            BY <4>1, <4>8 DEF ParcelFields, EnvelopeFields, FieldsNamed
          <5>2. PartsFirst(s, q) /\ EnvelopeFirst(e, q)
            BY <2>1, <3>1, <5>1, SkippedIsRead
          <5> QED
            BY <2>5, <3>1, <3>4, <4>1, <4>8, <5>2
        <4> QED
          BY <2>10, <3>4, <4>4, <4>5, <4>6, <4>7, <4>8, NextFieldCases
      <3> QED
        BY <2>10, <3>2, <3>3, <3>4, NextFieldCases
    <2>11. CASE Http!ReadField
      <3> PICK x : x = field'
        OBVIOUS
      <3>1. /\ at = "read" /\ at' = "read" /\ pos' = p /\ parts' = s /\ envelope' = e
            /\ p \in 1..L /\ PartsFirst(s, p - 1) /\ EnvelopeFirst(e, p - 1) /\ ReadsField(r, p)
            /\ x \in Http!PollRead(r) /\ ~r.exhausted
        BY <1>3, <2>11 DEF Http!ReadField, MultiInv
      <3>2. /\ x.buf + x.left = r.buf + r.left /\ x.buf + x.remaining = r.buf + r.remaining
            /\ x.exhausted => r.exhausted \/ (x.remaining = 0 /\ x.left > 0)
        BY <2>1, <3>1, ReadsMoveBytes
      <3>3. ReadsField(x, p)
        BY <3>1, <3>2 DEF ReadsField
      <3> QED
        BY <2>6, <3>1, <3>3
    <2>12. CASE Http!FieldDone
      <3> PICK f : f = request.fields[p]
        OBVIOUS
      <3>1. /\ at = "read" /\ pos' = p /\ p \in 1..L /\ o \in Nat /\ o + 1 = p /\ f.size \in Nat
            /\ PartsFirst(s, o) /\ EnvelopeFirst(e, o) /\ ReadsField(r, p) /\ Http!Field = f
        BY <1>3, <2>1, <2>12 DEF Http!FieldDone, Http!Field, MultiInv
      <3>2. /\ r.exhausted /\ ProperForm => Http!IsErr(JsonInput)
            /\ ~r.exhausted /\ r.left = 0 => r.buf = f.size /\ r.buf <= SizeLimit(f.name)
        BY <2>1, <3>1, ReadsEnd
      <3>3. CASE Http!Fail("BadRequestRaw") /\ r.exhausted
        BY <2>3, <2>4, <3>2, <3>3
      <3>4. CASE /\ Http!Fail("BadRequestRaw")
                 /\ ~request.parses \/ (f.name = "envelope" /\ f.envelope = None)
        <4>1. ~ProperForm
          BY <2>1, <3>1, <3>4 DEF ProperForm, Http!Proper
        <4> QED
          BY <2>3, <2>4, <3>4, <4>1
      <3>5. CASE /\ ~r.exhausted /\ r.left = 0 /\ f.name = "envelope" /\ f.envelope # None
                 /\ at' = "field" /\ envelope' = f.envelope /\ parts' = s
        <4> PICK d : d = f.envelope
          OBVIOUS
        <4>1. /\ at' = "field" /\ envelope' = d /\ parts' = s
              /\ f.size <= MAX_ENVELOPE_BYTES
          BY <3>2, <3>5 DEF SizeLimit
        <4>2. p \in EnvelopeFields /\ p \notin ParcelFields
          BY <2>1, <3>5 DEF ParcelFields, EnvelopeFields, FieldsNamed
        <4>3. PartsFirst(s, p)
          BY <3>1, <4>2, SkippedIsRead
        <4>4. EnvelopeFirst(d, p)
          BY <3>1, <3>5, <4>1, <4>2, EnvelopeIsRead
        <4>5. PartsFirst(s, p)' /\ EnvelopeFirst(d, p)'
          BY <2>2, <4>3, <4>4
        <4>6. PartsFirst(parts, pos)' /\ EnvelopeFirst(envelope, pos)'
          BY <3>1, <4>1, <4>5
        <4> QED
          BY <1>1, <2>1, <2>2, <3>1, <4>1, <4>6 DEF MultiInv
      <3>6. CASE /\ ~r.exhausted /\ r.left = 0 /\ f.name = "attachment" /\ at' = "field"
                 /\ envelope' = e /\ parts' = Append(s, [from |-> "inline", size |-> r.buf])
        <4> PICK x : x = [from |-> "inline", size |-> r.buf]
          OBVIOUS
        <4> PICK t : t = Append(s, x)
          OBVIOUS
        <4>1. /\ at' = "field" /\ envelope' = e /\ parts' = t /\ r.left = 0
              /\ f.name = "attachment" /\ f.filename
          BY <3>1, <3>6 DEF ReadsField
        <4>2. r.buf = f.size /\ f.size <= MAX_ATTACHMENT_BYTES
          BY <3>2, <3>6, <4>1 DEF SizeLimit
        <4>3. p \notin EnvelopeFields /\ p \in ParcelFields
          BY <2>1, <4>1 DEF ParcelFields, EnvelopeFields, FieldsNamed
        <4>4. EnvelopeFirst(e, p)
          BY <3>1, <4>3, SkippedIsRead
        <4>5. PartsFirst(t, p)
          BY <2>1, <3>1, <4>1, <4>2, <4>3, PartIsRead
        <4>6. PartsFirst(t, p)' /\ EnvelopeFirst(e, p)'
          BY <2>2, <4>4, <4>5
        <4>7. PartsFirst(parts, pos)' /\ EnvelopeFirst(envelope, pos)'
          BY <3>1, <4>1, <4>6
        <4> QED
          BY <1>1, <2>1, <2>2, <3>1, <4>1, <4>7 DEF MultiInv
      <3> QED
        BY <2>12, <3>1, <3>3, <3>4, <3>5, <3>6 DEF Http!FieldDone, Http!Broken
    <2>13. CASE Http!Execute
      <3>1. at = "execute" /\ ~Http!HasRemote(input)
        BY <1>3, <2>13 DEF Http!Execute, MultiInv
      <3>2. CASE at' = "publish"
        BY <3>2 DEF MultiInv
      <3>3. CASE at' # "publish"
        <4>1. PICK error \in {"Persist", "Enqueue", "AttachmentStore"} : Http!Fail(error)
          BY <2>13, <3>1, <3>3 DEF Http!Execute, Http!UseCaseErrors
        <4>2. at' = "answered" /\ response'.status = 500
          BY <4>1 DEF Http!Fail, Http!Respond, Http!into_response
        <4> QED
          BY <4>2 DEF MultiInv
      <3> QED
        BY <3>2, <3>3
    <2>14. CASE Http!Executed
      BY <1>3, <2>14 DEF Http!Executed, Http!Respond, MultiInv
    <2>15. CASE UNCHANGED Http!vars
      <3>1. UNCHANGED <<request, at, pos, envelope, parts, field, input, response>>
        BY <2>15 DEF Http!vars
      <3>2. CASE at = "field"
        BY <1>3, <2>5, <3>1, <3>2, <2>1 DEF MultiInv
      <3>3. CASE at = "read"
        BY <1>3, <2>6, <3>1, <3>3, <2>1 DEF MultiInv
      <3>4. CASE at \notin {"field", "read"}
        BY <1>1, <2>2, <3>1, <3>4 DEF MultiInv, Http!HasRemote
      <3> QED
        BY <3>2, <3>3, <3>4
    <2> QED
      BY <2>7, <2>8, <2>9, <2>10, <2>11, <2>12, <2>13, <2>14, <2>15 DEF Http!Next
  <1> QED
    BY <1>2, <1>3

\* What the runs check of a multipart submission follows from what it has read.
LEMMA MultiFollows ==
  ASSUME MultiInv
  PROVE  Http!MultipartAsJson
  BY DEF MultiInv, Http!MultipartAsJson, ProperForm, JsonInput, JsonForm

\* What the runs check of an accepted submission follows from where its handler is.
LEMMA SubmitFollows ==
  ASSUME SubmitInv
  PROVE  Http!AcceptedIsAnswered
  BY DEF SubmitInv, Http!AcceptedIsAnswered

\* Every request, however its steps and a timeout or a client that hangs up fall: a
\* multipart submission gets what its JSON form would get, a 200 means that a submission
\* was queued and a refusal that it was not, whether or not a failed enqueue took effect,
\* and the results of a batch are those of its e-mails, for all limits.
THEOREM RequestsAreAnswered ==
  Http!Spec => [](Http!TypeOK /\ Http!MultipartAsJson /\ Http!AcceptedIsAnswered /\ Http!BatchPositional)
  <1> DEFINE Inv == HandlerInv /\ SubmitInv /\ BatchInv /\ MultiInv
  <1>1. Http!Init => Inv
    <2> SUFFICES ASSUME Http!Init
                 PROVE  Inv
      OBVIOUS
    <2> USE DEF Http!Init
    <2>1. HandlerInv
      BY LimitsAreNumbers DEF HandlerInv, RouteInv, Http!TypeOK, Http!NoReader
    <2>2. SubmitInv /\ BatchInv /\ MultiInv
      BY DEF SubmitInv, BatchInv, MultiInv
    <2> QED
      BY <2>1, <2>2
  <1>2. Inv /\ [Http!Next]_Http!vars => Inv'
    BY HandlerStep, SubmitStep, BatchStep, MultiStep
  <1>3. Inv => Http!TypeOK /\ Http!MultipartAsJson /\ Http!AcceptedIsAnswered /\ Http!BatchPositional
    BY MultiFollows, SubmitFollows, BatchFollows DEF HandlerInv
  <1> HIDE DEF Inv
  <1> QED
    BY <1>1, <1>2, <1>3, PTL DEF Http!Spec

\* The answers to requests, and what the events listed tell, as the runs check them.
THEOREM AnswersStayTrue == PartsSpec => []AnswersAreTrue
  <1>1. PartsInit => Http!Init /\ Told!Init
    BY DEF PartsInit
  <1>2. [PartsNext]_allVars => [Http!Next]_Http!vars /\ [Told!Next]_Told!vars
    BY DEF PartsNext, allVars, handler, logged, Http!vars, Told!vars
  <1>3. PartsSpec => Http!Spec /\ Told!Spec
    BY <1>1, <1>2, PTL DEF PartsSpec, Http!Spec, Told!Spec
  <1>4. /\ Http!TypeOK /\ Http!MultipartAsJson /\ Http!AcceptedIsAnswered /\ Http!BatchPositional
        /\ Told!TypeOK /\ Told!FoundByWhatItShows /\ Told!FailuresExplained
        => AnswersAreTrue
    BY DEF AnswersAreTrue
  <1> QED
    BY <1>3, <1>4, RequestsAreAnswered, EventsAreTold, PTL
==============================================================================
