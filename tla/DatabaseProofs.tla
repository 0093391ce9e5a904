----------------------------- MODULE DatabaseProofs -----------------------------
(***************************************************************************)
(* Proofs about one database under several processes: the queue on         *)
(* PostgreSQL, transaction by transaction, is the atomic one of QueuePort, *)
(* for any number of e-mails, workers, faults and connections of the pool; *)
(* and releases that start over the database agree, for any number of      *)
(* processes, migrations, rows, faults and stops. What is written of an    *)
(* e-mail is read back as it was meant, for every e-mail and all headers.  *)
(***************************************************************************)
EXTENDS MCDatabase, FiniteSetTheorems, TLAPS

-----------------------------------------------------------------------------
(* The inductive invariant.                                                *)

RowLocked == {"locked", "claimed", "read"}
Holding   == {"hold", "ack", "nack"}

\* FOR UPDATE SKIP LOCKED: at most one transaction has the lock of a row.
LocksAreExclusive == \A e \in Entries : \A v, w \in Locking(e) : v = w

\* The row: a claim hides it, and one that is used up never shows again.
RowInv(e) ==
  /\ email_queue[e].row = "none" => email_queue[e].attempt = 0
  /\ email_queue[e].hidden => Queued(e)
  /\ Visible(e) => email_queue[e].attempt < MaxAttempts

\* The submission: refs before the enqueue, and a row that is queued stays.
SubmitInv(e) ==
  /\ submit[e] \in {"save", "refs", "refs_read", "refs_written", "enqueue"} =>
       email_queue[e].row = "none"
  /\ submit[e] \in {"refs", "refs_read", "refs_written"} => Present(e)
  /\ submit[e] = "enqueue" => emails[e] = "complete"
  /\ Queued(e) => emails[e] = "complete"

EntryInv(e) == RowInv(e) /\ SubmitInv(e)

\* The worker: what it read under the lock is what is stored, and the entry it
\* holds has been claimed.
WorkInv(w) ==
  /\ work[w].at \in RowLocked =>
       Visible(work[w].entry) /\ work[w].attempt = email_queue[work[w].entry].attempt
  /\ work[w].at \in Holding =>
       email_queue[work[w].entry].row # "none" /\ email_queue[work[w].entry].attempt > 0

QueueInv ==
  /\ TypeOK
  /\ LocksAreExclusive
  /\ \A e \in Entries : EntryInv(e)
  /\ \A w \in Workers : WorkInv(w)

-----------------------------------------------------------------------------
(* What a step changes, and what it leaves alone.                          *)

RowRecs  == [row : {"none", "queued", "gone"}, hidden : BOOLEAN,
             attempt : 0..MaxAttempts, place : 0..Cardinality(Entries)]
WorkRecs == [at : {"idle", "hold"} \union OnConn,
             entry : Entries \union {None}, attempt : 0..MaxAttempts]

RowBecomes(e, row, hidden, attempt) ==
  /\ email_queue'[e].row = row
  /\ email_queue'[e].hidden = hidden
  /\ email_queue'[e].attempt = attempt
  /\ \A f \in Entries \ {e} : email_queue'[f] = email_queue[f]
  /\ email_queue' \in [Entries -> RowRecs]

WorkBecomes(w, at, entry, attempt) ==
  /\ work'[w].at = at
  /\ work'[w].entry = entry
  /\ work'[w].attempt = attempt
  /\ \A v \in Workers \ {w} : work'[v] = work[v]
  /\ work' \in [Workers -> WorkRecs]

\* The place of a new row is a position among the rows there are.
LEMMA PlaceBounded ==
  ASSUME NEW F, F \subseteq Entries
  PROVE  Cardinality(F) \in 0..Cardinality(Entries)
  <1>1. IsFiniteSet(Entries)
    BY PostgresAssumption
  <1>2. IsFiniteSet(F) /\ Cardinality(F) <= Cardinality(Entries)
    BY <1>1, FS_Subset
  <1> QED
    BY <1>1, <1>2, FS_CardinalityType

\* The ways in which a statement changes a row.
LEMMA RowEffects ==
  ASSUME TypeOK, NEW e \in Entries
  PROVE  /\ Insert(e) => RowBecomes(e, "queued", FALSE, 0)
         /\ \A h \in BOOLEAN : email_queue' = [email_queue EXCEPT ![e].hidden = h] =>
              RowBecomes(e, email_queue[e].row, h, email_queue[e].attempt)
         /\ email_queue' = [email_queue EXCEPT ![e].row = "gone", ![e].hidden = FALSE] =>
              RowBecomes(e, "gone", FALSE, email_queue[e].attempt)
         /\ email_queue' = [email_queue EXCEPT ![e].hidden = TRUE, ![e].attempt = @ + 1] =>
              (email_queue[e].attempt < MaxAttempts =>
                 RowBecomes(e, email_queue[e].row, TRUE, email_queue[e].attempt + 1))
  <1>t. email_queue \in [Entries -> RowRecs]
    BY DEF TypeOK, RowRecs
  <1>1. ASSUME Insert(e) PROVE RowBecomes(e, "queued", FALSE, 0)
    <2> DEFINE place == Cardinality({f \in Entries : email_queue[f].row # "none"})
    <2>1. place \in 0..Cardinality(Entries) /\ 0 \in 0..MaxAttempts
      BY PlaceBounded, PostgresAssumption
    <2>2. email_queue' = [email_queue EXCEPT ![e] = [NoRow EXCEPT !.row = "queued", !.place = place]]
      BY <1>1 DEF Insert
    <2> HIDE DEF place
    <2> QED
      BY <1>t, <2>1, <2>2 DEF RowBecomes, RowRecs, NoRow
  <1>2. ASSUME NEW h \in BOOLEAN, email_queue' = [email_queue EXCEPT ![e].hidden = h]
        PROVE  RowBecomes(e, email_queue[e].row, h, email_queue[e].attempt)
    BY <1>t, <1>2 DEF RowBecomes, RowRecs
  <1>3. ASSUME email_queue' = [email_queue EXCEPT ![e].row = "gone", ![e].hidden = FALSE]
        PROVE  RowBecomes(e, "gone", FALSE, email_queue[e].attempt)
    BY <1>t, <1>3 DEF RowBecomes, RowRecs
  <1>4. ASSUME email_queue' = [email_queue EXCEPT ![e].hidden = TRUE, ![e].attempt = @ + 1],
               email_queue[e].attempt < MaxAttempts
        PROVE  RowBecomes(e, email_queue[e].row, TRUE, email_queue[e].attempt + 1)
    <2>1. email_queue[e].attempt \in Nat /\ email_queue[e].attempt + 1 \in 0..MaxAttempts
      BY <1>t, <1>4, PostgresAssumption DEF RowRecs
    <2> QED
      BY <1>t, <1>4, <2>1 DEF RowBecomes, RowRecs
  <1> QED
    BY <1>1, <1>2, <1>3, <1>4

\* The ways in which a call changes its worker.
LEMMA WorkEffects ==
  ASSUME TypeOK, NEW w \in Workers
  PROVE  /\ \A at \in OnConn \union {"hold"} : work' = [work EXCEPT ![w].at = at] =>
              WorkBecomes(w, at, work[w].entry, work[w].attempt)
         /\ work' = [work EXCEPT ![w] = Idle] => WorkBecomes(w, "idle", None, 0)
         /\ \A at \in OnConn, e \in Entries, a \in 0..MaxAttempts :
              work' = [work EXCEPT ![w] = [at |-> at, entry |-> e, attempt |-> a]] =>
                WorkBecomes(w, at, e, a)
         /\ \A e \in Entries :
              work' = [work EXCEPT ![w] = [at |-> "hold", entry |-> e, attempt |-> @.attempt + 1]] =>
                (work[w].attempt < MaxAttempts => WorkBecomes(w, "hold", e, work[w].attempt + 1))
  <1>t. work \in [Workers -> WorkRecs]
    BY DEF TypeOK, WorkRecs
  <1>1. ASSUME NEW at \in OnConn \union {"hold"}, work' = [work EXCEPT ![w].at = at]
        PROVE  WorkBecomes(w, at, work[w].entry, work[w].attempt)
    BY <1>t, <1>1 DEF WorkBecomes, WorkRecs
  <1>2. ASSUME work' = [work EXCEPT ![w] = Idle] PROVE WorkBecomes(w, "idle", None, 0)
    BY <1>t, <1>2, PostgresAssumption DEF WorkBecomes, WorkRecs, Idle
  <1>3. ASSUME NEW at \in OnConn, NEW e \in Entries, NEW a \in 0..MaxAttempts,
               work' = [work EXCEPT ![w] = [at |-> at, entry |-> e, attempt |-> a]]
        PROVE  WorkBecomes(w, at, e, a)
    BY <1>t, <1>3 DEF WorkBecomes, WorkRecs
  <1>4. ASSUME NEW e \in Entries,
               work' = [work EXCEPT ![w] = [at |-> "hold", entry |-> e, attempt |-> @.attempt + 1]],
               work[w].attempt < MaxAttempts
        PROVE  WorkBecomes(w, "hold", e, work[w].attempt + 1)
    <2>1. work[w].attempt \in Nat /\ work[w].attempt + 1 \in 0..MaxAttempts
      BY <1>t, <1>4, PostgresAssumption DEF WorkRecs
    <2> QED
      BY <1>t, <1>4, <2>1 DEF WorkBecomes, WorkRecs
  <1> QED
    BY <1>1, <1>2, <1>3, <1>4

\* Workers and submissions that have a connection.
BusyWorkers == {w \in Workers : work[w].at \in OnConn}
BusySubmits == {e \in Entries : submit[e] \in {"refs_read", "refs_written"}}

\* A set of workers or of e-mails is finite, and one element adds at most one.
LEMMA Counts ==
  ASSUME NEW S, IsFiniteSet(S), NEW T, NEW x
  PROVE  /\ Cardinality(S) \in Nat
         /\ T \subseteq S => Cardinality(T) \in Nat /\ Cardinality(T) <= Cardinality(S)
         /\ T \subseteq S \union {x} =>
              Cardinality(T) \in Nat /\ Cardinality(T) <= Cardinality(S) + 1
  <1>1. Cardinality(S) \in Nat
    BY FS_CardinalityType
  <1>2. ASSUME T \subseteq S
        PROVE  Cardinality(T) \in Nat /\ Cardinality(T) <= Cardinality(S)
    <2>1. IsFiniteSet(T) /\ Cardinality(T) <= Cardinality(S)
      BY <1>2, FS_Subset
    <2> QED
      BY <2>1, FS_CardinalityType
  <1>3. ASSUME T \subseteq S \union {x}
        PROVE  Cardinality(T) \in Nat /\ Cardinality(T) <= Cardinality(S) + 1
    <2>1. /\ IsFiniteSet(S \union {x})
          /\ Cardinality(S \union {x}) = IF x \in S THEN Cardinality(S) ELSE Cardinality(S) + 1
      BY FS_AddElement
    <2>2. IsFiniteSet(T) /\ Cardinality(T) <= Cardinality(S \union {x})
      BY <1>3, <2>1, FS_Subset
    <2>3. Cardinality(T) \in Nat
      BY <2>2, FS_CardinalityType
    <2> QED
      BY <1>1, <2>1, <2>2, <2>3
  <1> QED
    BY <1>1, <1>2, <1>3

\* The pool hands out a connection only when one is free: a call gives back the
\* one it has before it asks for the next.
LEMMA PoolBounded ==
  ASSUME TypeOK, NEW x,
         \/ BusyWorkers' \subseteq BusyWorkers /\ BusySubmits' \subseteq BusySubmits
         \/ Free /\ BusyWorkers' \subseteq BusyWorkers \union {x}
                 /\ BusySubmits' \subseteq BusySubmits
         \/ Free /\ BusyWorkers' \subseteq BusyWorkers
                 /\ BusySubmits' \subseteq BusySubmits \union {x}
  PROVE  Used' <= Connections
  <1>1. IsFiniteSet(BusyWorkers) /\ IsFiniteSet(BusySubmits)
    BY PostgresAssumption, FS_Subset DEF BusyWorkers, BusySubmits
  <1>2. /\ Used = Cardinality(BusyWorkers) + Cardinality(BusySubmits)
        /\ Used' = Cardinality(BusyWorkers') + Cardinality(BusySubmits')
    BY DEF Used, BusyWorkers, BusySubmits
  <1> DEFINE W == Cardinality(BusyWorkers)   S == Cardinality(BusySubmits)
             WW == Cardinality(BusyWorkers') SS == Cardinality(BusySubmits')
  <1>3. /\ W \in Nat /\ S \in Nat
        /\ BusyWorkers' \subseteq BusyWorkers => WW \in Nat /\ WW <= W
        /\ BusySubmits' \subseteq BusySubmits => SS \in Nat /\ SS <= S
        /\ BusyWorkers' \subseteq BusyWorkers \union {x} => WW \in Nat /\ WW <= W + 1
        /\ BusySubmits' \subseteq BusySubmits \union {x} => SS \in Nat /\ SS <= S + 1
    BY <1>1, Counts
  <1>4. W + S <= Connections /\ Connections \in Nat /\ (Free => W + S < Connections)
    BY <1>2, PostgresAssumption DEF TypeOK, Free
  <1>5. WW + SS <= Connections
    <2> HIDE DEF W, S, WW, SS
    <2> QED
      BY <1>3, <1>4
  <1> QED
    BY <1>2, <1>5

\* The bound of the model on faults.
LEMMA FaultsBounded == TypeOK /\ (Fault \/ NoFault) => faults' \in 0..MaxFaults
  BY PostgresAssumption DEF TypeOK, Fault, NoFault

\* A step of the submission of e, or of the clock, that leaves the row of e alone
\* while it shows: what is left to show is about e.
LEMMA SubmissionKeeps ==
  ASSUME QueueInv, NEW e \in Entries, UNCHANGED work,
         emails' \in [Entries -> {"none", "saved", "complete", "deleted"}],
         submit' \in [Entries -> {"save", "refs", "refs_read", "refs_written", "enqueue",
                                  "undo", "done"}],
         email_queue' \in [Entries -> RowRecs],
         faults' \in 0..MaxFaults, Used' <= Connections,
         \A f \in Entries \ {e} :
           emails'[f] = emails[f] /\ submit'[f] = submit[f] /\ email_queue'[f] = email_queue[f],
         Visible(e) => email_queue'[e] = email_queue[e],
         email_queue[e].row # "none" =>
           email_queue'[e].row # "none" /\ email_queue'[e].attempt = email_queue[e].attempt,
         EntryInv(e)'
  PROVE  QueueInv'
  <1>1. TypeOK'
    BY DEF QueueInv, TypeOK, RowRecs
  <1>2. LocksAreExclusive'
    BY DEF QueueInv, LocksAreExclusive, Locking
  <1>3. ASSUME NEW f \in Entries \ {e} PROVE EntryInv(f)'
    BY DEF QueueInv, EntryInv, RowInv, SubmitInv, Visible, Queued, Present
  <1>4. ASSUME NEW w \in Workers PROVE WorkInv(w)'
    <2>1. WorkInv(w) /\ (work[w].at \in RowLocked \union Holding => work[w].entry \in Entries)
      BY DEF QueueInv, TypeOK, RowLocked, Holding
    <2>2. CASE work[w].entry = e
      BY <2>1, <2>2 DEF WorkInv, Visible, Queued
    <2>3. CASE work[w].entry # e
      BY <2>1, <2>3 DEF WorkInv, Visible, Queued
    <2> QED
      BY <2>2, <2>3
  <1> QED
    BY <1>1, <1>2, <1>3, <1>4 DEF QueueInv

\* A step of worker w that touches no row but that of e, and that one only when no
\* other transaction has it: what is left to show is about w and e.
LEMMA WorkerKeeps ==
  ASSUME QueueInv, NEW w \in Workers, NEW e \in Entries, NEW at, NEW entry, NEW a,
         WorkBecomes(w, at, entry, a), UNCHANGED <<emails, submit>>,
         email_queue' \in [Entries -> RowRecs],
         faults' \in 0..MaxFaults, Used' <= Connections,
         entry = None <=> at \in {"idle", "begun"},
         \A f \in Entries \ {e} : email_queue'[f] = email_queue[f],
         \/ email_queue'[e] = email_queue[e]
         \/ /\ Locking(e) \ {w} = {}
            /\ email_queue[e].row # "none" => email_queue'[e].row # "none"
            /\ email_queue'[e].attempt >= email_queue[e].attempt,
         at \in InTx =>
           \/ entry = None
           \/ entry = work[w].entry /\ work[w].at \in InTx
           \/ Locking(entry) = {},
         EntryInv(e)', WorkInv(w)'
  PROVE  QueueInv'
  <1>1. TypeOK'
    BY DEF QueueInv, TypeOK, RowRecs, WorkRecs, WorkBecomes
  <1>2. LocksAreExclusive'
    <2> SUFFICES ASSUME NEW f \in Entries, NEW u \in Workers, NEW v \in Workers,
                        work'[u].entry = f, work'[u].at \in InTx,
                        work'[v].entry = f, work'[v].at \in InTx
                 PROVE  u = v
      BY DEF LocksAreExclusive, Locking
    <2>1. f # None
      BY PostgresAssumption
    <2>2. \A x \in Workers : work[x].entry = f /\ work[x].at \in InTx => x \in Locking(f)
      BY DEF Locking
    <2> QED
      BY <2>1, <2>2 DEF QueueInv, LocksAreExclusive, WorkBecomes
  <1>3. ASSUME NEW f \in Entries \ {e} PROVE EntryInv(f)'
    BY DEF QueueInv, EntryInv, RowInv, SubmitInv, Visible, Queued, Present
  <1>4. ASSUME NEW v \in Workers \ {w} PROVE WorkInv(v)'
    <2>1. /\ WorkInv(v) /\ work'[v] = work[v]
          /\ work[v].at \in RowLocked \union Holding => work[v].entry \in Entries
      BY DEF QueueInv, TypeOK, RowLocked, Holding, WorkBecomes
    <2>2. CASE work[v].entry = e /\ work[v].at \in RowLocked
      <3>1. v \in Locking(e) \ {w}
        BY <2>2 DEF Locking, RowLocked, InTx
      <3>2. email_queue'[e] = email_queue[e]
        BY <3>1
      <3> QED
        BY <2>1, <2>2, <3>2 DEF WorkInv, Visible, Queued, RowLocked, Holding
    <2>3. CASE work[v].entry = e /\ work[v].at \notin RowLocked
      <3>1. email_queue[e].attempt \in Nat /\ email_queue'[e].attempt \in Nat
        BY DEF QueueInv, TypeOK, RowRecs
      <3> QED
        BY <2>1, <2>3, <3>1 DEF WorkInv
    <2>4. CASE work[v].entry # e
      BY <2>1, <2>4 DEF WorkInv, Visible, Queued
    <2> QED
      BY <2>2, <2>3, <2>4
  <1> QED
    BY <1>1, <1>2, <1>3, <1>4 DEF QueueInv

-----------------------------------------------------------------------------
(* The steps.                                                              *)

\* What is known before a step of the submission of e.
LEMMA KnownOfEntry ==
  ASSUME QueueInv, NEW e \in Entries
  PROVE  /\ TypeOK /\ EntryInv(e)
         /\ emails \in [Entries -> {"none", "saved", "complete", "deleted"}]
         /\ submit \in [Entries -> {"save", "refs", "refs_read", "refs_written", "enqueue",
                                    "undo", "done"}]
         /\ email_queue \in [Entries -> RowRecs]
         /\ email_queue[e].row \in {"none", "queued", "gone"}
         /\ email_queue[e].hidden \in BOOLEAN
         /\ email_queue[e].attempt \in Nat /\ email_queue[e].attempt <= MaxAttempts
         /\ faults \in 0..MaxFaults
  BY PostgresAssumption DEF QueueInv, TypeOK, RowRecs

\* A submission, whichever of its statements fails.
LEMMA SubmissionNext ==
  ASSUME QueueInv, NEW e \in Entries, Submission(e) \/ RollbackRefs(e) \/ Lapse(e)
  PROVE  QueueInv'
  <1>w. UNCHANGED work
    BY DEF Submission, Save, ReadRefs, WriteRefs, CommitRefs, Enqueue, Undo, RollbackRefs, Lapse
  <1>f. faults' \in 0..MaxFaults
    BY KnownOfEntry, FaultsBounded
    DEF Submission, Save, ReadRefs, WriteRefs, CommitRefs, Enqueue, Undo, RollbackRefs, Lapse,
        Fault, NoFault
  <1>b. BusyWorkers' = BusyWorkers
    BY <1>w DEF BusyWorkers
  <1> DEFINE Steps(email, place) ==
        /\ emails' = [emails EXCEPT ![e] = email]
        /\ submit' = [submit EXCEPT ![e] = place]
  <1>q. ASSUME UNCHANGED email_queue, EntryInv(e)', Used' <= Connections,
               NEW email \in {"none", "saved", "complete", "deleted"},
               NEW place \in {"save", "refs", "refs_read", "refs_written", "enqueue", "undo", "done"},
               Steps(email, place)
        PROVE  QueueInv'
    BY <1>w, <1>f, <1>q, KnownOfEntry, SubmissionKeeps
  <1>u. UNCHANGED emails => emails' = [emails EXCEPT ![e] = emails[e]]
    BY KnownOfEntry
  <1>1. CASE Save(e)
    <2>1. /\ Steps("saved", "refs") /\ UNCHANGED email_queue
          /\ submit[e] = "save" /\ emails'[e] = "saved" /\ submit'[e] = "refs"
      BY <1>1, KnownOfEntry DEF Save
    <2>2. BusySubmits' \subseteq BusySubmits
      BY <1>1, KnownOfEntry DEF Save, BusySubmits
    <2>3. EntryInv(e)'
      BY <2>1, KnownOfEntry DEF EntryInv, RowInv, SubmitInv, Visible, Queued, Present
    <2> QED
      BY <1>b, <1>q, <2>1, <2>2, <2>3, KnownOfEntry, PoolBounded
  <1>2. CASE ReadRefs(e)
    <2>1. PICK place \in {"refs_read", "undo"} :
            /\ Steps(emails[e], place) /\ UNCHANGED <<emails, email_queue>>
            /\ submit[e] = "refs" /\ submit'[e] = place /\ Free
      BY <1>2, <1>u, KnownOfEntry DEF ReadRefs
    <2>2. BusySubmits' \subseteq BusySubmits \union {e}
      BY <2>1 DEF BusySubmits
    <2>3. EntryInv(e)'
      BY <2>1, KnownOfEntry DEF EntryInv, RowInv, SubmitInv, Visible, Queued, Present
    <2> QED
      BY <1>b, <1>q, <2>1, <2>2, <2>3, KnownOfEntry, PoolBounded
  <1>3. CASE WriteRefs(e)
    <2>1. /\ Steps(emails[e], "refs_written") /\ UNCHANGED <<emails, email_queue>>
          /\ submit[e] = "refs_read" /\ submit'[e] = "refs_written"
      BY <1>3, <1>u, KnownOfEntry DEF WriteRefs
    <2>2. BusySubmits' \subseteq BusySubmits
      BY <2>1 DEF BusySubmits
    <2>3. EntryInv(e)'
      BY <2>1, KnownOfEntry DEF EntryInv, RowInv, SubmitInv, Visible, Queued, Present
    <2> QED
      BY <1>b, <1>q, <2>1, <2>2, <2>3, KnownOfEntry, PoolBounded
  <1>4. CASE CommitRefs(e)
    <2>1. PICK place \in {"enqueue", "undo"} :
            /\ Steps("complete", place) /\ UNCHANGED email_queue
            /\ submit[e] = "refs_written" /\ submit'[e] = place /\ emails'[e] = "complete"
      BY <1>4, KnownOfEntry DEF CommitRefs
    <2>2. BusySubmits' \subseteq BusySubmits
      BY <2>1 DEF BusySubmits
    <2>3. EntryInv(e)'
      BY <2>1, KnownOfEntry DEF EntryInv, RowInv, SubmitInv, Visible, Queued, Present
    <2> QED
      BY <1>b, <1>q, <2>1, <2>2, <2>3, KnownOfEntry, PoolBounded
  <1>5. CASE RollbackRefs(e)
    <2>1. /\ Steps(emails[e], "undo") /\ UNCHANGED <<emails, email_queue>>
          /\ submit[e] \in {"refs_read", "refs_written"} /\ submit'[e] = "undo"
      BY <1>5, <1>u, KnownOfEntry DEF RollbackRefs
    <2>2. BusySubmits' \subseteq BusySubmits
      BY <2>1 DEF BusySubmits
    <2>3. EntryInv(e)'
      BY <2>1, KnownOfEntry DEF EntryInv, RowInv, SubmitInv, Visible, Queued, Present
    <2> QED
      BY <1>b, <1>q, <2>1, <2>2, <2>3, KnownOfEntry, PoolBounded
  <1>6. CASE Undo(e)
    <2>1. /\ submit[e] = "undo" /\ submit' = [submit EXCEPT ![e] = "done"]
          /\ UNCHANGED email_queue
          /\ \/ UNCHANGED emails
             \/ emails' = [emails EXCEPT ![e] = "deleted"] /\ ~Queued(e)
      BY <1>6 DEF Undo, Restricts
    <2>2. PICK email \in {"none", "saved", "complete", "deleted"} :
            /\ Steps(email, "done") /\ emails'[e] = email /\ submit'[e] = "done"
            /\ Queued(e) => email = emails[e]
      BY <1>u, <2>1, KnownOfEntry
    <2>3. BusySubmits' \subseteq BusySubmits
      BY <2>2 DEF BusySubmits
    <2>4. EntryInv(e)'
      BY <2>1, <2>2, KnownOfEntry DEF EntryInv, RowInv, SubmitInv, Visible, Queued, Present
    <2> QED
      BY <1>b, <1>q, <2>1, <2>2, <2>3, <2>4, KnownOfEntry, PoolBounded
  <1>7. CASE Enqueue(e)
    <2>1. /\ submit[e] = "enqueue" /\ UNCHANGED emails
          /\ Insert(e) \/ UNCHANGED email_queue
      BY <1>7 DEF Enqueue
    <2>2. PICK place \in {"done", "undo"} : submit' = [submit EXCEPT ![e] = place]
      BY <1>7 DEF Enqueue
    <2>3. Insert(e) => RowBecomes(e, "queued", FALSE, 0)
      BY KnownOfEntry, RowEffects
    <2>4. /\ submit'[e] = place /\ submit' \in [Entries -> {"save", "refs", "refs_read",
               "refs_written", "enqueue", "undo", "done"}]
          /\ \A f \in Entries \ {e} : submit'[f] = submit[f]
      BY <2>2, KnownOfEntry
    <2>5. BusySubmits' \subseteq BusySubmits
      BY <2>4 DEF BusySubmits
    <2>6. EntryInv(e)'
      BY <2>1, <2>3, <2>4, KnownOfEntry, PostgresAssumption
      DEF EntryInv, RowInv, SubmitInv, Visible, Queued, Present, RowBecomes
    <2>7. email_queue[e].row = "none" /\ ~Visible(e)
      BY <2>1, KnownOfEntry DEF EntryInv, SubmitInv, Visible, Queued
    <2>8. /\ email_queue' \in [Entries -> RowRecs]
          /\ \A f \in Entries \ {e} : email_queue'[f] = email_queue[f]
      BY <2>1, <2>3, KnownOfEntry DEF RowBecomes
    <2>9. Used' <= Connections
      BY <1>b, <2>5, KnownOfEntry, PoolBounded
    <2>10. emails' \in [Entries -> {"none", "saved", "complete", "deleted"}]
      BY <2>1, KnownOfEntry
    <2> QED
      BY <1>w, <1>f, <2>1, <2>4, <2>6, <2>7, <2>8, <2>9, <2>10, SubmissionKeeps
  <1>8. CASE Lapse(e)
    <2>1. /\ Queued(e) /\ email_queue[e].hidden /\ email_queue[e].attempt < MaxAttempts
          /\ UNCHANGED <<emails, submit>>
      BY <1>8 DEF Lapse
    <2>2. RowBecomes(e, email_queue[e].row, FALSE, email_queue[e].attempt)
      BY <1>8, KnownOfEntry, RowEffects DEF Lapse
    <2>3. BusySubmits' \subseteq BusySubmits
      BY <2>1 DEF BusySubmits
    <2>4. EntryInv(e)'
      BY <2>1, <2>2, KnownOfEntry
      DEF EntryInv, RowInv, SubmitInv, Visible, Queued, Present, RowBecomes
    <2>5. Used' <= Connections
      BY <1>b, <2>3, KnownOfEntry, PoolBounded
    <2>6. ~Visible(e)
      BY <2>1 DEF Visible
    <2> QED
      BY <1>w, <1>f, <2>1, <2>2, <2>4, <2>5, <2>6, KnownOfEntry, SubmissionKeeps
      DEF RowBecomes, Queued
  <1> QED
    BY <1>1, <1>2, <1>3, <1>4, <1>5, <1>6, <1>7, <1>8 DEF Submission

\* What is known before a step of worker w.
LEMMA KnownOfWorker ==
  ASSUME QueueInv, NEW w \in Workers
  PROVE  /\ TypeOK /\ WorkInv(w)
         /\ work \in [Workers -> WorkRecs] /\ email_queue \in [Entries -> RowRecs]
         /\ work[w].entry \in Entries \union {None}
         /\ work[w].entry = None <=> work[w].at \in {"idle", "begun"}
         /\ work[w].attempt \in Nat /\ work[w].attempt <= MaxAttempts
         /\ work[w].at \in InTx /\ work[w].entry \in Entries =>
              Locking(work[w].entry) \ {w} = {}
  BY PostgresAssumption DEF QueueInv, TypeOK, RowRecs, WorkRecs, LocksAreExclusive, Locking

\* A step of worker w that writes no row.
LEMMA QuietWorker ==
  ASSUME QueueInv, NEW w \in Workers, NEW at, NEW entry, NEW a,
         WorkBecomes(w, at, entry, a), UNCHANGED <<emails, email_queue, submit>>,
         Fault \/ NoFault, at \in OnConn => Free \/ work[w].at \in OnConn,
         entry = None <=> at \in {"idle", "begun"},
         at \in InTx =>
           \/ entry = None
           \/ entry = work[w].entry /\ work[w].at \in InTx
           \/ Locking(entry) = {},
         WorkInv(w)'
  PROVE  QueueInv'
  <1>1. BusySubmits' = BusySubmits
    BY DEF BusySubmits
  <1>2. /\ BusyWorkers' \subseteq BusyWorkers \union {w}
        /\ at \notin OnConn \/ work[w].at \in OnConn => BusyWorkers' \subseteq BusyWorkers
    BY DEF BusyWorkers, WorkBecomes
  <1>3. Used' <= Connections
    BY <1>1, <1>2, KnownOfWorker, PoolBounded
  <1>4. faults' \in 0..MaxFaults
    BY KnownOfWorker, FaultsBounded
  <1>5. email_queue' \in [Entries -> RowRecs]
    BY KnownOfWorker
  <1>6. \A e \in Entries : EntryInv(e)'
    BY DEF QueueInv, EntryInv, RowInv, SubmitInv, Visible, Queued, Present
  <1>7. CASE Entries = {}
    <2>1. TypeOK'
      BY <1>3, <1>4, <1>5 DEF QueueInv, TypeOK, RowRecs, WorkRecs, WorkBecomes
    <2>2. \A v \in Workers : WorkInv(v)'
      BY DEF QueueInv, WorkInv, WorkBecomes, Visible, Queued
    <2> QED
      BY <1>6, <1>7, <2>1, <2>2 DEF QueueInv, LocksAreExclusive
  <1>8. ASSUME NEW e \in Entries PROVE QueueInv'
    BY <1>3, <1>4, <1>5, <1>6, <1>8, WorkerKeeps
  <1> QED
    BY <1>7, <1>8

\* A statement of worker w on the row of the entry it has.
LEMMA WritingWorker ==
  ASSUME QueueInv, NEW w \in Workers, NEW at, NEW entry, NEW a,
         NEW e \in Entries, e = work[w].entry,
         WorkBecomes(w, at, entry, a), UNCHANGED <<emails, submit>>, Fault \/ NoFault,
         at \in {"idle", "hold"}, entry = None <=> at = "idle",
         NEW row, NEW hidden, NEW attempt, RowBecomes(e, row, hidden, attempt),
         Locking(e) \ {w} = {}, row # "none", attempt >= email_queue[e].attempt,
         EntryInv(e)', WorkInv(w)'
  PROVE  QueueInv'
  <1>1. BusySubmits' = BusySubmits /\ at \notin OnConn /\ at \notin InTx
    BY DEF BusySubmits, OnConn, InTx
  <1>2. BusyWorkers' \subseteq BusyWorkers
    BY <1>1 DEF BusyWorkers, WorkBecomes
  <1>3. Used' <= Connections
    BY <1>1, <1>2, KnownOfWorker, PoolBounded
  <1>4. faults' \in 0..MaxFaults
    BY KnownOfWorker, FaultsBounded
  <1>5. entry = None <=> at \in {"idle", "begun"}
    OBVIOUS
  <1> QED
    BY <1>1, <1>3, <1>4, <1>5, WorkerKeeps DEF RowBecomes

\* Where a call has the row lock.
LEMMA Places ==
  /\ RowLocked \subseteq InTx /\ InTx \subseteq OnConn
  /\ OnConn = {"begun", "ack", "nack"} \union RowLocked
  /\ "idle" \notin OnConn /\ "hold" \notin OnConn /\ "begun" \notin RowLocked
  /\ RowLocked \intersect Holding = {}
  BY DEF RowLocked, InTx, OnConn, Holding

\* The dequeue transaction up to its end, and the end without a commit.
LEMMA TransactionNext ==
  ASSUME QueueInv, NEW w \in Workers,
         \/ Begin(w) \/ (\E e \in Entries : Lock(w, e)) \/ Empty(w) \/ Claim(w) \/ Read(w)
         \/ Rollback(w) \/ \E a \in {"ack", "nack"} : Answer(w, a)
  PROVE  QueueInv'
  <1>0. UNCHANGED <<emails, email_queue, submit>> /\ (Fault \/ NoFault)
    BY DEF Begin, Lock, Empty, Claim, Read, Rollback, Answer, NoFault
  <1>1. CASE Begin(w)
    <2>1. WorkBecomes(w, "begun", work[w].entry, work[w].attempt)
      BY <1>1, Places, KnownOfWorker, WorkEffects DEF Begin
    <2>2. work[w].entry = None /\ Free
      BY <1>1, KnownOfWorker DEF Begin
    <2>3. WorkInv(w)'
      BY <2>1, Places DEF WorkInv, WorkBecomes, Holding
    <2> QED
      BY <1>0, <2>1, <2>2, <2>3, QuietWorker
  <1>2. ASSUME NEW e \in Entries, Lock(w, e) PROVE QueueInv'
    <2>1. WorkBecomes(w, "locked", e, email_queue[e].attempt)
      <3>1. email_queue[e].attempt \in 0..MaxAttempts /\ "locked" \in OnConn
        BY KnownOfWorker DEF RowRecs, OnConn, InTx
      <3> QED
        BY <1>2, <3>1, KnownOfWorker, WorkEffects DEF Lock
    <2>2. /\ Visible(e) /\ Locking(e) = {} /\ work[w].at \in OnConn /\ e # None
          /\ UNCHANGED email_queue
      BY <1>2, Places, PostgresAssumption DEF Lock
    <2>3. WorkInv(w)'
      BY <2>1, <2>2 DEF WorkInv, WorkBecomes, Holding, RowLocked, Visible, Queued
    <2> QED
      BY <1>0, <2>1, <2>2, <2>3, QuietWorker
  <1>3. CASE Empty(w) \/ Rollback(w)
    <2>1. WorkBecomes(w, "idle", None, 0)
      BY <1>3, KnownOfWorker, WorkEffects DEF Empty, Rollback
    <2>2. WorkInv(w)'
      BY <2>1 DEF WorkInv, WorkBecomes, Holding, RowLocked
    <2> QED
      BY <1>0, <2>1, <2>2, Places, QuietWorker
  <1>4. ASSUME NEW from \in RowLocked, NEW to \in RowLocked, work[w].at = from,
               work' = [work EXCEPT ![w].at = to], UNCHANGED email_queue
        PROVE  QueueInv'
    <2>1. WorkBecomes(w, to, work[w].entry, work[w].attempt)
      BY <1>4, Places, KnownOfWorker, WorkEffects
    <2>2. work[w].entry # None /\ to \notin {"idle", "begun"}
      BY <1>4, KnownOfWorker DEF RowLocked
    <2>3. WorkInv(w)'
      BY <1>4, <2>1, Places, KnownOfWorker DEF WorkInv, WorkBecomes, Visible, Queued
    <2> QED
      BY <1>0, <1>4, <2>1, <2>2, <2>3, Places, QuietWorker
  <1>5. CASE Claim(w) \/ Read(w)
    BY <1>4, <1>5 DEF Claim, Read, RowLocked
  <1>6. ASSUME NEW a \in {"ack", "nack"}, Answer(w, a) PROVE QueueInv'
    <2>1. WorkBecomes(w, a, work[w].entry, work[w].attempt) /\ work[w].at = "hold" /\ Free
      BY <1>6, Places, KnownOfWorker, WorkEffects DEF Answer
    <2>2. work[w].entry # None /\ a \notin InTx
      BY <2>1, KnownOfWorker DEF InTx
    <2>3. WorkInv(w)'
      BY <1>0, <2>1, KnownOfWorker DEF WorkInv, WorkBecomes, Holding, RowLocked
    <2> QED
      BY <1>0, <2>1, <2>2, <2>3, QuietWorker
  <1> QED
    BY <1>1, <1>2, <1>3, <1>5, <1>6

\* What a commit writes: the claim of an entry that was visible and whose e-mail is
\* there, under the number the worker read.
LEMMA CommitEffects ==
  ASSUME QueueInv, NEW w \in Workers, Commit(w), NEW e \in Entries, e = work[w].entry
  PROVE  /\ Visible(e) /\ Present(e) /\ email_queue[e].attempt < MaxAttempts
         /\ work[w].attempt = email_queue[e].attempt
         /\ RowBecomes(e, "queued", TRUE, email_queue[e].attempt + 1)
         /\ \/ WorkBecomes(w, "hold", e, email_queue[e].attempt + 1)
            \/ WorkBecomes(w, "idle", None, 0)
  <1>1. /\ Visible(e) /\ email_queue[e].row = "queued"
        /\ work[w].attempt = email_queue[e].attempt
    BY KnownOfWorker DEF Commit, WorkInv, RowLocked, Visible, Queued
  <1>2. Present(e) /\ email_queue[e].attempt < MaxAttempts
    BY <1>1, KnownOfEntry DEF EntryInv, RowInv, SubmitInv, Visible, Present
  <1>3. email_queue' = [email_queue EXCEPT ![e].hidden = TRUE, ![e].attempt = @ + 1]
    BY <1>2 DEF Commit
  <1>4. RowBecomes(e, "queued", TRUE, email_queue[e].attempt + 1)
    <2>1. TypeOK
      BY KnownOfWorker
    <2>2. RowBecomes(e, email_queue[e].row, TRUE, email_queue[e].attempt + 1)
      BY <1>2, <1>3, <2>1, RowEffects, Zenon
    <2> QED
      BY <1>1, <2>2, Zenon
  <1>5. \/ work' = [work EXCEPT ![w] = [at |-> "hold", entry |-> e, attempt |-> @.attempt + 1]]
        \/ work' = [work EXCEPT ![w] = Idle]
    BY <1>2 DEF Commit
  <1>6. \/ WorkBecomes(w, "hold", e, email_queue[e].attempt + 1)
        \/ WorkBecomes(w, "idle", None, 0)
    BY <1>1, <1>2, <1>5, KnownOfWorker, WorkEffects
  <1> QED
    BY <1>1, <1>2, <1>4, <1>6

\* The commit, and the answers of a worker, which wait for the row.
LEMMA WriteNext ==
  ASSUME QueueInv, NEW w \in Workers, Commit(w) \/ Ack(w) \/ Nack(w)
  PROVE  QueueInv'
  <1>0. UNCHANGED <<emails, submit>> /\ (Fault \/ NoFault)
    BY DEF Commit, Ack, Nack
  <1>1. PICK e \in Entries : e = work[w].entry
    BY KnownOfWorker DEF Commit, Ack, Nack
  <1>2. ASSUME NEW row, NEW hidden, NEW attempt, RowBecomes(e, row, hidden, attempt),
               row # "none", email_queue[e].row # "none", attempt \in Nat, attempt > 0,
               hidden => row = "queued",
               row = "queued" => hidden /\ Queued(e)
        PROVE  EntryInv(e)'
    BY <1>0, <1>2, KnownOfEntry
    DEF EntryInv, RowInv, SubmitInv, Visible, Queued, Present, RowBecomes
  <1>3. CASE Commit(w)
    <2>1. /\ RowBecomes(e, "queued", TRUE, email_queue[e].attempt + 1)
          /\ Queued(e) /\ Locking(e) \ {w} = {}
      BY <1>1, <1>3, CommitEffects, KnownOfWorker DEF Visible, Commit, InTx
    <2>2. /\ email_queue[e].attempt + 1 \in Nat
          /\ email_queue[e].attempt + 1 > 0
          /\ email_queue[e].attempt + 1 >= email_queue[e].attempt
      BY KnownOfEntry
    <2>3. EntryInv(e)'
      BY <1>2, <2>1, <2>2 DEF Queued
    <2>4. CASE WorkBecomes(w, "hold", e, email_queue[e].attempt + 1)
      <3>1. WorkInv(w)'
        BY <2>1, <2>2, <2>4 DEF WorkInv, WorkBecomes, RowBecomes, RowLocked
      <3>2. e # None
        BY PostgresAssumption
      <3> QED
        BY <1>0, <1>1, <2>1, <2>2, <2>3, <2>4, <3>1, <3>2, WritingWorker
    <2>5. CASE WorkBecomes(w, "idle", None, 0)
      <3>1. WorkInv(w)'
        BY <2>5 DEF WorkInv, WorkBecomes, RowLocked, Holding
      <3> QED
        BY <1>0, <1>1, <2>1, <2>2, <2>3, <2>5, <3>1, WritingWorker
    <2> QED
      BY <1>1, <1>3, <2>4, <2>5, CommitEffects
  <1>4. CASE Ack(w) \/ Nack(w)
    <2>1. /\ WorkBecomes(w, "idle", None, 0) /\ Locking(e) \ {w} = {}
          /\ email_queue[e].row # "none" /\ email_queue[e].attempt > 0
      BY <1>1, <1>4, KnownOfWorker, WorkEffects DEF Ack, Nack, WorkInv, Holding
    <2>2. WorkInv(w)'
      BY <2>1 DEF WorkInv, WorkBecomes, RowLocked, Holding
    <2>3. CASE UNCHANGED email_queue
      BY <1>0, <2>1, <2>2, <2>3, Places, QuietWorker
    <2>4. CASE email_queue' = [email_queue EXCEPT ![e].row = "gone", ![e].hidden = FALSE]
      <3>1. RowBecomes(e, "gone", FALSE, email_queue[e].attempt)
        BY <2>4, KnownOfWorker, RowEffects
      <3>2. EntryInv(e)'
        BY <1>2, <2>1, <3>1, KnownOfEntry
      <3>3. email_queue[e].attempt >= email_queue[e].attempt
        BY KnownOfEntry
      <3> QED
        BY <1>0, <1>1, <2>1, <2>2, <3>1, <3>2, <3>3, WritingWorker
    <2>5. CASE email_queue' = [email_queue EXCEPT ![e].hidden = Queued(e)]
      <3>1. PICK h \in BOOLEAN : h = Queued(e)
        BY DEF Queued
      <3>2. RowBecomes(e, email_queue[e].row, h, email_queue[e].attempt)
        BY <2>5, <3>1, KnownOfWorker, RowEffects
      <3>3. EntryInv(e)'
        BY <1>2, <2>1, <3>1, <3>2, KnownOfEntry DEF Queued
      <3>4. email_queue[e].attempt >= email_queue[e].attempt
        BY KnownOfEntry
      <3> QED
        BY <1>0, <1>1, <2>1, <2>2, <3>2, <3>3, <3>4, WritingWorker
    <2> QED
      BY <1>1, <1>4, <2>3, <2>4, <2>5 DEF Ack, Nack
  <1> QED
    BY <1>3, <1>4

-----------------------------------------------------------------------------
(* The theorems.                                                           *)

\* No rows, no submission under way and no worker.
LEMMA QueueInvInit == Init => QueueInv
  <1> SUFFICES ASSUME Init PROVE QueueInv
    OBVIOUS
  <1>1. Used = 0
    <2>1. {w \in Workers : work[w].at \in OnConn} = {}
      BY DEF Init, Idle, OnConn, InTx
    <2>2. {e \in Entries : submit[e] \in {"refs_read", "refs_written"}} = {}
      BY DEF Init
    <2>3. Cardinality({}) = 0
      BY FS_EmptySet
    <2> QED
      BY <2>1, <2>2, <2>3 DEF Used
  <1>2. Cardinality(Entries) \in Nat
    BY PostgresAssumption, FS_CardinalityType
  <1>3. TypeOK
    BY <1>1, <1>2, PostgresAssumption DEF Init, TypeOK, NoRow, Idle
  <1>4. ASSUME NEW e \in Entries PROVE EntryInv(e) /\ Locking(e) = {}
    BY DEF Init, NoRow, Idle, EntryInv, RowInv, SubmitInv, Visible, Queued, Locking, InTx
  <1>5. ASSUME NEW w \in Workers PROVE WorkInv(w)
    BY DEF Init, Idle, WorkInv, RowLocked, Holding
  <1> QED
    BY <1>3, <1>4, <1>5 DEF QueueInv, LocksAreExclusive

\* Every step keeps the invariant.
LEMMA QueueInvNext == QueueInv /\ [Next]_vars => QueueInv'
  <1> SUFFICES ASSUME QueueInv, [Next]_vars PROVE QueueInv'
    OBVIOUS
  <1>1. CASE UNCHANGED vars
    BY <1>1 DEF vars, QueueInv, TypeOK, Used, LocksAreExclusive, Locking, EntryInv, RowInv,
       SubmitInv, WorkInv, Visible, Queued, Present
  <1> QED
    BY <1>1, SubmissionNext, TransactionNext, WriteNext DEF Next, Transaction, Reply

\* The inductive invariant of the transactions, at READ COMMITTED and with faults.
THEOREM PostgresInvariant == Spec => []QueueInv
  BY QueueInvInit, QueueInvNext, PTL DEF Spec

\* The number handed out with an e-mail is the one that the commit stores.
LEMMA CountsAgree ==
  ASSUME QueueInv, [Next]_vars, NEW w \in Workers, work'[w].at = "hold", work[w].at # "hold"
  PROVE  work'[w].attempt = email_queue'[work'[w].entry].attempt
  <1>1. Commit(w)
    <2>1. ASSUME NEW v \in Workers, NEW at, NEW entry, NEW a, WorkBecomes(v, at, entry, a),
                 at # "hold"
          PROVE  FALSE
      BY <2>1 DEF WorkBecomes
    <2>2. ASSUME UNCHANGED work PROVE FALSE
      BY <2>2
    <2>3. ASSUME NEW v \in Workers, NEW at \in OnConn, work' = [work EXCEPT ![v].at = at] PROVE FALSE
      BY <2>1, <2>3, KnownOfWorker, WorkEffects, Places
    <2>4. ASSUME NEW v \in Workers, work' = [work EXCEPT ![v] = Idle] PROVE FALSE
      BY <2>1, <2>4, KnownOfWorker, WorkEffects
    <2>5. ASSUME NEW v \in Workers, NEW e \in Entries, Lock(v, e) PROVE FALSE
      <3>1. email_queue[e].attempt \in 0..MaxAttempts /\ "locked" \in OnConn
        BY KnownOfWorker DEF RowRecs, OnConn, InTx
      <3>2. WorkBecomes(v, "locked", e, email_queue[e].attempt)
        BY <2>5, <3>1, KnownOfWorker, WorkEffects DEF Lock
      <3> QED
        BY <2>1, <3>2
    <2>6. ASSUME NEW v \in Workers, v # w, Commit(v) PROVE FALSE
      <3>1. PICK e \in Entries : e = work[v].entry
        BY <2>6, KnownOfWorker DEF Commit
      <3>2. \E at, entry, a : WorkBecomes(v, at, entry, a)
        BY <2>6, <3>1, CommitEffects
      <3> QED
        BY <2>6, <3>2 DEF WorkBecomes
    <2>7. {"begun", "claimed", "read", "ack", "nack"} \subseteq OnConn
      BY DEF OnConn, InTx
    <2>8. ~UNCHANGED vars /\ \A e \in Entries : ~Submission(e) /\ ~RollbackRefs(e) /\ ~Lapse(e)
      BY <2>2 DEF vars, Submission, Save, ReadRefs, WriteRefs, CommitRefs, Enqueue, Undo,
         RollbackRefs, Lapse
    <2>9. ASSUME NEW v \in Workers PROVE
            /\ ~Begin(v) /\ ~Claim(v) /\ ~Read(v) /\ \A a \in {"ack", "nack"} : ~Answer(v, a)
            /\ ~Empty(v) /\ ~Rollback(v) /\ ~Ack(v) /\ ~Nack(v)
      BY <2>3, <2>4, <2>7 DEF Begin, Claim, Read, Answer, Empty, Rollback, Ack, Nack
    <2> QED
      BY <2>5, <2>6, <2>8, <2>9 DEF Next, Transaction, Reply
  <1>2. PICK e \in Entries : e = work[w].entry
    BY <1>1, KnownOfWorker DEF Commit
  <1>3. /\ RowBecomes(e, "queued", TRUE, email_queue[e].attempt + 1)
        /\ WorkBecomes(w, "hold", e, email_queue[e].attempt + 1)
    BY <1>1, <1>2, CommitEffects DEF WorkBecomes
  <1> QED
    BY <1>3 DEF RowBecomes, WorkBecomes

\* A queued entry has its e-mail with the attachments in place whatever failed on
\* the way, and a worker gets the attempt number that is stored when it gets it.
THEOREM PostgresQueueIsSound == Spec => QueueIsSound
  <1>1. QueueInv => TypeOK /\ QueuedIsComplete
    BY DEF QueueInv, EntryInv, SubmitInv, QueuedIsComplete
  <1> DEFINE Agree == \A w \in Workers :
               work'[w].at = "hold" /\ work[w].at # "hold" =>
                 work'[w].attempt = email_queue'[work'[w].entry].attempt
  <1>2. QueueInv /\ [Next]_vars => [Agree]_vars
    BY CountsAgree
  <1> QED
    BY <1>1, <1>2, PostgresInvariant, PTL DEF Spec, QueueIsSound, HandsOutCount

\* What the port shows of a row that changes.
LEMMA PortStep ==
  ASSUME QueueInv, NEW e \in Entries, NEW row, NEW hidden, NEW attempt,
         RowBecomes(e, row, hidden, attempt)
  PROVE  /\ email_queue[e].row = "none" /\ row = "queued" /\ hidden = FALSE /\ attempt = 0 =>
              Port!Enqueue(e)
         /\ Visible(e) /\ row = "queued" /\ hidden = TRUE
              /\ attempt = email_queue[e].attempt + 1 => Port!Dequeue(e)
         /\ Queued(e) /\ row = "queued" /\ hidden = TRUE
              /\ attempt = email_queue[e].attempt => Port!Nack(e)
         /\ Queued(e) /\ row = "queued" /\ hidden = FALSE
              /\ attempt = email_queue[e].attempt => Port!Reappear(e)
         /\ Queued(e) /\ email_queue[e].attempt > 0 /\ row = "gone" /\ hidden = FALSE
              /\ attempt = email_queue[e].attempt => Port!Ack(e)
  <1> DEFINE entries == [f \in Entries |-> [row |-> email_queue[f].row,
                           hidden |-> email_queue[f].hidden, attempt |-> email_queue[f].attempt]]
             Moved == [f \in Entries |-> IF f = e
                         THEN [row |-> row, hidden |-> hidden, attempt |-> attempt] ELSE entries[f]]
  <1>1. entries' = Moved
    BY DEF RowBecomes
  <1>2. email_queue[e].row = "none" => entries[e] = Port!Absent
    BY KnownOfEntry DEF EntryInv, RowInv, Queued, Port!Absent
  <1>3. email_queue[e].row = "none" /\ row = "queued" /\ hidden = FALSE /\ attempt = 0 =>
          Port!Enqueue(e)
    BY <1>1, <1>2, ZenonT(30) DEF Port!Enqueue, Port!Absent
  <1>4. Visible(e) /\ row = "queued" /\ hidden = TRUE /\ attempt = email_queue[e].attempt + 1 =>
          Port!Dequeue(e)
    <2> SUFFICES ASSUME Visible(e), row = "queued", hidden = TRUE,
                        attempt = email_queue[e].attempt + 1
                 PROVE  Port!Dequeue(e)
      OBVIOUS
    <2>1. entries[e].row = "queued" /\ entries[e].hidden = FALSE
      BY KnownOfEntry DEF Visible, Queued
    <2>2. Moved[e] = [row |-> "queued", hidden |-> TRUE, attempt |-> entries[e].attempt + 1]
      OBVIOUS
    <2>3. [entries EXCEPT ![e].hidden = TRUE, ![e].attempt = @ + 1] = Moved
      BY <2>1, <2>2
    <2>4. entries[e].row = "queued" /\ ~entries[e].hidden /\
          entries' = [entries EXCEPT ![e].hidden = TRUE, ![e].attempt = @ + 1]
      BY <1>1, <2>1, <2>3
    <2> QED
      BY <2>4 DEF Port!Dequeue
  <1>5. Queued(e) /\ row = "queued" /\ hidden = TRUE /\ attempt = email_queue[e].attempt =>
          Port!Nack(e)
    <2> SUFFICES ASSUME Queued(e), row = "queued", hidden = TRUE,
                        attempt = email_queue[e].attempt
                 PROVE  Port!Nack(e)
      OBVIOUS
    <2>1. entries[e].row = "queued"
      BY DEF Queued
    <2>2. Moved[e] = [row |-> "queued", hidden |-> TRUE, attempt |-> entries[e].attempt]
      OBVIOUS
    <2>3. [entries EXCEPT ![e].hidden = TRUE] = Moved
      BY <2>1, <2>2
    <2>4. entries[e].row = "queued" /\ entries' = [entries EXCEPT ![e].hidden = TRUE]
      BY <1>1, <2>1, <2>3
    <2> QED
      BY <2>4 DEF Port!Nack
  <1>6. Queued(e) /\ row = "queued" /\ hidden = FALSE /\ attempt = email_queue[e].attempt =>
          Port!Reappear(e)
    BY <1>1, ZenonT(30) DEF Port!Reappear, Queued
  <1>7. Queued(e) /\ email_queue[e].attempt > 0 /\ row = "gone" /\ hidden = FALSE
          /\ attempt = email_queue[e].attempt => Port!Ack(e)
    BY <1>1 DEF Port!Ack, Queued
  <1> QED
    BY <1>3, <1>4, <1>5, <1>6, <1>7

\* The transactions implement the atomic queue of the port: a commit of the enqueue,
\* the claim, the nack and the ack is that operation, the end of a claim's time is
\* Reappear, and whatever else a transaction does, or rolls back, is a stutter.
THEOREM PostgresImplementsPort == Spec => KeepsPort
  <1> DEFINE Shown == [e \in Entries |-> [row |-> email_queue[e].row,
                         hidden |-> email_queue[e].hidden, attempt |-> email_queue[e].attempt]]
  <1>1. Init => Port!Init
    BY DEF Init, Port!Init, Port!Absent, NoRow
  <1>2. QueueInv /\ [Next]_vars => [Port!Next]_Shown
    <2> SUFFICES ASSUME QueueInv, [Next]_vars PROVE Port!Next \/ UNCHANGED Shown
      OBVIOUS
    <2>n. ASSUME NEW e \in Entries,
                 \/ Port!Enqueue(e) \/ Port!Dequeue(e) \/ Port!Nack(e)
                 \/ Port!Reappear(e) \/ Port!Ack(e)
          PROVE  Port!Next
      BY <2>n DEF Port!Next
    <2>u. ASSUME NEW e \in Entries,
                 RowBecomes(e, email_queue[e].row, email_queue[e].hidden, email_queue[e].attempt)
          PROVE  UNCHANGED Shown
      BY <2>u DEF RowBecomes
    <2>1. CASE UNCHANGED email_queue
      BY <2>1
    <2>2. ASSUME NEW e \in Entries, Enqueue(e), Insert(e) PROVE Port!Next
      <3>1. RowBecomes(e, "queued", FALSE, 0) /\ email_queue[e].row = "none"
        BY <2>2, KnownOfEntry, RowEffects DEF Enqueue, EntryInv, SubmitInv
      <3> QED
        BY <2>n, <3>1, PortStep
    <2>3. ASSUME NEW e \in Entries, Lapse(e) PROVE Port!Next
      <3>1. RowBecomes(e, "queued", FALSE, email_queue[e].attempt) /\ Queued(e)
        BY <2>3, KnownOfEntry, RowEffects DEF Lapse, Queued, RowBecomes
      <3> QED
        BY <2>n, <3>1, PortStep
    <2>4. ASSUME NEW w \in Workers, Commit(w) PROVE Port!Next
      <3>1. PICK e \in Entries : e = work[w].entry
        BY <2>4, KnownOfWorker DEF Commit
      <3> QED
        BY <2>4, <2>n, <3>1, CommitEffects, PortStep
    <2>5. ASSUME NEW w \in Workers, Ack(w) PROVE Port!Next \/ UNCHANGED Shown
      <3>1. PICK e \in Entries :
              /\ e = work[w].entry /\ email_queue[e].row # "none" /\ email_queue[e].attempt > 0
        BY <2>5, KnownOfWorker DEF Ack, WorkInv, Holding
      <3>2. CASE UNCHANGED email_queue
        BY <2>1, <3>2
      <3>3. CASE email_queue' = [email_queue EXCEPT ![e].row = "gone", ![e].hidden = FALSE]
        <4>1. RowBecomes(e, "gone", FALSE, email_queue[e].attempt)
          BY <3>3, KnownOfEntry, RowEffects
        <4>2. CASE Queued(e)
          BY <2>n, <3>1, <4>1, <4>2, PortStep
        <4>3. CASE ~Queued(e)
          <5>1. email_queue[e].row = "gone" /\ email_queue[e].hidden = FALSE
            BY <3>1, <4>3, KnownOfEntry DEF Queued, EntryInv, RowInv
          <5> QED
            BY <2>u, <4>1, <5>1 DEF RowBecomes
        <4> QED
          BY <4>2, <4>3
      <3> QED
        BY <2>5, <3>1, <3>2, <3>3 DEF Ack
    <2>6. ASSUME NEW w \in Workers, Nack(w) PROVE Port!Next \/ UNCHANGED Shown
      <3>1. PICK e \in Entries : e = work[w].entry
        BY <2>6, KnownOfWorker DEF Nack
      <3>2. CASE UNCHANGED email_queue
        BY <2>1, <3>2
      <3>3. CASE email_queue' = [email_queue EXCEPT ![e].hidden = Queued(e)] /\ Queued(e)
        <4>1. RowBecomes(e, "queued", TRUE, email_queue[e].attempt)
          BY <3>3, KnownOfEntry, RowEffects DEF Queued, RowBecomes
        <4> QED
          BY <2>n, <3>3, <4>1, PortStep
      <3>4. CASE email_queue' = [email_queue EXCEPT ![e].hidden = Queued(e)] /\ ~Queued(e)
        <4>1. email_queue[e].hidden = FALSE
          BY <3>4, KnownOfEntry DEF EntryInv, RowInv
        <4>2. email_queue' = [email_queue EXCEPT ![e].hidden = FALSE]
          BY <3>4 DEF Queued
        <4>3. RowBecomes(e, email_queue[e].row, FALSE, email_queue[e].attempt)
          BY <4>2, KnownOfEntry, RowEffects
        <4> QED
          BY <2>u, <4>1, <4>3 DEF RowBecomes
      <3> QED
        BY <2>6, <3>1, <3>2, <3>3, <3>4 DEF Nack
    <2>7. \/ UNCHANGED email_queue
          \/ \E e \in Entries : (Enqueue(e) /\ Insert(e)) \/ Lapse(e)
          \/ \E w \in Workers : Commit(w) \/ Ack(w) \/ Nack(w)
      BY DEF Next, vars, Submission, Save, ReadRefs, WriteRefs, CommitRefs, Enqueue, Undo,
         RollbackRefs, Begin, Transaction, Lock, Empty, Claim, Read, Rollback, Answer, Reply
    <2> QED
      BY <2>1, <2>2, <2>3, <2>4, <2>5, <2>6, <2>7
  <1> QED
    BY <1>1, <1>2, PostgresInvariant, PTL DEF Spec, KeepsPort, Port!Spec

-----------------------------------------------------------------------------
(* Releases that start over one database (Upgrade).                        *)

\* Who is between list and unlock has the lock, and leaves no migration out.
LockInv ==
  \A p \in Procs :
    /\ stage[p] \in {"list", "migrate"} => lock = p
    /\ stage[p] = "migrate" => todo[p] \intersect applied = {} /\ Up!Known(p) \subseteq applied \union todo[p]
    /\ stage[p] \in {"queue", "others", "serving"} => Up!Known(p) \subseteq applied

UpgradeInv == Up!TypeOK /\ LockInv /\ unread = 0

\* What a process knows is among the migrations of the newest release.
LEMMA KnownColumns ==
  ASSUME Up!UpgradeAssumption, NEW p \in Procs
  PROVE  Up!Known(p) \subseteq Up!Columns
  <1>1. Knows[p] \in 1..Latest /\ Latest \in Nat
    BY DEF Up!UpgradeAssumption
  <1> QED
    BY <1>1 DEF Up!Known, Up!Columns

\* The types through the steps of a start.
LEMMA StartStaysTyped ==
  ASSUME Up!UpgradeAssumption, UpgradeInv, NEW p \in Procs, Up!StartStep(p)
  PROVE  Up!TypeOK'
  <1> USE DEF UpgradeInv, Up!TypeOK, Up!Stages, Up!Goto, Up!Step, Up!Data
  <1>1. CASE Up!Start(p) \/ Up!Connect(p) \/ Up!Others(p)
    BY <1>1 DEF Up!Start, Up!Connect, Up!Others
  <1>2. CASE Up!Lock(p)
    BY <1>2 DEF Up!Lock, Up!UpgradeAssumption
  <1>3. CASE Up!List(p)
    BY <1>3, KnownColumns DEF Up!List, LockInv
  <1>4. CASE Up!Apply(p)
    BY <1>4 DEF Up!Apply
  <1>5. CASE Up!Unlock(p)
    BY <1>5 DEF Up!Unlock, LockInv
  <1>6. CASE Up!Queue(p)
    BY <1>6 DEF Up!Queue, Up!UpgradeAssumption
  <1> QED
    BY <1>1, <1>2, <1>3, <1>4, <1>5, <1>6 DEF Up!StartStep

\* A start takes, lists, applies and unlocks as migrate does.
LEMMA StartKeepsLock ==
  ASSUME Up!UpgradeAssumption, UpgradeInv, NEW p \in Procs, Up!StartStep(p)
  PROVE  LockInv'
  <1> USE DEF UpgradeInv, LockInv, Up!TypeOK, Up!Goto, Up!Step, Up!Known
  <1>0. None \notin Procs
    BY DEF Up!UpgradeAssumption
  <1>1. CASE Up!Start(p) \/ Up!Connect(p) \/ Up!Queue(p) \/ Up!Others(p)
    BY <1>1 DEF Up!Start, Up!Connect, Up!Queue, Up!Others
  <1>2. CASE Up!Lock(p)
    BY <1>0, <1>2 DEF Up!Lock
  <1>3. CASE Up!List(p)
    BY <1>3 DEF Up!List
  <1>4. CASE Up!Apply(p)
    BY <1>4 DEF Up!Apply
  <1>5. CASE Up!Unlock(p)
    BY <1>5 DEF Up!Unlock
  <1> QED
    BY <1>1, <1>2, <1>3, <1>4, <1>5 DEF Up!StartStep

\* A failure and a stop give up the lock with the process that holds it.
LEMMA EndStep ==
  ASSUME Up!UpgradeAssumption, UpgradeInv, NEW p \in Procs, Up!Fail(p) \/ Up!Stop(p)
  PROVE  UpgradeInv'
  <1> USE DEF UpgradeInv, LockInv, Up!TypeOK, Up!Goto, Up!Step, Up!Known, Up!Stages, Up!Data
  <1>1. CASE Up!Fail(p)
    BY <1>1 DEF Up!Fail, Up!Free, Up!UpgradeAssumption
  <1>2. CASE Up!Stop(p)
    BY <1>2 DEF Up!Stop, Up!UpgradeAssumption
  <1> QED
    BY <1>1, <1>2

\* A process that serves has every column it reads.
LEMMA RowStep ==
  ASSUME Up!UpgradeAssumption, UpgradeInv, NEW p \in Procs, NEW r \in Rows,
         Up!Write(p, r) \/ Up!Read(p, r)
  PROVE  UpgradeInv'
  <1> USE DEF UpgradeInv, LockInv, Up!TypeOK
  <1>1. CASE Up!Write(p, r)
    BY <1>1, KnownColumns DEF Up!Write
  <1>2. CASE Up!Read(p, r)
    BY <1>2 DEF Up!Read, Up!Decodes
  <1> QED
    BY <1>1, <1>2

\* No migration is applied twice, and who serves has every column it was built for
\* and reads the rows of the other release (migrate, deserialize_trace_context):
\* for any number of processes, migrations and rows, whatever fails or stops.
THEOREM ReleasesGetAlong == PartsSpec => []ReleasesAgree
  <1> Up!UpgradeAssumption
    BY PartsAssumption
  <1>1. Up!Init => UpgradeInv
    BY DEF Up!Init, UpgradeInv, LockInv, Up!TypeOK, Up!Columns, Up!UpgradeAssumption
  <1>2. UpgradeInv /\ [Up!Next]_Up!vars => UpgradeInv'
    <2> SUFFICES ASSUME UpgradeInv, [Up!Next]_Up!vars PROVE UpgradeInv'
      OBVIOUS
    <2>1. ASSUME NEW p \in Procs, Up!StartStep(p) PROVE UpgradeInv'
      <3>1. unread' = unread
        BY <2>1 DEF Up!StartStep, Up!Start, Up!Connect, Up!Lock, Up!List, Up!Apply, Up!Unlock,
                    Up!Queue, Up!Others, Up!Data
      <3> QED
        BY <2>1, <3>1, StartStaysTyped, StartKeepsLock DEF UpgradeInv
    <2>2. CASE UNCHANGED Up!vars
      BY <2>2 DEF Up!vars, UpgradeInv, LockInv, Up!TypeOK
    <2> QED
      BY <2>1, <2>2, EndStep, RowStep DEF Up!Next
  <1>3. UpgradeInv => ReleasesAgree
    BY DEF UpgradeInv, ReleasesAgree, LockInv, Up!TypeOK, Up!ReleasesAgree, Up!AppliedOnce, Up!RowsAreReadable
  <1>4. PartsInit => Up!Init
    BY DEF PartsInit
  <1>5. [PartsNext]_allVars => [Up!Next]_Up!vars
    BY DEF PartsNext, allVars, upgrade, Up!vars
  <1> QED
    BY <1>1, <1>2, <1>3, <1>4, <1>5, PTL DEF PartsSpec

-----------------------------------------------------------------------------
(* What is written is read back (Codecs).                                  *)

\* A sequence of two.
LEMMA Pair ==
  ASSUME NEW S, NEW s \in Seq(S), Len(s) = 2
  PROVE  s = <<s[1], s[2]>>
  OBVIOUS

\* Two sequences of one make one of two.
LEMMA OneAndOne ==
  ASSUME NEW x, NEW y
  PROVE  <<x>> \o <<y>> = <<x, y>>
  <1>1. <<x>> \in Seq({x, y}) /\ <<y>> \in Seq({x, y})
    OBVIOUS
  <1>2. /\ <<x>> \o <<y>> \in Seq({x, y}) /\ Len(<<x>> \o <<y>>) = 2
        /\ (<<x>> \o <<y>>)[1] = x /\ (<<x>> \o <<y>>)[2] = y
    BY <1>1
  <1> QED
    BY <1>2, Pair

\* A body of one required field is read as it was written.
LEMMA OneFieldIsRead ==
  ASSUME NEW k \in DOMAIN Codec!Fields, k # "plain", NEW f, Codec!Fields[k] = {f}, f # "kind",
         NEW b, b.kind = k, b[f] # "none", b = [x \in {"kind", f} |-> b[x]]
  PROVE  /\ Codec!IsBodySourceDto(Codec!BodySourceDto(b))
         /\ Codec!BodySource(Codec!BodySourceDto(b)) = {b}
         /\ Codec!Has(Codec!BodySourceDto(b), "source") =>
              ~Codec!IsBodySourceDto(Codec!BodySourceDto(b).fields["source"])
  <1> PICK j : j = Codec!BodySourceDto(b)
    OBVIOUS
  <1>1. /\ j.json = "object" /\ DOMAIN j.fields = {"kind", f}
        /\ j.fields["kind"] = [json |-> "string", value |-> k]
        /\ j.fields[f] = [json |-> "string", value |-> b[f]]
    BY DEF Codec!BodySourceDto, Codec!Option, Codec!Absent, Codec!Object, Codec!Text
  <1>2. Codec!HasText(j, "kind") /\ Codec!Get(j, "kind") = k /\ Codec!HasText(j, f) /\ Codec!Get(j, f) = b[f]
    BY <1>1 DEF Codec!HasText, Codec!Has, Codec!Get
  <1>3. Codec!IsBodySourceDto(j)
    BY <1>2 DEF Codec!IsBodySourceDto
  <1>4. [x \in Codec!Fields[Codec!Get(j, "kind")] \union {"kind"} |-> Codec!GetOption(j, x)] = b
    BY <1>2 DEF Codec!GetOption
  <1>5. Codec!BodySource(j) = {b}
    BY <1>4 DEF Codec!BodySource
  <1>6. Codec!Has(j, "source") => ~Codec!IsBodySourceDto(j.fields["source"])
    BY <1>1 DEF Codec!IsBodySourceDto, Codec!HasText, Codec!Has
  <1> QED
    BY <1>3, <1>5, <1>6

\* A body is read as it was written, also by who looks for the older shape first.
LEMMA BodyIsRead ==
  ASSUME NEW b \in Codec!BodySources
  PROVE  /\ Codec!IsBodySourceDto(Codec!BodySourceDto(b))
         /\ Codec!BodySource(Codec!BodySourceDto(b)) = {b}
         /\ Codec!Has(Codec!BodySourceDto(b), "source") =>
              ~Codec!IsBodySourceDto(Codec!BodySourceDto(b).fields["source"])
  <1>1. CASE b \in {c \in [kind : {"plain"}, text : STRING, html : STRING] : c.text # "none" \/ c.html # "none"}
    <2> DEFINE j == Codec!Object([kind |-> Codec!Text("plain"), text |-> Codec!Option(b.text),
                                  html |-> Codec!Option(b.html)])
    <2>1. /\ b.kind = "plain" /\ (b.text # "none" \/ b.html # "none")
          /\ DOMAIN b = {"kind", "text", "html"} /\ b = [kind |-> "plain", text |-> b.text, html |-> b.html]
      BY <1>1
    <2>2. Codec!BodySourceDto(b) = j
      BY <2>1 DEF Codec!BodySourceDto
    <2>3. /\ j.json = "object" /\ DOMAIN j.fields = {"kind", "text", "html"}
          /\ j.fields["kind"] = [json |-> "string", value |-> "plain"]
          /\ j.fields["text"] = Codec!Option(b.text) /\ j.fields["html"] = Codec!Option(b.html)
      BY DEF Codec!Object, Codec!Text
    <2> HIDE DEF j
    <2>4. Codec!IsBodySourceDto(j)
      BY <2>3 DEF Codec!IsBodySourceDto, Codec!HasText, Codec!Has, Codec!Get, Codec!Fields
    <2>5. [x \in Codec!Fields[Codec!Get(j, "kind")] \union {"kind"} |-> Codec!GetOption(j, x)] = b
      <3>1. Codec!Fields[Codec!Get(j, "kind")] = {"text", "html"}
        BY <2>3 DEF Codec!Get, Codec!Fields
      <3>2. Codec!GetOption(j, "kind") = "plain"
        BY <2>3 DEF Codec!HasText, Codec!Has, Codec!Get, Codec!GetOption
      <3>3. Codec!GetOption(j, "text") = b.text
        BY <2>3 DEF Codec!HasText, Codec!Has, Codec!Get, Codec!GetOption, Codec!Option, Codec!Text, Codec!Null,
                    Codec!Absent
      <3>4. Codec!GetOption(j, "html") = b.html
        BY <2>3 DEF Codec!HasText, Codec!Has, Codec!Get, Codec!GetOption, Codec!Option, Codec!Text, Codec!Null,
                    Codec!Absent
      <3> QED
        BY <2>1, <3>1, <3>2, <3>3, <3>4
    <2>6. Codec!BodySource(j) = {b}
      BY <2>1, <2>5 DEF Codec!BodySource, Codec!Absent
    <2>7. ~Codec!Has(j, "source")
      BY <2>3 DEF Codec!Has
    <2> QED
      BY <2>2, <2>4, <2>6, <2>7
  <1>2. CASE b \in [kind : {"mjml_inline"}, source : STRING \ {"none"}]
    <2>1. b.kind = "mjml_inline" /\ b.source # "none" /\ b = [x \in {"kind", "source"} |-> b[x]]
      BY <1>2
    <2>2. "mjml_inline" \in DOMAIN Codec!Fields /\ Codec!Fields["mjml_inline"] = {"source"}
      BY DEF Codec!Fields
    <2> QED
      BY <2>1, <2>2, OneFieldIsRead
  <1>3. CASE b \in [kind : {"mjml_named"}, name : STRING \ {"none"}]
    <2>1. b.kind = "mjml_named" /\ b.name # "none" /\ b = [x \in {"kind", "name"} |-> b[x]]
      BY <1>3
    <2>2. "mjml_named" \in DOMAIN Codec!Fields /\ Codec!Fields["mjml_named"] = {"name"}
      BY DEF Codec!Fields
    <2> QED
      BY <2>1, <2>2, OneFieldIsRead
  <1>4. CASE b \in [kind : {"mjml_remote"}, url : STRING \ {"none"}]
    <2>1. b.kind = "mjml_remote" /\ b.url # "none" /\ b = [x \in {"kind", "url"} |-> b[x]]
      BY <1>4
    <2>2. "mjml_remote" \in DOMAIN Codec!Fields /\ Codec!Fields["mjml_remote"] = {"url"}
      BY DEF Codec!Fields
    <2> QED
      BY <2>1, <2>2, OneFieldIsRead
  <1> QED
    BY <1>1, <1>2, <1>3, <1>4 DEF Codec!BodySources, Codec!Token, Codec!Absent

\* Recipients are read as they were written.
LEMMA RecipientsAreRead ==
  ASSUME NEW s \in Seq(Codec!RecipientKinds \X Codec!Token)
  PROVE  Codec!Map(Codec!RecipientOf, Codec!List(Codec!Map(Codec!RecipientDto, s)).items) = s
  <1>1. \A r \in Codec!RecipientKinds \X Codec!Token : Codec!RecipientOf(Codec!RecipientDto(r)) = r
    BY DEF Codec!RecipientKinds, Codec!RecipientOf, Codec!RecipientDto, Codec!RecipientKind,
           Codec!RecipientKindDto, Codec!Get, Codec!Object, Codec!Text
  <1> HIDE DEF Codec!RecipientOf, Codec!RecipientDto
  <1>2. \A i \in DOMAIN s : s[i] \in Codec!RecipientKinds \X Codec!Token
    OBVIOUS
  <1> QED
    BY <1>1, <1>2 DEF Codec!Map, Codec!List

\* References to attachments are read as they were written.
LEMMA AttachmentsAreRead ==
  ASSUME NEW s \in Seq(Codec!AttachmentRefs)
  PROVE  /\ Codec!Map(Codec!AttachmentRefOf, Codec!Map(Codec!AttachmentRefDto, s)) = s
         /\ DOMAIN Codec!Map(Codec!AttachmentRefDto, s) = DOMAIN s
         /\ \A i \in DOMAIN s :
              Codec!AttachmentRefOf(Codec!Map(Codec!AttachmentRefDto, s)[i]).blob = s[i].blob
  <1>1. \A a \in Codec!AttachmentRefs : Codec!AttachmentRefOf(Codec!AttachmentRefDto(a)) = a
    BY DEF Codec!AttachmentRefs, Codec!AttachmentRefOf, Codec!AttachmentRefDto, Codec!BlobRefOf,
           Codec!BlobRefDto, Codec!Get, Codec!Object, Codec!Text
  <1>2. \A i \in DOMAIN s : s[i] \in Codec!AttachmentRefs
    OBVIOUS
  <1> QED
    BY <1>1, <1>2 DEF Codec!Map

\* What an envelope is made of.
LEMMA EnvelopeShape ==
  ASSUME NEW env \in Codec!EmailEnvelopes
  PROVE  /\ env.body \in Codec!BodySources /\ env.recipients \in Seq(Codec!RecipientKinds \X Codec!Token)
         /\ env.attachments \in Seq(Codec!AttachmentRefs)
         /\ env = [idempotency_key |-> env.idempotency_key, correlation_id |-> env.correlation_id,
                   subject |-> env.subject, sender |-> env.sender, recipients |-> env.recipients,
                   body |-> env.body, attachments |-> env.attachments]
  <1> HIDE DEF Codec!BodySources, Codec!AttachmentRefs, Codec!RecipientKinds, Codec!Token
  <1> QED
    BY DEF Codec!EmailEnvelopes

\* Without its attachments it is still one, with the same body.
LEMMA WithoutAttachments ==
  ASSUME NEW env \in Codec!EmailEnvelopes, NEW bare, bare = [env EXCEPT !.attachments = <<>>]
  PROVE  bare \in Codec!EmailEnvelopes /\ bare.body = env.body
  <1>1. /\ env.idempotency_key \in STRING /\ env.correlation_id \in STRING
        /\ env.subject \in STRING /\ env.sender \in Codec!Token
    BY DEF Codec!EmailEnvelopes
  <1>2. /\ env.body \in Codec!BodySources /\ env.recipients \in Seq(Codec!RecipientKinds \X Codec!Token)
        /\ <<>> \in Seq(Codec!AttachmentRefs)
    BY EnvelopeShape
  <1>3. bare = [idempotency_key |-> env.idempotency_key, correlation_id |-> env.correlation_id,
                subject |-> env.subject, sender |-> env.sender,
                recipients |-> env.recipients, body |-> env.body, attachments |-> <<>>]
    BY EnvelopeShape
  <1>4. bare \in Codec!EmailEnvelopes
    BY <1>1, <1>2, <1>3 DEF Codec!EmailEnvelopes
  <1> QED
    BY <1>3, <1>4

\* The two shapes of the column body, told apart.
LEMMA ColumnIsRead ==
  ASSUME NEW b \in Codec!BodySources, NEW atts
  PROVE  /\ Codec!EnvelopeBodyDtoDeser(Codec!EnvelopeBodyDto(Codec!BodySourceDto(b), atts)) =
              {[source |-> Codec!BodySourceDto(b), attachments |-> Codec!Map(Codec!AttachmentRefDto, atts)]}
         /\ Codec!EnvelopeBodyDtoDeser(Codec!BodySourceDto(b)) =
              {[source |-> Codec!BodySourceDto(b), attachments |-> <<>>]}
  <1> PICK j : j = Codec!BodySourceDto(b)
    OBVIOUS
  <1>1. Codec!IsBodySourceDto(j) /\ (Codec!Has(j, "source") => ~Codec!IsBodySourceDto(j.fields["source"]))
    BY BodyIsRead
  <1> PICK refs : refs = Codec!Map(Codec!AttachmentRefDto, atts)
    OBVIOUS
  <1> PICK k : k = Codec!EnvelopeBodyDto(j, atts)
    OBVIOUS
  <1>2. Codec!Has(k, "source") /\ k.fields["source"] = j /\ Codec!Items(k, "attachments") = refs
    BY DEF Codec!EnvelopeBodyDto, Codec!Object, Codec!List, Codec!Has, Codec!Items
  <1>3. Codec!EnvelopeBodyDtoDeser(k) = {[source |-> j, attachments |-> refs]}
    BY <1>1, <1>2 DEF Codec!EnvelopeBodyDtoDeser
  <1>4. Codec!EnvelopeBodyDtoDeser(j) = {[source |-> j, attachments |-> <<>>]}
    BY <1>1 DEF Codec!EnvelopeBodyDtoDeser
  <1> QED
    BY <1>3, <1>4

\* A row of this program is read as it was written, by the worker, the collector and the
\* listing.
LEMMA RowIsRead ==
  ASSUME NEW env \in Codec!EmailEnvelopes
  PROVE  /\ Codec!ParseEnvelope(Codec!Row(env)) = {env}
         /\ Codec!Blobs(Codec!Row(env)) = {env.attachments[i].blob : i \in DOMAIN env.attachments}
         /\ \A name : Codec!NamesTemplate(Codec!Row(env), name) <=>
                        env.body.kind = "mjml_named" /\ env.body.name = name
  <1> PICK j : j = Codec!BodySourceDto(env.body)
    OBVIOUS
  <1> PICK refs : refs = Codec!Map(Codec!AttachmentRefDto, env.attachments)
    OBVIOUS
  <1> PICK r : r = Codec!Row(env)
    OBVIOUS
  <1>1. Codec!EnvelopeBodyDtoDeser(r.body) = {[source |-> j, attachments |-> refs]}
    BY EnvelopeShape, ColumnIsRead DEF Codec!Row
  <1>2. Codec!BodySource(j) = {env.body}
    BY EnvelopeShape, BodyIsRead
  <1>3. Codec!Map(Codec!RecipientOf, r.recipients.items) = env.recipients
    BY EnvelopeShape, RecipientsAreRead DEF Codec!Row
  <1>4. /\ Codec!Map(Codec!AttachmentRefOf, refs) = env.attachments /\ DOMAIN refs = DOMAIN env.attachments
        /\ \A i \in DOMAIN refs : Codec!AttachmentRefOf(refs[i]).blob = env.attachments[i].blob
    BY EnvelopeShape, AttachmentsAreRead
  <1>5. Codec!EnvelopeOf(r, env.body, refs) = env
    BY <1>3, <1>4, EnvelopeShape DEF Codec!EnvelopeOf, Codec!Row
  <1>6. Codec!ParseEnvelope(r) = {env}
    BY <1>1, <1>2, <1>5 DEF Codec!ParseEnvelope
  <1>7. Codec!Blobs(r) = {env.attachments[i].blob : i \in DOMAIN env.attachments}
    BY <1>1, <1>4 DEF Codec!Blobs
  <1>8. Codec!Has(r.body, "source") /\ r.body.fields["source"] = j
    BY DEF Codec!Row, Codec!EnvelopeBodyDto, Codec!Object, Codec!Has
  <1>9. /\ Codec!HasText(j, "kind") /\ Codec!Get(j, "kind") = env.body.kind
        /\ env.body.kind = "mjml_named" => Codec!Get(j, "name") = env.body.name
    <2> PICK b : b = env.body
      OBVIOUS
    <2>1. b \in Codec!BodySources
      BY EnvelopeShape
    <2>2. "kind" \in DOMAIN b /\ (b.kind = "mjml_named" => "name" \in DOMAIN b /\ b.name # "none")
      BY <2>1 DEF Codec!BodySources, Codec!Token, Codec!Absent
    <2>3. /\ j.json = "object" /\ DOMAIN j.fields = DOMAIN b /\ j.fields["kind"] = Codec!Text(b.kind)
          /\ b.kind = "mjml_named" => j.fields["name"] = Codec!Text(b.name)
      BY <2>2 DEF Codec!BodySourceDto, Codec!Object, Codec!Option, Codec!Absent
    <2> QED
      BY <2>2, <2>3 DEF Codec!HasText, Codec!Has, Codec!Get, Codec!Text
  <1> QED
    BY <1>6, <1>7, <1>8, <1>9 DEF Codec!NamesTemplate

\* So is a row of an earlier version, by the worker and the collector.
LEMMA EarlierRowIsRead ==
  ASSUME NEW env \in Codec!EmailEnvelopes, env.attachments = <<>>
  PROVE  /\ Codec!ParseEnvelope(Codec!EarlierRow(env)) = {env}
         /\ Codec!Blobs(Codec!EarlierRow(env)) = {env.attachments[i].blob : i \in DOMAIN env.attachments}
  <1> PICK j : j = Codec!BodySourceDto(env.body)
    OBVIOUS
  <1> PICK r : r = Codec!EarlierRow(env)
    OBVIOUS
  <1>1. /\ r.body = j /\ r.recipients = Codec!Row(env).recipients /\ r.idempotency_key = env.idempotency_key
        /\ r.correlation_id = env.correlation_id /\ r.subject = env.subject /\ r.sender = env.sender
    BY DEF Codec!EarlierRow, Codec!Row
  <1>2. Codec!EnvelopeBodyDtoDeser(r.body) = {[source |-> j, attachments |-> <<>>]}
    BY <1>1, EnvelopeShape, ColumnIsRead
  <1>3. Codec!BodySource(j) = {env.body}
    BY EnvelopeShape, BodyIsRead
  <1>4. Codec!Map(Codec!RecipientOf, r.recipients.items) = env.recipients
    BY <1>1, EnvelopeShape, RecipientsAreRead DEF Codec!Row
  <1>5. Codec!Map(Codec!AttachmentRefOf, <<>>) = <<>> /\ DOMAIN <<>> = {}
    BY DEF Codec!Map
  <1>6. Codec!EnvelopeOf(r, env.body, <<>>) = env
    BY <1>1, <1>4, <1>5, EnvelopeShape DEF Codec!EnvelopeOf
  <1>7. Codec!ParseEnvelope(r) = {env}
    BY <1>2, <1>3, <1>6 DEF Codec!ParseEnvelope
  <1>8. Codec!Blobs(r) = {env.attachments[i].blob : i \in DOMAIN env.attachments}
    BY <1>2, <1>5 DEF Codec!Blobs
  <1> QED
    BY <1>7, <1>8

\* A recipient list, the attachments and the options of a payload are read as they were
\* written; what an earlier version did not write is read as absent.
LEMMA PayloadIsRead ==
  ASSUME NEW env \in Codec!EmailEnvelopes
  PROVE  /\ Codec!FromPayload(Codec!QueuedEmailPayload(env)) = {env}
         /\ env.correlation_id = "none" /\ env.attachments = <<>> =>
              Codec!FromPayload(Codec!EarlierPayload(env)) = {env}
  <1> PICK dto : dto = Codec!EnvelopeDto(env)
    OBVIOUS
  <1>1. \A s : /\ Codec!Option(s).json = "string" => Codec!Option(s).value = s
               /\ Codec!Option(s).json # "string" => s = "none"
    BY DEF Codec!Option, Codec!Text, Codec!Null, Codec!Absent
  <1>2. /\ DOMAIN dto = {"idempotency_key", "subject", "sender", "recipients", "body", "attachments"}
        /\ dto.idempotency_key = Codec!Option(env.idempotency_key)
        /\ dto.subject = Codec!Option(env.subject) /\ dto.sender = Codec!Text(env.sender)
        /\ dto.body = Codec!BodySourceDto(env.body)
        /\ Codec!Map(Codec!RecipientOf, dto.recipients.items) = env.recipients
        /\ Codec!Map(Codec!AttachmentRefOf, dto.attachments.items) = env.attachments
    BY EnvelopeShape, RecipientsAreRead, AttachmentsAreRead DEF Codec!EnvelopeDto, Codec!List
  <1>3. Codec!BodySource(dto.body) = {env.body}
    BY <1>2, EnvelopeShape, BodyIsRead
  <1>4. ASSUME NEW e, NEW j, e.json = "object", j.json = "object", j.fields.envelope = e,
               e.fields = dto \/ (e.fields = Codec!Without(dto, "attachments") /\ env.attachments = <<>>),
               \/ "correlation_id" \in DOMAIN j.fields
                    /\ j.fields["correlation_id"] = Codec!Option(env.correlation_id)
               \/ "correlation_id" \notin DOMAIN j.fields /\ env.correlation_id = "none"
        PROVE  Codec!FromPayload(j) = {env}
    <2>1. /\ DOMAIN e.fields \in {DOMAIN dto, DOMAIN dto \ {"attachments"}}
          /\ \A f \in DOMAIN e.fields : e.fields[f] = dto[f]
          /\ "attachments" \notin DOMAIN e.fields => env.attachments = <<>>
      BY <1>2, <1>4 DEF Codec!Without
    <2>2. Codec!GetOption(e, "idempotency_key") = env.idempotency_key /\ Codec!GetOption(e, "subject") = env.subject
      BY <1>1, <1>2, <1>4, <2>1 DEF Codec!GetOption, Codec!HasText, Codec!Has, Codec!Get, Codec!Absent
    <2>3. Codec!GetOption(j, "correlation_id") = env.correlation_id
      BY <1>1, <1>4 DEF Codec!GetOption, Codec!HasText, Codec!Has, Codec!Get, Codec!Absent
    <2>4. Codec!Get(e, "sender") = env.sender
      BY <1>2, <2>1 DEF Codec!Get, Codec!Text
    <2>5. Codec!Map(Codec!RecipientOf, e.fields.recipients.items) = env.recipients
      BY <1>2, <2>1
    <2>6. Codec!Map(Codec!AttachmentRefOf, Codec!Items(e, "attachments")) = env.attachments
      <3>1. CASE "attachments" \in DOMAIN e.fields
        BY <1>2, <1>4, <2>1, <3>1 DEF Codec!Items, Codec!Has
      <3>2. CASE "attachments" \notin DOMAIN e.fields
        BY <1>4, <2>1, <3>2 DEF Codec!Items, Codec!Has, Codec!Map
      <3> QED
        BY <3>1, <3>2
    <2>7. Codec!BodySource(e.fields.body) = {env.body}
      BY <1>2, <1>3, <2>1
    <2> QED
      BY <1>4, <2>2, <2>3, <2>4, <2>5, <2>6, <2>7, EnvelopeShape DEF Codec!FromPayload
  <1>5. Codec!FromPayload(Codec!QueuedEmailPayload(env)) = {env}
    <2> PICK e : e = Codec!Object(dto)
      OBVIOUS
    <2> PICK j : j = Codec!QueuedEmailPayload(env)
      OBVIOUS
    <2>1. e.json = "object" /\ e.fields = dto
      BY DEF Codec!Object
    <2>2. /\ j.json = "object" /\ j.fields.envelope = e
          /\ \/ "correlation_id" \in DOMAIN j.fields
                  /\ j.fields["correlation_id"] = Codec!Option(env.correlation_id)
             \/ "correlation_id" \notin DOMAIN j.fields /\ env.correlation_id = "none"
      BY DEF Codec!QueuedEmailPayload, Codec!Object, Codec!Without, Codec!Absent
    <2> QED
      BY <1>4, <2>1, <2>2
  <1>6. ASSUME env.correlation_id = "none", env.attachments = <<>>
        PROVE  Codec!FromPayload(Codec!EarlierPayload(env)) = {env}
    <2> PICK e : e = Codec!Object(Codec!Without(dto, "attachments"))
      OBVIOUS
    <2> PICK j : j = Codec!EarlierPayload(env)
      OBVIOUS
    <2>1. e.json = "object" /\ e.fields = Codec!Without(dto, "attachments")
      BY DEF Codec!Object
    <2>2. j.json = "object" /\ j.fields.envelope = e /\ "correlation_id" \notin DOMAIN j.fields
      BY DEF Codec!EarlierPayload, Codec!Object
    <2> QED
      BY <1>4, <1>6, <2>1, <2>2
  <1> QED
    BY <1>5, <1>6

\* A header of one value has the members of that value.
LEMMA OneValue ==
  ASSUME NEW x
  PROVE  Codec!FlattenSeq(<<x>>) = x
  <1> DEFINE F(f) == f = [i \in 1..1 |-> IF i = 1 THEN <<x>>[i] ELSE f[i - 1] \o <<x>>[i]]
  <1>1. F([i \in 1..1 |-> x])
    OBVIOUS
  <1>2. F(CHOOSE f : F(f))
    BY <1>1
  <1>3. (CHOOSE f : F(f))[1] = x
    BY <1>2
  <1> QED
    BY <1>3 DEF Codec!FlattenSeq

\* The pairs of a context, in one order or the other.
TwoPairs(id, states) ==
  {<< <<"traceparent", <<id>>>>, <<"tracestate", states>> >>,
   << <<"tracestate", states>>, <<"traceparent", <<id>>>> >>}

\* Two pairs become a header each.
LEMMA HeadersOfPairs ==
  ASSUME NEW id, NEW states, NEW pairs \in TwoPairs(id, states)
  PROVE  Codec!pairs_to_header_map(pairs) =
           [n \in {"traceparent", "tracestate"} |-> IF n = "traceparent" THEN <<<<id>>>> ELSE <<states>>]
  <1> DEFINE parent == <<"traceparent", <<id>>>>
             state  == <<"tracestate", states>>
  <1>1. pairs = <<parent, state>> \/ pairs = <<state, parent>>
    BY DEF TwoPairs
  <1>2. parent[1] = "traceparent" /\ parent[2] = <<id>> /\ state[1] = "tracestate" /\ state[2] = states
    OBVIOUS
  <1> HIDE DEF parent, state
  <1>3. DOMAIN pairs = {1, 2} /\ {pairs[i] : i \in DOMAIN pairs} = {parent, state}
    BY <1>1
  <1>4. {pairs[i][1] : i \in DOMAIN pairs} = {"traceparent", "tracestate"}
    BY <1>1, <1>2
  <1>5. Codec!Range(pairs) = {parent, state}
    BY <1>3 DEF Codec!Range
  <1>6. (CHOOSE p \in {parent, state} : p[1] = "traceparent") = parent
    BY <1>2
  <1>7. (CHOOSE p \in {parent, state} : p[1] = "tracestate") = state
    BY <1>2
  <1> QED
    BY <1>2, <1>4, <1>5, <1>6, <1>7 DEF Codec!pairs_to_header_map

\* A context is found in its pairs.
LEMMA ContextOfPairs ==
  ASSUME NEW id, NEW states, NEW pairs \in TwoPairs(id, states), traced
  PROVE  Codec!Extract(pairs) = [id |-> id, states |-> states]
  <1> PICK h : h = Codec!pairs_to_header_map(pairs)
    OBVIOUS
  <1>1. /\ DOMAIN h = {"traceparent", "tracestate"}
        /\ h["traceparent"][1][1] = id /\ h["tracestate"][1] = states
    BY HeadersOfPairs
  <1> QED
    BY <1>1 DEF Codec!Extract

\* No pairs, no context.
LEMMA NoPairs ==
  Codec!Extract(<<>>) = Codec!NoContext
  <1>1. DOMAIN Codec!pairs_to_header_map(<<>>) = {}
    BY DEF Codec!pairs_to_header_map
  <1> QED
    BY <1>1 DEF Codec!Extract

\* A context is an id and the members of a state. The id is one of a submission's headers,
\* or of a trace that begins here.
Ids == {"none", "root"} \union UNION {{p[2][1] : p \in Codec!TraceParents(h)} : h \in HeaderMaps}

IsContext(c) == c.id \in Ids /\ c = [id |-> c.id, states |-> c.states]

\* Without tracing there is none.
SpanOK == IsContext(span) /\ (~traced => span = Codec!NoContext)

\* What stands for no context has the fields of one.
LEMMA NoContextIsOne == IsContext(Codec!NoContext)
  BY DEF IsContext, Ids, Codec!NoContext, Codec!Absent

\* A trace goes through the column of the queue table.
LEMMA ColumnKeepsTrace ==
  ASSUME SpanOK, traced \in BOOLEAN, NEW pairs \in Codec!inject_current
  PROVE  Codec!Extract(Codec!deserialize_trace_context(Codec!TraceColumn(pairs))) = span
  <1>1. CASE span = Codec!NoContext
    <2>1. pairs = <<>>
      BY <1>1 DEF Codec!inject_current
    <2>2. Codec!deserialize_trace_context(Codec!TraceColumn(<<>>)) = <<>>
      BY DEF Codec!TraceColumn, Codec!deserialize_trace_context, Codec!Null
    <2> QED
      BY <1>1, <2>1, <2>2, NoPairs
  <1>2. CASE span # Codec!NoContext
    <2>1. traced /\ pairs \in TwoPairs(span.id, span.states)
      BY <1>2 DEF SpanOK, IsContext, Codec!inject_current, TwoPairs
    <2>2. /\ pairs # <<>> /\ DOMAIN pairs = {1, 2}
          /\ \A i \in {1, 2} : pairs[i] = <<pairs[i][1], pairs[i][2]>>
          /\ pairs = <<pairs[1], pairs[2]>>
      BY <2>1 DEF TwoPairs
    <2>3. \A i \in {1, 2} : Codec!Map(Codec!Text, pairs[i]) = <<Codec!Text(pairs[i][1]), Codec!Text(pairs[i][2])>>
      BY <2>2 DEF Codec!Map
    <2> PICK items : items = [i \in {1, 2} |-> Codec!List(<<Codec!Text(pairs[i][1]), Codec!Text(pairs[i][2])>>)]
      OBVIOUS
    <2>4. Codec!TraceColumn(pairs) = Codec!List(items)
      BY <2>2, <2>3 DEF Codec!TraceColumn
    <2>5. DOMAIN items = {1, 2} /\ \A i \in {1, 2} :
             items[i].items[1].value = pairs[i][1] /\ items[i].items[2].value = pairs[i][2]
      BY DEF Codec!List, Codec!Text
    <2>6. Codec!deserialize_trace_context(Codec!List(items)) = [i \in {1, 2} |-> <<pairs[i][1], pairs[i][2]>>]
      BY <2>5 DEF Codec!deserialize_trace_context, Codec!List
    <2>7. [i \in {1, 2} |-> <<pairs[i][1], pairs[i][2]>>] = pairs
      BY <2>2
    <2> QED
      BY <2>1, <2>4, <2>6, <2>7, ContextOfPairs DEF SpanOK, IsContext
  <1> QED
    BY <1>1, <1>2

\* A trace goes through the headers of a message.
LEMMA HeadersKeepTrace ==
  ASSUME SpanOK, traced \in BOOLEAN, Codec!CodecsAssumption, NEW pairs \in Codec!inject_current,
         NEW read \in Codec!header_map_to_pairs(Codec!pairs_to_header_map(pairs))
  PROVE  Codec!Extract(read) = span
  <1> PICK h : h = Codec!pairs_to_header_map(pairs)
    OBVIOUS
  <1>1. CASE span = Codec!NoContext
    <2>1. pairs = <<>>
      BY <1>1 DEF Codec!inject_current
    <2>2. DOMAIN h = {}
      BY <2>1 DEF Codec!pairs_to_header_map
    <2>3. Codec!TraceParents(h) = {} /\ Codec!TraceStates(h) = {}
      BY <2>2 DEF Codec!TraceParents, Codec!TraceStates, Codec!Spelled
    <2>4. read = <<>>
      BY <2>3 DEF Codec!header_map_to_pairs, Codec!AtMostOne
    <2> QED
      BY <1>1, <2>4, NoPairs
  <1>2. CASE span # Codec!NoContext
    <2>1. traced /\ pairs \in TwoPairs(span.id, span.states)
      BY <1>2 DEF SpanOK, IsContext, Codec!inject_current, TwoPairs
    <2>2. /\ DOMAIN h = {"traceparent", "tracestate"}
          /\ h["traceparent"] = <<<<span.id>>>> /\ h["tracestate"] = <<span.states>>
      BY <2>1, HeadersOfPairs
    <2>3. /\ Codec!Spelled(h, "traceparent") = {"traceparent"}
          /\ Codec!Spelled(h, "tracestate") = {"tracestate"}
      BY <2>2 DEF Codec!Spelled, Codec!CodecsAssumption
    <2>4. Codec!TraceParents(h) = {<<"traceparent", <<span.id>>>>}
      BY <2>2, <2>3 DEF Codec!TraceParents
    <2>5. Codec!TraceStates(h) = {<<"tracestate", span.states>>}
      BY <2>2, <2>3, OneValue DEF Codec!TraceStates
    <2>6. /\ Codec!AtMostOne(Codec!TraceParents(h)) = {<< <<"traceparent", <<span.id>>>> >>}
          /\ Codec!AtMostOne(Codec!TraceStates(h)) = {<< <<"tracestate", span.states>> >>}
      BY <2>4, <2>5 DEF Codec!AtMostOne
    <2>7. read = << <<"traceparent", <<span.id>>>> >> \o << <<"tracestate", span.states>> >>
      BY <2>6 DEF Codec!header_map_to_pairs
    <2>8. read = << <<"traceparent", <<span.id>>>>, <<"tracestate", span.states>> >>
      BY <2>7, OneAndOne
    <2> QED
      BY <2>1, <2>8, ContextOfPairs DEF SpanOK, IsContext, TwoPairs
  <1> QED
    BY <1>1, <1>2

\* The pairs of a submission's headers are of its headers.
LEMMA PairsOfHeaders ==
  ASSUME NEW h \in HeaderMaps, NEW pairs \in Codec!header_map_to_pairs(h)
  PROVE  \A x \in Codec!Range(pairs) : x[1] = "traceparent" => x[2][1] \in Ids
  <1>1. \A x \in Codec!TraceParents(h) : x[2][1] \in Ids
    BY DEF Ids
  <1>2. \A x \in Codec!TraceStates(h) : x[1] = "tracestate"
    BY DEF Codec!TraceStates
  <1>3. PICK p \in Codec!AtMostOne(Codec!TraceParents(h)), s \in Codec!AtMostOne(Codec!TraceStates(h)) :
          pairs = p \o s
    BY DEF Codec!header_map_to_pairs
  <1>4. p = <<>> \/ \E x \in Codec!TraceParents(h) : p = <<x>>
    BY DEF Codec!AtMostOne
  <1>5. s = <<>> \/ \E x \in Codec!TraceStates(h) : s = <<x>>
    BY DEF Codec!AtMostOne
  <1>6. \A i \in DOMAIN pairs : pairs[i] \in Codec!TraceParents(h) \union Codec!TraceStates(h)
    BY <1>3, <1>4, <1>5
  <1> QED
    BY <1>1, <1>2, <1>6 DEF Codec!Range

\* What the propagator extracts of them is a context.
LEMMA ExtractedContext ==
  ASSUME NEW h \in HeaderMaps, NEW pairs \in Codec!header_map_to_pairs(h)
  PROVE  IsContext(Codec!Extract(pairs)) /\ (~traced => Codec!Extract(pairs) = Codec!NoContext)
  <1> PICK hh : hh = Codec!pairs_to_header_map(pairs)
    OBVIOUS
  <1>1. ASSUME "traceparent" \in DOMAIN hh PROVE hh["traceparent"][1][1] \in Ids
    <2>1. \E x \in Codec!Range(pairs) : x[1] = "traceparent"
      BY <1>1 DEF Codec!pairs_to_header_map, Codec!Range
    <2> DEFINE x == CHOOSE p \in Codec!Range(pairs) : p[1] = "traceparent"
    <2>2. x \in Codec!Range(pairs) /\ x[1] = "traceparent"
      BY <2>1
    <2>3. hh["traceparent"][1] = x[2]
      BY <1>1 DEF Codec!pairs_to_header_map
    <2> QED
      BY <2>2, <2>3, PairsOfHeaders
  <1>2. CASE ~traced \/ "traceparent" \notin DOMAIN hh
    <2>1. Codec!Extract(pairs) = Codec!NoContext
      BY <1>2, Zenon DEF Codec!Extract
    <2> QED
      BY <2>1, NoContextIsOne
  <1>3. CASE traced /\ "traceparent" \in DOMAIN hh
    <2> PICK states : states = IF "tracestate" \in DOMAIN hh THEN hh["tracestate"][1] ELSE <<>>
      OBVIOUS
    <2>1. Codec!Extract(pairs) = [id |-> hh["traceparent"][1][1], states |-> states]
      BY <1>3, Zenon DEF Codec!Extract
    <2> QED
      BY <1>1, <1>3, <2>1 DEF IsContext
  <1> QED
    BY <1>2, <1>3

-----------------------------------------------------------------------------
(* From the submission to the worker.                                      *)

\* What is submitted, with its trace.
SubmittedOK ==
  /\ envelope \in Codec!EmailEnvelopes /\ SpanOK
  /\ version = "earlier" => /\ envelope.correlation_id = "none" /\ envelope.attachments = <<>>
                            /\ phase \in {"queued", "dequeued"}

\* What is stored of it at each place.
StoredOK ==
  /\ phase = "saved" => stored = Codec!Row([envelope EXCEPT !.attachments = <<>>])
  /\ phase \in {"complete", "queued", "dequeued"} =>
       stored = IF version = "this" THEN Codec!Row(envelope) ELSE Codec!EarlierRow(envelope)

\* What the entry is, once there is one: with the pairs of the trace, of which an earlier
\* version knew nothing.
PayloadOf == IF version = "this" THEN Codec!QueuedEmailPayload(envelope) ELSE Codec!EarlierPayload(envelope)
CarriedOK ==
  phase = "queued" =>
    \E pairs : /\ version = "this" => pairs \in Codec!inject_current
               /\ carried = IF backend = "nats" THEN Codec!NatsEntry(PayloadOf, pairs)
                            ELSE Codec!StorageEntry(pairs)

\* What the worker is given.
GotOK == Codec!DequeuedAsSubmitted /\ Codec!TraceContinues

CodecInv == Codec!TypeOK /\ SubmittedOK /\ StoredOK /\ CarriedOK /\ GotOK

\* Rows and entries are not what stands for none.
LEMMA RowsAreRows ==
  ASSUME NEW env, NEW j, NEW pairs
  PROVE  /\ Codec!Row(env) # Codec!NoRow /\ Codec!EarlierRow(env) # Codec!NoRow
         /\ Codec!NatsEntry(j, pairs) # Codec!NoEntry /\ Codec!StorageEntry(pairs) # Codec!NoEntry
  <1>1. "body" \in DOMAIN Codec!Row(env) /\ "body" \in DOMAIN Codec!EarlierRow(env)
    BY DEF Codec!Row, Codec!EarlierRow
  <1>2. "body" \notin DOMAIN Codec!NoRow
    BY DEF Codec!NoRow
  <1>3. /\ "payload" \in DOMAIN Codec!NatsEntry(j, pairs) /\ "trace" \in DOMAIN Codec!StorageEntry(pairs)
        /\ DOMAIN Codec!NoEntry = {"email"}
    BY DEF Codec!NatsEntry, Codec!StorageEntry, Codec!NoEntry
  <1> QED
    BY <1>1, <1>2, <1>3

\* A submission starts with nothing written; of an earlier version, with its row and entry.
LEMMA CodecStarts ==
  ASSUME Codec!CodecsAssumption, Codec!Init
  PROVE  CodecInv
  <1>1. SubmittedOK
    <2>1. envelope \in Codec!EmailEnvelopes
      BY DEF Codec!Init, Codec!CodecsAssumption
    <2>2. version = "earlier" => /\ envelope.correlation_id = "none" /\ envelope.attachments = <<>>
                                /\ phase = "queued"
      BY DEF Codec!Init, Codec!CodecsAssumption, Codec!Absent
    <2>3. SpanOK
      BY NoContextIsOne DEF Codec!Init, SpanOK
    <2> QED
      BY <2>1, <2>2, <2>3 DEF SubmittedOK
  <1>2. StoredOK
    BY DEF Codec!Init, StoredOK
  <1>3. CarriedOK
    BY DEF Codec!Init, CarriedOK, PayloadOf
  <1>4. GotOK
    BY DEF Codec!Init, GotOK, Codec!DequeuedAsSubmitted, Codec!TraceContinues
  <1>5. Codec!TypeOK
    <2>1. span.id = "none"
      BY DEF Codec!Init, Codec!NoContext, Codec!Absent
    <2>2. phase \in {"new", "queued"} /\ (phase = "new" <=> stored = Codec!NoRow)
            /\ (phase = "queued" <=> carried # Codec!NoEntry)
      BY RowsAreRows DEF Codec!Init
    <2> QED
      BY <2>1, <2>2 DEF Codec!Init, Codec!TypeOK, Codec!Absent
  <1> QED
    BY <1>1, <1>2, <1>3, <1>4, <1>5 DEF CodecInv

\* The submission is received, with the trace of its producer, or the first of a new one.
LEMMA ReceiveStep ==
  ASSUME CodecInv, Codec!Receive
  PROVE  CodecInv'
  <1>1. /\ phase = "new" /\ phase' = "received"
        /\ UNCHANGED <<backend, traced, version, envelope, headers, stored, carried, got>>
    BY DEF Codec!Receive, Codec!fixed
  <1>2. PICK pairs \in Codec!header_map_to_pairs(headers) : Codec!SetSpanParent(pairs)
    BY DEF Codec!Receive
  <1>3. IsContext(Codec!Extract(pairs)) /\ (~traced => Codec!Extract(pairs) = Codec!NoContext)
    BY ExtractedContext DEF CodecInv, Codec!TypeOK
  <1>4. IsContext([id |-> "root", states |-> <<>>])
    BY DEF IsContext, Ids
  <1>5. IsContext(span') /\ (~traced => span' = Codec!NoContext)
    BY <1>2, <1>3, <1>4 DEF Codec!SetSpanParent
  <1>6. SubmittedOK'
    BY <1>1, <1>5 DEF CodecInv, SubmittedOK, SpanOK, IsContext
  <1>7. StoredOK' /\ CarriedOK' /\ GotOK'
    BY <1>1 DEF StoredOK, CarriedOK, GotOK, Codec!DequeuedAsSubmitted, Codec!TraceContinues
  <1>8. Codec!TypeOK'
    BY <1>1, <1>5 DEF CodecInv, Codec!TypeOK, IsContext, Ids, Codec!Absent
  <1> QED
    BY <1>6, <1>7, <1>8 DEF CodecInv

\* The row is written without the attachments, and again with them.
LEMMA SaveStep ==
  ASSUME CodecInv, Codec!Save \/ Codec!set_attachments
  PROVE  CodecInv'
  <1>1. UNCHANGED <<backend, traced, version, envelope, headers, carried, span, got>>
    BY DEF Codec!Save, Codec!set_attachments, Codec!fixed
  <1>2. CASE Codec!Save
    <2>1. phase = "received" /\ phase' = "saved" /\ stored' = Codec!Row([envelope EXCEPT !.attachments = <<>>])
      BY <1>2 DEF Codec!Save
    <2>2. SubmittedOK'
      BY <1>1, <2>1 DEF CodecInv, SubmittedOK, SpanOK, IsContext
    <2>3. StoredOK' /\ CarriedOK' /\ GotOK'
      BY <1>1, <2>1 DEF StoredOK, CarriedOK, GotOK, Codec!DequeuedAsSubmitted, Codec!TraceContinues
    <2>4. Codec!TypeOK'
      BY <1>1, <2>1, RowsAreRows DEF CodecInv, Codec!TypeOK
    <2> QED
      BY <2>2, <2>3, <2>4 DEF CodecInv
  <1>3. CASE Codec!set_attachments
    <2> PICK env : env = [envelope EXCEPT !.attachments = <<>>]
      OBVIOUS
    <2>1. phase = "saved" /\ phase' = "complete" /\ version = "this" /\ stored = Codec!Row(env)
      BY <1>3 DEF Codec!set_attachments, CodecInv, StoredOK, SubmittedOK, Codec!TypeOK
    <2>2. env.body = envelope.body /\ env.body \in Codec!BodySources
      BY EnvelopeShape DEF CodecInv, SubmittedOK
    <2>3. \A d \in Codec!EnvelopeBodyDtoDeser(stored.body) : d.source = Codec!BodySourceDto(envelope.body)
      BY <2>1, <2>2, ColumnIsRead DEF Codec!Row
    <2>4. stored' = [stored EXCEPT !.body =
                      Codec!EnvelopeBodyDto(Codec!BodySourceDto(envelope.body), envelope.attachments)]
      BY <1>3, <2>3 DEF Codec!set_attachments
    <2>5. /\ env.idempotency_key = envelope.idempotency_key /\ env.correlation_id = envelope.correlation_id
          /\ env.subject = envelope.subject /\ env.sender = envelope.sender
          /\ env.recipients = envelope.recipients
      BY EnvelopeShape DEF CodecInv, SubmittedOK
    <2>6. stored' = Codec!Row(envelope)
      BY <2>1, <2>4, <2>5 DEF Codec!Row
    <2>7. SubmittedOK'
      BY <1>1, <2>1 DEF CodecInv, SubmittedOK, SpanOK, IsContext
    <2>8. StoredOK' /\ CarriedOK' /\ GotOK'
      BY <1>1, <2>1, <2>6 DEF StoredOK, CarriedOK, GotOK, Codec!DequeuedAsSubmitted, Codec!TraceContinues
    <2>9. Codec!TypeOK'
      BY <1>1, <2>1, <2>6, RowsAreRows DEF CodecInv, Codec!TypeOK
    <2> QED
      BY <2>7, <2>8, <2>9 DEF CodecInv
  <1> QED
    BY <1>2, <1>3

\* The entry is written, with the pairs of the trace.
LEMMA EnqueueStep ==
  ASSUME CodecInv, Codec!Enqueue
  PROVE  CodecInv'
  <1>1. /\ phase = "complete" \/ (phase = "saved" /\ envelope.attachments = <<>>)
        /\ phase' = "queued" /\ version = "this"
        /\ UNCHANGED <<backend, traced, version, envelope, headers, stored, span, got>>
    BY DEF Codec!Enqueue, Codec!fixed, CodecInv, SubmittedOK, Codec!TypeOK
  <1>2. PICK pairs \in Codec!inject_current :
          carried' = IF backend = "nats" THEN Codec!NatsEntry(Codec!QueuedEmailPayload(envelope), pairs)
                     ELSE Codec!StorageEntry(pairs)
    BY DEF Codec!Enqueue
  <1>3. SubmittedOK'
    BY <1>1 DEF CodecInv, SubmittedOK, SpanOK, IsContext
  <1>4. phase = "saved" => [envelope EXCEPT !.attachments = <<>>] = envelope
    BY <1>1, EnvelopeShape DEF CodecInv, SubmittedOK
  <1>5. StoredOK'
    BY <1>1, <1>4 DEF CodecInv, StoredOK
  <1>6. pairs \in Codec!inject_current'
    BY <1>1 DEF Codec!inject_current
  <1>7. CarriedOK'
    BY <1>1, <1>2, <1>6 DEF CarriedOK, PayloadOf
  <1>8. GotOK'
    BY <1>1 DEF GotOK, Codec!DequeuedAsSubmitted, Codec!TraceContinues
  <1>9. Codec!TypeOK'
    BY <1>1, <1>2, RowsAreRows DEF CodecInv, Codec!TypeOK
  <1> QED
    BY <1>3, <1>5, <1>7, <1>8, <1>9 DEF CodecInv

\* The worker is given what was submitted, with its trace, from a row or from a message.
LEMMA DequeueStep ==
  ASSUME CodecInv, Codec!CodecsAssumption, Codec!DequeueRow \/ Codec!DequeueMessage
  PROVE  CodecInv'
  <1>1. /\ phase = "queued" /\ phase' = "dequeued"
        /\ UNCHANGED <<backend, traced, version, envelope, headers, stored, carried, span>>
    BY DEF Codec!DequeueRow, Codec!DequeueMessage, Codec!fixed
  <1>2. /\ envelope \in Codec!EmailEnvelopes /\ SpanOK /\ traced \in BOOLEAN /\ version \in {"this", "earlier"}
        /\ version = "earlier" => envelope.correlation_id = "none" /\ envelope.attachments = <<>>
    BY DEF CodecInv, SubmittedOK, Codec!TypeOK
  <1>3. PICK pairs : /\ version = "this" => pairs \in Codec!inject_current
                     /\ carried = IF backend = "nats" THEN Codec!NatsEntry(PayloadOf, pairs)
                                  ELSE Codec!StorageEntry(pairs)
    BY <1>1 DEF CodecInv, CarriedOK
  <1>4. PICK read : /\ got' = [envelope |-> {envelope}, trace |-> read]
                    /\ version = "this" => Codec!Extract(read) = span
    <2>1. CASE Codec!DequeueRow
      <3>1. carried.trace = Codec!TraceColumn(pairs)
        BY <1>3, <2>1 DEF Codec!DequeueRow, Codec!StorageEntry
      <3>2. Codec!ParseEnvelope(stored) = {envelope}
        <4>1. stored = IF version = "this" THEN Codec!Row(envelope) ELSE Codec!EarlierRow(envelope)
          BY <1>1 DEF CodecInv, StoredOK
        <4> QED
          BY <1>2, <4>1, RowIsRead, EarlierRowIsRead
      <3>3. version = "this" => Codec!Extract(Codec!deserialize_trace_context(Codec!TraceColumn(pairs))) = span
        BY <1>2, <1>3, ColumnKeepsTrace
      <3> QED
        BY <2>1, <3>1, <3>2, <3>3 DEF Codec!DequeueRow
    <2>2. CASE Codec!DequeueMessage
      <3>1. carried.payload = PayloadOf /\ carried.headers = Codec!pairs_to_header_map(pairs)
        BY <1>3, <2>2 DEF Codec!DequeueMessage, Codec!NatsEntry
      <3>2. Codec!FromPayload(carried.payload) = {envelope}
        BY <1>2, <3>1, PayloadIsRead DEF PayloadOf
      <3>3. PICK read \in Codec!header_map_to_pairs(carried.headers) : got' = [envelope |-> {envelope}, trace |-> read]
        BY <2>2, <3>2 DEF Codec!DequeueMessage
      <3>4. version = "this" => Codec!Extract(read) = span
        BY <1>2, <1>3, <3>1, <3>3, HeadersKeepTrace
      <3> QED
        BY <3>3, <3>4
    <2> QED
      BY <2>1, <2>2
  <1>5. got'.envelope = {envelope} /\ got'.trace = read
    BY <1>4
  <1>6. SubmittedOK'
    BY <1>1 DEF CodecInv, SubmittedOK, SpanOK, IsContext
  <1>7. StoredOK' /\ CarriedOK'
    BY <1>1 DEF CodecInv, StoredOK, CarriedOK
  <1>8. GotOK'
    <2>1. Codec!DequeuedAsSubmitted'
      BY <1>1, <1>5 DEF Codec!DequeuedAsSubmitted
    <2>2. (Codec!Extract(got.trace))' = Codec!Extract(got'.trace)
      BY <1>1 DEF Codec!Extract, Codec!pairs_to_header_map
    <2>3. Codec!Extract(got'.trace) = Codec!Extract(read)
      BY <1>5
    <2>4. Codec!TraceContinues'
      BY <1>1, <1>4, <2>2, <2>3 DEF Codec!TraceContinues
    <2> QED
      BY <2>1, <2>4 DEF GotOK
  <1>9. Codec!TypeOK'
    BY <1>1 DEF CodecInv, Codec!TypeOK
  <1> QED
    BY <1>6, <1>7, <1>8, <1>9 DEF CodecInv

\* So the invariant says what is promised, also of the collector's and the listing's queries.
LEMMA CodecInvMeansRead ==
  ASSUME CodecInv
  PROVE  ReadAsWritten
  <1>1. envelope \in Codec!EmailEnvelopes /\ version \in {"this", "earlier"}
    BY DEF CodecInv, SubmittedOK, Codec!TypeOK
  <1>2. Codec!RefsSeen
    <2> SUFFICES ASSUME phase = "queued"
                 PROVE  Codec!Blobs(stored) = {envelope.attachments[i].blob : i \in DOMAIN envelope.attachments}
      BY DEF Codec!RefsSeen
    <2>1. /\ stored = IF version = "this" THEN Codec!Row(envelope) ELSE Codec!EarlierRow(envelope)
          /\ version = "earlier" => envelope.attachments = <<>>
      BY DEF CodecInv, StoredOK, SubmittedOK
    <2> QED
      BY <1>1, <2>1, RowIsRead, EarlierRowIsRead
  <1>3. Codec!FoundByTemplate
    <2> SUFFICES ASSUME stored # Codec!NoRow, version = "this", NEW name \in Codec!TemplateNames
                 PROVE  Codec!NamesTemplate(stored, name) <=>
                          envelope.body.kind = "mjml_named" /\ envelope.body.name = name
      BY DEF Codec!FoundByTemplate
    <2>1. phase \in {"saved", "complete", "queued", "dequeued"}
      BY DEF CodecInv, Codec!TypeOK
    <2> PICK env : env = [envelope EXCEPT !.attachments = <<>>]
      OBVIOUS
    <2>2. env \in Codec!EmailEnvelopes /\ env.body = envelope.body
      BY <1>1, WithoutAttachments
    <2>3. stored = Codec!Row(env) \/ stored = Codec!Row(envelope)
      BY <2>1 DEF CodecInv, StoredOK
    <2>4. CASE stored = Codec!Row(env)
      BY <2>2, <2>4, RowIsRead
    <2>5. CASE stored = Codec!Row(envelope)
      BY <1>1, <2>5, RowIsRead
    <2> QED
      BY <2>3, <2>4, <2>5
  <1> QED
    BY <1>2, <1>3 DEF CodecInv, GotOK, ReadAsWritten

\* What is written is read back as it was meant: by the worker (DequeueRow, DequeueMessage),
\* the collector (Blobs) and the listing (NamesTemplate), for every envelope that can be
\* submitted, every header a producer may send, and the rows of an earlier release.
THEOREM WrittenIsRead == PartsSpec => []ReadAsWritten
  <1>1. PartsInit => CodecInv
    BY CodecStarts, PartsAssumption DEF PartsInit
  <1>2. CodecInv /\ [PartsNext]_allVars => CodecInv'
    <2> SUFFICES ASSUME CodecInv, [PartsNext]_allVars PROVE CodecInv'
      OBVIOUS
    <2>1. Codec!Next \/ UNCHANGED codecs
      BY DEF PartsNext, allVars
    <2>2. CASE UNCHANGED codecs
      BY <2>2 DEF codecs, CodecInv, SubmittedOK, StoredOK, CarriedOK, GotOK, SpanOK, IsContext, PayloadOf,
                  Codec!TypeOK, Codec!DequeuedAsSubmitted, Codec!TraceContinues, Codec!Extract,
                  Codec!inject_current
    <2>3. CASE Codec!Next
      BY <2>3, PartsAssumption, ReceiveStep, SaveStep, EnqueueStep, DequeueStep DEF Codec!Next
    <2> QED
      BY <2>1, <2>2, <2>3
  <1>3. CodecInv => ReadAsWritten
    BY CodecInvMeansRead
  <1> QED
    BY <1>1, <1>2, <1>3, PTL DEF PartsSpec
================================================================================
