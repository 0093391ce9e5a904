-------------------------- MODULE SubmitEmailProofs --------------------------
(***************************************************************************)
(* Proofs about SubmitEmail, for any number of requests, keys and blobs.   *)
(***************************************************************************)
EXTENDS SubmitEmail, TLAPS

-----------------------------------------------------------------------------
(* The inductive invariant: what each place of a request knows of its row, *)
(* its queue entry and its blobs.                                          *)

\* A submission that goes through: only a worker takes its blobs.
Secured(r) == req[r].at \in {"enqueue", "announce"} \/ req[r].of = r

\* The row: reserved by Save, patched by SetRefs, gone only after the undo.
RowInv(r) ==
  /\ emails[r].row = "none" => queue[r] = "none"
  /\ emails[r].row = "gone" => req[r].at = "refused" /\ status[r] = "none"
  /\ req[r].at \in {"save", "lookup"} => emails[r].row = "none"
  /\ req[r].at = "save" => emails[r].refs = {} /\ req[r].written = {}
  /\ req[r].at \in {"upload", "set_refs", "enqueue", "announce", "undo"} => Present(r)
  /\ req[r].of = r => Present(r)
  /\ req[r].at = "set_refs" => req[r].written = Uploads[r]
  /\ req[r].at = "enqueue" => emails[r].refs = Uploads[r]

\* The queue entry and the status: nothing before the enqueue.
EntryInv(r) ==
  /\ req[r].at \in {"upload", "set_refs", "enqueue"} => queue[r] = "none"
  /\ queue[r] = "queued" => Present(r) /\ emails[r].refs = Uploads[r]
  /\ queue[r] = "none" => status[r] = "none" /\ req[r].at # "announce" /\ req[r].of # r
  /\ status[r] = "terminal" => queue[r] = "settled"

\* The blobs: young until the row refers to them, and out of every sweep's reach
\* from then on.
BlobInv(r) ==
  /\ req[r].at = "save" => Uploads[r] \intersect (blobs \union aged) = {}
  /\ req[r].at \in {"upload", "set_refs"} =>
       req[r].written \subseteq blobs /\ Uploads[r] \intersect aged = {}
  /\ Secured(r) /\ queue[r] # "settled" =>
       /\ Uploads[r] \subseteq blobs
       /\ Uploads[r] \intersect gc.doomed = {}
       /\ gc.at = "list" => Uploads[r] \intersect aged = {} \/ Uploads[r] \subseteq gc.live

ReqInv(r) == RowInv(r) /\ EntryInv(r) /\ BlobInv(r)

\* The UNIQUE index.
KeysHeld == \A q, r \in Requests : SameKey(q, r) => ~(Present(q) /\ Present(r))

SubmitInv ==
  /\ TypeOK
  /\ \A r \in Requests : ReqInv(r)
  /\ KeysHeld
  /\ gc.doomed \subseteq aged

-----------------------------------------------------------------------------
(* Types.                                                                  *)

ReqTyped ==
  /\ req \in [Requests -> ReqRecs]
  /\ \A r \in Requests :
       /\ req[r].written \subseteq Uploads[r]
       /\ req[r].at = "answered" <=> req[r].of \in Requests

\* What a step does to its request: the place, the refs written, the answer.
Becomes(r, place, written, orig) ==
  /\ req'[r].at = place
  /\ req'[r].written = written
  /\ req'[r].of = orig
  /\ \A q \in Requests \ {r} : req'[q] = req[q]

\* The ways in which a step changes its request.
LEMMA ReqEffects ==
  ASSUME ReqTyped, NEW r \in Requests
  PROVE  /\ \A place \in Places : Goto(r, place) =>
              /\ Becomes(r, place, req[r].written, req[r].of)
              /\ req' \in [Requests -> ReqRecs]
         /\ \A id \in Requests : Answer(r, id) =>
              /\ Becomes(r, "answered", req[r].written, id)
              /\ req' \in [Requests -> ReqRecs]
         /\ \A place \in Places, w \in SUBSET Blobs :
              req' = [req EXCEPT ![r].written = w, ![r].at = place] =>
                /\ Becomes(r, place, w, req[r].of)
                /\ req' \in [Requests -> ReqRecs]
         /\ \A w \in SUBSET Blobs : req' = [req EXCEPT ![r].written = w] =>
              /\ Becomes(r, req[r].at, w, req[r].of)
              /\ req' \in [Requests -> ReqRecs]
  <1>1. req \in [Requests -> ReqRecs]
    BY DEF ReqTyped
  <1>5. ASSUME NEW place \in Places, Goto(r, place)
        PROVE  Becomes(r, place, req[r].written, req[r].of) /\ req' \in [Requests -> ReqRecs]
    BY <1>1, <1>5 DEF Goto, ReqRecs, Becomes
  <1>6. ASSUME NEW id \in Requests, Answer(r, id)
        PROVE  Becomes(r, "answered", req[r].written, id) /\ req' \in [Requests -> ReqRecs]
    BY <1>1, <1>6, ZenonT(30) DEF Answer, ReqRecs, Becomes, Places, Ends
  <1>7. ASSUME NEW place \in Places, NEW w \in SUBSET Blobs,
               req' = [req EXCEPT ![r].written = w, ![r].at = place]
        PROVE  Becomes(r, place, w, req[r].of) /\ req' \in [Requests -> ReqRecs]
    BY <1>1, <1>7 DEF ReqRecs, Becomes
  <1>8. ASSUME NEW w \in SUBSET Blobs, req' = [req EXCEPT ![r].written = w]
        PROVE  Becomes(r, req[r].at, w, req[r].of) /\ req' \in [Requests -> ReqRecs]
    BY <1>1, <1>8 DEF ReqRecs, Becomes
  <1> QED
    BY <1>5, <1>6, <1>7, <1>8

\* A step that keeps what the types say of one request keeps it of all.
LEMMA ReqTypedNext ==
  ASSUME ReqTyped, NEW r \in Requests, NEW place, NEW w, NEW orig,
         Becomes(r, place, w, orig), req' \in [Requests -> ReqRecs],
         w \subseteq Uploads[r], place = "answered" <=> orig \in Requests
  PROVE  ReqTyped'
  BY DEF ReqTyped, Becomes

\* Every step of a submission, a worker or the collector keeps the types.
LEMMA TypedNext == TypeOK /\ [Next]_vars => TypeOK'
  <1> SUFFICES ASSUME TypeOK, [Next]_vars PROVE TypeOK'
    OBVIOUS
  <1> DEFINE TablesTyped ==
        /\ emails \in [Requests -> EmailRecs]
        /\ queue \in [Requests -> {"none", "queued", "settled"}]
        /\ status \in [Requests -> {"none", "pending", "terminal"}]
             StoreTyped == blobs \in SUBSET Blobs /\ aged \in SUBSET Blobs /\ gc \in GcRecs
  <1>t. TablesTyped /\ StoreTyped /\ ReqTyped
    BY DEF TypeOK, ReqTyped
  <1>q. TablesTyped' /\ StoreTyped' /\ ReqTyped' => TypeOK'
    BY DEF TypeOK, ReqTyped
  <1>u. \A r \in Requests : Uploads[r] \subseteq Blobs
    BY SubmitAssumption
  <1>p. /\ \A x \in {"upload", "set_refs", "enqueue", "announce", "undo", "refused", "abandoned", "lookup"} :
             x \in Places /\ x # "answered"
        /\ "answered" \in Places
    BY DEF Places, Ends
  <1>g. ASSUME NEW r \in Requests, NEW place \in Places, place # "answered", req[r].at # "answered",
               Goto(r, place)
        PROVE  ReqTyped'
    <2>1. Becomes(r, place, req[r].written, req[r].of) /\ req' \in [Requests -> ReqRecs]
      BY <1>t, <1>g, ReqEffects
    <2>2. req[r].written \subseteq Uploads[r] /\ req[r].of \notin Requests
      BY <1>t, <1>g DEF ReqTyped
    <2> QED
      BY <1>t, <1>g, <2>1, <2>2, ReqTypedNext
  <1>a. ASSUME NEW r \in Requests, NEW id \in Requests, Answer(r, id)
        PROVE  ReqTyped'
    <2>1. Becomes(r, "answered", req[r].written, id) /\ req' \in [Requests -> ReqRecs]
      BY <1>t, <1>a, ReqEffects
    <2>2. req[r].written \subseteq Uploads[r]
      BY <1>t DEF ReqTyped
    <2> QED
      BY <1>t, <2>1, <2>2, ReqTypedNext
  <1>1. ASSUME NEW r \in Requests, Save(r) PROVE TypeOK'
    <2>1. TablesTyped'
      BY <1>t, <1>1 DEF Save, EmailRecs
    <2>2. ReqTyped'
      BY <1>1, <1>g, <1>p DEF Save
    <2> QED
      BY <1>t, <1>1, <1>q, <2>1, <2>2 DEF Save
  <1>2. ASSUME NEW r \in Requests, Lookup(r) PROVE TypeOK'
    <2>1. ReqTyped'
      BY <1>2, <1>a, <1>g, <1>p DEF Lookup, Holders
    <2> QED
      BY <1>t, <1>2, <1>q, <2>1 DEF Lookup, tables
  <1>3. ASSUME NEW r \in Requests, Upload(r) PROVE TypeOK'
    <2>1. PICK b \in Uploads[r] \ req[r].written :
            /\ blobs' \subseteq blobs \union {b}
            /\ \/ req' = [req EXCEPT
                     ![r].written = req[r].written \union {b},
                     ![r].at = IF req[r].written \union {b} = Uploads[r] THEN "set_refs" ELSE "upload"]
               \/ Goto(r, "undo")
      BY <1>3 DEF Upload
    <2>2. ReqTyped'
      <3>1. CASE Goto(r, "undo")
        BY <1>3, <1>g, <1>p, <3>1 DEF Upload
      <3>2. CASE req' = [req EXCEPT
                   ![r].written = req[r].written \union {b},
                   ![r].at = IF req[r].written \union {b} = Uploads[r] THEN "set_refs" ELSE "upload"]
        <4> DEFINE w == req[r].written \union {b}
                   place == IF w = Uploads[r] THEN "set_refs" ELSE "upload"
        <4>1. /\ w \subseteq Uploads[r] /\ w \in SUBSET Blobs /\ place \in Places /\ place # "answered"
              /\ req[r].of \notin Requests
          BY <1>3, <1>t, <1>u, <1>p DEF ReqTyped, Upload
        <4>2. req' = [req EXCEPT ![r].written = w, ![r].at = place]
          BY <3>2
        <4> HIDE DEF w, place
        <4>3. Becomes(r, place, w, req[r].of) /\ req' \in [Requests -> ReqRecs]
          BY <1>t, <4>1, <4>2, ReqEffects
        <4> QED
          BY <1>t, <4>1, <4>3, ReqTypedNext
      <3> QED
        BY <2>1, <3>1, <3>2
    <2> QED
      BY <1>t, <1>3, <1>q, <1>u, <2>1, <2>2 DEF Upload, tables
  <1>4. ASSUME NEW r \in Requests, SetRefs(r) PROVE TypeOK'
    <2>1. req[r].written \in SUBSET Blobs
      BY <1>t, <1>u DEF ReqTyped
    <2>2. TablesTyped'
      BY <1>t, <1>4, <2>1, SMTT(30) DEF SetRefs, EmailRecs
    <2>3. ReqTyped'
      BY <1>4, <1>g, <1>p DEF SetRefs
    <2> QED
      BY <1>t, <1>4, <1>q, <2>2, <2>3 DEF SetRefs
  <1>5. ASSUME NEW r \in Requests, Enqueue(r) PROVE TypeOK'
    <2>1. TablesTyped'
      BY <1>t, <1>5 DEF Enqueue
    <2>2. ReqTyped'
      BY <1>5, <1>g, <1>p DEF Enqueue
    <2> QED
      BY <1>t, <1>5, <1>q, <2>1, <2>2 DEF Enqueue
  <1>6. ASSUME NEW r \in Requests, Announce(r) PROVE TypeOK'
    <2>1. TablesTyped'
      BY <1>t, <1>6 DEF Announce
    <2>2. ReqTyped'
      BY <1>6, <1>a DEF Announce
    <2> QED
      BY <1>t, <1>6, <1>q, <2>1, <2>2 DEF Announce
  <1>7. ASSUME NEW r \in Requests, UndoBlob(r) PROVE TypeOK'
    <2>1. PICK b \in req[r].written :
            req' = [req EXCEPT ![r].written = req[r].written \ {b}] /\ blobs' \subseteq blobs
      BY <1>7 DEF UndoBlob
    <2>2. ReqTyped'
      <3> DEFINE w == req[r].written \ {b}
      <3>1. w \subseteq Uploads[r] /\ w \in SUBSET Blobs /\ (req[r].at = "answered" <=> req[r].of \in Requests)
        BY <1>t, <1>u DEF ReqTyped
      <3>2. req' = [req EXCEPT ![r].written = w]
        BY <2>1
      <3> HIDE DEF w
      <3>3. Becomes(r, req[r].at, w, req[r].of) /\ req' \in [Requests -> ReqRecs]
        BY <1>t, <3>1, <3>2, ReqEffects
      <3> QED
        BY <1>t, <3>1, <3>3, ReqTypedNext
    <2> QED
      BY <1>t, <1>7, <1>q, <2>1, <2>2 DEF UndoBlob, tables
  <1>8. ASSUME NEW r \in Requests, UndoRow(r) PROVE TypeOK'
    <2>1. TablesTyped'
      BY <1>t, <1>8 DEF UndoRow, EmailRecs
    <2>2. ReqTyped'
      BY <1>8, <1>g, <1>p DEF UndoRow
    <2> QED
      BY <1>t, <1>8, <1>q, <2>1, <2>2 DEF UndoRow
  <1>9. ASSUME NEW r \in Requests, Abandon(r) PROVE TypeOK'
    <2>1. ReqTyped'
      BY <1>9, <1>g, <1>p DEF Abandon, Ended, Ends
    <2> QED
      BY <1>t, <1>9, <1>q, <2>1 DEF Abandon, tables
  <1>10. ASSUME NEW r \in Requests, Worker(r) PROVE TypeOK'
    <2>1. blobs' \subseteq blobs /\ UNCHANGED <<aged, req, gc>>
      BY <1>10 DEF Worker, Attempt, Deliver, GiveUp
    <2>2. queue' \in [Requests -> {"none", "queued", "settled"}]
      BY <1>t, <1>10 DEF Worker, Attempt, Deliver, GiveUp, Settle
    <2>3. status' \in [Requests -> {"none", "pending", "terminal"}]
      BY <1>t, <1>10 DEF Worker, Attempt, Deliver, GiveUp, Settle
    <2>4. emails' \in {emails, [emails EXCEPT ![r].refs = {}]}
      BY <1>10 DEF Worker, Attempt, Deliver, GiveUp
    <2>5. emails' \in [Requests -> EmailRecs]
      BY <1>t, <2>4 DEF EmailRecs
    <2> QED
      BY <1>t, <1>q, <2>1, <2>2, <2>3, <2>5 DEF ReqTyped
  <1>11. ASSUME Collector PROVE TypeOK'
    <2>1. UNCHANGED <<tables, req>> /\ blobs' \subseteq blobs
      BY <1>11 DEF Collector, Snapshot, List, EndSweep, Collect, Spare, Age, tables
    <2>2. aged' \subseteq Blobs
      BY <1>t, <1>11 DEF Collector, Snapshot, List, EndSweep, Collect, Spare, Age
    <2>3. gc' \in GcRecs
      <3>1. LiveBlobs \in SUBSET Blobs
        BY <1>t DEF LiveBlobs, EmailRecs
      <3>2. CASE Snapshot
        BY <1>t, <3>1, <3>2 DEF Snapshot, GcRecs
      <3>3. CASE List
        BY <1>t, <3>3 DEF List, GcRecs
      <3>4. CASE EndSweep
        BY <3>4 DEF EndSweep, GcRecs, Sleeping
      <3>5. ASSUME NEW b \in Blobs, Collect(b) \/ Spare(b) \/ Age(b) PROVE gc' \in GcRecs
        BY <1>t, <3>5 DEF Collect, Spare, Age, GcRecs
      <3> QED
        BY <1>11, <3>2, <3>3, <3>4, <3>5 DEF Collector
    <2> QED
      BY <1>t, <1>q, <2>1, <2>2, <2>3 DEF tables, ReqTyped
  <1>12. CASE UNCHANGED vars
    BY <1>t, <1>q, <1>12 DEF vars, tables, ReqTyped
  <1> QED
    BY <1>1, <1>2, <1>3, <1>4, <1>5, <1>6, <1>7, <1>8, <1>9, <1>10, <1>11, <1>12
    DEF Next, Submission

-----------------------------------------------------------------------------
(* The invariant step by step: what a step of r does to r, and why it     *)
(* leaves the other requests alone.                                        *)

Guarded == (\A r \in Requests : ReqInv(r)) /\ KeysHeld /\ gc.doomed \subseteq aged

\* What a step does to the row of one request.
RowBecomes(r, row, refs) ==
  /\ emails'[r].row = row
  /\ emails'[r].refs = refs
  /\ \A q \in Requests \ {r} : emails'[q] = emails[q]

\* The ways in which a step changes a row.
LEMMA RowEffects ==
  ASSUME emails \in [Requests -> EmailRecs], NEW r \in Requests
  PROVE  /\ UNCHANGED emails => RowBecomes(r, emails[r].row, emails[r].refs)
         /\ \A x : emails' = [emails EXCEPT ![r].row = x] =>
              RowBecomes(r, x, emails[r].refs)
         /\ \A x : emails' = [emails EXCEPT ![r].refs = x] =>
              RowBecomes(r, emails[r].row, x)
         /\ emails' = [emails EXCEPT ![r].row = "gone", ![r].refs = {}] =>
              RowBecomes(r, "gone", {})
  BY DEF EmailRecs, RowBecomes

\* A step of another request that leaves q's rows and q's blobs as they are keeps
\* what is known of q: ids and blob keys are a request's own.
LEMMA OthersKept ==
  ASSUME NEW q \in Requests, ReqInv(q), req[q].written \subseteq Uploads[q],
         emails'[q] = emails[q], queue'[q] = queue[q], status'[q] = status[q],
         req'[q] = req[q], Uploads[q] \intersect blobs' = Uploads[q] \intersect blobs,
         UNCHANGED <<aged, gc>>
  PROVE  ReqInv(q)'
  BY DEF ReqInv, RowInv, EntryInv, BlobInv, Secured, Present

\* No two rows get to hold one key when no row appears.
LEMMA KeysKept ==
  ASSUME KeysHeld,
         \A q \in Requests : emails'[q].row = "present" => Present(q)
  PROVE  KeysHeld'
  BY DEF KeysHeld, SameKey, Present

\* A step that changes r's rows and r's blobs alone, and makes its row appear
\* only if no row holds its key: what is left to show is about r.
LEMMA OwnStep ==
  ASSUME SubmitInv, NEW r \in Requests, NEW place, NEW w, NEW orig, NEW row, NEW refs,
         Becomes(r, place, w, orig), RowBecomes(r, row, refs),
         \A q \in Requests \ {r} : queue'[q] = queue[q] /\ status'[q] = status[q],
         UNCHANGED <<aged, gc>>,
         \A q \in Requests \ {r} : Uploads[q] \intersect blobs' = Uploads[q] \intersect blobs,
         row = "present" => Present(r) \/ Holders(r) = {},
         ReqInv(r)'
  PROVE  Guarded'
  <1>1. ASSUME NEW q \in Requests \ {r} PROVE ReqInv(q)'
    <2>1. ReqInv(q) /\ req[q].written \subseteq Uploads[q]
      BY DEF SubmitInv, TypeOK
    <2>2. req'[q] = req[q] /\ emails'[q] = emails[q] /\ queue'[q] = queue[q] /\ status'[q] = status[q]
      BY DEF Becomes, RowBecomes
    <2> QED
      BY <2>1, <2>2, OthersKept
  <1>2. KeysHeld'
    <2>1. ASSUME NEW q \in Requests, NEW x \in Requests, SameKey(q, x)
          PROVE  ~(emails'[q].row = "present" /\ emails'[x].row = "present")
      <3>1. ~(Present(q) /\ Present(x)) /\ q # x /\ SameKey(x, q)
        BY <2>1 DEF SubmitInv, KeysHeld, SameKey
      <3>2. CASE q # r /\ x # r
        BY <3>1, <3>2 DEF RowBecomes, Present
      <3>3. CASE q = r
        BY <2>1, <3>1, <3>3 DEF RowBecomes, Present, Holders
      <3>4. CASE x = r
        BY <2>1, <3>1, <3>4 DEF RowBecomes, Present, Holders
      <3> QED
        BY <3>2, <3>3, <3>4
    <2> QED
      BY <2>1 DEF KeysHeld, SameKey, Present
  <1> QED
    BY <1>1, <1>2 DEF Guarded, SubmitInv

\* What is known of a request before any of its steps.
LEMMA Known ==
  ASSUME SubmitInv, NEW r \in Requests
  PROVE  /\ ReqInv(r) /\ ReqTyped
         /\ emails \in [Requests -> EmailRecs] /\ emails[r].row \in {"none", "present", "gone"}
         /\ queue \in [Requests -> {"none", "queued", "settled"}]
         /\ status \in [Requests -> {"none", "pending", "terminal"}]
         /\ req[r].written \subseteq Uploads[r]
         /\ req[r].at = "answered" <=> req[r].of \in Requests
         /\ gc.doomed \subseteq aged
         /\ \A q \in Requests \ {r} : Uploads[q] \intersect Uploads[r] = {}
         /\ Uploads[r] \subseteq Blobs
  BY SubmitAssumption DEF SubmitInv, TypeOK, ReqTyped, EmailRecs

\* The reservation, or the lookup of the row that holds the key.
LEMMA SaveStep == ASSUME SubmitInv, NEW r \in Requests, Save(r) PROVE Guarded'
  <1>1. /\ req[r].at = "save" /\ req[r].of # r /\ req[r].written = {} /\ emails[r].refs = {}
        /\ emails[r].row = "none" /\ queue[r] = "none" /\ status[r] = "none"
        /\ Uploads[r] \intersect (blobs \union aged) = {}
    BY Known DEF Save, ReqInv, RowInv, EntryInv, BlobInv
  <1>2. PICK place \in {"enqueue", "upload", "refused", "lookup"} :
          /\ Goto(r, place)
          /\ place = "enqueue" => Uploads[r] = {}
          /\ place \in {"enqueue", "upload"} =>
               emails' = [emails EXCEPT ![r].row = "present"] /\ Holders(r) = {}
          /\ place = "lookup" => UNCHANGED emails
          /\ place = "refused" =>
               \/ UNCHANGED emails
               \/ emails' = [emails EXCEPT ![r].row = "present"] /\ Holders(r) = {}
    BY <1>1 DEF Save
  <1>3. Becomes(r, place, {}, req[r].of)
    <2>1. place \in Places
      BY DEF Places, Ends
    <2>2. Becomes(r, place, req[r].written, req[r].of)
      BY <1>2, <2>1, Known, ReqEffects
    <2> QED
      BY <1>1, <2>2
  <1>4. PICK row \in {"none", "present"} :
          /\ RowBecomes(r, row, {})
          /\ row = "present" => Holders(r) = {}
          /\ place \in {"enqueue", "upload"} => row = "present"
          /\ place = "lookup" => row = "none"
    <2>e. emails \in [Requests -> EmailRecs]
      BY Known
    <2>1. UNCHANGED emails => RowBecomes(r, "none", {})
      BY <1>1, <2>e, RowEffects DEF RowBecomes
    <2>2. emails' = [emails EXCEPT ![r].row = "present"] => RowBecomes(r, "present", {})
      BY <1>1, <2>e, RowEffects DEF RowBecomes
    <2>3. CASE UNCHANGED emails /\ place \in {"lookup", "refused"}
      BY <2>1, <2>3
    <2>4. CASE /\ emails' = [emails EXCEPT ![r].row = "present"] /\ Holders(r) = {}
               /\ place # "lookup"
      BY <2>2, <2>4
    <2> QED
      BY <1>2, <2>3, <2>4
  <1>5. UNCHANGED <<queue, status, blobs, aged, gc>>
    BY DEF Save
  <1>6. ReqInv(r)'
    BY <1>1, <1>2, <1>3, <1>4, <1>5
    DEF ReqInv, RowInv, EntryInv, BlobInv, Secured, Present, Becomes, RowBecomes
  <1> QED
    BY <1>3, <1>4, <1>5, <1>6, OwnStep

\* The answer is the id that holds the key, not the request's own.
LEMMA LookupStep == ASSUME SubmitInv, NEW r \in Requests, Lookup(r) PROVE Guarded'
  <1>1. req[r].at = "lookup" /\ req[r].of # r
    BY Known DEF Lookup
  <1>2. UNCHANGED <<emails, queue, status, blobs, aged, gc>>
    BY DEF Lookup, tables
  <1>3. PICK place \in {"answered", "refused"}, orig \in Requests \union {NoRequest} :
          Becomes(r, place, req[r].written, orig) /\ orig # r
    <2>1. CASE Goto(r, "refused")
      <3>1. Becomes(r, "refused", req[r].written, req[r].of)
        BY <2>1, Known, ReqEffects DEF Places, Ends
      <3>2. req[r].of \in Requests \union {NoRequest}
        BY Known DEF ReqTyped, ReqRecs
      <3> QED
        BY <1>1, <3>1, <3>2
    <2>2. ASSUME NEW q \in Holders(r), Answer(r, q)
          PROVE  \E place \in {"answered", "refused"}, orig \in Requests \union {NoRequest} :
                   Becomes(r, place, req[r].written, orig) /\ orig # r
      <3>1. q \in Requests /\ q # r
        BY DEF Holders, SameKey
      <3>2. Becomes(r, "answered", req[r].written, q)
        BY <2>2, <3>1, Known, ReqEffects
      <3> QED
        BY <3>1, <3>2
    <2> QED
      BY <2>1, <2>2 DEF Lookup
  <1>4. RowBecomes(r, emails[r].row, emails[r].refs)
    BY <1>2, Known, RowEffects
  <1>5. ReqInv(r)'
    BY <1>1, <1>2, <1>3, Known
    DEF ReqInv, RowInv, EntryInv, BlobInv, Secured, Present, Becomes
  <1> QED
    BY <1>2, <1>3, <1>4, <1>5, OwnStep DEF Present

\* One blob more in the store, or the undo.
LEMMA UploadStep == ASSUME SubmitInv, NEW r \in Requests, Upload(r) PROVE Guarded'
  <1>1. req[r].at = "upload" /\ req[r].of # r
    BY Known DEF Upload
  <1>2. UNCHANGED <<emails, queue, status, aged, gc>>
    BY DEF Upload, tables
  <1>3. PICK place \in {"upload", "set_refs", "undo"}, w \in SUBSET Uploads[r],
            added \in SUBSET Uploads[r] :
          /\ Becomes(r, place, w, req[r].of)
          /\ blobs' = blobs \union added
          /\ place = "set_refs" => w = Uploads[r]
          /\ place # "undo" => w \subseteq req[r].written \union added
    <2>1. PICK b \in Uploads[r] \ req[r].written :
            \/ /\ blobs' = blobs \union {b}
               /\ req' = [req EXCEPT
                    ![r].written = req[r].written \union {b},
                    ![r].at = IF req[r].written \union {b} = Uploads[r] THEN "set_refs" ELSE "upload"]
            \/ blobs' \in {blobs, blobs \union {b}} /\ Goto(r, "undo")
      BY DEF Upload
    <2>2. CASE blobs' \in {blobs, blobs \union {b}} /\ Goto(r, "undo")
      <3>1. Becomes(r, "undo", req[r].written, req[r].of)
        BY <2>2, Known, ReqEffects DEF Places
      <3>2. PICK added \in {{}, {b}} : blobs' = blobs \union added
        BY <2>2
      <3>3. added \in SUBSET Uploads[r] /\ req[r].written \in SUBSET Uploads[r]
        BY Known
      <3> QED
        BY <3>1, <3>2, <3>3
    <2>3. CASE /\ blobs' = blobs \union {b}
               /\ req' = [req EXCEPT
                    ![r].written = req[r].written \union {b},
                    ![r].at = IF req[r].written \union {b} = Uploads[r] THEN "set_refs" ELSE "upload"]
      <3> DEFINE w == req[r].written \union {b}
                 place == IF w = Uploads[r] THEN "set_refs" ELSE "upload"
      <3>1. /\ w \in SUBSET Uploads[r] /\ w \in SUBSET Blobs
            /\ place \in {"upload", "set_refs"} /\ place \in Places
            /\ place = "set_refs" => w = Uploads[r]
            /\ w \subseteq req[r].written \union {b} /\ {b} \in SUBSET Uploads[r]
        BY Known DEF Places
      <3>2. req' = [req EXCEPT ![r].written = w, ![r].at = place]
        BY <2>3
      <3> HIDE DEF w, place
      <3>3. Becomes(r, place, w, req[r].of)
        BY <3>1, <3>2, Known, ReqEffects
      <3>4. PICK added : added = {b}
        OBVIOUS
      <3>5. added \in SUBSET Uploads[r] /\ blobs' = blobs \union added
            /\ w \subseteq req[r].written \union added
        BY <2>3, <3>1, <3>4
      <3>6. place \in {"upload", "set_refs", "undo"}
        BY <3>1
      <3>7. /\ Becomes(r, place, w, req[r].of)
            /\ blobs' = blobs \union added
            /\ place = "set_refs" => w = Uploads[r]
            /\ place # "undo" => w \subseteq req[r].written \union added
        BY <3>1, <3>3, <3>5
      <3> QED
        BY <3>1, <3>5, <3>6, <3>7, Zenon
    <2> QED
      BY <2>1, <2>2, <2>3
  <1>4. RowBecomes(r, emails[r].row, emails[r].refs)
    BY <1>2, Known, RowEffects
  <1>5. ReqInv(r)'
    BY <1>1, <1>2, <1>3, Known
    DEF ReqInv, RowInv, EntryInv, BlobInv, Secured, Present, Becomes
  <1>6. \A q \in Requests \ {r} : Uploads[q] \intersect blobs' = Uploads[q] \intersect blobs
    BY <1>3, Known
  <1> QED
    BY <1>2, <1>3, <1>4, <1>5, <1>6, OwnStep DEF Present

\* The row refers to every blob before anything is enqueued.
LEMMA SetRefsStep == ASSUME SubmitInv, NEW r \in Requests, SetRefs(r) PROVE Guarded'
  <1>1. req[r].at = "set_refs" /\ req[r].of # r
    BY Known DEF SetRefs
  <1>2. UNCHANGED <<queue, status, blobs, aged, gc>>
    BY DEF SetRefs
  <1>3. PICK place \in {"enqueue", "undo"} :
          /\ Goto(r, place)
          /\ emails' = [emails EXCEPT ![r].refs = req[r].written] \/ UNCHANGED emails
          /\ place = "enqueue" => emails' = [emails EXCEPT ![r].refs = req[r].written]
    BY DEF SetRefs
  <1>4. Becomes(r, place, req[r].written, req[r].of)
    BY <1>3, Known, ReqEffects DEF Places
  <1>5. PICK refs :
          RowBecomes(r, emails[r].row, refs) /\ (place = "enqueue" => refs = req[r].written)
    BY <1>3, Known, RowEffects
  <1>6. ReqInv(r)'
    BY <1>1, <1>2, <1>4, <1>5, Known
    DEF ReqInv, RowInv, EntryInv, BlobInv, Secured, Present, Becomes, RowBecomes
  <1> QED
    BY <1>2, <1>4, <1>5, <1>6, OwnStep DEF Present

\* An enqueue may take effect and still be undone.
LEMMA EnqueueStep == ASSUME SubmitInv, NEW r \in Requests, Enqueue(r) PROVE Guarded'
  <1>1. req[r].at = "enqueue" /\ req[r].of # r
    BY Known DEF Enqueue
  <1>2. UNCHANGED <<emails, status, blobs, aged, gc>>
    BY DEF Enqueue
  <1>3. PICK place \in {"announce", "undo"} :
          /\ Goto(r, place)
          /\ queue' = [queue EXCEPT ![r] = "queued"] \/ UNCHANGED queue
          /\ place = "announce" => queue' = [queue EXCEPT ![r] = "queued"]
    BY DEF Enqueue
  <1>4. Becomes(r, place, req[r].written, req[r].of)
    BY <1>3, Known, ReqEffects DEF Places
  <1>5. /\ \A q \in Requests \ {r} : queue'[q] = queue[q]
        /\ queue'[r] \in {queue[r], "queued"}
        /\ place = "announce" => queue'[r] = "queued"
    BY <1>3, Known
  <1>6. RowBecomes(r, emails[r].row, emails[r].refs)
    BY <1>2, Known, RowEffects
  <1>7. ReqInv(r)'
    BY <1>1, <1>2, <1>4, <1>5, <1>6, Known
    DEF ReqInv, RowInv, EntryInv, BlobInv, Secured, Present, Becomes, RowBecomes
  <1> QED
    BY <1>2, <1>4, <1>5, <1>6, <1>7, OwnStep DEF Present

\* The answer, with or without the Queued event. A worker may have been there first.
LEMMA AnnounceStep == ASSUME SubmitInv, NEW r \in Requests, Announce(r) PROVE Guarded'
  <1>1. req[r].at = "announce"
    BY DEF Announce
  <1>2. UNCHANGED <<emails, queue, blobs, aged, gc>>
    BY DEF Announce
  <1>3. Becomes(r, "answered", req[r].written, r)
    BY Known, ReqEffects DEF Announce
  <1>4. /\ \A q \in Requests \ {r} : status'[q] = status[q]
        /\ status'[r] \in {status[r], "pending"}
    BY Known DEF Announce
  <1>5. RowBecomes(r, emails[r].row, emails[r].refs)
    BY <1>2, Known, RowEffects
  <1>6. ReqInv(r)'
    BY <1>1, <1>2, <1>3, <1>4, <1>5, Known
    DEF ReqInv, RowInv, EntryInv, BlobInv, Secured, Present, Becomes, RowBecomes
  <1> QED
    BY <1>2, <1>3, <1>4, <1>5, <1>6, OwnStep DEF Present

\* The compensation takes blobs of its own request, which is not secured.
LEMMA UndoBlobStep == ASSUME SubmitInv, NEW r \in Requests, UndoBlob(r) PROVE Guarded'
  <1>1. req[r].at = "undo" /\ req[r].of # r
    BY Known DEF UndoBlob
  <1>2. UNCHANGED <<emails, queue, status, aged, gc>>
    BY DEF UndoBlob, tables
  <1>3. PICK b \in req[r].written :
          req' = [req EXCEPT ![r].written = req[r].written \ {b}] /\ blobs' \in {blobs, blobs \ {b}}
    BY DEF UndoBlob
  <1>4. Becomes(r, "undo", req[r].written \ {b}, req[r].of)
    <2> DEFINE w == req[r].written \ {b}
    <2>1. w \in SUBSET Blobs /\ req' = [req EXCEPT ![r].written = w]
      BY <1>3, Known
    <2> HIDE DEF w
    <2>2. Becomes(r, req[r].at, w, req[r].of)
      BY <2>1, Known, ReqEffects
    <2> QED
      BY <1>1, <2>2 DEF w
  <1>5. RowBecomes(r, emails[r].row, emails[r].refs)
    BY <1>2, Known, RowEffects
  <1>6. ReqInv(r)'
    BY <1>1, <1>2, <1>4, <1>5, Known
    DEF ReqInv, RowInv, EntryInv, BlobInv, Secured, Present, Becomes, RowBecomes
  <1>7. \A q \in Requests \ {r} : Uploads[q] \intersect blobs' = Uploads[q] \intersect blobs
    BY <1>3, Known
  <1> QED
    BY <1>2, <1>4, <1>5, <1>6, <1>7, OwnStep DEF Present

\* The row goes only if no entry and no event refers to it.
LEMMA UndoRowStep == ASSUME SubmitInv, NEW r \in Requests, UndoRow(r) PROVE Guarded'
  <1>1. req[r].at = "undo" /\ req[r].of # r
    BY Known DEF UndoRow
  <1>2. UNCHANGED <<queue, status, blobs, aged, gc>>
    BY DEF UndoRow
  <1>3. Becomes(r, "refused", req[r].written, req[r].of)
    BY Known, ReqEffects DEF UndoRow, Places, Ends
  <1>4. PICK row, refs :
          /\ RowBecomes(r, row, refs)
          /\ \/ row = emails[r].row /\ refs = emails[r].refs
             \/ row = "gone" /\ queue[r] # "queued" /\ status[r] = "none"
    <2>1. \/ /\ queue[r] # "queued" /\ status[r] = "none"
             /\ emails' = [emails EXCEPT ![r].row = "gone", ![r].refs = {}]
          \/ UNCHANGED emails
      BY DEF UndoRow, ReferredTo
    <2> QED
      BY <2>1, Known, RowEffects
  <1>5. ReqInv(r)'
    BY <1>1, <1>2, <1>3, <1>4, Known
    DEF ReqInv, RowInv, EntryInv, BlobInv, Secured, Present, Becomes, RowBecomes
  <1> QED
    BY <1>2, <1>3, <1>4, <1>5, OwnStep DEF Present

\* A request that is abandoned keeps what it has written.
LEMMA AbandonStep == ASSUME SubmitInv, NEW r \in Requests, Abandon(r) PROVE Guarded'
  <1>1. req[r].at \notin {"refused", "abandoned", "answered"} /\ req[r].of # r
    BY Known DEF Abandon, Ended, Ends
  <1>2. UNCHANGED <<emails, queue, status, blobs, aged, gc>>
    BY DEF Abandon, tables
  <1>3. Becomes(r, "abandoned", req[r].written, req[r].of)
    BY Known, ReqEffects DEF Abandon, Places, Ends
  <1>4. RowBecomes(r, emails[r].row, emails[r].refs)
    BY <1>2, Known, RowEffects
  <1>5. ReqInv(r)'
    BY <1>1, <1>2, <1>3, <1>4, Known
    DEF ReqInv, RowInv, EntryInv, BlobInv, Secured, Present, Becomes, RowBecomes
  <1> QED
    BY <1>2, <1>3, <1>4, <1>5, OwnStep DEF Present

\* A worker touches the e-mail it was handed, which has its row and its refs.
LEMMA WorkerStep == ASSUME SubmitInv, NEW r \in Requests, Worker(r) PROVE Guarded'
  <1>1. queue[r] = "queued" /\ Present(r) /\ emails[r].refs = Uploads[r]
    BY Known DEF Worker, Attempt, Deliver, GiveUp, Settle, ReqInv, EntryInv
  <1>2. UNCHANGED <<aged, gc, req>>
    BY DEF Worker, Attempt, Deliver, GiveUp
  <1>3. Becomes(r, req[r].at, req[r].written, req[r].of)
    BY <1>2 DEF Becomes
  <1>4. PICK refs : RowBecomes(r, "present", refs) /\ (refs = emails[r].refs \/ queue'[r] = "settled")
    <2>1. CASE Attempt(r) \/ GiveUp(r)
      BY <1>1, <2>1, Known, RowEffects, ZenonT(30) DEF Attempt, GiveUp, Present
    <2>2. CASE Deliver(r)
      <3>1. queue'[r] = "settled"
        BY <2>2, Known DEF Deliver, Settle
      <3> QED
        <4>1. UNCHANGED emails \/ emails' = [emails EXCEPT ![r].refs = {}]
          BY <2>2 DEF Deliver
        <4>2. \E refs : RowBecomes(r, emails[r].row, refs)
          BY <4>1, Known, RowEffects
        <4> QED
          BY <1>1, <3>1, <4>2 DEF Present
    <2> QED
      BY <2>1, <2>2 DEF Worker
  <1>5. /\ \A q \in Requests \ {r} : queue'[q] = queue[q] /\ status'[q] = status[q]
        /\ \/ queue'[r] = "queued" /\ status'[r] = "pending" /\ blobs' = blobs
           \/ queue'[r] = "settled"
    BY <1>1, Known DEF Worker, Attempt, Deliver, GiveUp, Settle
  <1>6. \A q \in Requests \ {r} : Uploads[q] \intersect blobs' = Uploads[q] \intersect blobs
    <2>1. PICK deleted \in SUBSET Uploads[r] : blobs' = blobs \ deleted
      <3>1. CASE Attempt(r) \/ GiveUp(r)
        <4>1. blobs' = blobs \ {}
          BY <3>1 DEF Attempt, GiveUp
        <4> QED
          BY <4>1
      <3>2. CASE Deliver(r)
        BY <1>1, <3>2 DEF Deliver
      <3> QED
        BY <3>1, <3>2 DEF Worker
    <2> QED
      BY <2>1, Known
  <1>7. req[r].at \notin {"save", "lookup", "upload", "set_refs", "enqueue"}
    BY <1>1, Known DEF ReqInv, RowInv, EntryInv, Present
  <1>8. ReqInv(r)'
    BY <1>1, <1>2, <1>4, <1>5, <1>7, Known
    DEF ReqInv, RowInv, EntryInv, BlobInv, Secured, Present, RowBecomes
  <1> QED
    BY <1>1, <1>2, <1>3, <1>4, <1>5, <1>6, <1>8, OwnStep

\* A step of the collector, which leaves rows and requests alone, keeps what is
\* known of their blobs.
LEMMA SweepKeeps ==
  ASSUME SubmitInv, UNCHANGED <<tables, req>>, gc'.doomed \subseteq aged',
         \A r \in Requests : BlobInv(r)'
  PROVE  Guarded'
  <1>1. \A r \in Requests : (RowInv(r) /\ EntryInv(r))'
    BY DEF SubmitInv, ReqInv, RowInv, EntryInv, Present, tables
  <1>2. KeysHeld'
    BY KeysKept DEF SubmitInv, tables, Present
  <1> QED
    BY <1>1, <1>2 DEF Guarded, ReqInv

\* Live blobs were listed, later ones are too young, and no live one is doomed.
LEMMA CollectorStep == ASSUME SubmitInv, Collector PROVE Guarded'
  <1> DEFINE Safe(r) == Secured(r) /\ queue[r] # "settled"
  <1>1. UNCHANGED <<tables, req>> /\ UNCHANGED <<emails, queue, status>>
    BY DEF Collector, Snapshot, List, EndSweep, Collect, Spare, Age, tables
  <1>2. \A r \in Requests : BlobInv(r) /\ req[r].written \subseteq Uploads[r]
    BY Known DEF ReqInv
  <1>3. gc \in GcRecs /\ gc.doomed \subseteq aged
    BY DEF SubmitInv, TypeOK
  <1>4. CASE Snapshot
    <2>1. ASSUME NEW r \in Requests, Safe(r) PROVE Uploads[r] \subseteq LiveBlobs
      <3>1. Present(r) /\ emails[r].refs = Uploads[r] /\ status[r] # "terminal"
        BY <2>1, Known DEF Secured, ReqInv, RowInv, EntryInv
      <3> QED
        BY <3>1 DEF LiveBlobs
    <2>2. /\ gc'.at = "list" /\ gc'.live = LiveBlobs /\ gc'.doomed = gc.doomed
          /\ UNCHANGED <<blobs, aged>>
      BY <1>3, <1>4 DEF Snapshot, GcRecs
    <2>3. \A r \in Requests : BlobInv(r)'
      BY <1>1, <1>2, <2>1, <2>2 DEF BlobInv, Secured
    <2> QED
      BY <1>1, <1>3, <2>2, <2>3, SweepKeeps
  <1>5. CASE List
    <2>1. /\ gc'.at = "delete" /\ gc'.doomed = (aged \intersect blobs) \ gc.live
          /\ gc.at = "list" /\ UNCHANGED <<blobs, aged>>
      BY <1>5 DEF List
    <2>2. \A r \in Requests : BlobInv(r)'
      BY <1>1, <1>2, <2>1 DEF BlobInv, Secured
    <2> QED
      BY <1>1, <2>1, <2>2, SweepKeeps
  <1>6. CASE EndSweep
    <2>1. gc'.at = "idle" /\ gc'.doomed = {} /\ UNCHANGED <<blobs, aged>>
      BY <1>6 DEF EndSweep, Sleeping
    <2>2. \A r \in Requests : BlobInv(r)'
      BY <1>1, <1>2, <2>1 DEF BlobInv, Secured
    <2> QED
      BY <1>1, <2>1, <2>2, SweepKeeps
  <1>7. ASSUME NEW b \in Blobs, Collect(b) \/ Spare(b) PROVE Guarded'
    <2>1. /\ b \in gc.doomed /\ blobs \ {b} \subseteq blobs' /\ blobs' \subseteq blobs
          /\ UNCHANGED aged
      BY <1>7 DEF Collect, Spare
    <2>2. gc'.at = gc.at /\ gc'.live = gc.live /\ gc'.doomed = gc.doomed \ {b}
      BY <1>3, <1>7 DEF Collect, Spare, GcRecs
    <2>3. ASSUME NEW r \in Requests PROVE BlobInv(r)'
      <3>2. req[r].at = "save" => (Uploads[r] \intersect (blobs \union aged) = {})'
        BY <1>1, <1>2, <2>1 DEF BlobInv
      <3>3. req[r].at \in {"upload", "set_refs"} =>
              (req[r].written \subseteq blobs /\ Uploads[r] \intersect aged = {})'
        BY <1>1, <1>2, <1>3, <2>1 DEF BlobInv
      <3>4. Safe(r) => Uploads[r] \subseteq blobs' /\ Uploads[r] \intersect gc'.doomed = {}
        BY <1>2, <2>1, <2>2 DEF BlobInv
      <3>5. Safe(r) /\ gc'.at = "list" =>
              Uploads[r] \intersect aged' = {} \/ Uploads[r] \subseteq gc'.live
        BY <1>2, <2>1, <2>2 DEF BlobInv
      <3> QED
        BY <1>1, <3>2, <3>3, <3>4, <3>5 DEF BlobInv, Secured
    <2> QED
      BY <1>1, <1>3, <2>1, <2>2, <2>3, SweepKeeps
  <1>8. ASSUME NEW b \in Blobs, Age(b) PROVE Guarded'
    <2>1. b \in blobs /\ aged' = aged \union {b} /\ gc.at # "list" /\ UNCHANGED <<blobs, gc>>
      BY <1>8 DEF Age
    <2>2. PICK o \in Requests : b \in Uploads[o] /\ req[o].at \notin {"upload", "set_refs"}
      BY <1>8 DEF Age
    <2>3. ASSUME NEW r \in Requests PROVE BlobInv(r)'
      <3>1. r # o => b \notin Uploads[r]
        BY <2>2, SubmitAssumption
      <3>2. req[r].at = "save" => b \notin Uploads[r]
        BY <1>2, <2>1 DEF BlobInv
      <3> QED
        BY <1>1, <1>2, <2>1, <2>2, <3>1, <3>2 DEF BlobInv, Secured
    <2> QED
      BY <1>1, <1>3, <2>1, <2>3, SweepKeeps
  <1> QED
    BY <1>4, <1>5, <1>6, <1>7, <1>8 DEF Collector

-----------------------------------------------------------------------------
(* The theorems.                                                           *)

\* Before the first call there are no rows and no blobs.
LEMMA SubmitInvInit == Init => SubmitInv
  <1> SUFFICES ASSUME Init PROVE SubmitInv
    OBVIOUS
  <1>1. TypeOK
    BY SubmitAssumption
    DEF Init, TypeOK, EmailRecs, ReqRecs, GcRecs, Places, Ends, Sleeping
  <1>2. ASSUME NEW r \in Requests PROVE ReqInv(r)
    <2>1. /\ req[r].at = "save" /\ req[r].written = {} /\ req[r].of # r
          /\ emails[r].row = "none" /\ emails[r].refs = {}
          /\ queue[r] = "none" /\ status[r] = "none" /\ blobs = {} /\ aged = {}
      BY SubmitAssumption DEF Init
    <2> QED
      BY <2>1 DEF ReqInv, RowInv, EntryInv, BlobInv, Secured, Present
  <1>3. KeysHeld /\ gc.doomed \subseteq aged
    BY DEF Init, KeysHeld, Present, SameKey, Sleeping
  <1> QED
    BY <1>1, <1>2, <1>3 DEF SubmitInv

\* Every step keeps the invariant.
LEMMA SubmitInvNext == SubmitInv /\ [Next]_vars => SubmitInv'
  <1> SUFFICES ASSUME SubmitInv, [Next]_vars PROVE SubmitInv'
    OBVIOUS
  <1>1. TypeOK'
    BY TypedNext DEF SubmitInv
  <1>2. Guarded'
    <2>1. ASSUME NEW r \in Requests, Submission(r) PROVE Guarded'
      BY <2>1, SaveStep, LookupStep, UploadStep, SetRefsStep, EnqueueStep, AnnounceStep,
         UndoBlobStep, UndoRowStep, AbandonStep DEF Submission
    <2>2. CASE UNCHANGED vars
      BY <2>2 DEF vars, tables, SubmitInv, Guarded, ReqInv, RowInv, EntryInv, BlobInv,
         Secured, Present, KeysHeld, SameKey
    <2> QED
      BY <2>1, <2>2, WorkerStep, CollectorStep DEF Next
  <1> QED
    BY <1>1, <1>2 DEF SubmitInv, Guarded

\* The inductive invariant holds of concurrent calls of execute, for any number
\* of requests, keys and attachments.
THEOREM SubmissionInvariant == Spec => []SubmitInv
  BY SubmitInvInit, SubmitInvNext, PTL DEF Spec

\* Type correctness of the tables, the store and the calls.
THEOREM SubmissionTypes == Spec => []TypeOK
  <1>1. SubmitInv => TypeOK
    BY DEF SubmitInv
  <1> QED
    BY <1>1, SubmissionInvariant, PTL

\* A worker never sees an e-mail without its row or with refs missing, whichever
\* of SetRefs, the enqueue and the compensation failed.
THEOREM WorkersSeeAllRefs == Spec => []WorkerSeesAllRefs
  <1>1. SubmitInv => WorkerSeesAllRefs
    BY DEF SubmitInv, ReqInv, EntryInv, WorkerSeesAllRefs
  <1> QED
    BY <1>1, SubmissionInvariant, PTL

\* Neither the compensation of another request nor a sweep of the collector takes
\* the row or the blobs of an accepted e-mail.
THEOREM AcceptedAreKept == Spec => []AcceptedKeepsBlobs
  <1>1. SubmitInv => AcceptedKeepsBlobs
    BY DEF SubmitInv, ReqInv, RowInv, EntryInv, BlobInv, Secured, AcceptedKeepsBlobs
  <1> QED
    BY <1>1, SubmissionInvariant, PTL

\* The idempotency key: two e-mails that hold one key are never both queued,
\* unless the row of one was rolled back after a worker had settled it.
THEOREM KeysAreHeldOnce == Spec => []OneEmailPerKey
  <1>1. ASSUME SubmitInv PROVE OneEmailPerKey
    <2> SUFFICES ASSUME NEW q \in Requests, NEW r \in Requests, SameKey(q, r),
                        queue[q] # "none", queue[r] # "none"
                 PROVE  \E x \in {q, r} :
                          emails[x].row = "gone" /\ queue[x] = "settled" /\ status[x] = "none"
      BY DEF OneEmailPerKey
    <2>1. PICK x \in {q, r} : ~Present(x)
      BY <1>1 DEF SubmitInv, KeysHeld
    <2>2. x \in Requests /\ queue[x] # "none"
      BY <2>1
    <2>3. emails[x].row = "gone" /\ status[x] = "none"
      BY <1>1, <2>1, <2>2, Known DEF ReqInv, RowInv, Present
    <2>4. queue[x] = "settled"
      BY <1>1, <2>1, <2>2, Known DEF ReqInv, EntryInv
    <2> QED
      BY <2>3, <2>4
  <1> QED
    BY <1>1, SubmissionInvariant, PTL
=============================================================================
