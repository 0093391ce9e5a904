------------------------------ MODULE BlobsProofs ------------------------------
(***************************************************************************)
(* Proofs about the parts that attachments pass: no blob that an e-mail    *)
(* refers to is lost or partial, for any number of puts and crashes; the   *)
(* fetcher keeps its limits, for any hosts, lengths and width of a word;   *)
(* and what waits can be read after any number of restarts with other      *)
(* databases, queues and stores.                                           *)
(***************************************************************************)
EXTENDS MCBlobs, FiniteSets, FiniteSetTheorems, TLAPS

-----------------------------------------------------------------------------
(* The attachment stores (AttachmentStores).                               *)

\* What a put has done when it is at a stage.
StageInv ==
  \A k \in Puts :
    /\ put[k] \in {"copy", "sync", "rename"} => name[k] = "tmp"
    /\ put[k] \in {"sync", "rename", "sync_dir"} => data[k] = "whole"
    /\ put[k] \in {"rename", "sync_dir"} => k \in synced
    /\ put[k] = "sync_dir" => name[k] = "root"
    /\ put[k] \in {"idle", "create"} => name[k] = "nowhere" /\ disk[k] = "nowhere" /\ data[k] = "nothing"

\* What is under its final name, or may be again after a power loss, is whole and
\* on the disk.
RootInv ==
  \A k \in Puts : "root" \in {name[k], disk[k]} => data[k] = "whole" /\ k \in synced

\* A blob that the application refers to is there for good, or a bucket refused it and
\* it never was anywhere; and only a put that has ended can be old.
HeldInv ==
  /\ \A k \in held :
       /\ put[k] = "returned"
       /\ \/ name[k] = "root" /\ disk[k] = "root"
          \/ Refused(k) /\ name[k] = "nowhere" /\ disk[k] = "nowhere"
  /\ \A k \in aged : put[k] \in Outcomes

StoresInv == TypeOK /\ StageInv /\ RootInv /\ HeldInv

\* Every step of a put into a directory keeps the invariant.
LEMMA PutFileStep ==
  ASSUME StoresInv, NEW k \in Puts,
         Begin(k) \/ Create(k) \/ Copy(k) \/ SyncFile(k)
           \/ Rename(k) \/ SyncDir(k) \/ Fail(k) \/ Clean(k)
           \/ Abandon(k)
  PROVE  StoresInv'
  <1> USE DEF StoresInv, StageInv, RootInv, HeldInv, Refused, TypeOK, Goto, Rest,
              Step, store, Where, Stages, Outcomes
  <1>1. CASE Begin(k)
    BY <1>1 DEF Begin
  <1>2. CASE Create(k)
    BY <1>2 DEF Create
  <1>3. CASE Copy(k)
    BY <1>3 DEF Copy
  <1>4. CASE SyncFile(k)
    BY <1>4 DEF SyncFile
  <1>5. CASE Rename(k)
    BY <1>5 DEF Rename
  <1>6. CASE SyncDir(k)
    BY <1>6 DEF SyncDir
  <1>7. CASE Fail(k) \/ Abandon(k)
    BY <1>7 DEF Fail, Abandon
  <1>8. CASE Clean(k)
    BY <1>8 DEF Clean
  <1> QED
    BY <1>1, <1>2, <1>3, <1>4, <1>5, <1>6, <1>7, <1>8

\* A put into a service, a delete and the collector's steps keep it.
LEMMA BlobStep ==
  ASSUME StoresInv, NEW k \in Puts,
         PutRemote(k) \/ Release(k) \/ Collect(k) \/ Spare(k)
           \/ Age(k)
  PROVE  StoresInv'
  <1> USE DEF StoresInv, StageInv, RootInv, HeldInv, Refused, TypeOK, Goto, store,
              Where, Stages, Outcomes
  <1>1. CASE PutRemote(k)
    BY <1>1 DEF PutRemote, Store, Held, Refuses
  <1>2. CASE Release(k)
    BY <1>2 DEF Release, Remove
  <1>3. CASE Collect(k)
    BY <1>3 DEF Collect, Remove
  <1>4. CASE Spare(k) \/ Age(k)
    BY <1>4 DEF Spare, Age
  <1> QED
    BY <1>1, <1>2, <1>3, <1>4

\* A power loss takes nothing that is whole and on the disk.
LEMMA PowerLossStep ==
  ASSUME StoresInv, Crash
  PROVE  StoresInv'
  <1> USE DEF StoresInv, StageInv, RootInv, HeldInv, Refused, TypeOK, Crash, Where,
              Stages, Outcomes, Unsynced
  <1>1. \A k \in Puts : name'[k] \in {name[k], disk[k]} /\ disk'[k] = name'[k]
    OBVIOUS
  <1>2. \A k \in Puts : data'[k] = data[k] \/ (k \notin synced /\ data[k] # "nothing" /\ data'[k] = "part")
    OBVIOUS
  <1>3. synced \subseteq synced' /\ synced' \subseteq Puts
    OBVIOUS
  <1>4. \A k \in Puts : put'[k] = IF put[k] \in Stages THEN "abandoned" ELSE put[k]
    OBVIOUS
  <1>5. RootInv'
    BY <1>1, <1>2, <1>3
  <1>6. HeldInv'
    BY <1>1, <1>2, <1>4
  <1>7. StageInv'
    BY <1>1, <1>4
  <1>8. TypeOK'
    <2>1. put' \in [Puts -> {"idle"} \union Stages \union Outcomes]
      <3>1. \A k \in Puts : put'[k] \in {"idle"} \union Stages \union Outcomes
        BY <1>4
      <3>2. put' = [k \in Puts |-> put'[k]]
        BY Zenon
      <3> QED
        BY <3>1, <3>2
    <2>2. crashes' \in 0..MaxCrashes
      BY StoresAssumption
    <2> QED
      BY <1>3, <2>1, <2>2
  <1> QED
    BY <1>5, <1>6, <1>7, <1>8

\* A blob that put has returned is readable while the application refers to it, unless
\* a bucket refused it, and no blob is ever readable in part, whatever step of
\* write_committed fails or is dropped, and wherever the power is lost.
THEOREM BlobsStayWhole == Spec => []BlobsAreWhole
  <1>1. Init => StoresInv
    BY StoresAssumption DEF Init, StoresInv, StageInv, RootInv, HeldInv, Refused,
           TypeOK, Where
  <1>2. StoresInv /\ [Next]_vars => StoresInv'
    <2> SUFFICES ASSUME StoresInv, [Next]_vars PROVE StoresInv'
      OBVIOUS
    <2>1. CASE List
      BY <2>1 DEF List, store, StoresInv, StageInv, RootInv, HeldInv, Refused, TypeOK
    <2>2. CASE UNCHANGED vars
      BY <2>2 DEF vars, store, StoresInv, StageInv, RootInv, HeldInv, Refused, TypeOK
    <2> QED
      BY <2>1, <2>2, PutFileStep, BlobStep, PowerLossStep DEF Next, Put
  <1>3. StoresInv => BlobsAreWhole
    BY DEF StoresInv, RootInv, HeldInv, BlobsAreWhole, ReferredIsReadable,
           NoPartialBlob, Get, Refused, TypeOK
  <1> QED
    BY <1>1, <1>2, <1>3, PTL DEF Spec

-----------------------------------------------------------------------------
(* The fetcher of attachments.                                             *)

\* A host that the configuration lists, in whatever spelling.
Listed == \E h \in config.allowed_domains : h.name = url.host.name

\* How far a call came with its host, and with the body.
FetchInv ==
  /\ Fetcher!TypeOK
  /\ at = "DomainNotAllowed" => ~Listed
  /\ at \in {"send", "read", "returned", "TooLarge", "Fetch"} => Listed
  /\ got <= Fetcher!LowerOf(body.size, Fetcher!Cap)
  /\ at = "returned" => got = body.size /\ body.size <= config.max_bytes
  /\ at = "TooLarge" => body.size > config.max_bytes

\* The cap of the reader is the byte past the limit; it would wrap only for the limit
\* that is left out.
LEMMA CapIsOnePast ==
  ASSUME Fetcher!FetcherAssumption, WordSize - 1 \notin Limits, config \in Fetcher!Configs
  PROVE  /\ config.max_bytes \in Nat
         /\ Fetcher!Cap = config.max_bytes + 1
         /\ (config.max_bytes + 1) % WordSize = config.max_bytes + 1
  <1>1. config.max_bytes \in Limits
    BY DEF Fetcher!Configs
  <1>2. config.max_bytes \in 0..(WordSize - 1) /\ config.max_bytes # WordSize - 1
          /\ WordSize \in Nat \ {0}
    BY <1>1 DEF Fetcher!FetcherAssumption, Fetcher!Word
  <1>3. (config.max_bytes + 1) % WordSize = config.max_bytes + 1
    BY <1>2
  <1> QED
    BY <1>2, <1>3 DEF Fetcher!Cap

\* The normalization of both sides makes hosts equal exactly when their names are.
LEMMA SameHost ==
  ASSUME url \in Fetcher!Urls, config \in Fetcher!Configs
  PROVE  Fetcher!OkDomain <=> Listed
  <1>1. \A h \in Fetcher!Spelled :
          Fetcher!Normal(url.host) = Fetcher!Normal(h) <=> url.host.name = h.name
    BY DEF Fetcher!Urls, Fetcher!Spelled, Fetcher!Normal
  <1>2. config.allowed_domains \subseteq Fetcher!Spelled
    BY DEF Fetcher!Configs
  <1> QED
    BY <1>1, <1>2 DEF Fetcher!OkDomain, Fetcher!Normalized, Listed

\* Lengths are numbers.
LEMMA LengthsAreNaturals ==
  ASSUME Fetcher!FetcherAssumption, body \in [size : Sizes, declared : BOOLEAN]
  PROVE  body.size \in Nat
  <1>1. body.size \in Sizes
    OBVIOUS
  <1>2. Sizes \subseteq 0..(WordSize - 1) /\ WordSize \in Nat \ {0}
    BY DEF Fetcher!FetcherAssumption, Fetcher!Word
  <1>3. \A n \in 0..(WordSize - 1) : n \in Nat
    OBVIOUS
  <1> QED
    BY <1>1, <1>2, <1>3, Zenon

\* Every step of a call, whatever the host answers.
LEMMA FetchStep ==
  ASSUME Fetcher!FetcherAssumption, WordSize - 1 \notin Limits, FetchInv,
         [Fetcher!Next]_Fetcher!vars
  PROVE  FetchInv'
  <1>0. /\ config \in Fetcher!Configs /\ url \in Fetcher!Urls /\ got \in 0..body.size
        /\ body \in [size : Sizes, declared : BOOLEAN]
    BY DEF FetchInv, Fetcher!TypeOK
  <1>1. /\ config \in Fetcher!Configs /\ url \in Fetcher!Urls /\ body.size \in Nat /\ got \in Nat
        /\ body \in [size : Sizes, declared : BOOLEAN]
    BY <1>0, LengthsAreNaturals
  <1>2. /\ config.max_bytes \in Nat
        /\ Fetcher!Cap = config.max_bytes + 1
        /\ (config.max_bytes + 1) % WordSize = config.max_bytes + 1
    BY <1>1, CapIsOnePast
  <1>3. Fetcher!OkDomain <=> Listed
    BY <1>1, SameHost
  <1>4. CASE Fetcher!Check
    BY <1>1, <1>3, <1>4
    DEF Fetcher!Check, Fetcher!Goto, FetchInv, Fetcher!TypeOK, Fetcher!Ends, Listed,
        Fetcher!OkScheme, Fetcher!LowerOf, Fetcher!Cap
  <1>5. CASE Fetcher!Headers \/ Fetcher!Break \/ Fetcher!Timeout
    BY <1>1, <1>2, <1>5
    DEF Fetcher!Headers, Fetcher!Break, Fetcher!Timeout, Fetcher!Goto, FetchInv, Fetcher!TypeOK,
        Fetcher!Ends, Listed, Fetcher!OkScheme, Fetcher!LowerOf, Fetcher!Cap
  <1>6. CASE Fetcher!End
    BY <1>1, <1>2, <1>6
    DEF Fetcher!End, Fetcher!Goto, FetchInv, Fetcher!TypeOK, Fetcher!Ends, Listed,
        Fetcher!OkScheme, Fetcher!LowerOf, Fetcher!Cap
  <1>7. ASSUME NEW n \in Fetcher!Word, Fetcher!Read(n) PROVE FetchInv'
    BY <1>1, <1>2, <1>7
    DEF Fetcher!Read, FetchInv, Fetcher!TypeOK, Fetcher!Ends, Listed, Fetcher!OkScheme,
        Fetcher!LowerOf, Fetcher!Cap
  <1>8. CASE UNCHANGED Fetcher!vars
    BY <1>8 DEF Fetcher!vars, FetchInv, Fetcher!TypeOK, Listed, Fetcher!OkScheme,
                Fetcher!LowerOf, Fetcher!Cap
  <1> QED
    BY <1>4, <1>5, <1>6, <1>7, <1>8 DEF Fetcher!Next

\* Whom a call asks, what it holds and what it returns or reports, whatever the host
\* answers and however long its body is (fetch of the fetcher): for words of any
\* width, and every limit but the largest word, for which max_bytes + 1 wraps. (In the
\* other parts of the run no call is made.)
THEOREM FetchesAreSound ==
  WordSize - 1 \notin Limits => (PartsSpec /\ part = "fetcher" => []FetchIsSound)
  <1> SUFFICES ASSUME WordSize - 1 \notin Limits
               PROVE  PartsSpec /\ part = "fetcher" => []FetchIsSound
    OBVIOUS
  <1> Fetcher!FetcherAssumption
    BY PartsAssumption
  <1>1. Fetcher!Init => FetchInv
    <2> SUFFICES ASSUME Fetcher!Init PROVE FetchInv
      OBVIOUS
    <2>1. config.max_bytes \in Nat /\ Fetcher!Cap = config.max_bytes + 1 /\ body.size \in Nat
      BY CapIsOnePast, LengthsAreNaturals DEF Fetcher!Init
    <2> QED
      BY <2>1 DEF Fetcher!Init, FetchInv, Fetcher!TypeOK, Fetcher!LowerOf
  <1>2. FetchInv /\ [Fetcher!Next]_Fetcher!vars => FetchInv'
    BY FetchStep
  <1>3. FetchInv => FetchIsSound
    <2> SUFFICES ASSUME FetchInv PROVE FetchIsSound
      OBVIOUS
    <2>1. config.max_bytes \in Nat /\ Fetcher!Cap = config.max_bytes + 1
            /\ body.size \in Nat /\ got \in Nat
      BY CapIsOnePast, LengthsAreNaturals DEF FetchInv, Fetcher!TypeOK
    <2> QED
      BY <2>1 DEF FetchInv, Listed, FetchIsSound, Fetcher!FetchIsSound, Fetcher!HostsByName,
                  Fetcher!ReturnedIsWhole, Fetcher!MemoryBounded, Fetcher!TooLargeIsTrue,
                  Fetcher!LowerOf
  <1>4. PartsInit /\ part = "fetcher" => FetchInv
    BY <1>1 DEF PartsInit
  <1>5. [PartsNext]_allVars => [Fetcher!Next]_Fetcher!vars
    BY DEF PartsNext, allVars, fetcher, Fetcher!vars
  <1> QED
    BY <1>2, <1>3, <1>4, <1>5, PTL DEF PartsSpec

-----------------------------------------------------------------------------
(* E-mails that wait over restarts with other backends (Redeployment).     *)

Lines == Databases \union (Queues \ {"storage"})

\* An e-mail waits in one queue, has a row that refers to its attachment and an
\* attempt left; the attachment is where it was put, or was swept.
WaitInv ==
  \A q \in Lines : \A e \in queued[q] :
    /\ origin[e] \in Stores /\ row[e] \in Databases /\ status[e] = "queued" /\ e \in refs
    /\ attempts[e] < MAX_ATTEMPTS
    /\ \A other \in Lines : e \in queued[other] => other = q
    /\ e \notin widowed => <<Space[origin[e]], e>> \in blobs

\* What was not submitted has left no trace.
FreshInv ==
  \A e \in Emails :
    origin[e] = None => /\ status[e] = "queued" /\ attempts[e] = 0 /\ e \notin widowed \union old
                        /\ \A q \in Lines : e \notin queued[q]

DeploymentInv == Deployment!TypeOK /\ WaitInv /\ FreshInv

\* Where an e-mail is queued while the program runs.
LEMMA QueueNameIsLine ==
  ASSUME Deployment!RedeploymentAssumption, running \in Deployment!Settings
  PROVE  Deployment!QueueName \in Lines /\ running.store \in Stores /\ running.storage \in Databases
  BY DEF Deployment!Settings, Deployment!QueueName, Lines

\* A start, a stop and the passing of time.
LEMMA RestartStep ==
  ASSUME Deployment!RedeploymentAssumption, DeploymentInv,
         \/ \E s \in Deployment!Settings : Deployment!Start(s)
         \/ Deployment!Stop
         \/ \E e \in Emails : Deployment!Age(e)
         \/ UNCHANGED Deployment!vars
  PROVE  DeploymentInv'
  <1> USE DEF DeploymentInv, WaitInv, FreshInv, Deployment!TypeOK, Deployment!mail, Deployment!stored,
              Lines
  <1>1. ASSUME NEW s \in Deployment!Settings, Deployment!Start(s) PROVE DeploymentInv'
    BY <1>1 DEF Deployment!Start, Deployment!RedeploymentAssumption
  <1>2. CASE Deployment!Stop
    BY <1>2 DEF Deployment!Stop
  <1>3. ASSUME NEW e \in Emails, Deployment!Age(e) PROVE DeploymentInv'
    BY <1>3 DEF Deployment!Age
  <1>4. CASE UNCHANGED Deployment!vars
    BY <1>4 DEF Deployment!vars
  <1> QED
    BY <1>1, <1>2, <1>3, <1>4

\* An upload, with its submission or without.
LEMMA IntakeStep ==
  ASSUME Deployment!RedeploymentAssumption, DeploymentInv, NEW e \in Emails,
         Deployment!Submit(e) \/ Deployment!Abandon(e)
  PROVE  DeploymentInv'
  <1>1. running \in Deployment!Settings /\ origin[e] = None
    BY DEF DeploymentInv, Deployment!TypeOK, Deployment!Submit, Deployment!Abandon, Deployment!Put,
           Deployment!Up
  <1>2. PICK line \in Lines : line = Deployment!QueueName
    BY <1>1, QueueNameIsLine
  <1>3. running.store \in Stores /\ running.storage \in Databases /\ MAX_ATTEMPTS \in Nat \ {0}
          /\ None \notin Databases \union Stores
    BY <1>1, QueueNameIsLine DEF Deployment!RedeploymentAssumption
  <1> USE DEF DeploymentInv, WaitInv, FreshInv, Deployment!TypeOK, Deployment!Put, Deployment!Stored,
              Lines
  <1>4. CASE Deployment!Submit(e)
    <2>1. /\ queued' = [queued EXCEPT ![line] = @ \union {e}]
          /\ origin' = [origin EXCEPT ![e] = running.store]
          /\ row' = [row EXCEPT ![e] = running.storage]
          /\ blobs' = blobs \union {<<Space[running.store], e>>}
          /\ refs' = refs \union {e}
          /\ members' \subseteq members \union {<<running.store, e>>}
          /\ UNCHANGED <<running, starts, status, attempts, old, widowed>>
      BY <1>2, <1>4 DEF Deployment!Submit
    <2>2. WaitInv'
      BY <1>1, <1>3, <2>1
    <2>3. FreshInv'
      BY <1>1, <1>3, <2>1
    <2>4. Deployment!TypeOK'
      BY <1>1, <1>3, <2>1
    <2> QED
      BY <2>2, <2>3, <2>4
  <1>5. CASE Deployment!Abandon(e)
    <2>1. /\ origin' = [origin EXCEPT ![e] = running.store]
          /\ blobs' = blobs \union {<<Space[running.store], e>>}
          /\ members' \subseteq members \union {<<running.store, e>>}
          /\ UNCHANGED <<running, starts, queued, row, status, refs, attempts, old, widowed>>
      BY <1>5 DEF Deployment!Abandon
    <2> QED
      BY <1>1, <1>3, <2>1
  <1> QED
    BY <1>4, <1>5

\* The worker's steps on an e-mail: it leaves its queue, or has an attempt left.
LEMMA AttemptStep ==
  ASSUME Deployment!RedeploymentAssumption, DeploymentInv, NEW e \in Emails,
         Deployment!Deliver(e) \/ Deployment!Retry(e) \/ Deployment!Fail(e)
  PROVE  DeploymentInv'
  <1>1. running \in Deployment!Settings
    BY DEF DeploymentInv, Deployment!TypeOK, Deployment!Deliver, Deployment!Retry, Deployment!Fail,
           Deployment!Up
  <1>2. PICK line \in Lines : line = Deployment!QueueName
    BY <1>1, QueueNameIsLine
  <1>3. e \in queued[line]
    BY <1>2 DEF Deployment!Deliver, Deployment!Retry, Deployment!Fail
  <1>4. /\ MAX_ATTEMPTS \in Nat \ {0} /\ attempts[e] \in Nat /\ attempts[e] < MAX_ATTEMPTS
        /\ origin[e] # None /\ \A other \in Lines : e \in queued[other] => other = line
    <2>1. MAX_ATTEMPTS \in Nat \ {0} /\ None \notin Stores
      BY DEF Deployment!RedeploymentAssumption
    <2>2. attempts[e] \in 0..MAX_ATTEMPTS
      BY DEF DeploymentInv, Deployment!TypeOK
    <2>3. /\ attempts[e] < MAX_ATTEMPTS /\ origin[e] \in Stores
          /\ \A other \in Lines : e \in queued[other] => other = line
      BY <1>3 DEF DeploymentInv, WaitInv
    <2> QED
      BY <2>1, <2>2, <2>3
  <1> USE DEF DeploymentInv, WaitInv, FreshInv, Deployment!TypeOK, Lines
  <1>5. CASE Deployment!Deliver(e)
    <2>1. /\ queued' = [queued EXCEPT ![line] = @ \ {e}]
          /\ refs' \in {refs, refs \ {e}}
          /\ blobs' \in {blobs, blobs \ {<<Space[running.store], e>>}}
          /\ members' \in {members, members \ {<<running.store, e>>}}
          /\ status' \in {status, [status EXCEPT ![e] = "sent"]}
          /\ UNCHANGED <<running, starts, row, origin, attempts, old, widowed>>
      BY <1>2, <1>5 DEF Deployment!Deliver, Deployment!Acked, Deployment!Cleared, Deployment!Deleted,
                        Deployment!Removed, Deployment!Published, Deployment!stored
    <2>2. WaitInv'
      BY <1>4, <2>1
    <2>3. FreshInv'
      BY <1>4, <2>1
    <2>4. Deployment!TypeOK'
      BY <1>4, <2>1 DEF Deployment!Terminal
    <2> QED
      BY <2>2, <2>3, <2>4
  <1>6. CASE Deployment!Retry(e)
    BY <1>4, <1>6 DEF Deployment!Retry, Deployment!Attempted, Deployment!stored
  <1>7. CASE Deployment!Fail(e)
    <2>1. /\ queued' = [queued EXCEPT ![line] = @ \ {e}]
          /\ attempts' = [attempts EXCEPT ![e] = @ + 1]
          /\ status' \in {status, [status EXCEPT ![e] = "failed"]}
          /\ UNCHANGED <<running, starts, row, refs, origin, blobs, members, old, widowed>>
      BY <1>2, <1>7 DEF Deployment!Fail, Deployment!Acked, Deployment!Attempted, Deployment!Published,
                        Deployment!stored
    <2>2. WaitInv'
      BY <1>4, <2>1
    <2>3. FreshInv'
      BY <1>4, <2>1
    <2>4. Deployment!TypeOK'
      BY <1>4, <2>1 DEF Deployment!Terminal
    <2> QED
      BY <2>2, <2>3, <2>4
  <1> QED
    BY <1>5, <1>6, <1>7

\* A sweep takes the attachment of a waiting e-mail under another database only: under
\* its own the reference names the backend that holds it.
LEMMA CollectStep ==
  ASSUME Deployment!RedeploymentAssumption, DeploymentInv, NEW e \in Emails, Deployment!Collect(e)
  PROVE  DeploymentInv'
  <1>1. running \in Deployment!Settings
    BY DEF DeploymentInv, Deployment!TypeOK, Deployment!Collect, Deployment!Up
  <1>2. running.store \in Stores /\ running.storage \in Databases /\ None \notin Databases \union Stores
    BY <1>1, QueueNameIsLine DEF Deployment!RedeploymentAssumption
  <1>3. /\ blobs' = blobs \ {<<Space[running.store], e>>}
        /\ members' = members \ {<<running.store, e>>}
        /\ widowed' = IF row[e] \in {running.storage, None} THEN widowed ELSE widowed \union {e}
        /\ e \notin Deployment!Live(running) /\ e \in old
        /\ UNCHANGED <<running, starts, queued, row, status, refs, origin, attempts, old>>
    BY DEF Deployment!Collect, Deployment!Deleted, Deployment!Removed, Deployment!mail
  <1>4. ASSUME NEW q \in Lines, e \in queued[q], e \notin widowed'
        PROVE  Space[origin[e]] # Space[running.store]
    <2>1. origin[e] \in Stores /\ row[e] = running.storage /\ status[e] = "queued" /\ e \in refs
      BY <1>2, <1>3, <1>4 DEF DeploymentInv, WaitInv
    <2>2. e \in Deployment!Referred(running.storage)
      BY <2>1 DEF Deployment!Referred, Deployment!Terminal
    <2>3. Backend[origin[e]] # Backend[running.store]
      BY <1>3, <2>2 DEF Deployment!Live, Deployment!Label
    <2> QED
      BY <1>2, <2>1, <2>3 DEF Deployment!RedeploymentAssumption
  <1>5. WaitInv'
    BY <1>3, <1>4 DEF DeploymentInv, WaitInv, Lines
  <1>7. FreshInv'
    BY <1>3 DEF DeploymentInv, FreshInv, Lines
  <1>8. Deployment!TypeOK'
    BY <1>3 DEF DeploymentInv, Deployment!TypeOK
  <1> QED
    BY <1>5, <1>7, <1>8 DEF DeploymentInv

\* A waiting e-mail's attachment is found whenever the program runs with the store it
\* was put in, whatever else was configured meanwhile, unless a sweep under another
\* database took it (get, list_keys_older_than and the references of the adapters):
\* for any stores, prefixes and databases and any number of restarts.
THEOREM WaitingStaysReadable == PartsSpec => []WaitingIsReadable
  <1> Deployment!RedeploymentAssumption
    BY PartsAssumption
  <1>1. Deployment!Init => DeploymentInv
    BY DEF Deployment!Init, DeploymentInv, WaitInv, FreshInv, Lines, Deployment!TypeOK,
           Deployment!RedeploymentAssumption
  <1>2. DeploymentInv /\ [Deployment!Next]_Deployment!vars => DeploymentInv'
    BY RestartStep, IntakeStep, AttemptStep, CollectStep DEF Deployment!Next
  <1>3. DeploymentInv => WaitingIsReadable
    BY DEF DeploymentInv, WaitInv, Lines, WaitingIsReadable, Deployment!TypeOK, Deployment!WaitingIsReadable,
           Deployment!Waiting, Deployment!Gets, Deployment!Found
  <1> DEFINE Other == part = "collection"
  <1>4. PartsInit => Deployment!Init \/ Other
    BY DEF PartsInit
  <1>5. Other /\ [PartsNext]_allVars => Other'
    BY DEF PartsNext, allVars
  <1>6. [PartsNext]_allVars => Other \/ [Deployment!Next]_Deployment!vars
    BY DEF PartsNext, allVars, deployment, Deployment!vars, Deployment!mail, Deployment!stored
  <1>7. Other => WaitingIsReadable
    BY DEF WaitingIsReadable
  <1> HIDE DEF Other
  <1> QED
    BY <1>1, <1>2, <1>3, <1>4, <1>5, <1>6, <1>7, PTL DEF PartsSpec
================================================================================
