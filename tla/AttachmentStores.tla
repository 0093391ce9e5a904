--------------------------- MODULE AttachmentStores ---------------------------
(***************************************************************************)
(* The attachment store behind its port, one backend per deployment: files *)
(* under a root directory, objects of an S3 bucket, or Redis strings with  *)
(* a sorted set that indexes them by creation time; and the collector,     *)
(* which sees of a backend only what list_keys_older_than returns.         *)
(*                                                                         *)
(* Every put generates a fresh key, so a blob is named by its put. A name  *)
(* is in the temporary directory, under the root, or nowhere; "disk" is    *)
(* where a power loss may put it back. The two services do not lose what   *)
(* they have confirmed: their "disk" is what they hold.                    *)
(***************************************************************************)
EXTENDS Naturals

CONSTANTS Puts,        \* calls of put
          Backends,    \* the backends to consider
          MaxCrashes   \* bound on crashes of the machine

ASSUME StoresAssumption ==
  /\ Backends \subseteq {"fs", "s3", "redis"}
  /\ MaxCrashes \in Nat

VARIABLES backend,   \* the configured backend
          name,      \* where the name of each blob is, for a process
          disk,      \* and on the disk
          data,      \* what the file or object holds of the body
          synced,    \* blobs whose data is on the disk
          index,     \* members of the Redis sorted set
          put,       \* where each call of put is
          held,      \* blobs that the application refers to
          aged,      \* blobs past the grace period
          doomed,    \* keys the sweep under way has yet to delete
          crashes

store == <<name, disk, data, synced, index>>
vars  == <<backend, store, put, held, aged, doomed, crashes>>

Where    == {"nowhere", "tmp", "root"}
Stages   == {"create", "copy", "sync", "rename", "sync_dir", "clean"}
Outcomes == {"returned", "failed", "abandoned"}

\* The type invariant.
TypeOK ==
  /\ backend \in Backends
  /\ name \in [Puts -> Where] /\ disk \in [Puts -> Where]
  /\ data \in [Puts -> {"nothing", "part", "whole"}]
  /\ put \in [Puts -> {"idle"} \union Stages \union Outcomes]
  /\ \A s \in {synced, index, held, aged, doomed} : s \subseteq Puts
  /\ doomed \subseteq aged \ held
  /\ crashes \in 0..MaxCrashes

Init ==
  /\ backend \in Backends
  /\ name = [k \in Puts |-> "nowhere"] /\ disk = name
  /\ data = [k \in Puts |-> "nothing"]
  /\ put = [k \in Puts |-> "idle"]
  /\ synced = {} /\ index = {} /\ held = {} /\ aged = {} /\ doomed = {}
  /\ crashes = 0

Goto(k, stage) == put' = [put EXCEPT ![k] = stage]

Rest == UNCHANGED <<backend, held, aged, doomed, crashes>>

-----------------------------------------------------------------------------
(* put of the file system: write_committed, await by await.                *)

Step(k, at, next) ==
  /\ put[k] = at
  /\ Goto(k, next)
  /\ Rest /\ UNCHANGED index

Begin(k) ==
  /\ backend = "fs"
  /\ Step(k, "idle", "create")
  /\ UNCHANGED store

Create(k) ==
  /\ Step(k, "create", "copy")
  /\ name' = [name EXCEPT ![k] = "tmp"]
  /\ data' = [data EXCEPT ![k] = "part"]
  /\ UNCHANGED <<disk, synced>>

Copy(k) ==
  /\ Step(k, "copy", "sync")
  /\ data' = [data EXCEPT ![k] = "whole"]
  /\ UNCHANGED <<name, disk, synced>>

\* flush and sync_all of the temporary file.
SyncFile(k) ==
  /\ Step(k, "sync", "rename")
  /\ synced' = synced \union {k}
  /\ UNCHANGED <<name, disk, data>>

Rename(k) ==
  /\ Step(k, "rename", "sync_dir")
  /\ name' = [name EXCEPT ![k] = "root"]
  /\ UNCHANGED <<disk, data, synced>>

\* Faulty variant of SyncDir: put returns after the rename.
SyncDir_Skipped(k) ==
  /\ put[k] = "sync_dir"
  /\ Goto(k, "returned")
  /\ held' = held \union {k}
  /\ UNCHANGED <<backend, store, aged, doomed, crashes>>

\* sync_all of the root: its entries, and those removed from it, are on the disk.
\* The application then refers to the key that put returns.
SyncDir(k) ==
  /\ put[k] = "sync_dir"
  /\ Goto(k, "returned")
  /\ held' = held \union {k}
  /\ disk' = [j \in Puts |-> IF "root" \in {name[j], disk[j]} THEN name[j] ELSE disk[j]]
  /\ UNCHANGED <<backend, name, data, synced, index, aged, doomed, crashes>>

\* Any of these awaits may fail; a copy may stop half-way.
Fail(k) ==
  /\ put[k] \in Stages \ {"clean"}
  /\ Goto(k, "clean")
  /\ Rest /\ UNCHANGED store

\* The temporary file is removed; a failure to is ignored. After the rename there
\* is none, and the blob stays where it is.
Clean(k) ==
  /\ Step(k, "clean", "failed")
  /\ \/ name[k] = "tmp" /\ name' = [name EXCEPT ![k] = "nowhere"]
     \/ UNCHANGED name
  /\ UNCHANGED <<disk, data, synced>>

\* The caller is dropped at an await, or the process is killed.
Abandon(k) ==
  /\ put[k] \in Stages
  /\ Goto(k, "abandoned")
  /\ Rest /\ UNCHANGED store

-----------------------------------------------------------------------------
(* put of the two services, and delete.                                    *)

Held(k) ==
  /\ name' = [name EXCEPT ![k] = "root"]
  /\ disk' = [disk EXCEPT ![k] = "root"]
  /\ data' = [data EXCEPT ![k] = "whole"]
  /\ synced' = synced \union {k}

\* One PUT of the object; or one MULTI of SET and ZADD.
Store(k) ==
  /\ Held(k)
  /\ index' = IF backend = "redis" THEN index \union {k} ELSE index

\* The client for S3 makes no error of a refusal, and put does not look at the status
\* of the response: it returns a key under which there may be nothing.
Refuses == backend = "s3" /\ UNCHANGED store

\* An error is reported also when only the answer was lost.
PutRemote(k) ==
  /\ backend # "fs" /\ put[k] = "idle"
  /\ \/ (Store(k) \/ Refuses) /\ Goto(k, "returned") /\ held' = held \union {k}
     \/ (Store(k) \/ UNCHANGED store) /\ Goto(k, "failed") /\ UNCHANGED held
  /\ UNCHANGED <<backend, aged, doomed, crashes>>

\* remove_file, whose directory is not synced; one DELETE; one MULTI of DEL and ZREM.
\* A missing blob is no error.
Remove(k) ==
  /\ name' = [name EXCEPT ![k] = "nowhere"]
  /\ disk' = IF backend = "fs" THEN disk ELSE [disk EXCEPT ![k] = "nowhere"]
  /\ index' = index \ {k}
  /\ UNCHANGED <<data, synced>>

\* What a reader of the blob is given.
Get(k) == IF name[k] = "root" THEN data[k] ELSE "NotFound"

\* The application is done with a blob: it deletes it, or fails to, or leaves it to
\* the collector.
Release(k) ==
  /\ k \in held
  /\ held' = held \ {k}
  /\ Remove(k) \/ UNCHANGED store
  /\ UNCHANGED <<backend, put, aged, doomed, crashes>>

-----------------------------------------------------------------------------
(* Sweeps.                                                                 *)

\* What the listing of the backend goes through: plain files under the root,
\* whatever put them there; the objects of the bucket; the members of the index.
Listable == IF backend = "redis" THEN index ELSE {k \in Puts : name[k] = "root"}

\* The keys older than the grace period, but for those referred to.
List ==
  /\ doomed = {}
  /\ doomed' = (Listable \intersect aged) \ held
  /\ UNCHANGED <<backend, store, put, held, aged, crashes>>

\* delete of the next key; a failure is logged.
Collect(k) ==
  /\ k \in doomed
  /\ doomed' = doomed \ {k}
  /\ Remove(k)
  /\ UNCHANGED <<backend, put, held, aged, crashes>>

Spare(k) ==
  /\ k \in doomed
  /\ doomed' = doomed \ {k}
  /\ UNCHANGED <<backend, store, put, held, aged, crashes>>

\* The grace period outlasts a put.
Age(k) ==
  /\ put[k] \in Outcomes /\ k \notin aged
  /\ aged' = aged \union {k}
  /\ UNCHANGED <<backend, store, put, held, doomed, crashes>>

Unsynced == {k \in Puts \ synced : data[k] # "nothing"}

\* Power is lost: each name is where it was or where the disk had it, data that was
\* not synced may be cut, and no call goes on. The services are elsewhere.
Crash ==
  /\ crashes < MaxCrashes
  /\ crashes' = crashes + 1
  /\ name' \in {n \in [Puts -> Where] : \A k \in Puts : n[k] \in {name[k], disk[k]}}
  /\ disk' = name'
  /\ data' \in {d \in [Puts -> {"nothing", "part", "whole"}] :
                  \A k \in Puts : d[k] = data[k] \/ (k \in Unsynced /\ d[k] = "part")}
  /\ synced' = synced \union Unsynced
  /\ put' = [k \in Puts |-> IF put[k] \in Stages THEN "abandoned" ELSE put[k]]
  /\ doomed' = {}
  /\ UNCHANGED <<backend, index, held, aged>>

-----------------------------------------------------------------------------

Put(k) ==
  \/ Begin(k) \/ Create(k) \/ Copy(k) \/ SyncFile(k) \/ Rename(k) \/ SyncDir(k)
  \/ Fail(k) \/ Clean(k) \/ Abandon(k) \/ PutRemote(k)

Next ==
  \/ \E k \in Puts : Put(k) \/ Release(k) \/ Collect(k) \/ Spare(k) \/ Age(k)
  \/ List \/ Crash

Spec == Init /\ [][Next]_vars

\* Time passes, sweeps recur, and the backend does not fail to delete a key for ever.
Fairness ==
  /\ WF_vars(List)
  /\ \A k \in Puts : WF_vars(Age(k)) /\ SF_vars(Collect(k))

FairSpec == Spec /\ Fairness

-----------------------------------------------------------------------------
(* Properties.                                                             *)

\* What a bucket was sent, but refused to store.
Refused(k) == backend = "s3" /\ data[k] = "nothing"

\* get finds every blob that put has returned and the application still refers to,
\* with its whole body: write_committed syncs the file before the rename and the
\* directory after it, so that neither is lost with the power; and no sweep takes it.
\* Of what a bucket refused, though put returned, get says that it is not there.
ReferredIsReadable == \A k \in held : Get(k) = IF Refused(k) THEN "NotFound" ELSE "whole"

\* A blob is under its final name with its whole body or not at all, whatever step
\* of put failed, was dropped or lost its power.
NoPartialBlob == \A k \in Puts : name[k] = "root" => data[k] = "whole"

\* The stores: a blob that put has returned is readable as long as it is referred to,
\* through power losses, unless a bucket refused it; and never readable in part.
BlobsAreWhole == TypeOK /\ ReferredIsReadable /\ NoPartialBlob

\* A blob that nothing refers to, or will.
Leftover(k) == name[k] = "root" /\ k \notin held /\ put[k] \in Outcomes

\* What is left of a failed or abandoned put, a lost answer or a failed delete, and
\* what a power loss brings back, the collector removes.
LeftoversCollected == \A k \in Puts : Leftover(k) ~> name[k] # "root"
=============================================================================
