------------------------------- MODULE MCBlobs -------------------------------
(***************************************************************************)
(* Instances for TLC of the parts that attachments pass: the fetcher, the  *)
(* stores, the age of an object of the S3 store, the blobs that            *)
(* submissions leave behind, and the stores and queues of one deployment   *)
(* after the other. They share no state here, so each behaviour is one of  *)
(* a single part, which part picks; the others stay as they start. A       *)
(* liveness property is implied by the fairness of its part.               *)
(***************************************************************************)
EXTENDS AttachmentStores, Integers

CONSTANTS Hosts, WordSize, Limits, Sizes,                                  \* AttachmentFetcher
          Emails, Databases, Queues, Stores, Backend, Space, Prefix,
          MAX_ATTEMPTS, MaxStarts, None                                    \* Redeployment

VARIABLES part,
          url, config, body, got, at,                                      \* AttachmentFetcher
          date, days,                                                      \* ObjectAge
          running, starts, queued, row, status, refs, origin, blobs,
          members, attempts, old, widowed,                                 \* Redeployment
          submitted, waiting, latest, uploaded, overdue, req, gc                   \* SubmitEmail

fetcher    == <<url, config, body, got, at>>
age        == <<date, days>>
deployment == <<running, starts, queued, row, status, refs, origin, blobs, members, attempts, old, widowed>>
submission == <<submitted, waiting, latest, uploaded, overdue, req, gc>>
allVars    == <<part, vars, fetcher, age, deployment, submission>>

-----------------------------------------------------------------------------

Fetcher == INSTANCE AttachmentFetcher

\* Words of three bits.
Words == 0..7

\* 1970 to 2101: 2000, a leap year, and 2100, which is none, are passed. The grace
\* period is one hour, with the clocks a second apart on both sides of it.
Age1h == INSTANCE ObjectAge WITH
  LastYear <- 2101, Grace <- 3600, Times <- {0, 3599, 86399},
  Gaps <- {-86401, -1, 0, 3599, 3600, 86400}

AllStores == {"dir", "bucket", "bucket a", "redis", "redis a"}
OfStore(s, dir, bucket, redis) ==
  CASE s = "dir" -> dir [] s \in {"bucket", "bucket a"} -> bucket [] OTHER -> redis

Deployment == INSTANCE Redeployment WITH index <- members, aged <- old

\* A directory and a bucket with two prefixes.
DirOrBucket == {"dir", "bucket", "bucket a"}
BackendOf   == [s \in DirOrBucket |-> OfStore(s, "fs", "s3", "redis")]
SpaceOf     == [s \in DirOrBucket |-> OfStore(s, "root", "bucket", "db 0")]
PrefixOf    == [s \in DirOrBucket |-> IF s = "bucket a" THEN "a/" ELSE ""]

\* One database and its queue; a bucket and a Redis database, each with two prefixes.
Collection == INSTANCE Redeployment WITH
  Emails <- {"e1"}, Databases <- {"sqlite"}, Queues <- {"storage"}, Stores <- AllStores,
  Backend <- [s \in AllStores |-> OfStore(s, "fs", "s3", "redis")],
  Space   <- [s \in AllStores |-> OfStore(s, "root", "bucket", "db 0")],
  Prefix  <- [s \in AllStores |-> IF s \in {"bucket a", "redis a"} THEN "a/" ELSE ""],
  MAX_ATTEMPTS <- 2, MaxStarts <- 3, None <- None,
  index <- members, aged <- old

\* Two requests that retry one key, with an attachment each.
Submission == INSTANCE SubmitEmail WITH
  Requests <- {"r1", "r2"}, Key <- [r1 |-> "k", r2 |-> "k"], NoKey <- "none", NoRequest <- "none",
  Blobs <- {"b1", "b2"}, Uploads <- [r1 |-> {"b1"}, r2 |-> {"b2"}],
  emails <- submitted, queue <- waiting, status <- latest, blobs <- uploaded, aged <- overdue

-----------------------------------------------------------------------------

ASSUME PartsAssumption ==
  /\ Fetcher!FetcherAssumption /\ Age1h!AgeAssumption
  /\ Deployment!RedeploymentAssumption /\ Collection!RedeploymentAssumption

PartsInit ==
  /\ part \in {"stores", "fetcher", "age", "deployment", "collection", "submission"}
  /\ Init /\ (part # "stores" => backend = "fs")
  /\ IF part = "fetcher" THEN Fetcher!Init
     ELSE /\ url = [scheme |-> "https", host |-> [name |-> "a", capitals |-> FALSE, dot |-> FALSE]]
          /\ config = [allowed_domains |-> {}, allow_http |-> FALSE, max_bytes |-> 1]
          /\ body = [size |-> 1, declared |-> TRUE] /\ got = 0 /\ at = "check"
  /\ Age1h!Init
  /\ IF part = "collection" THEN Collection!Init ELSE Deployment!Init
  /\ Submission!Init

PartsNext ==
  /\ UNCHANGED part
  /\ \/ part = "stores"     /\ Next            /\ UNCHANGED <<fetcher, age, deployment, submission>>
     \/ part = "fetcher"    /\ Fetcher!Next    /\ UNCHANGED <<vars, age, deployment, submission>>
     \/ part = "age"        /\ Age1h!Next      /\ UNCHANGED <<vars, fetcher, deployment, submission>>
     \/ part = "deployment" /\ Deployment!Next /\ UNCHANGED <<vars, fetcher, age, submission>>
     \/ part = "collection" /\ Collection!Next /\ UNCHANGED <<vars, fetcher, age, submission>>
     \/ part = "submission" /\ Submission!Next /\ UNCHANGED <<vars, fetcher, age, deployment>>

PartsSpec == PartsInit /\ [][PartsNext]_allVars

-----------------------------------------------------------------------------
(* Properties of the parts, under names that tell them apart.              *)

\* The fetcher: hosts are compared by name, however the configuration spells them
\* ("lookups are case-insensitive and FQDN-dot-tolerant"); a body is returned
\* whole and within the limit; no more than the limit and one byte is ever held;
\* and TooLarge is said of bodies that exceed the maximum only.
FetchIsSound == Fetcher!FetchIsSound

\* A waiting e-mail's attachment is found by the worker whenever the program runs
\* with the directory, bucket or Redis database it was put in, unless a sweep under
\* another database took it.
WaitingIsReadable ==
  part # "collection" => Deployment!TypeOK /\ Deployment!WaitingIsReadable

\* An object of the S3 store is handed to the collector exactly when the grace period
\* has passed, never when the store's clock is ahead, its age being counted as the
\* calendar does (gregorian_days_since_epoch). The fetch returns, whatever the host
\* does; and what is left behind is collected: of a put that failed or was abandoned,
\* a delete that failed and a power loss; of any step of a submission that ended; and
\* of deployments with other backends, when a program stays up whose own store lists it,
\* although it takes no attachment from an e-mail that waits.
LeftBehindCollected ==
  /\ [](Age1h!DaysAgree /\ Age1h!ListedWhenDue)
  /\ [](part = "collection" => Collection!TypeOK /\ Collection!WaitingIsReadable)
  /\ []Submission!TypeOK
  /\ part = "fetcher"    /\ Fetcher!Fairness    => Fetcher!FetchReturns
  /\ part = "stores"     /\ Fairness            => LeftoversCollected
  /\ part = "submission" /\ Submission!Fairness => Submission!OrphansCollected
  /\ part = "collection" /\ Collection!Fairness => Collection!OrphansCollected
===============================================================================
