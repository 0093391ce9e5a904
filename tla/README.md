# Catapulte: specifications, model checking and proofs

Catapulte is an e-mail gateway: it takes submissions over HTTP or NATS, keeps
them in a database and a queue, and has workers that render them and hand them
to SMTP servers, with retries, lifecycle events and attachments in a store of
their own. This directory specifies it in TLA+: first of all what happens to an
e-mail from its submission until it is sent or given up, under concurrency and
failure, then the parts around that path, each by what could go wrong in it.

## The system

| Component | State | Operations | Interacts with |
|---|---|---|---|
| Submission, `domain/src/use_case/submit_email.rs` | the progress of each call | `execute`: reserve the row, upload attachments, patch the refs in, enqueue, publish `Queued`; compensation after each failure | repository, attachment store, queue, events |
| E-mail repository, `adapter/outbound-{sqlite,postgres}/src/email_repository.rs` | table `emails` (unique idempotency key, refs in the body) | `save`, `set_attachments`, `delete`, `list_emails`, `list_all_attachment_blobs` | foreign keys from queue and events |
| Storage queue, `.../email_queue.rs` | table `email_queue` (`claimed_until`, `attempt_count`) | `enqueue`, `try_dequeue`, `ack`, `nack` | workers of every process |
| PostgreSQL queue, `outbound-postgres/src/email_queue.rs` | the same table, row locks, a pool of connections | the same port; the dequeue and `set_attachments` are transactions | workers of every process |
| Memory queue, `outbound-queue-memory` | a channel, a counter, a map of pending entries | the same port | the worker of its process |
| NATS queue, `outbound-nats/src/email_queue.rs` | a JetStream work queue and its consumer | the same port; publishes nobody confirms | workers of every process |
| Worker, `adapter/inbound-worker/src/worker.rs` | a semaphore, a set of tasks | `run`: permit, dequeue, spawn; `process_one`: `Sending`, execute, ack or nack, cleanup, outcome event | queue, repository, store, events |
| Processing, `domain/src/use_case/process_queued_email.rs`, resolver, interpolator, renderer | none; templates loaded at the start | resolve, interpolate, render, fetch attachments, send | template hosts, store, routing |
| Routing, `domain/src/service/routed_email_sender.rs` | none; reads quotas from the events | `send`: eligible routes in order, then all of them | SMTP transports, usage |
| Usage, `sender_usage.rs`, `list_senders.rs` | counts over `lifecycle_events` | `get_stats`, the listing of senders | routing, HTTP |
| SMTP transports, `outbound-smtp` | idle connections | build, `send_inner` | servers |
| Attachment stores, `adapter/outbound-attachment-{fs,s3,redis}` | blobs under random keys, with an age | `put`, `get`, `delete`, `list_keys_older_than` | submission, worker, collector |
| Attachment fetcher, `outbound-attachment-fetcher` | none | `fetch`: checks, redirect-free GET, bounded read | hosts |
| Collector, `binary/src/gc.rs` | one sweep | snapshot of the live refs, listing of old keys, deletion of the rest | repository, store |
| Events, `event_publisher.rs`, `binary/src/publisher.rs`, webhook, NATS | table `lifecycle_events` | `publish`, to storage and transports | status of an e-mail, quotas, collector |
| Inbound NATS, `inbound-nats` | a durable consumer | fetch, submit, ack, nak or discard | submission |
| HTTP, `inbound-http` | none | three ways to submit, listings, probes | submission, repositories |
| Formats, the `dto.rs` of the adapters | rows, payloads, trace headers | write, read, of this version and the one before | submission, worker, collector |
| Process, `binary/src/{lib,main,config}.rs` | settings, background tasks, telemetry providers | read the settings, build, run, cancel, drain for 30 s, abort, flush | everything |
| Sampler, `binary/src/metrics.rs` | gauges | sample queue and senders | queue, usage |

What is hard:

* **Several processes on one queue.** A claim is a row hidden for 300 s; its
  token is the row's id, so a worker whose claim lapsed acks or nacks the entry
  of the one who claimed it next.
* **Crashes and lost answers** between any two awaits: after the SMTP server has
  accepted, after the ack and before the event, during compensation.
* **No transaction spans two of** database, attachment store and queue.
  Submission keeps them together by order (blobs, refs, queue) and compensation.
* **Statuses are derived** from the latest event, which several writers publish.
* **The collector races** submissions whose blobs no row refers to yet.
* **Permits** must come back on every path or the worker stops for good.
* **Deliveries nobody confirms.** JetStream redelivers what is not acked in time
  and stops after `max_deliver`; an enqueue, an ack or a nack may be lost.
* **Locks and pools.** A call that holds a connection or a row while it waits for
  another one may stop every other call.
* **Versions and settings change.** Two releases start over one database; rows,
  payloads and blobs come from another release or another backend.
* **Time limits that race answers**: of a request, of a webhook call, of a probe, of
  the shutdown, of the flush.

What makes it correct:

* queue and worker: an accepted e-mail is sent or given up for a reason, once
  unless something fails; retries find their attachments; events tell the truth;
  the queue drains;
* submission: what is queued is complete; a key yields one e-mail; what failed
  leaves nothing for ever;
* collector: never takes what an accepted e-mail needs; takes what nothing needs;
* sending: all recipients or none, with all that was asked, by a sender that may;
* interfaces: an answer tells what happened, also when it is an error; a listing
  can be paged; a probe tells what it saw;
* process: settings mean what they say; it stops when told to, whatever hangs but a
  call on a blocking thread.

`PROJECT.json` lists every hazard at its line with the properties that catch it.

## Modules

    AtLeastOnce        what a queue and its workers owe an accepted e-mail
      ^ refined by
    Delivery           worker processes over the storage queue
      extends StorageQueue      the table email_queue
      MCDelivery                instances for TLC
      DeliveryProofs            theorems: safety, refinement, repeats, permits, outcomes
    SubmitEmail        submissions, compensation, the collector
      MCSubmitEmail             instances for TLC
      SubmitEmailProofs         theorems
    MCQueues           queues outside the database
      extends MemoryQueue       a worker over the in-memory queue; refines AtLeastOnce
      NatsQueue                 workers over JetStream; refines AtLeastOnce
      InboundNats               submissions over NATS
      QueuesProofs              theorems about the three
    MCDatabase         one database under several processes and releases
      extends PostgresQueue     row locks, transactions, a pool; refines QueuePort
        QueuePort               what a caller of the port may rely on
      Upgrade                   migrations and processes of two releases
      Codecs                    what is written and read back
      DatabaseProofs            theorems about PostgresQueue and Upgrade
    MCBlobs            attachments from their download to their collection
      extends AttachmentStores  file system, S3 and Redis behind the port
      ObjectAge                 dates of the S3 store
      AttachmentFetcher         one download
      Redeployment              other backends after a restart
      (SubmitEmail              the collector's liveness)
      BlobsProofs               theorems about stores, fetcher and deployments
    MCSending          one delivery
      extends RoutedSender      concurrent sends over several routes, with quotas
      SenderUsage               usage in rolling windows
      SmtpDelivery              transports, connections, dialogue
      Rendering                 template, parts, attachments, message
      SendingProofs             theorems about the four
    MCHttp             the HTTP interface
      extends Listing           pages of e-mails and events
      HttpApi                   one request, from the router to the response
      EmailFilters              recipients and templates, as patterns
      EventLog                  what the events tell
      HttpProofs                theorems about listings, requests and events
    MCProcess          the process around it
      extends Application       start, tasks, signal, shutdown
      Configuration             the settings
      Telemetry                 exporters and their flush
      Readiness                 the probe
      Gauges                    the sampler
      EventFanout               subscribers of the events
      ProcessProofs             theorems about the six

*Parts.* The components under `MCQueues` to `MCProcess` meet the others only through
an interface that their module states (an outcome, a bag of rows, a connection), so
they are checked each by itself. Such an MC module holds the variables of all its
components; a variable `part` picks one of them (or one of its instances), which
moves, while the others keep their first state. State counts therefore add up
and do not multiply. A property of such a run is the conjunction of the
components' own properties, named in their modules with what they are about; a
liveness property is implied by the fairness of its part, as in
`part = "memory" /\ Fairness => Drains`. Most instances take their constants from
those of the MC module, which the .cfg gives values, so that the theorems about the
run's own specification, `PartsSpec`, are for every value of them; an instance with
values of its own is a second setting of a component, and its safety is checked with
the liveness of the run (`QueuesDecide`, `SendingSettles`, `LeftBehindCollected`,
`ProcessResponds`). The components that must be seen together
are composed in one module: processes, storage and store in Delivery; submission,
workers and collector in SubmitEmail; routes, quotas and events in RoutedSender.

### StorageQueue

One row per e-mail. `Insert`, `Claim`, `Delete`, `Hide` are the statements of
`enqueue`, `try_dequeue`, `ack` and `nack`. `claimed_until` is kept as `hidden`
(`"no"`, `"claim"`, `"backoff"`), and `Reappear` is the clock passing it. Rows of
one millisecond tie in `ORDER BY enqueued_at`; `Times` has two instants so that
both an order and a tie occur. A deleted row stays as a tombstone so that
properties can speak of its last `attempt_count`.

### Delivery

`loop[p]` and `permits[p]` are `Worker::run` of process p: `Acquire`, `TryDequeue`
(the claiming statement), `Spawn` (the second statement and the spawn),
`DequeueFails`, `WakeUp`, `Cancel`, `Drained`. `tasks[p][s]` is the `process_one`
task on permit slot s, one action per await: `PublishSending`, `Execute`, `Send`,
`Ack`, `ClearRefs`, `DeleteBlob`, `Nack`, `PublishOutcome`. A task carries the
attempt and the refs it was dequeued with, so it can be stale. `Crash` and
`Restart` lose all but the tables and the store; that a supervisor starts a
process again is assumed. `Enqueue` and `PublishQueued` are the end of a
submission, between which workers may run.

*Faults.* Whatever should not happen (a crash, a shutdown, a storage, queue or
event call that fails, with or without effect; an SMTP acceptance whose answer is
lost; a claim that lapses while its task is busy) increments `faults`, bounded by
`MaxFaults`. An SMTP refusal or a failing execute is not a fault: retries are
made for them. The counter lets properties say "at most one more for each fault".

PostgreSQL runs the two statements of a dequeue in one transaction; its
behaviours are those in which no other step comes between them. `try_dequeue`'s
branch for a missing `emails` row is absent: the foreign key rules it out, which
SubmitEmail checks (`WorkerSeesAllRefs`).

### SubmitEmail

`req[r]` is a call of `execute`, one action per await: `Save`, `Lookup`, `Upload`,
`SetRefs`, `Enqueue`, `Announce`, and `UndoBlob`, `UndoRow` for the compensation,
which four error paths share. A failing statement may have taken effect.
`Abandon` ends a call at any await without compensation: a crash, or a handler
whose connection went away. Workers appear as their effect on the shared tables
(`Attempt`, `Deliver`, `GiveUp`, with any subset of the cleanup done and the
terminal event stored or not). The collector is `Snapshot`, `List`, `Collect` or
`Spare` per key, `EndSweep`; `Age` is a blob passing the grace period.

*The grace period.* `Age` holds a blob back while its request has yet to store
the refs and while a sweep is between its two queries. The defaults justify it:
3600 s against at most ten attachments, each fetched within 30 s (inline ones are
in memory already). A deployment that shortens `CATAPULTE_GC_GRACE_PERIOD_SECS`
below its slowest submission loses the property `AcceptedKeepsBlobs`.

### RoutedSender

`Delivery` has one step for `RoutedEmailSender::send`; this module opens it up.
`send[s]` is the call of one worker task, one action per await: `CountUsage`
(`get_stats`, one query per quota range of the candidates), `Deliver` (the next
route of the pass), `EndOfPass`, and `Record`, the worker storing the event that
later queries count. `Begin` derives the candidates, `Abandon` is a crash or an
aborted task. `usage[r]` is what a query would find; `within[r]`, which no code
reads, counts what SMTP servers took in first passes, so that properties can
compare it with the quota. The list of candidates is the set `Candidates` in the
order `Before`; the stable sort by priority makes the configuration's order,
`Position`, decide ties.

Everything happens within one quota window: since windows slide, a count only ever
falls by deliveries that are older than the window, which `within` would not count
either. *Faults* are a query that fails, an acceptance whose answer is lost, and an
event that is not stored, bounded by `MaxFaults`; `MaxSends` bounds the sends.

### MemoryQueue

The second queue backend (`CATAPULTE_QUEUE_BACKEND=memory`). An entry moves from
`sending` (counted by `fetch_add`, not yet sent) into the `channel`, out of it with
`Receive`, is counted down (`CountDown`), registered under a fresh token in
`pending` and handed to a task (`Register`); `Ack` removes it, `Nack` moves it to
`sleeping`, the spawned task that sleeps out the backoff, and `Wake` counts and sends
it again. The worker is reduced to what matters to a queue: the outcome of a send.
Neither `ack` nor `nack` can fail here, and nothing lapses. *Faults* are a lost
SMTP answer, a panic of a task (the permit is dropped, the entry stays in the map for
ever) and a restart, which empties the queue, as `binary/src/queue.rs:143` warns.

### NatsQueue

`Enqueue`, an ack or a nack puts a command on the `wire`, from which the server
receives it (`Receive`) or a lost connection takes it. `stream[e]` is the message:
its place and how often it was delivered. JetStream is external: it redelivers after
`ack_wait` (`Timer`), also while a task is still busy with the e-mail, and parks a
message after `MaxDeliver` deliveries. A payload that `dequeue` cannot read is neither
acked nor nacked and comes back until it is parked (part `garbled`). `WorkerStep`
reduces the worker to what it tells the queue. The worker's attempts are the
deliveries, so `MAX_ATTEMPTS` and `MaxDeliver` meet (`ParkedByFault`).

### InboundNats

Servers on one durable consumer: fetch, reserve, enqueue or give back, then ack, nak
or discard; a shutdown answers the message in hand. A message may be redelivered
between the two steps of the use case; an idempotency key finds its own reservation.

### AtLeastOnce

Four sets: `owed`, `sentOut`, `excused`, `settled`. An e-mail leaves `owed` only
if it was sent or is excused (attempts used up, or no route), and never returns.
Delivery, MemoryQueue and NatsQueue implement it.

### PostgresQueue, QueuePort, Upgrade, Codecs

PostgresQueue opens up what StorageQueue has as one statement: connections of the
pool, the row lock of `FOR UPDATE SKIP LOCKED`, the foreign key's lock, commits whose
answer is lost, `READ COMMITTED`. QueuePort is what Delivery relies on: a dequeue is
one step on a visible entry (`KeepsPort`).

Upgrade has the steps of `AppConfig::build` for processes of two releases over one
database (advisory lock, one migration after the other) and one NATS consumer, with
starts that fail or die at any step, and the rows that one release writes and the
other reads. Codecs follows one e-mail through a row or a payload to the worker, the
collector and the listing, as trees of what each conversion writes and reads; it
starts with a submission or with what an earlier version left.

### AttachmentStores, ObjectAge, AttachmentFetcher, Redeployment

AttachmentStores has the three backends behind the port, every await of the file
system's `write_committed` (create, write, sync, rename, sync of the directory), the
`MULTI` of Redis, and a disk that a power loss goes back to. ObjectAge walks a calendar
from 1970-01-01 day by day beside the store's arithmetic, through 2000 and 2100.
AttachmentFetcher is one call against a host that may answer anything, with lengths in
words of `WordSize` values so that the code's `max_bytes + 1` stays at the boundary. A
put into S3 returns a key whatever the server answered (see Findings); the modules that
have a store as an interface (Delivery, SubmitEmail, Redeployment) take one that keeps
what its put returned. Redeployment starts the program again with other backends while
e-mails wait: operations go to what is configured now, references name what was then.

### SenderUsage, SmtpDelivery, Rendering

SenderUsage lets the clock move between the reading of the time, the queries and the
storing of an event, and has the listing that asks once per window. It has the event
types that each backend counts; the run takes SQLite, for on PostgreSQL no quota holds
(see the observations under Findings). SmtpDelivery builds the transports from their
settings, the message from what lettre can read of addresses and content types, and goes
through a dialogue command by command over connections that are kept or dropped; lettre
is external. Rendering opens up `execute`: one action per stage, with a class for each
failure, hosts that never answer, and a second task that may delete the blobs of the
same e-mail once a claim has lapsed.

### Listing, HttpApi, EmailFilters, EventLog

Listing is the two queries, newest first, and a client that pages by offset while rows
are inserted, rolled back and moved by events; rows share milliseconds. HttpApi is one
request: authorization, JSON, multipart (part by part) or batch (item by item), limits,
validation in the code's order, the timeout of the reads, a body that breaks off in any
part (malformed, cut off or over the limit), an enqueue that fails but took effect, and
a client that may hang up at any await. EmailFilters builds the `LIKE` and `ILIKE`
patterns and matches them as the two databases do. EventLog relates an event's type, its
columns, payload and error class, four tables of the code, to the attempts they report.

### Application, Configuration, Telemetry, Readiness, Gauges, EventFanout

Application builds the adapters one after the other, runs the tasks, each with work that
may hang on the outside or put a call on a blocking thread, and shuts down: cancel,
drain, abort after 30 s, and the runtime's wait for those threads. Configuration reads
some 100 variables as each component does, its defaults and refusals included, from two
environments (defaults only, everything on) and up to two changes of either. Each
component is an operator on the environment that gives what it loads, and `Merge` puts
them together. Telemetry is `main` around them, with a flush on a blocking thread that
is waited for at most ten seconds. Readiness follows probes through the router's
deadline, the pool and the storage, with clocks that move only while something waits.
Gauges compares the last sample with the queue once nothing moves. EventFanout joins
storage (whose insert may fail with or without effect), webhook (retries, requests that
arrive after their timeout) and NATS.

## Runs

| Run | Instance | Shows |
|---|---|---|
| `delivery_shared` | 2 processes, 1 permit each, 1 e-mail with 2 blobs, 3 attempts, 2 faults, fairness; 340k states | `TypeOK`, `NothingLost`, `QueuedKeepsAttachments`, `TerminalEventsTrue`, `RepeatsBounded` (attempts and copies), `OneOutcome` (clean rows, no stale task), the refinement `KeepsPromise`; `Settles` (the queue drains, the status follows) |
| `delivery_tasks` | 1 process, 2 permits, 2 e-mails of which one has no route, 2 attempts, 1 fault; 1.5M states | `PermitsConserved` |
| `delivery_status` | no fault | `StatusIsOutcome` fails: finding 1 |
| `delivery_silent` | 1 fault | `FailureIsAnnounced` fails: finding 2 |
| `submit_retry` | 2 requests with one key, 3 blobs; 141k states | `WorkerSeesAllRefs`, `AcceptedKeepsBlobs`, `OneEmailPerKey` |
| `submit_duplicate` | the same | `DuplicateIsQueued` fails: finding 3 |
| `queues` | memory: 2 e-mails, 2 permits, 3 attempts, 2 faults; NATS: 2 e-mails, one without a route, 2 workers, 2 faults, and one with an unreadable payload and 1 fault; submissions: 2 messages, 2 servers, 2 deliveries, 2 faults, with a key and without; 73k states | `MemorySafe`, `InboundSafe`, the refinement `KeepsPromise` of MemoryQueue, `NatsSafe` with that of NatsQueue; `QueuesDecide` |
| `database` | queue: 2 e-mails, 2 workers, a pool of 2 and of 1, 2 attempts, 2 faults; 3 processes, two of them two migrations ahead, 2 faults and 2 stops; every kind of body on every backend, also from the earlier version; 99k states | the refinement `KeepsPort`, `QueueIsSound`, `ReleasesAgree`, `ReadAsWritten`; `DatabaseServes` |
| `blobs` | 2 puts on each backend, 2 power losses; words of 8 values; 1970 to 2101; 3 starts with up to 2 databases, 3 queues and 5 stores; 2 requests with one key; 156k states | `BlobsAreWhole`, `FetchIsSound`, `WaitingIsReadable`; `LeftBehindCollected` |
| `sending` | routes: 2 concurrent sends, 4 in all, 3 routes with a quota of 1 (two of one domain, one of them with another range, and a catch-all), 1 fault; windows of 1 and 2 ticks; 2 servers, 3 e-mails, 2 faults; templates that fail at every stage, 1 lapse; 181k states | `OvershootBounded`, `FailsOnlyRefused`, `BypassOnlyWhenAllOver`, `UsageIsTrue`, `SentAsAsked`; `SendingSettles` |
| `http` | pages of 1 and 2 over 3 e-mails and 2 events in one tick or two; some 600 requests at and around each limit (2 attachments, 2 bytes, 3 items); addresses with characters that mean something in a pattern; a body that breaks in a part; 2 attempts and a crash; 368k states | `PagingIsSound`, `AnswersAreTrue`, `ListedIsTrue` |
| `process` | 5 tasks with up to 2 pieces of work, one call on a blocking thread; 2 changes to either environment; every setting of the exporters; 4 changes of the dependencies, pools with and without a free connection; 2 entries, 2 claims, a failed read, 3 backends; 2 events with webhook and NATS; 214k states | `LifeInOrder`, `SetMeansUsed`, `SignalsAreTrue`, `EventsInOrder`; `ProcessResponds` |

*Bounds.* Two processes are what it takes for a stale and a current worker; two
faults for a lapse followed by a crash or a failed ack, and for two of them in a
row; three attempts are the code's `MAX_ATTEMPTS`, two already distinguish
first, retry and last. Interference between e-mails is only by permits, the
queue's order and the process, which two e-mails exercise. Two requests show
every race on a key, which is between a holder and a later request; two blobs of
one request make the loops and partial compensation happen. Everything else in
those models is finite by itself: attempts stop at the bound or cost a fault.
Sends go on for ever and are cut off: four of them, two at a time, fill every quota
of 1, overshoot it by the one that is allowed and one more for the fault, and reach
the second pass; the proofs cover the rest. Limits of requests and pages are small so
that both sides of each are inputs; a setting's behaviour depends on itself and at
most one other, which two changes reach from either environment. A pool of one
connection is the one on which holding one and asking for another shows; 8 values
are a word with a maximum, its successor missing, and room below. In `process` the
webhook tries twice instead of three times: a first and a last try are what it
tells apart; and one call on a blocking thread is enough to hold the runtime. In
`sending` every content type parses: one that does not ends a send where an address
that does not parse ends it, which one of the e-mails has.

`OvershootBounded` is the operator's manual (`readme.md:194`, "a quota may be
overshot by up to ~concurrency"; here: by concurrency - 1, and by one more for each
fault), `FailsOnlyRefused` its "without dropping traffic" (`readme.md:29`).

*Deadlock* is not checked in any run: once all e-mails are settled, a call has
returned or the process has exited, nothing moves.

*Fairness.* `Delivery!FairSpec`: weak fairness of each process's loop, of each task and
of each lapse. The runtime polls loop and tasks as long as the process lives; that every
await of theirs ends, in success or in an error, is assumed of the database client and
the SMTP client; and claims and backoffs expire by the clock. Weak fairness of the whole
loop suffices for a single e-mail; nothing is assumed of faults, which the bound ends.
`MemoryQueue!FairSpec`: the same for its loop and tasks; a sender that has counted its
entry sends it; delays elapse. `NatsQueue` and `InboundNats`: the steps of each worker
and server, JetStream's timers, and the connection's delivery of what it still holds.
`SubmitEmail!FairSpec`: sweeps end and recur (the interval timer), get through again and
again, and the store does not fail to delete a given blob for ever; blobs age. Nothing
is assumed of requests or workers, which may stop anywhere. `AttachmentStores`,
`Redeployment`: the same of the collector; a supervisor starts the program again.
`PostgresQueue`: strong fairness of what needs a connection or a row another one may
hold (the pool's queue and the database serve everybody in turn), weak of the statements
of a transaction. `Upgrade`: the steps of a start; strong for the advisory lock.
`Rendering` and `SmtpDelivery`: the steps of a task; strong for the dequeue of an entry
that others compete for; that hosts of templates answer is a separate assumption,
`Answering`, for the code sets no timeout on them. `AttachmentFetcher`: nothing of the
host, only the code's own timeout. `Application`: nothing of the work, which may hang;
the tasks notice their token (strong: the `select!` that polls it may find other
branches ready first), and the timeout fires, so `run` returns. That the process then
ends takes one assumption more, `CallsReturn`, which nothing in the code sees to: that a
call on a blocking thread (a read of a file, say) ends. `Telemetry`: the flush's
timeout, and that the collector answers (`~Hangs`). `Readiness`, `Gauges`,
`EventFanout`: clocks, timeouts and the program's own steps; nothing of the webhook's
receiver, and nothing of a storage that is silent.

## Findings

1. *The status of a delivered e-mail can stay `queued`* (`delivery_status`).
   `execute` publishes `Queued` after the enqueue; a fast worker publishes
   `delivery.succeeded` first, and the latest event wins. `StatusSettles` shows
   the extent: without faults only a late `queued` or `retrying` can displace a
   terminal status. After a failed delivery it also keeps the e-mail's blobs from
   being collected, for its row counts as pending.
2. *An e-mail can be given up without `delivery.failed`* (`delivery_silent`). The
   ack precedes the event; a crash or a failed publish in between is never made up.
   The order is what makes `TerminalEventsTrue` hold.
3. *An answer can name an e-mail that is never queued* (`submit_duplicate`). A
   resubmission is answered with the id of any reservation under its key, one
   about to be rolled back or abandoned by a crash included. In the second case
   every later retry gets the same answer and the e-mail is never sent.

Also observed, without a run of their own:

* *Submission.* A `Queued` event stored after `Failed` keeps the e-mail's blobs live
  (`submit_email.rs:257`). `port/email_repository.rs:31` says "regardless of status",
  while both adapters leave out settled e-mails, on which the collector depends.
* *HTTP.* An answer of 500 leaves it open whether the e-mail was queued: the enqueue may
  have failed after it took effect (`submit_email.rs:248`, `routes/emails.rs:43`). A
  remote attachment that cannot be fetched ends the batch (`routes/emails.rs:66`), valid
  e-mails after it included; `docs/usage.md:141` speaks of partial acceptance. A
  readiness probe that runs out of time gets 408 (`inbound-http/src/lib.rs:107`), not
  the 503 of `usage.md:296`. `%` and `_` in a recipient filter act as wildcards
  (`email_repository.rs:129`; `usage.md:175`), and e-mails whose body is stored in the
  older shape are not found by template (`:135`; `usage.md:176`).
* *NATS.* Submissions that can never succeed are only logged
  (`inbound-nats/src/server.rs:308`; `readme.md:31`). Of a tracestate in several
  spellings only the first is read (`server.rs:63`, comment at 41-47). An enqueue is
  not confirmed (`outbound-nats/src/email_queue.rs:116`; `port/email_queue.rs:79`).
  Changed settings do not reach an existing consumer (`outbound-nats/src/lib.rs:57`;
  `readme.md:181`), and the pending gauge leaves out what waits for redelivery
  (`lib.rs:94`; `readme.md:310`).
* *Sending.* A template host is asked without a timeout (`resolver.rs:41`), so one that
  never answers keeps a permit. Sends are concurrent (`worker.rs:90`), which
  `readme.md:161` says they are not. On PostgreSQL usage counts event types that are
  never stored (`outbound-postgres/src/sender_usage.rs:29`; `readme.md:194`): a quota
  is not applied there. Usage is kept per name, and of several senders of one name the
  last one's count stays, which is zero (`outbound-sqlite/src/sender_usage.rs:63`,
  `routed_email_sender.rs:148`): nothing keeps `CATAPULTE_SENDERS` from repeating a name
  (`multi_sender.rs:122`). `delivery.failed` also tells of e-mails that no route
  matches, before the retries are used up (`worker.rs:216`; `usage.md:260`).
  A sender with a username and no password, or the reverse, sends without either
  (`transport.rs:191`; `readme.md:151`).
* *Attachments.* For the largest 64-bit limit the fetcher's `max_bytes + 1` wraps
  (`fetcher.rs:189`). `cleanup_temp` is never called
  (`outbound-attachment-fs/src/store.rs:128`), and blobs in a backend that is no longer
  configured are not swept (`gc.rs:57`; `readme.md:252`). `put` of the S3 store does not
  look at the response's status, which its `get` and `delete` do
  (`outbound-attachment-s3/src/store.rs:280`): an upload that the server refused is
  answered with a key under which there is nothing, and the e-mail fails later on its
  attachment. (The client is not in the repository; that it makes no error of a refusal
  is taken from how `get` and `delete` use it and from its features in `Cargo.toml`.)
* *Process.* When the HTTP task fails the process goes on until a signal
  (`binary/src/lib.rs:342`, docs at 267 and 281). Intervals that do not parse become
  their default (`lib.rs:80`; `readme.md:102`), and a path style of S3 that is neither
  `true` nor `false` becomes `true` (`store.rs:260`; `readme.md:263`). A call that a task
  has put on a blocking thread (`include_loader.rs:31`, `tokio::fs`) outlives `abort_all`,
  and the runtime waits for it when it is dropped (`lib.rs:357`, `main.rs:6`), so the
  30 s do not bound the end of the process. After a flush that hangs the runtime
  still waits for its thread (`main.rs:26`, comment at 23-24), and a run that ends with
  an error is not flushed (`main.rs:21`; `telemetry/src/telemetry.rs:13`).

## Proofs

All theorems hold for every value of the constants: any sets of e-mails, processes,
workers, requests or messages, any number of attempts, deliveries and faults. Each
states `Spec => []P` unless the table says otherwise.

| Module | Theorem | States |
|---|---|---|
| `DeliveryProofs` | `TypeCorrect` | `TypeOK` |
| | `NoLoss` | `NothingLost` |
| | `AttachmentsKept` | `QueuedKeepsAttachments` |
| | `EventsTrue` | `TerminalEventsTrue` |
| | `Refinement` | `Spec => KeepsPromise` |
| | `RepeatsAreBounded` | `RepeatsBounded` (attempts and copies) |
| | `PermitsAreConserved` | `PermitsConserved` |
| | `OutcomesAreUnique` | `OneOutcome` |
| | `StatusStays` | the action property `StatusSettles` |
| `SubmitEmailProofs` | `WorkersSeeAllRefs` | `WorkerSeesAllRefs` |
| | `AcceptedAreKept` | `AcceptedKeepsBlobs` |
| | `KeysAreHeldOnce` | `OneEmailPerKey` |
| `QueuesProofs` | `Refinement`, `MemoryIsSafe`, `MemoryPartIsSafe` | `Spec => KeepsPromise`, `MemorySafe`; both of `PartsSpec` |
| | `NatsRefinement`, `NatsLosesNothing`, `NatsCopiesAreBounded`, `NatsParksByFault` | `Nats!KeepsPromise`, `NothingLost`, `CopiesBounded`, `ParkedByFault` |
| | `NatsIsSafe` | `NatsSafe`, the four of them, in a part that is not `"garbled"` |
| | `InboundDropsNothing`, `InboundCopiesAreBounded`, `InboundParksByFaults` | `NothingDropped`, `CopiesBounded`, `ParkedByFaults` |
| | `InboundIsSafe` | `InboundSafe`, the three of them |
| `DatabaseProofs` | `PostgresQueueIsSound` | `QueueIsSound` |
| | `PostgresImplementsPort` | `Spec => KeepsPort` |
| | `ReleasesGetAlong` | `ReleasesAgree` |
| | `WrittenIsRead` | `ReadAsWritten`, for all envelopes and headers |
| `BlobsProofs` | `BlobsStayWhole` | `BlobsAreWhole`, but for what an S3 server refused |
| | `FetchesAreSound` | `FetchIsSound`, if no limit is the largest word |
| | `WaitingStaysReadable` | `WaitingIsReadable` |
| `SendingProofs` | `OvershootIsBounded` | `OvershootBounded` |
| | `NoTrafficDropped` | `FailsOnlyRefused` |
| | `BypassIsLastResort` | `BypassOnlyWhenAllOver` |
| | `SentIsAsked` | `SentAsAsked`, from `RecipientsAsAsked` and `RenderedAsAsked` |
| | `UsageStaysTrue` | `UsageIsTrue`, if senders' names differ |
| `HttpProofs` | `PagingStaysSound` | `PagingIsSound` |
| | `AnswersStayTrue` | `AnswersAreTrue`, from `EventsAreTold` and `RequestsAreAnswered` |
| `ProcessProofs` | `LivesAreOrdered` | `LifeInOrder` |
| | `SignalsStayTrue` | `SignalsAreTrue`, from `TelemetryIsTrue`, `ReadinessIsTrue`, `GaugesAreNaturals` |
| | `EventsStayInOrder` | `EventsInOrder` |
| | `SettingsAreUsed` | `SetMeansUsed`, for all environments and values |

*Assumptions.* Each module assumes of its constants what they are in the code:
counts and limits are naturals, limits on attempts and deliveries are positive,
attachments of different e-mails differ, slots and connections are finite in number.
PostgresQueue also has finitely many entries and workers, because a refinement
mapping orders the queue by counting. The modules that a run only instantiates
have no `ASSUME`: each names what it assumes (`NatsQueueAssumption`,
`FetcherAssumption`, ...), the `PartsAssumption` of the MC module is the
conjunction of them, and TLC evaluates it for the instance of the run. Of the
settings it says that every variable can be set, that a list is none of the markers for
an unset or unreadable variable, and that names tell components, senders, entries and
headers apart, which their prefixes do (`multi_sender.rs:128`, `resolver.rs:248`). Three
theorems have a hypothesis that the code does not see to, or that leaves out an
instance, and say so in their statement:

* `FetchesAreSound`: `WordSize - 1 \notin Limits`. For that limit `max_bytes + 1` is
  zero (see Findings), and a body of any length is `TooLarge`.
* `UsageStaysTrue`: `NamesDiffer`, of the senders of the configuration (see Findings).
  Of two senders with one name the last count is zero, so their quota bounds nothing.
* `NatsIsSafe`: the part is not `"garbled"`, the second instance of NatsQueue. An
  unreadable payload is a fact of the instance and not a step, and the bound
  on parked messages excludes it.
* `FetchesAreSound` also takes the part to be the fetcher: in the others its call
  stands still on a request that the constants may not contain.

Every inductive invariant was an invariant of a run before it was proved.

### Delivery

None of the invariants is inductive: what an ack may do depends on what the task at
that place knows. `InductiveInvariant` adds to `TypeOK`:
`InHand`, what loops and tasks hold is an e-mail of the model that has been
queued, with an attempt the row has counted; and `SafetyInv`, whose `TaskInv` says
what is true at each place of `process_one` (at "ack" the e-mail has been
accepted; at "ack_failed" it is exhausted; past a successful ack the row is
deleted; what is left to clean up belongs to the task's own e-mail), with
`RefsInv` for rows and blobs and `OutcomeInv` for deleted rows and events. Each of
these facts is stable under the steps of *other* processes, including stale ones,
because acceptances, attempts and deletions only grow (`Forward`): `AlwaysForward`
proves that once for all steps, `SafetyTask` then looks at the task that moves,
one action at a time, and `OneTask` transports the rest. `Refinement` needs
nothing more: a step that deletes a row maps to `Settle`, an acceptance to
`Deliver`, the claim that reaches the last attempt to `Excuse`, the rest stutter.

*Repeats.* `RepeatsBounded` says that every attempt beyond `MAX_ATTEMPTS` and every copy
beyond the first is paid for by a fault, so the invariant is a balance. The loop (seat
0) and the tasks of each process are *hands*. A claim whose hand has not yet sent, acked
or nacked is *live*; an e-mail without a row yet, or whose queued row no live hand has
leased, is *free*. `TokenInv`: copies + live claims + 1 if the e-mail is free <= 1 +
faults, and the same with the claims over the limit in place of the copies, where a live
claim counts only below `MAX_ATTEMPTS`, while another may follow it. `HandInv` says that
no two hands have the same claim number. A step keeps the tokens, takes one (a claim),
spends one (an acceptance), gives one back (a nack) or brings one, which only a fault
does (`TokenStep`); one lemma does the arithmetic for all of them, and one lemma per
action says which of them it is.

*Permits.* `PermitInv` counts the seats that are busy; `PermitsElsewhere` leaves one
process to look at, and each of its steps moves one seat and one permit.

*Outcomes.* While `faults = 0`, `Undisturbed` says of an e-mail that whoever works on
it is the only one, that this hand has the current claim, and that a deleted row has
its outcome complete or one hand completing it (with the blobs and refs that this hand
still has to remove). A step elsewhere is *calm* for the e-mail (`CalmFor`); what is
left is one case per await of `process_one`. `StatusStays` follows from the same
invariant: no task is left to publish `Sending` or a second outcome after the first.

### SubmitEmail

`SubmitInv` says what each place of `execute` knows, compensation included: of its row
(`RowInv`: reserved by `Save`, patched by `SetRefs`, deleted only by the undo), of the
queue (`EntryInv`: no entry before `Enqueue`), and of the blobs (`BlobInv`: uploaded so
far, not yet taken by the undo, and with refs from then on). A blob with a live ref is
never in `gc.doomed`, for the sweep lists refs before keys and the grace period holds
younger ones back; `KeysHeld` is the `UNIQUE` index. A step of one request changes
only its own row and blobs (`Becomes`, `RowBecomes`), and a worker or the collector
only what a request in the same place cannot need any more.

### RoutedSender

The overshoot is a matter of counting slots. A slot *holds* a route
when it has counted its window, found it below the quota and may still use it; it
*owes* a route whose delivery it has yet to record. `Accounted` says that
acceptances are stored, owed or lost to a fault; `Reserved`, that the bound stands
even if every holder uses the route. A slot that becomes a holder has just read
`usage < quota`, and holders and owers together are at most all slots. The lemma
`OneMoves` does the arithmetic of sets that differ in one slot. The other two
theorems follow from `PassInv`: the second pass starts only when every candidate is
over its quota, and what was counted does not change during a send.

### MemoryQueue

For the refinement `EntryInv` says of every entry, wherever it is, that its e-mail was
queued and that its attempt is at most one above the claims, and of a task about to ack
that the e-mail was sent or has a reason to be given up. All three facts only become
more true (`AlwaysForward`, `Stable`), so `Kept` reduces each step to the entries it
adds. `MemorySafe` needs `SafeInv` besides: the places partition the e-mails
(`PlaceInv`: channel, senders, sleepers, `pending` and the loop's hand hold what is
owed, each e-mail once), `ready_count` is exactly the channel, the senders between
`fetch_add` and `send` and the entry between `recv` and `fetch_sub` (`CountInv`), tokens
of `pending` are below the next one and a task finds its own entry under its token
(`TokenInv`), and an entry's attempt is the number of claims it has had, or the next
one, while no copy has gone out without a fault (`AttemptInv`).

### PostgresQueue

`LocksAreExclusive` is `FOR UPDATE SKIP LOCKED`: of the transactions past the
`SELECT`, one at most is on a row. With it, what a transaction has read stays true
until its commit (`WorkInv`), a row that is queued has its e-mail with the refs
(`SubmitInv`), and a used-up row shows no more (`RowInv`). `KeepsPort` follows:
the commit of an enqueue, a claim, a nack or an ack maps to that operation of
QueuePort, and every statement, rollback, lost answer and wait for a connection to a
stutter. A stale ack, of a worker whose claim has lapsed, is an ack of QueuePort as well.

### NatsQueue and InboundNats

`NatsInv` says that a message is in the stream only if reported, that a publish on the
wire is of a message that is not there yet, and that nothing acks, on the wire or in a
task, without an acceptance or an excuse. The refinement follows: a publish maps to
`Accept`, the delivery that reaches the last attempt to `Excuse`, an ack that arrives
to `Settle`, and lost, late and repeated commands stutter.

The bounds are balances again. A *chance* is a task that may send or will nak, a nak
under way, or the message in the stream waiting for its next delivery; `CopyInv`:
copies + chances <= 1 + faults. An `ack_wait` that ends while somebody has the message
adds a chance and is a fault; one that ends after a lost delivery finds the chance in
the stream. `ParkInv` says that without faults the one who has a delivery has the last
one, and naks it only below `MAX_ATTEMPTS`, so that the server's limit is never met.
`InboundInv` counts the same for submissions: chances and copies (`ChanceInv`), the rows
that reservations leave (`RowInv`: a keyed message has one), and deliveries
(`DeliveryInv`: each but an open one stands for a fault, so a message parked after
`MaxDeliver` of them met as many).

### Upgrade

`LockInv`: who is between the list of applied migrations and the unlock holds the
advisory lock, has listed what is applied now, and leaves no migration out of those it
has yet to apply; so a migration is applied once, and what a process finds when it
serves only grows. Each migration is a transaction, so a death frees the lock between
two of them.

### Codecs

The lemmas are round trips: what each decoder makes of what its encoder wrote, of a body
(`BodyIsRead`), the recipients, the attachments, a row (`RowIsRead`), an older row, a
payload, and the trace through a column or through headers (`ColumnKeepsTrace`,
`HeadersKeepTrace`). The untagged enum needs one fact more: a bare body is never taken for
the shape with attachments, although `mjml_inline` has a field `source` as well, because
that is a string (`ColumnIsRead`). `CodecInv` says what is stored at each stage, and the
property is read off it. It holds for every set of envelopes of the domain's types;
an earlier release knew neither correlation ids nor attachments (`CodecsAssumption`).

### AttachmentStores, AttachmentFetcher, Redeployment

`StoresInv` follows `write_committed`: `StageInv` says what an await may rely on (after
the write the data is whole, after the sync it is on the disk), `RootInv` that a final
name, in the directory *or on the disk that a power loss goes back to*, is of a whole
and synced file, and `HeldInv` that what was answered is named on the disk as well, or
was refused by a bucket and is nowhere. `FetchInv` needs `CapIsOnePast`, the only place
where words matter, and `SameHost`: both sides are normalized, so hosts are equal when
their names are. `DeploymentInv`: an e-mail that waits is in one queue and its row
refers to the space its attachment was put in (`WaitInv`), and one that was not
submitted left no trace (`FreshInv`).

### SmtpDelivery, Rendering, SenderUsage

`SmtpInv`: the two properties (`AllOrNobody`, all recipients of an e-mail have as many
copies; `BlindStaysBlind`, no copy names who is a blind copy only) are inductive with
`SendInv`, by which a send under way has an e-mail and a sender with a pool. `RenderInv` is
about `execute`: `TasksOK`, what a task has found out about its e-mail at each stage
(`Knows`: no earlier stage rejects it) and what it has of the message (`Has`: of the
attachments the first ones, in order); with `OutcomesOK`, that what was sent is whole
and a class of failure names its cause.

`UsageInv`: what a send relies on, the count it has read, is no less than what is
stored in the window that ends when it is used (`RelyInv`), for the clock only takes
deliveries out of a window; `WindowInv` has the allowed deliveries of every window of
the range, at any offset, below the stored tally and the quota; `ListInv` puts each
listed count between the tally when the call began and the tally now. `GroupShape` and
`StatsOfGroup` say what `get_stats` returns for the names of one window: this is where
names that occur twice fail.

### Listing, EventLog, HttpApi

A page is what has its place within the page's bounds, a place being the number of rows
before it in the order by time and id. `ReaderInv` is about what a client passed: rows
whose place is below the cursor and that were never shown (`Unseen`) are no more than
the departures since it began, for a departure moves every later row forward by one
(`PassedByLeaving`); and the rows shown again, with those that were shown and have their
place above the cursor (`Again`), are no more than the arrivals, for an arrival moves
every later row backward by one (`PushedByArriving`). The lemmas on places
(`PlaceIsBounded` and those after it) are proved by cardinality alone, so for any set of
rows and any ties.

`LogInv` says of each event that its columns and its payload were written from one
value (`RowOk`). HttpApi is sequential but long: `HandlerInv` and `RouteInv` say what is
known where the handler is, `MultiInv` that the parts read so far give what the JSON form has
in these fields, `SubmitInv` that nothing is queued before `Execute` and that past it a 200
means one e-mail queued, and any answer but a 500 means what it says, `BatchInv` that
result *i* is of item *i*.

### Application, Configuration, Telemetry, Readiness, Gauges, EventFanout

`LifeInv` says which tasks there can be in each phase of the process. `TelemetryInv`:
until the application runs nothing is closed and what is not built is off (`StartInv`);
afterwards what the blocking thread has passed is no longer on, and a closed provider
holds only what it refused to send (`FlushInv`). `ProbeInv` counts
the connections that probes and work hold, and says what a probe that got past each
question has been told. `CountersInv` is `CountInv` of MemoryQueue again, for the
gauge that reads it.

`FanoutInv` follows one `publish` per publisher through storage, webhook and bus
(`CallInv`); what each of them has is what the publisher's finished events and the place
of the current one say (`StoredOf`, `BusOf`, `LogOf`), of the storage at least the
events whose publish succeeded, the webhook only as long as no request timed out; and
`CopiesOf`, received, overdue and under way, is at most the requests that were made for
the event, which bounds the copies after timeouts.

`SettingsInv` says that a program that runs has loaded what its environment gives, and
one that does not was refused. What is loaded is then a matter of operators: every reader
returns what it read or an error unless that is blank (`ReadersAreFaithful`), settings
that are sound stay so under `Merge` (`MergeIsSound`), and one lemma per component
(`SqliteLoads` to `TelemetryLoads`) says of which variables its settings are and that they
depend on nothing else. `LoadedIsSound` puts them together; the exceptions of
`SetMeansUsed` are the only variables left out, half a pair of credentials by
`HalfIsExcepted`. That what is not selected decides nothing is `UnselectedUnread`, and
`AuthorizedOnce` takes two Authorization headers of one host to one entry first, for hosts
do not repeat, and then to one header of it.

### Only model-checked

* The liveness properties of all runs, and `ENABLED`, which the prover does not do.
* `ListedIsTrue`: matching a pattern is a recursion over its characters.
* ObjectAge (with `LeftBehindCollected`): a conversion of bounded inputs, which the run
  enumerates: each day of 131 years.
* The second instances: a NATS queue with an unreadable payload, submissions without a
  key, hosts that fail or name their templates otherwise, deployments with a collector,
  a probe under load. Their theorems would be the first instance's with other constants.

No module of the project declares a `RECURSIVE` operator.

## Not modelled

* The text that template engines, MIME builders and loggers produce; of a template
  only what makes a stage fail is kept, of a message its parts and recipients.
* What is inside lettre (TLS, SMTP syntax), sqlx, the S3 client and JetStream:
  external components, as far as the code can tell their answers apart.
* Events of one millisecond are ordered by id; Delivery orders events as stored.
* A panicking task of Delivery. It frees its permit and leaves its claim to lapse, like
  a crash of that task alone.
* The wiring of `binary/src/state.rs` and the spelling of log lines and spans.
* The composition of parts that TLC sees one at a time, e.g. HTTP requests over the
  steps of SubmitEmail: HttpApi uses the outcomes that SubmitEmail's calls can have.

## Plan

1. *Done:* StorageQueue, Delivery, AtLeastOnce and their theorems; SubmitEmail.
2. *Done:* RoutedSender and its theorems; MemoryQueue and its refinement.
3. *Done:* NatsQueue, InboundNats, PostgresQueue, the stores, the rendering, the HTTP
   interface, the process and its settings.
4. *Done:* proofs of the repeats, permits and outcomes of Delivery, of SubmitEmail, of
   MemoryQueue's bookkeeping, of PostgresQueue, NatsQueue and InboundNats.
5. *Done:* proofs of the process, its signals and subscribers, of stores, fetcher and
   redeployment, of upgrades, of transports, rendering and usage, and of the HTTP
   interface; theorems about the specifications of the runs themselves.
6. *Done:* the proof of `SetMeansUsed` for all environments and values.
7. Left: the composition of HttpApi with SubmitEmail.
