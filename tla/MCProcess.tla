------------------------------ MODULE MCProcess ------------------------------
(***************************************************************************)
(* Instances for TLC of the process around the gateway: its start and      *)
(* shutdown, its settings, the telemetry, the readiness probes, the        *)
(* sampled gauges and the subscribers of its events. They share no state   *)
(* here, so each behaviour is one of a single part, which part picks; the  *)
(* others stay as they start. A liveness property is implied by the        *)
(* fairness of its part.                                                   *)
(***************************************************************************)
EXTENDS Application, Sequences, TLC

CONSTANTS Bases, Choices, MaxEdits, Numbers, Split, Account, Fragment,
          Loopback,                                                          \* Configuration
          Hangs,                                                             \* Telemetry
          Backend, Pool, Work, AcquireTimeout, RequestTimeout, ClientTimeout,
          MaxOutages,                                                        \* Readiness
          Backends, Entries, ClaimFor, RetryAfter, MaxTime, MaxClaims,
          MaxFaults,                                                         \* Gauges
          Publishers, Script, WithWebhook, WithNats, Tries                   \* EventFanout

VARIABLES part,
          env, edits, start, config,                                         \* Configuration
          exporters, step, provider, pending, refused, blocking, returned,   \* Telemetry
          storage, nats, client, busy, at, elapsed, seen, last, outages,     \* Readiness
          backend, entry, now, ready_count, sent, sampler,
          queue_pending, sender_sent, faults,                                \* Gauges
          calls, results, stored, wire, bus, late, log, slow                 \* EventFanout

settings  == <<env, edits, start, config>>
telemetry == <<exporters, step, provider, pending, refused, blocking, returned>>
readiness == <<storage, nats, client, busy, at, elapsed, seen, last, outages>>
gauges    == <<backend, entry, now, ready_count, sent, sampler, queue_pending, sender_sent, faults>>
fanout    == <<calls, results, stored, wire, bus, late, log, slow>>
allVars   == <<part, vars, settings, telemetry, readiness, gauges, fanout>>

\* Up to two pieces of work for the tasks that take several.
Two == [t \in Tasks |-> IF t \in {"http", "worker"} THEN 2 ELSE 1]

-----------------------------------------------------------------------------
(* Two environments to start from, one with the defaults and one with      *)
(* every optional component on, and up to two changes to either.           *)

Unset == "unset"
Raw   == "not unicode"

Lists == ("a" :> <<"a">>) @@ ("a,b" :> <<"a", "b">>) @@ ("a,A" :> <<"a", "A">>)
  @@ ("," :> <<>>) @@ ("g" :> <<"g">>) @@ ("g,h" :> <<"g", "h">>) @@ ("g,G" :> <<"g", "G">>)
  @@ ("X-A" :> <<"X-A">>) @@ ("X-A,X_A" :> <<"X-A", "X_A">>)
  @@ ("Authorization" :> <<"Authorization">>)
  @@ ("Authorization,authorization" :> <<"Authorization", "authorization">>)

Accounts == ("a" :> "SENDER_A") @@ ("A" :> "SENDER_A") @@ ("b" :> "SENDER_B")
  @@ ("g" :> "TOKEN_G") @@ ("G" :> "TOKEN_G") @@ ("h" :> "TOKEN_H")

Fragments == ("X-A" :> "X_A") @@ ("X_A" :> "X_A")
  @@ ("Authorization" :> "AUTHORIZATION") @@ ("authorization" :> "AUTHORIZATION")

Loopbacks == ("0.0.0.0:80" :> "127.0.0.1:80") @@ ("[::]:80" :> "[::1]:80")
  @@ ("10.0.0.1:80" :> "10.0.0.1:80")

Text2   == {Unset, "x"}
Number4 == {Unset, Raw, "bad", "0", "7"}
Number3 == {"bad", "7"}

All(component, names, values) == [k \in {<<component, n>> : n \in names} |-> values]

SenderChoices(p) ==
  All(p, {"HOST", "PASSWORD"}, Text2) @@ All(p, {"USERNAME"}, {"x"}) @@ All(p, {"MATCH_DOMAIN"}, Text2 \union {""})
  @@ All(p, {"PORT", "QUOTA_COUNT"}, Number3) @@ All(p, {"PRIORITY"}, Number4)
  @@ All(p, {"TLS"}, {Unset, "bad", "none"}) @@ All(p, {"QUOTA_RANGE"}, {Unset, "bad", "daily"})

EntryChoices(p) ==
  All(p, {"HOST"}, {Unset, "", "x", "y"}) @@ All(p, {"BEARER_TOKEN"}, Text2 \union {""})
  @@ All(p, {"HEADERS"}, {Unset, "X-A", "X-A,X_A", "Authorization", "Authorization,authorization"})
  @@ All(p, {"X_A", "AUTHORIZATION"}, {Unset, "", "x"})

AllChoices ==
  All("STORAGE", {"BACKEND"}, {Unset, "sqlite", "postgres", "bad"})
  @@ All("SQLITE", {"URL"}, Text2) @@ All("POSTGRES", {"URL"}, Text2)
  @@ All("POSTGRES", {"MAX_CONNECTIONS", "ACQUIRE_TIMEOUT_SECS"}, Number3)
  @@ All("QUEUE", {"BACKEND"}, {Unset, "memory", "nats", "bad"})
  @@ All("QUEUE", {"URL", "STREAM"}, Text2)
  @@ All("QUEUE", {"ACK_WAIT_SECS", "MAX_DELIVER", "BACKOFF"}, Number3)
  @@ All("ATTACHMENT", {"BACKEND"}, {Unset, "s3", "redis", "bad"})
  @@ All("ATTACHMENT_FS", {"ROOT"}, Text2)
  @@ All("ATTACHMENT_S3", {"ENDPOINT", "BUCKET", "REGION"}, Text2)
  @@ All("ATTACHMENT_S3", {"ACCESS_KEY_ID", "SECRET_ACCESS_KEY", "PREFIX"}, {"x"})
  @@ All("ATTACHMENT_S3", {"PATH_STYLE"}, {"false", "no"})
  @@ All("ATTACHMENT_REDIS", {"URL", "PREFIX"}, Text2)
  @@ All("HTTP", {"ADDRESS"}, {Unset, "bad"} \union DOMAIN Loopbacks)
  @@ All("HTTP", {"API_KEY"}, Text2 \union {Raw, ""}) @@ All("HTTP", {"REQUEST_TIMEOUT_SECS"}, Number3)
  @@ All("INBOUND_NATS", {"URL"}, Text2 \union {""})
  @@ All("INBOUND_NATS", {"STREAM", "SUBJECT", "CONSUMER"}, Text2)
  @@ All("INBOUND_NATS", {"ACK_WAIT_SECS", "MAX_DELIVER", "BACKOFF_SECS"}, {Unset, "bad", "0"})
  @@ All("SENDERS", {""}, {Unset, "a", "a,b", "a,A", ","})
  @@ SenderChoices("SENDER_A") @@ All("SENDER_B", {"HOST", "QUOTA_COUNT"}, {Unset, "7"})
  @@ [k \in DOMAIN SenderChoices("SENDER_B") |-> {Unset}]
  @@ All("RESOLVER", {"ALLOWED_DOMAINS", "TEMPLATES_DIR"}, {"x"})
  @@ All("RESOLVER", {"TOKENS"}, {Unset, "g", "g,h", "g,G", ","})
  @@ EntryChoices("TOKEN_G") @@ All("TOKEN_H", {"HEADERS"}, {Unset, "Authorization"})
  @@ All("TOKEN_H", {"X_A"}, {Unset}) @@ EntryChoices("TOKEN_H")
  @@ All("WORKER", {"CONCURRENCY"}, Number4)
  @@ All("WEBHOOK", {"URL"}, Text2 \union {"", "bad"}) @@ All("WEBHOOK", {"TIMEOUT_MS"}, Number3)
  @@ All("NATS_EVENTS", {"URL", "SUBJECT"}, Text2)
  @@ All("ATTACHMENT_FETCHER", {"ALLOWED_DOMAINS"}, Text2)
  @@ All("ATTACHMENT_FETCHER", {"ALLOW_HTTP"}, {Unset, "true", "bad"})
  @@ All("ATTACHMENT_FETCHER", {"MAX_BYTES", "FETCH_TIMEOUT_MS"}, Number3)
  @@ All("GC", {"SWEEP_INTERVAL_SECS", "GRACE_PERIOD_SECS"}, Number3)
  @@ All("INCLUDE_LOADER", {"HTTP_ALLOW"}, {Unset, "", "x", "bad"})
  @@ All("INCLUDE_LOADER", {"HTTP_DENY", "FS_ROOT"}, {Unset, "x"})
  @@ All("CATAPULTE_OTEL", {"TRACES_EXPORTER", "METRICS_EXPORTER"}, {Unset, "otlp", "bad"})
  @@ All("OTEL", {"TRACES_EXPORTER", "METRICS_EXPORTER"}, {Unset, "otlp"})
  @@ All("CATAPULTE_OTEL", {"EXPORTER_OTLP_PROTOCOL"}, {Unset, "grpc"})
  @@ All("OTEL", {"EXPORTER_OTLP_PROTOCOL"}, {Unset, "http/protobuf", "bad"})
  @@ All("CATAPULTE_OTEL", {"EXPORTER_OTLP_ENDPOINT"}, Text2)
  @@ All("OTEL", {"EXPORTER_OTLP_ENDPOINT"}, Text2)
  @@ All("CATAPULTE_OTEL", {"METRIC_EXPORT_INTERVAL_SECS"}, {"bad", "0", "7"})

Minimal ==
  (<<"SQLITE", "URL">> :> "x") @@ (<<"HTTP", "ADDRESS">> :> "0.0.0.0:80")
  @@ (<<"SENDERS", "">> :> "a") @@ (<<"SENDER_A", "HOST">> :> "x")
  @@ (<<"ATTACHMENT_FS", "ROOT">> :> "x") @@ [k \in DOMAIN AllChoices |-> Unset]

Full ==
  (<<"STORAGE", "BACKEND">> :> "postgres") @@ (<<"POSTGRES", "URL">> :> "x")
  @@ (<<"QUEUE", "BACKEND">> :> "nats") @@ (<<"QUEUE", "URL">> :> "x")
  @@ (<<"ATTACHMENT", "BACKEND">> :> "s3")
  @@ All("ATTACHMENT_S3", {"ENDPOINT", "BUCKET", "ACCESS_KEY_ID", "SECRET_ACCESS_KEY"}, "x")
  @@ All("INBOUND_NATS", {"URL", "STREAM", "SUBJECT", "CONSUMER"}, "x")
  @@ (<<"SENDERS", "">> :> "a,b") @@ (<<"SENDER_B", "HOST">> :> "x")
  @@ (<<"SENDER_A", "QUOTA_COUNT">> :> "7") @@ (<<"SENDER_A", "QUOTA_RANGE">> :> "daily")
  @@ (<<"RESOLVER", "TOKENS">> :> "g,h")
  @@ (<<"TOKEN_G", "HOST">> :> "x") @@ (<<"TOKEN_G", "BEARER_TOKEN">> :> "x")
  @@ (<<"TOKEN_H", "HOST">> :> "y") @@ (<<"TOKEN_H", "HEADERS">> :> "Authorization")
  @@ (<<"TOKEN_H", "AUTHORIZATION">> :> "x")
  @@ (<<"WEBHOOK", "URL">> :> "x") @@ (<<"NATS_EVENTS", "URL">> :> "x")
  @@ (<<"INCLUDE_LOADER", "HTTP_ALLOW">> :> "x")
  @@ (<<"CATAPULTE_OTEL", "TRACES_EXPORTER">> :> "otlp")
  @@ (<<"OTEL", "EXPORTER_OTLP_ENDPOINT">> :> "x") @@ Minimal

MinimalAndFull == {Minimal, Full}

Settings == INSTANCE Configuration WITH phase <- start

-----------------------------------------------------------------------------

\* Every setting of the exporters.
Exporting == INSTANCE Telemetry WITH config <- exporters, result <- returned

\* Any queue, and any work beside the probe.
Probed == INSTANCE Readiness

\* Work that may hold every connection, and a router that is slower than the pool.
Loaded == INSTANCE Readiness WITH
  Backend <- "storage", Pool <- 2, Work <- 2,
  AcquireTimeout <- 2, RequestTimeout <- 3, ClientTimeout <- 5, MaxOutages <- 4

\* Any entries, each claimed and each read failing a number of times at most.
Sampled == INSTANCE Gauges

\* Any publishers, whatever each of them publishes; and a task with two events.
Fanout == INSTANCE EventFanout WITH NoEvent <- None

OneTask == "task" :> <<"sending", "failed">>

-----------------------------------------------------------------------------

ASSUME PartsAssumption ==
  /\ Settings!ConfigurationAssumption
  /\ Probed!ReadinessAssumption /\ Loaded!ReadinessAssumption
  /\ Sampled!GaugesAssumption /\ Fanout!EventFanoutAssumption

PartsInit ==
  /\ part \in {"application", "settings", "telemetry", "nats probe", "loaded probe", "gauges", "fanout"}
  /\ Init
  /\ IF part = "settings" THEN Settings!Init
     ELSE env = <<>> /\ edits = 0 /\ start = "off" /\ config = <<>>
  /\ Exporting!Init
  /\ part # "telemetry" =>
       exporters = [enabled |-> {}, protocol |-> "grpc", headers |-> "none", endpoint |-> "url"]
  /\ Probed!Init
  /\ Sampled!Init /\ (part # "gauges" => backend = "memory")
  /\ Fanout!Init

PartsNext ==
  /\ UNCHANGED part
  /\ \/ /\ part = "application" /\ Next
        /\ UNCHANGED <<settings, telemetry, readiness, gauges, fanout>>
     \/ /\ part = "settings" /\ Settings!Next
        /\ UNCHANGED <<vars, telemetry, readiness, gauges, fanout>>
     \/ /\ part = "telemetry" /\ Exporting!Next
        /\ UNCHANGED <<vars, settings, readiness, gauges, fanout>>
     \/ /\ \/ part = "nats probe" /\ Probed!Next
           \/ part = "loaded probe" /\ Loaded!Next
        /\ UNCHANGED <<vars, settings, telemetry, gauges, fanout>>
     \/ /\ part = "gauges" /\ Sampled!Next
        /\ UNCHANGED <<vars, settings, telemetry, readiness, fanout>>
     \/ /\ part = "fanout" /\ Fanout!Next
        /\ UNCHANGED <<vars, settings, telemetry, readiness, gauges>>

PartsSpec == PartsInit /\ [][PartsNext]_allVars

-----------------------------------------------------------------------------
(* Properties of the parts, under names that tell them apart.              *)

\* The settings (from_env of the components): a running program uses every variable
\* that was set as it was set, the three lenient intervals, the path style of S3 and
\* half a sender's credentials excepted; what a component that is not selected would read neither stops a start nor saves it; a
\* request to a host carries at most one Authorization header; and the health check
\* connects to the address the server listens on.
SetMeansUsed ==
  /\ part = "settings" => Settings!TypeOK
  /\ Settings!SetMeansUsed /\ Settings!UnselectedIgnored
  /\ Settings!OneAuthorization /\ Settings!ProbesTheServer

\* What is seen from outside is true: a probe that answers 200 has seen the storage
\* answer and the queue connected; a process that ends well has given both providers
\* their chance to flush, and a start that an exporter refuses leaves none behind; and
\* no gauge counts below zero.
SignalsAreTrue ==
  /\ Exporting!SignalsAreTrue /\ []Sampled!TypeOK
  /\ [](part # "loaded probe" => Probed!SignalsAreTrue)

\* The subscribers: the receiver of the webhook gets a publisher's events in the
\* order they happened, as long as none of its requests times out, and once per
\* request at most; the stored events and those on the bus are in order without a
\* copy; and an event whose publish succeeded can be listed.
EventsInOrder ==
  /\ Fanout!TypeOK /\ Fanout!WebhookInOrder /\ Fanout!CopiesBounded
  /\ Fanout!StoredInOrder /\ Fanout!SuccessIsListed

\* Nothing hangs: run returns after the signal, whatever its tasks hang on, and the
\* process ends, if the calls on blocking threads do; it also ends after its exporters
\* are flushed, if the collector answers; every probe returns,
\* an outage that stays is seen and its end too, and the probe is as sound beside
\* work that holds every connection; every publish returns; and the gauges agree
\* with the queue and the senders once nothing moves any more.
ProcessResponds ==
  /\ part = "application"  /\ Fairness           => RunReturns
  /\ part = "application"  /\ Fairness /\ CallsReturn => SignalEnds
  /\ part = "telemetry"    /\ Exporting!Fairness => Exporting!FlushEnds
  /\ [](part = "loaded probe" => Loaded!SignalsAreTrue)
  /\ part = "nats probe"   /\ Probed!Fairness    => Probed!ProbeEnds
  /\ part = "loaded probe" /\ Loaded!Fairness    => Loaded!ProbeEnds
  /\ part = "nats probe"   /\ Probed!Fairness    => Probed!OutageSeen
  /\ part = "loaded probe" /\ Loaded!Fairness    => Loaded!OutageSeen
  /\ part = "nats probe"   /\ Probed!Fairness    => Probed!Recovers
  /\ part = "gauges"       /\ Sampled!Fairness   => Sampled!GaugesCatchUp
  /\ part = "fanout"       /\ Fanout!Fairness    => Fanout!AllReturn
==============================================================================
