---------------------------- MODULE Configuration ----------------------------
(***************************************************************************)
(* The start of the program: main reads the telemetry settings, then       *)
(* AppConfig::from_env reads every component's variables, and build checks *)
(* what only the whole shows. One error and nothing runs.                  *)
(*                                                                         *)
(* A variable is <<component, name>>, a value a string. Lists are values   *)
(* whose parts Split gives; the code differs from one variable to the next *)
(* only in how it reads a value, so a reader is an operator and a          *)
(* component says which variables it reads with which.                     *)
(***************************************************************************)
EXTENDS Naturals, Sequences

CONSTANTS Bases,      \* environments an operator starts from
          Choices,    \* the values each variable may be given
          MaxEdits,   \* bound on the changes to a base
          Numbers,    \* values that parse as a number; "0" is one
          Split,      \* list value -> its trimmed, non-empty parts
          Account,    \* sender or entry name -> its upper-cased prefix
          Fragment,   \* header name -> what HEADER_.._VALUE has of it
          Loopback    \* socket address -> where to connect to it

Unset   == "unset"
Raw     == "not unicode"
Error   == "error"
Default == "default"

VARIABLES env, edits, phase, config

vars == <<env, edits, phase, config>>

-----------------------------------------------------------------------------
(* The readers.                                                            *)

Absent(x) == x \in {Unset, Raw}   \* what lookup(..).ok() and Err(_) cannot tell apart

Required(x) == IF Absent(x) THEN Error ELSE x

Text(x) == IF Absent(x) THEN Default ELSE x

Trimmed(x) == IF Absent(x) \/ x = "" THEN Default ELSE x

RequiredTrimmed(x) == IF Trimmed(x) = Default THEN Error ELSE x

OneOf(words, x) == IF Absent(x) THEN Default ELSE IF x \in words THEN x ELSE Error

Strict(x) == IF x = Unset THEN Default ELSE IF x \in Numbers THEN x ELSE Error

Lax(x) == OneOf(Numbers, x)

Lenient(x) == IF x \in Numbers THEN x ELSE Default

NonZero(x) == IF x = "0" THEN Error ELSE x

StrictNonZero(x) == NonZero(Strict(x))

LaxNonZero(x) == NonZero(Lax(x))

ParsedUrl(x) == IF Absent(x) THEN Default ELSE IF x \in {"", "bad"} THEN Error ELSE x

Each(e, component, names, Reader(_)) ==
  [k \in {<<component, n>> : n \in names} |-> Reader(e[k])]

\* The settings that several readers find, each in variables of its own.
Merge(configs) ==
  [k \in UNION {DOMAIN c : c \in configs} |-> (CHOOSE c \in configs : k \in DOMAIN c)[k]]

-----------------------------------------------------------------------------
(* Storage, queue and attachment backends: the selected one is read.       *)

Sqlite(e) == Each(e, "SQLITE", {"URL"}, Required)

Postgres(e) ==
  Merge({Each(e, "POSTGRES", {"URL"}, Required),
         Each(e, "POSTGRES", {"MAX_CONNECTIONS", "ACQUIRE_TIMEOUT_SECS"}, Strict)})

StorageBackend(x) == OneOf({"sqlite", "postgres", "pg"}, x)

Storage(e) ==
  Merge({Each(e, "STORAGE", {"BACKEND"}, StorageBackend),
         IF e["STORAGE", "BACKEND"] \in {"postgres", "pg"} THEN Postgres(e) ELSE Sqlite(e)})

QueueNats(e) ==
  Merge({Each(e, "QUEUE", {"URL"}, Required), Each(e, "QUEUE", {"STREAM"}, Text),
         Each(e, "QUEUE", {"ACK_WAIT_SECS", "MAX_DELIVER", "BACKOFF"}, Lax)})

QueueBackend(x) == OneOf({"storage", "memory", "nats"}, x)

Queue(e) ==
  Merge({Each(e, "QUEUE", {"BACKEND"}, QueueBackend)}
        \union {c \in {QueueNats(e)} : e["QUEUE", "BACKEND"] = "nats"})

Fs(e) == Each(e, "ATTACHMENT_FS", {"ROOT"}, Required)

\* True unless it says "false", whatever else it says.
PathStyle(x) == IF x = "false" THEN "false" ELSE "true"

S3(e) ==
  Merge({Each(e, "ATTACHMENT_S3", {"ENDPOINT", "BUCKET", "ACCESS_KEY_ID", "SECRET_ACCESS_KEY"}, Required),
         Each(e, "ATTACHMENT_S3", {"REGION", "PREFIX"}, Text),
         Each(e, "ATTACHMENT_S3", {"PATH_STYLE"}, PathStyle)})

Redis(e) ==
  Merge({Each(e, "ATTACHMENT_REDIS", {"URL"}, Required), Each(e, "ATTACHMENT_REDIS", {"PREFIX"}, Text)})

StoreBackend(x) == OneOf({"fs", "s3", "redis"}, x)

AttachmentStore(e) ==
  Merge({Each(e, "ATTACHMENT", {"BACKEND"}, StoreBackend),
         CASE e["ATTACHMENT", "BACKEND"] = "s3"    -> S3(e)
           [] e["ATTACHMENT", "BACKEND"] = "redis" -> Redis(e)
           [] OTHER                                -> Fs(e)})

-----------------------------------------------------------------------------
(* Transports, worker, publishers, fetcher, collector.                     *)

SocketAddress(x) == IF x \in DOMAIN Loopback THEN x ELSE Error

Http(e) ==
  Merge({Each(e, "HTTP", {"ADDRESS"}, SocketAddress), Each(e, "HTTP", {"API_KEY"}, Trimmed),
         Each(e, "HTTP", {"REQUEST_TIMEOUT_SECS"}, Strict)})

Consumer(e) ==
  Merge({Each(e, "INBOUND_NATS", {"STREAM", "SUBJECT", "CONSUMER"}, Required),
         Each(e, "INBOUND_NATS", {"ACK_WAIT_SECS", "MAX_DELIVER"}, LaxNonZero),
         Each(e, "INBOUND_NATS", {"BACKOFF_SECS"}, Lax)})

InboundNats(e) ==
  Merge({Each(e, "INBOUND_NATS", {"URL"}, Trimmed)}
        \union {c \in {Consumer(e)} : Trimmed(e["INBOUND_NATS", "URL"]) # Default})

Worker(e) == Each(e, "WORKER", {"CONCURRENCY"}, StrictNonZero)

Webhook(e) ==
  Merge({Each(e, "WEBHOOK", {"URL"}, ParsedUrl), Each(e, "WEBHOOK", {"TIMEOUT_MS"}, Lenient)})

NatsEvents(e) == Each(e, "NATS_EVENTS", {"URL", "SUBJECT"}, Text)

AllowHttp(x) == OneOf({"true", "false", ""}, x)

Fetcher(e) ==
  Merge({Each(e, "ATTACHMENT_FETCHER", {"ALLOWED_DOMAINS"}, Text),
         Each(e, "ATTACHMENT_FETCHER", {"ALLOW_HTTP"}, AllowHttp),
         Each(e, "ATTACHMENT_FETCHER", {"MAX_BYTES", "FETCH_TIMEOUT_MS"}, Lax)})

Gc(e) == Each(e, "GC", {"SWEEP_INTERVAL_SECS", "GRACE_PERIOD_SECS"}, Lenient)

\* An origin list; "" is no list and "bad" has an entry that is no origin.
Origins(x) == IF Trimmed(x) = "bad" THEN Error ELSE Trimmed(x)

\* canonicalize of the root may fail as well; the two lists exclude each other.
IncludeLoader(e) ==
  LET both == \A n \in {"HTTP_ALLOW", "HTTP_DENY"} : Origins(e["INCLUDE_LOADER", n]) # Default
  IN  Merge({Each(e, "INCLUDE_LOADER", {"FS_ROOT"}, Origins),
             Each(e, "INCLUDE_LOADER", {"HTTP_ALLOW", "HTTP_DENY"},
                  LAMBDA x : IF both THEN Error ELSE Origins(x))})

-----------------------------------------------------------------------------
(* Senders: a list of names, each with variables under its own prefix.     *)

QuotaRange(x) == OneOf({"hourly", "daily", "weekly", "monthly"}, x)

\* One variable of a pair is given.
Half(e, p, m, n) == Absent(e[<<p, m>>]) # Absent(e[<<p, n>>])

\* Both variables of a quota or neither.
Quota(e, p) ==
  LET half == Half(e, p, "QUOTA_COUNT", "QUOTA_RANGE")
  IN  Merge({Each(e, p, {"QUOTA_COUNT"}, LAMBDA x : IF half THEN Error ELSE Lax(x)),
             Each(e, p, {"QUOTA_RANGE"}, LAMBDA x : IF half THEN Error ELSE QuotaRange(x))})

Tls(x) == OneOf({"starttls", "tls", "none"}, x)

\* A name without a password, or the reverse, is dropped when the transport is built.
Credentials(e, p) ==
  LET half == Half(e, p, "USERNAME", "PASSWORD")
  IN  Each(e, p, {"USERNAME", "PASSWORD"}, LAMBDA x : IF half THEN Default ELSE Text(x))

Smtp(e, p) ==
  Merge({Each(e, p, {"HOST"}, Required), Each(e, p, {"PORT"}, Lax),
         Credentials(e, p), Each(e, p, {"TLS"}, Tls)})

Priority(e, p) == Each(e, p, {"PRIORITY"}, Lax)

Sender(e, p) ==
  Merge({Smtp(e, p), Quota(e, p), Priority(e, p), Each(e, p, {"MATCH_DOMAIN"}, Trimmed)})

Parts(x) == IF x \in DOMAIN Split THEN Split[x] ELSE <<>>

Prefixes(x) == {Account[Parts(x)[i]] : i \in DOMAIN Parts(x)}

\* RoutedEmailSender::new refuses an empty list of routes.
Senders(e) ==
  Merge({Each(e, "SENDERS", {""}, LAMBDA x : IF Parts(x) = <<>> THEN Error ELSE Required(x))}
        \union {Sender(e, p) : p \in Prefixes(e["SENDERS", ""])})

-----------------------------------------------------------------------------
(* Resolver: auth entries in the same form, each with a list of headers.   *)

Repeats(s) == \E i, j \in DOMAIN s : i # j /\ s[i] = s[j]

Fragments(e, p) ==
  LET headers == Parts(e[p, "HEADERS"]) IN [i \in DOMAIN headers |-> Fragment[headers[i]]]

\* Two headers of one fragment would share a variable.
HeadersOf(e, p) ==
  Each(e, p, {"HEADERS"}, LAMBDA x : IF Repeats(Fragments(e, p)) THEN Error ELSE Trimmed(x))

\* An entry that gives nothing to send is an error.
HostOf(e, p) ==
  LET nothing == Trimmed(e[p, "BEARER_TOKEN"]) = Default /\ Parts(e[p, "HEADERS"]) = <<>>
  IN  Each(e, p, {"HOST"}, LAMBDA x : IF nothing THEN Error ELSE RequiredTrimmed(x))

AuthEntry(e, p) ==
  Merge({HostOf(e, p), Each(e, p, {"BEARER_TOKEN"}, Trimmed), HeadersOf(e, p),
         Each(e, p, {Fragments(e, p)[i] : i \in DOMAIN Fragments(e, p)}, RequiredTrimmed)})

Resolver(e) ==
  Merge({Each(e, "RESOLVER", {"ALLOWED_DOMAINS", "TEMPLATES_DIR", "TOKENS"}, Text)}
        \union {AuthEntry(e, p) : p \in Prefixes(e["RESOLVER", "TOKENS"])})

\* TemplateResolverAdapter::new: one entry per host, and no explicit
\* Authorization header beside a bearer token.
ResolverBuilds(e) ==
  LET names == Parts(e["RESOLVER", "TOKENS"]) IN
  /\ ~Repeats([i \in DOMAIN names |-> e[Account[names[i]], "HOST"]])
  /\ \A p \in Prefixes(e["RESOLVER", "TOKENS"]) :
       \/ Trimmed(e[p, "BEARER_TOKEN"]) = Default
       \/ ~\E i \in DOMAIN Fragments(e, p) : Fragments(e, p)[i] = "AUTHORIZATION"

-----------------------------------------------------------------------------
(* Telemetry, read first.                                                  *)

\* Faulty variant of EnvironmentReadable: the program's own variables only.
EnvironmentReadable_Own(e) == \A k \in DOMAIN e : k[1] = "CATAPULTE_OTEL" => e[k] # Raw

\* std::env::vars panics at a value that is not Unicode, whoever reads it.
EnvironmentReadable(e) == \A k \in DOMAIN e : e[k] # Raw

Exporter(x) == OneOf({"otlp", "none"}, x)

Protocol(x) == OneOf({"grpc", "http/protobuf"}, x)

\* lookup: the prefixed variable, else the standard one.
Prefixed(e) ==
  [k \in DOMAIN e |-> IF k[1] = "CATAPULTE_OTEL" /\ e[k] = Unset
                         /\ <<"OTEL", k[2]>> \in DOMAIN e
                      THEN e["OTEL", k[2]] ELSE e[k]]

Telemetry(e) ==
  LET p      == Prefixed(e)
      export == "otlp" \in {p["CATAPULTE_OTEL", "TRACES_EXPORTER"],
                            p["CATAPULTE_OTEL", "METRICS_EXPORTER"]}
  IN  Merge({Each(p, "CATAPULTE_OTEL", {"TRACES_EXPORTER", "METRICS_EXPORTER"}, Exporter),
             Each(p, "CATAPULTE_OTEL", {"EXPORTER_OTLP_PROTOCOL"}, Protocol),
             Each(p, "CATAPULTE_OTEL", {"EXPORTER_OTLP_ENDPOINT"},
                  LAMBDA x : IF export THEN Required(x) ELSE Text(x)),
             Each(e, "CATAPULTE_OTEL", {"METRIC_EXPORT_INTERVAL_SECS"}, LaxNonZero)})

-----------------------------------------------------------------------------
(* What there is to set: each component's variables, a sender's and an     *)
(* entry's, with one for each header the entry may list.                   *)

Variables ==
  [STORAGE            |-> {"BACKEND"},
   SQLITE             |-> {"URL"},
   POSTGRES           |-> {"URL", "MAX_CONNECTIONS", "ACQUIRE_TIMEOUT_SECS"},
   QUEUE              |-> {"BACKEND", "URL", "STREAM", "ACK_WAIT_SECS", "MAX_DELIVER", "BACKOFF"},
   ATTACHMENT         |-> {"BACKEND"},
   ATTACHMENT_FS      |-> {"ROOT"},
   ATTACHMENT_S3      |-> {"ENDPOINT", "BUCKET", "ACCESS_KEY_ID", "SECRET_ACCESS_KEY", "REGION", "PREFIX",
                           "PATH_STYLE"},
   ATTACHMENT_REDIS   |-> {"URL", "PREFIX"},
   HTTP               |-> {"ADDRESS", "API_KEY", "REQUEST_TIMEOUT_SECS"},
   INBOUND_NATS       |-> {"URL", "STREAM", "SUBJECT", "CONSUMER", "ACK_WAIT_SECS", "MAX_DELIVER", "BACKOFF_SECS"},
   WORKER             |-> {"CONCURRENCY"},
   WEBHOOK            |-> {"URL", "TIMEOUT_MS"},
   NATS_EVENTS        |-> {"URL", "SUBJECT"},
   ATTACHMENT_FETCHER |-> {"ALLOWED_DOMAINS", "ALLOW_HTTP", "MAX_BYTES", "FETCH_TIMEOUT_MS"},
   GC                 |-> {"SWEEP_INTERVAL_SECS", "GRACE_PERIOD_SECS"},
   INCLUDE_LOADER     |-> {"HTTP_ALLOW", "HTTP_DENY", "FS_ROOT"},
   SENDERS            |-> {""},
   RESOLVER           |-> {"ALLOWED_DOMAINS", "TEMPLATES_DIR", "TOKENS"},
   CATAPULTE_OTEL     |-> {"TRACES_EXPORTER", "METRICS_EXPORTER", "EXPORTER_OTLP_PROTOCOL",
                           "EXPORTER_OTLP_ENDPOINT", "METRIC_EXPORT_INTERVAL_SECS"}]

SenderVariables == {"HOST", "PORT", "USERNAME", "PASSWORD", "TLS",
                    "QUOTA_COUNT", "QUOTA_RANGE", "PRIORITY", "MATCH_DOMAIN"}
EntryVariables  == {"HOST", "BEARER_TOKEN", "HEADERS"}

\* The values a variable can have, and the names and headers these list.
Values(k)         == Choices[k] \union {b[k] : b \in Bases}
Listed(k)         == UNION {Prefixes(x) : x \in Values(k)}
ListedHeaders(p)  == UNION {{Fragment[Parts(x)[i]] : i \in DOMAIN Parts(x)} : x \in Values(<<p, "HEADERS">>)}

\* Every variable can be set. The names tell components, senders and entries apart
\* (_SENDER_.. and _TOKEN_.. come before them), and headers from an entry's own
\* variables (HEADER_.._VALUE).
ConfigurationAssumption ==
  LET senders == Listed(<<"SENDERS", "">>)
      entries == Listed(<<"RESOLVER", "TOKENS">>)
  IN
  /\ MaxEdits \in Nat /\ "0" \in Numbers
  /\ {Unset, Raw, Default} \intersect DOMAIN Split = {}
  /\ \A b \in Bases : DOMAIN b = DOMAIN Choices
  /\ \A c \in DOMAIN Variables : \A n \in Variables[c] : <<c, n>> \in DOMAIN Choices
  /\ \A p \in senders : \A n \in SenderVariables : <<p, n>> \in DOMAIN Choices
  /\ \A p \in entries : /\ \A n \in EntryVariables \union ListedHeaders(p) : <<p, n>> \in DOMAIN Choices
                          /\ ListedHeaders(p) \intersect EntryVariables = {}
  /\ senders \intersect entries = {} /\ (senders \union entries) \intersect DOMAIN Variables = {}

-----------------------------------------------------------------------------
(* The start.                                                              *)

FromEnv(e) ==
  Merge({Storage(e), Http(e), InboundNats(e), Senders(e), Resolver(e), Worker(e), Queue(e), Webhook(e),
         NatsEvents(e), AttachmentStore(e), Fetcher(e), IncludeLoader(e), Gc(e)})

Loaded(e) == Merge({Telemetry(e), FromEnv(e)})

\* c is what the components load from e.
Starts(e, c) ==
  /\ EnvironmentReadable(e)
  /\ \A k \in DOMAIN c : c[k] # Error
  /\ ResolverBuilds(e)

Init ==
  /\ env \in Bases /\ edits = 0
  /\ phase = "off" /\ config = <<>>

\* The operator gives a variable another value.
Edit ==
  /\ phase = "off" /\ edits < MaxEdits
  /\ \E k \in DOMAIN Choices : \E x \in Choices[k] \ {env[k]} : env' = [env EXCEPT ![k] = x]
  /\ edits' = edits + 1
  /\ UNCHANGED <<phase, config>>

Start(c) ==
  /\ phase = "off" /\ Starts(env, c)
  /\ phase' = "running" /\ config' = c
  /\ UNCHANGED <<env, edits>>

Refuse(c) ==
  /\ phase = "off" /\ ~Starts(env, c)
  /\ phase' = "failed"
  /\ UNCHANGED <<env, edits, config>>

Next == Edit \/ \E c \in {Loaded(env)} : Start(c) \/ Refuse(c)

Spec == Init /\ [][Next]_vars

-----------------------------------------------------------------------------
(* The container's health check, a second run of the program (main.rs).    *)

\* A wildcard is mapped to the loopback of its family.
ReadinessAuthority(x) == IF x \in DOMAIN Loopback THEN Loopback[x] ELSE "127.0.0.1:3000"

-----------------------------------------------------------------------------
(* Properties.                                                             *)

(* The variables keep their types, and an environment that is refused      *)
(* configures nothing.                                                     *)
TypeOK ==
  /\ DOMAIN env = DOMAIN Choices /\ edits \in 0..MaxEdits
  /\ phase \in {"off", "running", "failed"}
  /\ DOMAIN config # {} => phase = "running" /\ Error \notin {config[k] : k \in DOMAIN config}

Running == phase = "running"

\* What is read as another value when it cannot be read as what it says.
LenientlyRead == {<<"WEBHOOK", "TIMEOUT_MS">>, <<"GC", "SWEEP_INTERVAL_SECS">>,
                  <<"GC", "GRACE_PERIOD_SECS">>, <<"ATTACHMENT_S3", "PATH_STYLE">>}

\* A sender's name without its password, or the reverse.
HalfCredentials(e) ==
  UNION {{<<p, "USERNAME">>, <<p, "PASSWORD">>} :
           p \in {q \in Prefixes(e["SENDERS", ""]) : Half(e, q, "USERNAME", "PASSWORD")}}

\* What a start lets pass without using it as it was set.
Excepted(e) == LenientlyRead \union HalfCredentials(e)

(* A running program uses every variable that was set as it was set: a     *)
(* value it cannot read stops the start, and so does half a quota. Only    *)
(* blanks count as unset; the three lenient intervals, the path style of   *)
(* S3 and half a sender's credentials are excepted.                        *)
SetMeansUsed ==
  Running => \A k \in DOMAIN config \ Excepted(env) :
                env[k] \in {Unset, ""} \/ config[k] = env[k]

\* The variables of components that are not selected.
Unselected(e) ==
  {k \in DOMAIN e :
     \/ k[1] = "SQLITE"   /\ e["STORAGE", "BACKEND"] \in {"postgres", "pg"}
     \/ k[1] = "POSTGRES" /\ e["STORAGE", "BACKEND"] \notin {"postgres", "pg"}
     \/ k[1] = "QUEUE" /\ k[2] # "BACKEND" /\ e["QUEUE", "BACKEND"] # "nats"
     \/ k[1] = "ATTACHMENT_FS" /\ e["ATTACHMENT", "BACKEND"] \in {"s3", "redis"}
     \/ k[1] = "ATTACHMENT_S3" /\ e["ATTACHMENT", "BACKEND"] # "s3"
     \/ k[1] = "INBOUND_NATS" /\ e["INBOUND_NATS", "URL"] \in {Unset, ""}}

(* What a component that is not selected would read neither stops a start  *)
(* nor saves it: the same environment without those variables ends alike.  *)
UnselectedIgnored ==
  phase # "off" /\ EnvironmentReadable(env) =>
     LET dropped == Unselected(env)
         without == [k \in DOMAIN env |-> IF k \in dropped THEN Unset ELSE env[k]]
     IN  Running = Starts(without, Loaded(without))

TokenPrefixes == Prefixes(config["RESOLVER", "TOKENS"])

Authorizations(p) ==
  {<<p, h>> : h \in {Parts(config[p, "HEADERS"])[i] : i \in DOMAIN Parts(config[p, "HEADERS"])}
                    \intersect {g \in DOMAIN Fragment : Fragment[g] = "AUTHORIZATION"}}
  \union {<<p, "bearer">> : b \in {config[p, "BEARER_TOKEN"]} \ {Default}}

(* A request to a host carries at most one Authorization header, whatever  *)
(* entries, tokens and header names lead to that host: HTTP header names   *)
(* ignore case, so the check of the fragments counts as well.              *)
OneAuthorization ==
  Running => \A p, q \in TokenPrefixes : config[p, "HOST"] = config[q, "HOST"] =>
               \A x \in Authorizations(p), y \in Authorizations(q) : x = y

(* The health check of a running server connects to the address the server *)
(* listens on: both read the variable for themselves.                      *)
ProbesTheServer ==
  Running => ReadinessAuthority(env["HTTP", "ADDRESS"]) = Loopback[config["HTTP", "ADDRESS"]]
=============================================================================
