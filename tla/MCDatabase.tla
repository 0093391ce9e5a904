------------------------------ MODULE MCDatabase ------------------------------
(***************************************************************************)
(* Instances for TLC of what several processes and releases do to one      *)
(* database: the queue on PostgreSQL and its pool, the start of a new      *)
(* release beside an old one, and what is written being read back. They    *)
(* share no state here, so each behaviour is one of a single part, which   *)
(* part picks; the others stay as they start. A liveness property is       *)
(* implied by the fairness of its part.                                    *)
(***************************************************************************)
EXTENDS PostgresQueue, Sequences, TLC

CONSTANTS Procs, Latest, Knows, Applied0, max_deliver, Rows, MaxStartFaults, MaxStops,  \* Upgrade
          Envelopes, EarlierEnvelopes, HeaderMaps, Lowercase                              \* Codecs

VARIABLES part,
          applied, lock, stage, todo, rows, unread, consumer, start_faults, stops,        \* Upgrade
          backend, traced, version, envelope, headers, phase, stored, carried, span, got  \* Codecs

upgrade == <<applied, lock, stage, todo, rows, unread, consumer, start_faults, stops>>
codecs  == <<backend, traced, version, envelope, headers, phase, stored, carried, span, got>>
allVars == <<part, vars, upgrade, codecs>>

-----------------------------------------------------------------------------

\* A pool of one connection.
Pool == INSTANCE PostgresQueue WITH Connections <- 1, MaxFaults <- 1

Up == INSTANCE Upgrade WITH MaxFaults <- MaxStartFaults, at <- stage, faults <- start_faults

\* An old process and two of a release that is two migrations newer.
KnownBy    == [old |-> 1, new1 |-> 3, new2 |-> 3]
Deliveries == [old |-> 3, new1 |-> 5, new2 |-> 5]

\* Each kind of body, an e-mail with and one without the optional fields, with
\* two attachments or none, and headers as a producer may spell them.
Bodies ==
  {[kind |-> "plain", text |-> "t", html |-> "none"], [kind |-> "plain", text |-> "none", html |-> "h"],
   [kind |-> "plain", text |-> "t", html |-> "h"],    [kind |-> "mjml_inline", source |-> "m"],
   [kind |-> "mjml_named", name |-> "welcome"],       [kind |-> "mjml_remote", url |-> "u"]}

Attachment(k, size) == [filename |-> "f", size_bytes |-> size, blob |-> [backend |-> "fs", key |-> k]]
Attachments == {<<>>, <<Attachment("b1", "1"), Attachment("b2", "2")>>}

Full(b, atts) ==
  [idempotency_key |-> "k", correlation_id |-> "c", subject |-> "s", sender |-> "a",
   recipients |-> <<<<"to", "x">>, <<"bcc", "x">>>>, body |-> b, attachments |-> atts]
Bare(b, atts) ==
  [idempotency_key |-> "none", correlation_id |-> "none", subject |-> "none", sender |-> "a",
   recipients |-> <<<<"cc", "y">>>>, body |-> b, attachments |-> atts]

Parent == <<<<"t1">>>>

AllEnvelopes     == UNION {{Full(b, a), Bare(b, a)} : b \in Bodies, a \in Attachments}
WithoutDefaulted == UNION {{Bare(b, <<>>), [Full(b, <<>>) EXCEPT !.correlation_id = "none"]} : b \in Bodies}

Spellings ==
  {<<>>, [other |-> <<<<"z">>>>], [tracestate |-> <<<<"a">>>>],
   [traceparent |-> Parent, tracestate |-> <<<<"a", "b">>, <<"c">>>>],
   [Traceparent |-> Parent, Tracestate |-> <<<<"a">>>>]}
InLowercase ==
  [traceparent |-> "traceparent", tracestate |-> "tracestate",
   Traceparent |-> "traceparent", Tracestate |-> "tracestate", other |-> "other"]

Codec == INSTANCE Codecs WITH
  Backends <- {"sqlite", "postgres", "nats"}, row <- stored, entry <- carried

-----------------------------------------------------------------------------

ASSUME PartsAssumption == Pool!PostgresAssumption /\ Up!UpgradeAssumption /\ Codec!CodecsAssumption

PartsInit ==
  /\ part \in {"queue", "pool", "upgrade", "codecs"}
  /\ Init /\ Up!Init /\ Codec!Init
  /\ part # "codecs" =>
       /\ backend = "nats" /\ traced = FALSE /\ version = "this"
       /\ envelope = CHOOSE e \in Envelopes : TRUE
       /\ headers = CHOOSE h \in HeaderMaps : TRUE

PartsNext ==
  /\ UNCHANGED part
  /\ \/ part = "queue"   /\ Next       /\ UNCHANGED <<upgrade, codecs>>
     \/ part = "pool"    /\ Pool!Next  /\ UNCHANGED <<upgrade, codecs>>
     \/ part = "upgrade" /\ Up!Next    /\ UNCHANGED <<vars, codecs>>
     \/ part = "codecs"  /\ Codec!Next /\ UNCHANGED <<vars, upgrade>>

PartsSpec == PartsInit /\ [][PartsNext]_allVars

-----------------------------------------------------------------------------
(* Properties of the parts, under names that tell them apart.              *)

\* No migration is applied a second time, whoever starts at once (migrate), and a
\* process that serves has every table and column it was built for and reads the
\* rows of the other release (deserialize_trace_context).
ReleasesAgree == Up!ReleasesAgree

\* What is written is read back as it was meant, through either database or NATS
\* and by this program or an earlier one: the worker is given what was submitted,
\* with every recipient and attachment, and goes on with its trace; the collector
\* sees the blobs of a queued e-mail; and GET /emails lists an e-mail by exactly
\* the named template it was submitted with, although its body is written twice.
ReadAsWritten ==
  /\ Codec!TypeOK /\ Codec!DequeuedAsSubmitted /\ Codec!TraceContinues
  /\ Codec!RefsSeen /\ Codec!FoundByTemplate

\* Nobody waits for ever: every call of the queue comes back and every visible
\* entry is claimed, even on a pool of one connection; and starts that fail or die
\* half-way, also under the lock, do not keep the newest release from serving.
DatabaseServes ==
  /\ part = "pool"    /\ Pool!Fairness => CallsReturn
  /\ part = "pool"    /\ Pool!Fairness => EveryEntryClaimed
  /\ part = "upgrade" /\ Up!Fairness   => Up!NewestServes
===============================================================================
