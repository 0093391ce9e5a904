-------------------------------- MODULE Codecs --------------------------------
(***************************************************************************)
(* What is written of an e-mail and read back: the row of the e-mail table *)
(* (dto.rs of outbound-sqlite and outbound-postgres, the same file), the   *)
(* payload of the NATS queue (dto.rs of outbound-nats), and the trace      *)
(* context that travels beside them.                                       *)
(*                                                                         *)
(* One e-mail goes from its submission to the worker through one backend.  *)
(* It is submitted by this program, or was by an earlier version that left *)
(* a row and an entry in the older shape, which the migrations and the     *)
(* decoders accept. JSON is a tree; strings are tokens; a tracestate is    *)
(* the sequence of its members.                                            *)
(***************************************************************************)
EXTENDS Naturals, SequencesExt

CONSTANTS Backends,          \* of "sqlite", "postgres" and "nats"
          Envelopes,         \* what is submitted
          EarlierEnvelopes,  \* what an earlier version submitted: no correlation id, no attachments
          HeaderMaps,        \* headers a submission may come with: name -> values
          Lowercase          \* header name -> its lowercase spelling

VARIABLES backend, traced, version, envelope, headers, phase, row, entry, span, got

vars == <<backend, traced, version, envelope, headers, phase, row, entry, span, got>>

Absent    == "none"
NoContext == [id |-> Absent, states |-> <<>>]
NoRow     == [sender |-> Absent]
NoEntry   == [email |-> Absent]
Nothing   == [envelope |-> {}, trace |-> <<>>]

Map(Op(_), s) == [i \in DOMAIN s |-> Op(s[i])]

----------------------------------------------------------------------------
(* JSON *)

Null        == [json |-> "null"]
Text(s)     == [json |-> "string", value |-> s]
Option(s)   == IF s = Absent THEN Null ELSE Text(s)
Object(f)   == [json |-> "object", fields |-> f]
List(s)     == [json |-> "array", items |-> s]

Has(j, f)     == j.json = "object" /\ f \in DOMAIN j.fields
HasText(j, f) == Has(j, f) /\ j.fields[f].json = "string"
Get(j, f)     == j.fields[f].value
GetOption(j, f) == IF HasText(j, f) THEN Get(j, f) ELSE Absent

(* The data types *)

\* The fields of each kind of body: a plain one has a text, an html or both.
Fields == [plain       |-> {"text", "html"},
           mjml_inline |-> {"source"},
           mjml_named  |-> {"name"},
           mjml_remote |-> {"url"}]

BodySourceDto(body) ==
  Object([f \in DOMAIN body |-> IF f = "kind" THEN Text(body.kind) ELSE Option(body[f])])

\* serde reads a tagged enum: the kind, then the fields that kind requires.
IsBodySourceDto(j) ==
  /\ HasText(j, "kind") /\ Get(j, "kind") \in DOMAIN Fields
  /\ Get(j, "kind") # "plain" => \A f \in Fields[Get(j, "kind")] : HasText(j, f)

\* What can be submitted: optional fields may be absent, a plain body has one of its own.
Token == STRING \ {Absent}

BodySources ==
  {b \in [kind : {"plain"}, text : STRING, html : STRING] : b.text # Absent \/ b.html # Absent}
    \union [kind : {"mjml_inline"}, source : Token] \union [kind : {"mjml_named"}, name : Token]
    \union [kind : {"mjml_remote"}, url : Token]

RecipientKinds == {"to", "cc", "bcc"}
AttachmentRefs == [filename : Token, size_bytes : Token, blob : [backend : Token, key : Token]]

EmailEnvelopes ==
  [idempotency_key : STRING, correlation_id : STRING, subject : STRING, sender : Token,
   recipients : Seq(RecipientKinds \X Token), body : BodySources, attachments : Seq(AttachmentRefs)]

CodecsAssumption ==
  /\ Envelopes \subseteq EmailEnvelopes
  /\ EarlierEnvelopes \subseteq
       {e \in EmailEnvelopes : e.correlation_id = Absent /\ e.attachments = <<>>}
  /\ \A name \in {"traceparent", "tracestate"} : Lowercase[name] = name

\* TryFrom: the body a DTO stands for, or none.
BodySource(j) ==
  LET body == [f \in Fields[Get(j, "kind")] \union {"kind"} |-> GetOption(j, f)]
  IN  {b \in {body} : b.kind = "plain" => (b.text # Absent \/ b.html # Absent)}

\* The kinds are an enum on both sides.
RecipientKindDto(kind) ==
  CASE kind = "to" -> Text("to") [] kind = "cc" -> Text("cc") [] kind = "bcc" -> Text("bcc")
RecipientKind(j) ==
  CASE j = Text("to") -> "to" [] j = Text("cc") -> "cc" [] j = Text("bcc") -> "bcc"

RecipientDto(r)  == Object([kind |-> RecipientKindDto(r[1]), address |-> Text(r[2])])
RecipientOf(j)   == <<RecipientKind(j.fields["kind"]), Get(j, "address")>>

BlobRefDto(b) == Object([backend |-> Text(b.backend), key |-> Text(b.key)])
BlobRefOf(j)  == [backend |-> Get(j, "backend"), key |-> Get(j, "key")]

AttachmentRefDto(a) ==
  Object([filename |-> Text(a.filename), size_bytes |-> Text(a.size_bytes), blob |-> BlobRefDto(a.blob)])
AttachmentRefOf(j) ==
  [filename |-> Get(j, "filename"), size_bytes |-> Get(j, "size_bytes"), blob |-> BlobRefOf(j.fields.blob)]

----------------------------------------------------------------------------
(* The row of the e-mail table *)

EnvelopeBodyDto(source, attachments) ==
  Object([source |-> source, attachments |-> List(Map(AttachmentRefDto, attachments))])

Items(j, f) == IF Has(j, f) THEN j.fields[f].items ELSE <<>>

\* Faulty variant of EnvelopeBodyDtoDeser: anything with a source is taken for the shape with attachments.
EnvelopeBodyDtoDeser_AnySource(j) ==
  IF Has(j, "source")
  THEN {d \in {[source |-> j.fields["source"], attachments |-> Items(j, "attachments")]} : IsBodySourceDto(d.source)}
  ELSE {d \in {[source |-> j, attachments |-> <<>>]} : IsBodySourceDto(j)}

\* An untagged enum: the shape with attachments if it fits, else a bare body.
EnvelopeBodyDtoDeser(j) ==
  IF Has(j, "source") /\ IsBodySourceDto(j.fields["source"])
  THEN {[source |-> j.fields["source"], attachments |-> Items(j, "attachments")]}
  ELSE IF IsBodySourceDto(j) THEN {[source |-> j, attachments |-> <<>>]}
  ELSE {}

Row(env) ==
  [idempotency_key |-> env.idempotency_key, correlation_id |-> env.correlation_id,
   subject |-> env.subject, sender |-> env.sender,
   recipients |-> List(Map(RecipientDto, env.recipients)),
   body |-> EnvelopeBodyDto(BodySourceDto(env.body), env.attachments)]

\* The row of an earlier version: the column holds the bare body.
EarlierRow(env) == [Row(env) EXCEPT !.body = BodySourceDto(env.body)]

\* The columns beside a body and its attachments.
EnvelopeOf(r, body, attachments) ==
  [idempotency_key |-> r.idempotency_key, correlation_id |-> r.correlation_id,
   subject |-> r.subject, sender |-> r.sender,
   recipients |-> Map(RecipientOf, r.recipients.items),
   body |-> body, attachments |-> Map(AttachmentRefOf, attachments)]

\* parse_envelope: the envelope a row stands for, or none.
ParseEnvelope(r) ==
  UNION {{EnvelopeOf(r, b, d.attachments) : b \in BodySource(d.source)} : d \in EnvelopeBodyDtoDeser(r.body)}

\* list_all_attachment_blobs: a row that does not parse has none.
Blobs(r) ==
  UNION {{AttachmentRefOf(d.attachments[i]).blob : i \in DOMAIN d.attachments} : d \in EnvelopeBodyDtoDeser(r.body)}

\* The filter on the name of a template, a query on the column.
NamesTemplate(r, name) ==
  /\ Has(r.body, "source") /\ HasText(r.body.fields["source"], "kind")
  /\ Get(r.body.fields["source"], "kind") = "mjml_named"
  /\ Get(r.body.fields["source"], "name") = name

----------------------------------------------------------------------------
(* The payload of the NATS queue *)

EnvelopeDto(env) ==
  [idempotency_key |-> Option(env.idempotency_key), subject |-> Option(env.subject),
   sender |-> Text(env.sender), recipients |-> List(Map(RecipientDto, env.recipients)),
   body |-> BodySourceDto(env.body), attachments |-> List(Map(AttachmentRefDto, env.attachments))]

Without(f, x) == [y \in DOMAIN f \ {x} |-> f[y]]

QueuedEmailPayload(env) ==
  LET fields == [correlation_id |-> Option(env.correlation_id), envelope |-> Object(EnvelopeDto(env))]
  IN  Object(IF env.correlation_id = Absent THEN Without(fields, "correlation_id") ELSE fields)

\* The payload of an earlier version: it knew neither of the defaulted fields.
EarlierPayload(env) == Object([envelope |-> Object(Without(EnvelopeDto(env), "attachments"))])

FromPayload(j) ==
  LET e == j.fields.envelope
  IN  {[idempotency_key |-> GetOption(e, "idempotency_key"),
        correlation_id |-> GetOption(j, "correlation_id"),
        subject |-> GetOption(e, "subject"), sender |-> Get(e, "sender"),
        recipients |-> Map(RecipientOf, e.fields.recipients.items), body |-> b,
        attachments |-> Map(AttachmentRefOf, Items(e, "attachments"))] : b \in BodySource(e.fields.body)}

----------------------------------------------------------------------------
(* The trace context *)

\* The headers of that name, whatever its case. A map has no order: any of
\* several spellings may be the one that is found first.
Spelled(h, name) == {n \in DOMAIN h : Lowercase[n] = name}

TraceParents(h) == {<<"traceparent", h[n][1]>> : n \in Spelled(h, "traceparent")}
TraceStates(h)  == {<<"tracestate", FlattenSeq(h[n])>> : n \in Spelled(h, "tracestate")}
AtMostOne(S)    == IF S = {} THEN {<<>>} ELSE {<<x>> : x \in S}

header_map_to_pairs(h) == {p \o s : p \in AtMostOne(TraceParents(h)), s \in AtMostOne(TraceStates(h))}

pairs_to_header_map(pairs) ==
  [n \in {pairs[i][1] : i \in DOMAIN pairs} |->
     <<(CHOOSE p \in Range(pairs) : p[1] = n)[2]>>]

\* The propagator: a context needs a traceparent, and its state may be empty.
Extract(pairs) ==
  LET h == pairs_to_header_map(pairs)
  IN  IF ~traced \/ "traceparent" \notin DOMAIN h THEN NoContext
      ELSE [id |-> h["traceparent"][1][1],
            states |-> IF "tracestate" \in DOMAIN h THEN h["tracestate"][1] ELSE <<>>]

\* The pairs come out of a hash map: in either order.
inject_current ==
  LET parent == <<"traceparent", <<span.id>>>>
      state  == <<"tracestate", span.states>>
  IN  IF span = NoContext THEN {<<>>} ELSE {<<parent, state>>, <<state, parent>>}

SetSpanParent(pairs) ==
  span' = IF Extract(pairs) = NoContext /\ traced THEN [id |-> "root", states |-> <<>>] ELSE Extract(pairs)

\* trace_context: a JSON list of pairs, or NULL.
TraceColumn(pairs) == IF pairs = <<>> THEN Null ELSE List([i \in DOMAIN pairs |-> List(Map(Text, pairs[i]))])
deserialize_trace_context(j) ==
  IF j.json # "array" THEN <<>> ELSE [i \in DOMAIN j.items |-> <<j.items[i].items[1].value, j.items[i].items[2].value>>]

----------------------------------------------------------------------------
StorageEntry(pairs)   == [trace |-> TraceColumn(pairs)]
NatsEntry(j, pairs)   == [payload |-> j, headers |-> pairs_to_header_map(pairs)]

Init ==
  /\ backend \in Backends /\ traced \in BOOLEAN /\ version \in {"this", "earlier"}
  /\ headers \in HeaderMaps
  /\ span = NoContext /\ got = Nothing
  /\ \/ /\ version = "this" /\ envelope \in Envelopes
        /\ phase = "new" /\ row = NoRow /\ entry = NoEntry
     \/ /\ version = "earlier" /\ envelope \in EarlierEnvelopes
        /\ phase = "queued" /\ row = EarlierRow(envelope)
        /\ entry = IF backend = "nats" THEN NatsEntry(EarlierPayload(envelope), <<>>) ELSE StorageEntry(<<>>)

fixed == <<backend, traced, version, envelope, headers>>

\* The submission arrives; the trace of its producer becomes the parent.
Receive ==
  /\ phase = "new" /\ phase' = "received"
  /\ \E pairs \in header_map_to_pairs(headers) : SetSpanParent(pairs)
  /\ UNCHANGED <<fixed, row, entry, got>>

\* The row is reserved without attachments.
Save ==
  /\ phase = "received" /\ phase' = "saved"
  /\ row' = Row([envelope EXCEPT !.attachments = <<>>])
  /\ UNCHANGED <<fixed, entry, span, got>>

\* The body is read back and written again, with the refs of the blobs.
set_attachments ==
  /\ phase = "saved" /\ envelope.attachments # <<>> /\ phase' = "complete"
  /\ \E d \in EnvelopeBodyDtoDeser(row.body) :
       row' = [row EXCEPT !.body = EnvelopeBodyDto(d.source, envelope.attachments)]
  /\ UNCHANGED <<fixed, entry, span, got>>

Enqueue ==
  /\ phase = "complete" \/ (phase = "saved" /\ envelope.attachments = <<>>)
  /\ phase' = "queued"
  /\ \E pairs \in inject_current :
       entry' = IF backend = "nats" THEN NatsEntry(QueuedEmailPayload(envelope), pairs) ELSE StorageEntry(pairs)
  /\ UNCHANGED <<fixed, row, span, got>>

DequeueRow ==
  /\ phase = "queued" /\ backend # "nats" /\ phase' = "dequeued"
  /\ got' = [envelope |-> ParseEnvelope(row), trace |-> deserialize_trace_context(entry.trace)]
  /\ UNCHANGED <<fixed, row, entry, span>>

DequeueMessage ==
  /\ phase = "queued" /\ backend = "nats" /\ phase' = "dequeued"
  /\ \E pairs \in header_map_to_pairs(entry.headers) :
       got' = [envelope |-> FromPayload(entry.payload), trace |-> pairs]
  /\ UNCHANGED <<fixed, row, entry, span>>

Next == Receive \/ Save \/ set_attachments \/ Enqueue \/ DequeueRow \/ DequeueMessage

Spec == Init /\ [][Next]_vars

----------------------------------------------------------------------------
(* Properties *)

TypeOK ==
  /\ backend \in Backends /\ traced \in BOOLEAN /\ version \in {"this", "earlier"}
  /\ envelope \in Envelopes \union EarlierEnvelopes /\ headers \in HeaderMaps
  /\ phase \in {"new", "received", "saved", "complete", "queued", "dequeued"}
  /\ span.id \in {Absent, "root"} \union UNION {{p[2][1] : p \in TraceParents(h)} : h \in HeaderMaps}
  /\ phase \in {"new", "received"} <=> row = NoRow
  /\ phase \in {"queued", "dequeued"} <=> entry # NoEntry

\* The worker is given what was submitted: through either database or NATS,
\* by this program or an earlier version, with every recipient, attachment and
\* optional field. In particular no accepted e-mail fails to decode: its entry
\* would be claimed again for ever, or parked, without an outcome.
DequeuedAsSubmitted == phase = "dequeued" => got.envelope = {envelope}

\* The collector sees the blobs of a queued e-mail, whatever shape its row has:
\* the ones it does not see are deleted under the e-mail.
RefsSeen ==
  phase = "queued" => Blobs(row) = {envelope.attachments[i].blob : i \in DOMAIN envelope.attachments}

\* The worker goes on with the trace of the submission, through a column or
\* through headers, and without one when nothing is exported.
TraceContinues == phase = "dequeued" /\ version = "this" => Extract(got.trace) = span

TemplateNames == {e.body.name : e \in {x \in Envelopes : x.body.kind = "mjml_named"}}

\* An e-mail is listed by exactly the named template it was submitted with, from its
\* reservation on and also when its body has been rewritten with attachments. (Rows of
\* an earlier version, which every other reader accepts, are not found.)
FoundByTemplate ==
  (row # NoRow /\ version = "this") =>
    \A name \in TemplateNames :
      NamesTemplate(row, name) <=> envelope.body.kind = "mjml_named" /\ envelope.body.name = name
===============================================================================
