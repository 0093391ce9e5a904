------------------------------- MODULE HttpApi -------------------------------
(***************************************************************************)
(* One request to the HTTP interface (adapter/inbound-http), from the      *)
(* router to the response: the bearer token, the three ways to submit      *)
(* (JSON, multipart, batch), their validation and size limits, and the     *)
(* reads and health probes, which a timeout bounds.                        *)
(*                                                                         *)
(* A field of an envelope is its verdict ("ok" or "bad"), the bytes of a   *)
(* part are counted, and the use case is its outcomes. A body that is      *)
(* malformed, cut off or over the limit of a body does not parse; the      *)
(* fields of a multipart one are then those before it breaks. The client   *)
(* may hang up at any await, which drops the handler.                      *)
(***************************************************************************)
EXTENDS Naturals, Sequences, SequencesExt, FiniteSets

CONSTANTS Requests,                   \* the requests clients make
          ApiKey,                     \* CATAPULTE_HTTP_API_KEY, or None
          MAX_ATTACHMENTS_PER_EMAIL,  \* 10
          MAX_ATTACHMENT_BYTES,       \* 25 MiB
          MAX_ENVELOPE_BYTES,         \* 1 MiB
          MAX_EMAILS_PER_BATCH,       \* 100
          None

HttpApiAssumption ==
  /\ MAX_ATTACHMENTS_PER_EMAIL \in Nat /\ MAX_EMAILS_PER_BATCH \in Nat
  /\ MAX_ATTACHMENT_BYTES \in Nat /\ MAX_ENVELOPE_BYTES \in Nat
  /\ None \notin {"ok", "bad"}
  /\ \A r \in Requests :
       /\ r.route \in {"submit", "batch", "list", "live", "ready"}
       /\ r.route = "batch" => r.emails \in Seq(ToSet(r.emails))
       /\ r.route = "submit" /\ r.multipart =>
            r.fields \in Seq(ToSet(r.fields)) /\ \A f \in ToSet(r.fields) : f.size \in Nat

Err(error) == [error |-> error]
IsErr(r)   == "error" \in DOMAIN r

-----------------------------------------------------------------------------
(* dto.rs: from a request to the input of the use case.                    *)

validate_sender(sender) == sender = "ok"

validate_recipients(recipients) ==
  recipients # <<>> /\ \A i \in DOMAIN recipients : recipients[i] = "ok"

\* TryFrom<BodyDto>: a plain body needs a text or a html part (either may be
\* empty), a remote template a URL.
body_is_valid(body) ==
  CASE body.kind = "plain"       -> body.text # None \/ body.html # None
    [] body.kind = "mjml_remote" -> body.url = "ok"
    [] body.kind \in {"mjml_inline", "mjml_named"} -> TRUE

\* An attachment is inline, of so many decoded bytes, or remote, not both.
attachment_dto_to_input(a) ==
  IF a.inline_base64 # None /\ a.url = None THEN
    IF a.inline_base64 = "bad" THEN Err("InvalidAttachmentBase64")
    ELSE IF a.size > MAX_ATTACHMENT_BYTES THEN Err("AttachmentTooLarge")
    ELSE [from |-> "inline", size |-> a.size]
  ELSE IF a.inline_base64 = None /\ a.url # None THEN
    IF a.url = "bad" THEN Err("InvalidAttachmentUrl") ELSE [from |-> "remote"]
  ELSE Err("InvalidAttachmentShape")

FirstError(results) ==
  results[CHOOSE i \in DOMAIN results :
            IsErr(results[i]) /\ \A j \in 1..(i - 1) : ~IsErr(results[j])]

\* EnvelopeCoreDto::into_submit_input, of an envelope and ready attachments.
core_into_submit_input(envelope, attachments) ==
  IF ~validate_sender(envelope.sender) THEN Err("InvalidSender")
  ELSE IF ~validate_recipients(envelope.recipients) THEN Err("InvalidRecipient")
  ELSE IF ~body_is_valid(envelope.body) THEN Err("InvalidBody")
  ELSE [envelope |-> envelope, attachments |-> attachments]

\* SubmitEmailRequest::into_submit_input.
into_submit_input(request) ==
  LET inputs == [i \in DOMAIN request.attachments |->
                   attachment_dto_to_input(request.attachments[i])]
      core   == core_into_submit_input(request.envelope, inputs)
  IN IF IsErr(core) THEN core
     ELSE IF Len(request.attachments) > MAX_ATTACHMENTS_PER_EMAIL THEN Err("TooManyAttachments")
     ELSE IF \E i \in DOMAIN inputs : IsErr(inputs[i]) THEN FirstError(inputs)
     ELSE core

\* into_response of AppError. A request that does not parse as JSON, multipart
\* or query is refused by the same or by the extractor's status.
into_response(error) ==
  IF error \in {"Persist", "Enqueue", "AttachmentStore", "List"} THEN 500 ELSE 400

-----------------------------------------------------------------------------

VARIABLES request,
          at,        \* where its handler is
          pos,       \* multipart fields or batch items done
          envelope,  \* the multipart envelope read so far
          parts,     \* the multipart attachments read so far
          reader,    \* the LimitedReader over the current field
          input,     \* what is being submitted
          results,   \* batch results so far
          accepted,  \* inputs the use case has put on the queue
          response   \* status and results, once answered

vars == <<request, at, pos, envelope, parts, reader, input, results, accepted, response>>

NoReader == [remaining |-> 0, exhausted |-> FALSE, left |-> 0, buf |-> 0]

Init ==
  /\ request \in Requests
  /\ at = "route"
  /\ pos = 0
  /\ envelope = None /\ parts = <<>> /\ reader = NoReader
  /\ input = None /\ results = <<>> /\ accepted = <<>>
  /\ response = None

Respond(status, body) ==
  /\ response' = [status |-> status, body |-> body]
  /\ at' = "answered"

Fail(error) == Respond(into_response(error), None)

Submit(i) ==
  IF IsErr(i) THEN Fail(i.error) /\ UNCHANGED input
  ELSE at' = "execute" /\ input' = i /\ UNCHANGED response

-----------------------------------------------------------------------------
(* lib.rs: the router and its middleware.                                  *)

\* require_api_key: the header has to be Bearer and the configured key.
require_api_key == ApiKey = None \/ request.bearer = ApiKey

Public == request.route \in {"live", "ready"}

\* The timeout layer is on the reads and the probes, not on the submissions.
TimeoutApplies(route) == route \in {"live", "ready", "list"}

Route ==
  /\ at = "route"
  /\ \/ ~Public /\ ~require_api_key /\ Respond(401, None) /\ UNCHANGED <<pos, reader>>
     \/ /\ Public \/ require_api_key
        /\ at' = (CASE request.route = "submit" /\ request.multipart -> "field"
                    [] OTHER -> request.route)
        /\ UNCHANGED <<response, pos, reader>>
  /\ UNCHANGED <<request, envelope, parts, input, results, accepted>>

\* The request timeout of the reads and the probes.
RequestTimeout ==
  /\ at \notin {"route", "answered", "gone"}
  /\ TimeoutApplies(request.route)
  /\ Respond(408, None)
  /\ UNCHANGED <<request, pos, envelope, parts, reader, input, results, accepted>>

\* The client hangs up and the handler is dropped.
Disconnect ==
  /\ at \notin {"answered", "gone"}
  /\ at' = "gone"
  /\ UNCHANGED <<request, pos, envelope, parts, reader, input, results, accepted, response>>

-----------------------------------------------------------------------------
(* routes/emails.rs.                                                       *)

\* handle_json.
HandleJson ==
  /\ at = "submit"
  /\ IF request.parses THEN Submit(into_submit_input(request.email))
     ELSE Fail("BadRequestRaw") /\ UNCHANGED input
  /\ UNCHANGED <<request, pos, envelope, parts, reader, results, accepted>>

Field == request.fields[pos]

\* The body breaks in the field reached, or right after it.
Broken == ~request.parses /\ pos = Len(request.fields)

NewReader(left, max_bytes) ==
  [remaining |-> max_bytes, exhausted |-> FALSE, left |-> left, buf |-> 0]

\* handle_multipart, next_field: the end of the body or an error, or a field whose
\* bytes are read next unless it is unknown.
NextField ==
  /\ at = "field"
  /\ \/ /\ pos = Len(request.fields)
        /\ IF Broken \/ envelope = None THEN Fail("BadRequestRaw") /\ UNCHANGED input
           ELSE Submit(core_into_submit_input(envelope, parts))
        /\ UNCHANGED <<pos, reader>>
     \/ /\ pos < Len(request.fields)
        /\ pos' = pos + 1
        /\ LET f == request.fields[pos + 1]
           IN CASE f.name = "envelope" ->
                     /\ at' = "read" /\ UNCHANGED response
                     /\ reader' = NewReader(f.size, MAX_ENVELOPE_BYTES)
                [] f.name = "attachment" /\ (Len(parts) >= MAX_ATTACHMENTS_PER_EMAIL \/ ~f.filename) ->
                     Fail("BadRequestRaw") /\ UNCHANGED reader
                [] f.name = "attachment" /\ Len(parts) < MAX_ATTACHMENTS_PER_EMAIL /\ f.filename ->
                     /\ at' = "read" /\ UNCHANGED response
                     /\ reader' = NewReader(f.size, MAX_ATTACHMENT_BYTES)
                [] OTHER -> UNCHANGED <<at, response, reader>>
        /\ UNCHANGED input
  /\ UNCHANGED <<request, envelope, parts, results, accepted>>

\* Faulty variant of PollRead: no probe, so that a field of just the limit is
\* taken for a longer one.
PollRead_NoProbe(r) ==
  IF r.remaining = 0 THEN {[r EXCEPT !.exhausted = TRUE]}
  ELSE {[r EXCEPT !.remaining = @ - n, !.left = @ - n, !.buf = @ + n] :
          n \in {m \in 1..r.left : m <= r.remaining}}

\* LimitedReader::poll_read with data ready: some of the bytes left, at most
\* the remaining ones; none at the end of the field; an error past the limit.
PollRead(r) ==
  IF r.remaining = 0 /\ r.left > 0 THEN {[r EXCEPT !.exhausted = TRUE]}
  ELSE {[r EXCEPT !.remaining = @ - n, !.left = @ - n, !.buf = @ + n] :
          n \in {m \in 1..r.left : m <= r.remaining}}

\* One read of read_to_end.
ReadField ==
  /\ at = "read" /\ ~reader.exhausted
  /\ reader' \in PollRead(reader)
  /\ UNCHANGED <<request, at, pos, envelope, parts, input, results, accepted, response>>

\* read_to_end returns: an error of the reader or of the body, or what the field was.
FieldDone ==
  /\ at = "read"
  /\ \/ /\ \/ reader.exhausted \/ Broken
           \/ reader.left = 0 /\ Field.name = "envelope" /\ Field.envelope = None
        /\ Fail("BadRequestRaw") /\ UNCHANGED <<envelope, parts>>
     \/ /\ ~reader.exhausted /\ reader.left = 0
        /\ \/ /\ Field.name = "envelope" /\ Field.envelope # None
              /\ envelope' = Field.envelope /\ UNCHANGED parts
           \/ /\ Field.name = "attachment"
              /\ parts' = Append(parts, [from |-> "inline", size |-> reader.buf])
              /\ UNCHANGED envelope
        /\ at' = "field" /\ UNCHANGED response
  /\ UNCHANGED <<request, pos, reader, input, results, accepted>>

\* submit_email_batch: the size check, then item by item.
BatchItem ==
  /\ at = "batch"
  /\ IF ~request.parses \/ Len(request.emails) > MAX_EMAILS_PER_BATCH
       THEN Fail("BadRequestRaw") /\ UNCHANGED <<pos, input, results>>
     ELSE IF pos = Len(request.emails) THEN Respond(200, results) /\ UNCHANGED <<pos, input, results>>
     ELSE LET i == into_submit_input(request.emails[pos + 1])
          IN /\ pos' = pos + 1
             /\ IF IsErr(i)
                  THEN results' = Append(results, "rejected") /\ UNCHANGED <<at, input>>
                  ELSE at' = "execute" /\ input' = i /\ UNCHANGED results
             /\ UNCHANGED response
  /\ UNCHANGED <<request, envelope, parts, reader, accepted>>

HasRemote(i) == \E k \in DOMAIN i.attachments : i.attachments[k].from = "remote"

\* The errors execute may return before the enqueue, having compensated what it did.
UseCaseErrors(i) ==
  {"Persist", "AttachmentStore"} \union (IF HasRemote(i) THEN {"AttachmentFetch"} ELSE {})

\* state.submit_email().execute(input).await?, up to the enqueue: from there on the
\* e-mail is on the queue. An enqueue that fails may have put it there; what the
\* compensation then takes back is SubmitEmail's.
Execute ==
  /\ at = "execute"
  /\ \/ /\ accepted' = Append(accepted, input)
        /\ at' = "publish" /\ UNCHANGED response
     \/ /\ accepted' \in {accepted, Append(accepted, input)}
        /\ Fail("Enqueue")
     \/ /\ \E error \in UseCaseErrors(input) : Fail(error)
        /\ UNCHANGED accepted
  /\ UNCHANGED <<request, pos, envelope, parts, reader, input, results>>

\* The rest of execute, which publishes Queued and cannot fail, and the answer
\* or the next item.
Executed ==
  /\ at = "publish"
  /\ IF request.route = "batch"
       THEN at' = "batch" /\ results' = Append(results, "accepted") /\ UNCHANGED response
       ELSE Respond(200, input) /\ UNCHANGED results
  /\ UNCHANGED <<request, pos, envelope, parts, reader, input, accepted>>

-----------------------------------------------------------------------------
(* The reads and the probes.                                               *)

\* list_emails, list_events, list_senders: a bad id, error class or query is
\* refused, a failing use case is a 500.
List ==
  /\ at = "list"
  /\ \/ ~request.parses /\ Fail("InvalidEmailId")
     \/ request.parses /\ \/ Respond(200, "page")
                          \/ Fail("List")
  /\ UNCHANGED <<request, pos, envelope, parts, reader, input, results, accepted>>

Live ==
  /\ at = "live"
  /\ Respond(200, "ok")
  /\ UNCHANGED <<request, pos, envelope, parts, reader, input, results, accepted>>

\* check_readiness.
Ready ==
  /\ at = "ready"
  /\ Respond(200, "ok") \/ Respond(503, "unavailable")
  /\ UNCHANGED <<request, pos, envelope, parts, reader, input, results, accepted>>

Next ==
  \/ Route \/ RequestTimeout \/ Disconnect
  \/ HandleJson \/ NextField \/ ReadField \/ FieldDone \/ BatchItem \/ Execute \/ Executed
  \/ List \/ Live \/ Ready

Spec == Init /\ [][Next]_vars

-----------------------------------------------------------------------------
(* Properties.                                                             *)

TypeOK ==
  /\ request \in Requests
  /\ at \in {"route", "submit", "field", "read", "batch", "execute", "publish", "list",
             "live", "ready", "answered", "gone"}
  /\ pos \in Nat
  /\ parts \in Seq([from : {"inline"}, size : Nat]) /\ Len(parts) <= MAX_ATTACHMENTS_PER_EMAIL
  /\ reader \in [remaining : Nat, exhausted : BOOLEAN, left : Nat, buf : Nat]
  /\ results \in Seq({"accepted", "rejected"}) /\ DOMAIN accepted = 1..Len(accepted)
  /\ at = "answered" => response.status \in {200, 400, 401, 408, 500, 503}

\* The indices of the fields of a name among the first n.
Named(fields, name, n) == {i \in 1..n : fields[i].name = name}

\* The multipart fields as the JSON request they stand for: the last envelope, and
\* the attachments in their order.
AsJson(fields) ==
  LET named(name) == Named(fields, name, Len(fields))
      last      == CHOOSE i \in named("envelope") : \A j \in named("envelope") : j <= i
      parcel(n) == CHOOSE i \in named("attachment") :
                     Cardinality(Named(fields, "attachment", i)) = n
  IN [envelope    |-> fields[last].envelope,
      attachments |-> [n \in 1..Cardinality(named("attachment")) |->
                         [inline_base64 |-> "ok", url |-> None, size |-> fields[parcel(n)].size]]]

\* Every field fits its limit, has what it needs and parses.
Proper(f) ==
  /\ f.name = "envelope" => f.envelope # None /\ f.size <= MAX_ENVELOPE_BYTES
  /\ f.name = "attachment" => f.filename

\* A multipart submission whose body can be read gets what its JSON form would
\* get: the same input reaches the use case, or both are refused; one whose body
\* breaks never reaches it. The two paths check sizes, counts and fields at
\* different places and in a different order.
MultipartAsJson ==
  request.route = "submit" /\ request.multipart =>
    LET json == into_submit_input(AsJson(request.fields))
        proper == /\ request.parses
                  /\ \E i \in DOMAIN request.fields : request.fields[i].name = "envelope"
                  /\ \A i \in DOMAIN request.fields : Proper(request.fields[i])
    IN /\ at = "execute" => proper /\ input = json
       /\ at = "answered" /\ response.status = 400 /\ proper => IsErr(json)

\* What a client that stays connected may conclude from the answer to a single
\* submission: a 200 means that it was queued, once, and any refusal (400, 401)
\* that it was not. Only a 500 leaves it open: an enqueue that fails may have
\* taken effect.
AcceptedIsAnswered ==
  request.route = "submit" /\ at = "answered" =>
    /\ Len(accepted) <= 1
    /\ response.status = 200 => accepted # <<>>
    /\ response.status \notin {200, 500} => accepted = <<>>

\* The valid e-mails of a batch among the first n.
Valid(n) == {k \in 1..n : ~IsErr(into_submit_input(request.emails[k]))}

\* Of the first n e-mails of a batch the valid ones were submitted, in order.
SubmittedUpTo(n) ==
  /\ Len(accepted) = Cardinality(Valid(n))
  /\ \A k \in Valid(n) : accepted[Cardinality(Valid(k))] = into_submit_input(request.emails[k])

\* The results of a batch are positional: each says whether its e-mail is valid,
\* and exactly the valid ones up to the position reached were submitted, in order;
\* an error in the middle stops after those before it, and after the one it is
\* about when that is a 500 whose enqueue took effect.
BatchPositional ==
  request.route = "batch" /\ request.parses =>
    /\ at = "batch" => SubmittedUpTo(pos)
    /\ at = "answered" /\ response.status = 200 =>
         /\ Len(response.body) = Len(request.emails)
         /\ \A k \in DOMAIN response.body :
              response.body[k] = "accepted" <=> ~IsErr(into_submit_input(request.emails[k]))
         /\ SubmittedUpTo(Len(request.emails))
    /\ at = "answered" /\ response.status # 200 /\ pos > 0 =>
         SubmittedUpTo(pos - 1) \/ (response.status = 500 /\ SubmittedUpTo(pos))
=============================================================================
