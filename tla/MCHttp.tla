------------------------------- MODULE MCHttp -------------------------------
(***************************************************************************)
(* Instances for TLC of the HTTP interface: the requests and what they     *)
(* submit, the listings while the gateway works, the patterns of the       *)
(* filters, and what the events listed tell. They share no state here, so  *)
(* each behaviour is one of a single part, which part picks; the others    *)
(* stay as they start.                                                     *)
(***************************************************************************)
EXTENDS Listing, SequencesExt

CONSTANTS Requests, ApiKey, MAX_ATTACHMENTS_PER_EMAIL, MAX_ATTACHMENT_BYTES,      \* HttpApi
          MAX_ENVELOPE_BYTES, MAX_EMAILS_PER_BATCH,
          Reported, Senders, MAX_ATTEMPTS, MaxAttempts                           \* EventLog

VARIABLES part,
          request, at, pos, envelope, parts, field, input, results, accepted, response, \* HttpApi
          backend, rows,                                                                \* EmailFilters
          phase, attempt, log                                                           \* EventLog

handler == <<request, at, pos, envelope, parts, field, input, results, accepted, response>>
filters == <<backend, rows>>
logged  == <<phase, attempt, log>>
allVars == <<part, vars, handler, filters, logged>>

-----------------------------------------------------------------------------
(* Pages of one row, by default, and of two, clamped.                      *)

SomeTypes == {"sending", "delivery.succeeded"}

Everything == [status |-> None, passes |-> Emails, after_ms |-> None,
               before_ms |-> None, limit |-> None]
Queries == {Everything, [Everything EXCEPT !.status = "queued", !.limit = 3, !.before_ms = 1]}
EveryEvent == [event_type |-> None, passes |-> Emails, after_ms |-> None,
               before_ms |-> None, limit |-> 1]
QueriesOfEvents == {EveryEvent,
                    [EveryEvent EXCEPT !.event_type = "sending", !.after_ms = 0, !.limit = 3]}

-----------------------------------------------------------------------------
(* Requests at and around each limit, with an API key.                     *)

Plain(text, html) == [kind |-> "plain", text |-> text, html |-> html]
Remote(url)       == [kind |-> "mjml_remote", url |-> url]
Named             == [kind |-> "mjml_named"]

Good == [sender |-> "ok", recipients |-> <<"ok">>, body |-> Plain("hi", None)]

Envelopes ==
  {Good, [Good EXCEPT !.sender = "bad"], [Good EXCEPT !.recipients = <<>>],
   [Good EXCEPT !.recipients = <<"ok", "bad">>], [Good EXCEPT !.body = Plain(None, None)],
   [Good EXCEPT !.body = Remote("bad")], [Good EXCEPT !.body = Remote("ok")],
   [Good EXCEPT !.body = Named]}

Inline(size) == [inline_base64 |-> "ok", url |-> None, size |-> size]
Attachments ==
  {Inline(1), Inline(MAX_ATTACHMENT_BYTES), Inline(MAX_ATTACHMENT_BYTES + 1),
   [inline_base64 |-> "bad", url |-> None, size |-> 1],
   [inline_base64 |-> None, url |-> "ok", size |-> 0],
   [inline_base64 |-> None, url |-> "bad", size |-> 0],
   [inline_base64 |-> None, url |-> None, size |-> 0],
   [inline_base64 |-> "ok", url |-> "ok", size |-> 1]}

Submissions(envelopes, attachments, n) ==
  [envelope : envelopes, attachments : BoundedSeq(attachments, n)]

Request(route) == [route |-> route, multipart |-> FALSE, bearer |-> "key", parses |-> TRUE]

Json ==
  {Request("submit") @@ [email |-> e] : e \in Submissions(Envelopes, Attachments, 1)
                                          \union Submissions({Good}, {Inline(1)}, MAX_ATTACHMENTS_PER_EMAIL + 1)}
  \union {[Request("submit") EXCEPT !.parses = FALSE] @@ [email |-> None]}
  \union {[Request("submit") EXCEPT !.bearer = b] @@ [email |-> [envelope |-> Good, attachments |-> <<>>]] :
            b \in {None, "other"}}

Part(size)     == [name |-> "attachment", size |-> size, filename |-> TRUE]
EnvPart(e, n)  == [name |-> "envelope", size |-> n, envelope |-> e]
Fields ==
  {EnvPart(Good, 1), EnvPart(Good, MAX_ENVELOPE_BYTES), EnvPart(Good, MAX_ENVELOPE_BYTES + 1),
   EnvPart(None, 1), EnvPart([Good EXCEPT !.sender = "bad"], 1),
   Part(0), Part(1), Part(MAX_ATTACHMENT_BYTES), Part(MAX_ATTACHMENT_BYTES + 1),
   [name |-> "attachment", size |-> 1, filename |-> FALSE],
   [name |-> "other", size |-> 1]}
Multipart ==
  {[Request("submit") EXCEPT !.multipart = TRUE] @@ [fields |-> f] :
     f \in BoundedSeq(Fields, 2)
          \union {<<EnvPart(Good, 1)>> \o g :
                   g \in BoundedSeq({Part(1), Part(MAX_ATTACHMENT_BYTES), Part(MAX_ATTACHMENT_BYTES + 1)},
                                    MAX_ATTACHMENTS_PER_EMAIL + 1)}}
  \union
  {[Request("submit") EXCEPT !.multipart = TRUE, !.parses = FALSE] @@ [fields |-> f] :
     f \in BoundedSeq(Fields, 1) \union {<<EnvPart(Good, 1), Part(1)>>}}

Items == {[envelope |-> e, attachments |-> a] :
            e \in {Good, [Good EXCEPT !.recipients = <<>>]},
            a \in {<<>>, <<[inline_base64 |-> None, url |-> "ok", size |-> 0]>>}}
Batches ==
  {Request("batch") @@ [emails |-> b] : b \in BoundedSeq(Items, MAX_EMAILS_PER_BATCH + 1)}
  \union {[Request("batch") EXCEPT !.parses = FALSE] @@ [emails |-> <<>>]}

Others == {[Request(r) EXCEPT !.parses = p, !.bearer = b] :
             r \in {"list", "live", "ready"}, p \in BOOLEAN, b \in {None, "key"}}

All == Json \union Multipart \union Batches \union Others

Http == INSTANCE HttpApi WITH reader <- field

-----------------------------------------------------------------------------
(* Addresses of two or three characters, some with a meaning in a pattern. *)

SomeAddresses ==
  {<<"a", "_", "b">>, <<"a", "b", "b">>, <<"A", "b">>, <<"e acute", "a">>, <<"E acute", "%">>,
   <<"a", "\\", "b">>}

Patterns == INSTANCE EmailFilters WITH
  Backends <- {"sqlite", "postgres"}, Addresses <- SomeAddresses,
  Filters <- SomeAddresses \union
             {<<>>, <<"a">>, <<"B">>, <<"b">>, <<"A", "B">>, <<"a", "b">>, <<"_">>, <<"%">>},
  Templates <- {"t1"}, Lower <- [c \in {"A", "E acute"} |-> IF c = "A" THEN "a" ELSE "e acute"],
  Ascii <- {"a", "A", "b", "_", "%", "\\"}, MaxEmails <- 2, Null <- None,
  emails <- rows

Told == INSTANCE EventLog WITH Emails <- Reported, Null <- None

-----------------------------------------------------------------------------

ASSUME PartsAssumption ==
  /\ Http!HttpApiAssumption /\ Patterns!EmailFiltersAssumption /\ Told!EventLogAssumption

PartsInit ==
  /\ part \in {"listing", "http", "filters", "events"}
  /\ Init /\ Told!Init
  /\ Http!Init /\ (part # "http" => request = Request("live"))
  /\ Patterns!Init /\ (part # "filters" => backend = "sqlite")

PartsNext ==
  /\ UNCHANGED part
  /\ \/ part = "listing" /\ Next          /\ UNCHANGED <<handler, filters, logged>>
     \/ part = "http"    /\ Http!Next     /\ UNCHANGED <<vars, filters, logged>>
     \/ part = "filters" /\ Patterns!Next /\ UNCHANGED <<vars, handler, logged>>
     \/ part = "events"  /\ Told!Next     /\ UNCHANGED <<vars, handler, filters>>

PartsSpec == PartsInit /\ [][PartsNext]_allVars

-----------------------------------------------------------------------------
(* Properties of the parts, under names that tell them apart.              *)

\* A client that pages through a listing: the e-mails it misses are as many as left
\* the listing meanwhile at most, and no event is missed; it sees rows again, but no
\* more of them than entered the listing meanwhile; the pages are a partition of the
\* rows, and the filter is what is shown.
PagingIsSound ==
  part = "listing" =>
    /\ TypeOK /\ EmailsMissedBounded /\ EventsNeverMissed /\ RepeatsBounded
    /\ PagesPartition /\ FilterIsShown

\* The requests: a multipart submission gets what its JSON form would get; a 200
\* tells a client that its submission was queued and a refusal that it was not, so
\* that only a 500 leaves it open; and the results of a batch are positional, exactly
\* its valid e-mails up to the position reached having been submitted, in order, the
\* one that a 500 is about possibly among them. And what the events
\* listed tell: a filter finds those whose payload shows it and no others, and a
\* reported failure names a sender when the senders were tried and only then, and is
\* the last one when no route matched or the attempts are used up, and only then.
AnswersAreTrue ==
  /\ part = "http" =>
       Http!TypeOK /\ Http!MultipartAsJson /\ Http!AcceptedIsAnswered /\ Http!BatchPositional
  /\ part = "events" =>
       Told!TypeOK /\ Told!FoundByWhatItShows /\ Told!FailuresExplained

\* The filters of e-mails: with either database a filter of plain characters lists
\* the e-mails with a recipient that contains it, in any case, narrowed by the other
\* filters; a recipient's own address finds the e-mail, PostgreSQL's escape character
\* excepted.
ListedIsTrue ==
  part = "filters" =>
    Patterns!TypeOK /\ Patterns!PlainIsSubstring /\ Patterns!FoundByOwnAddress
=============================================================================
