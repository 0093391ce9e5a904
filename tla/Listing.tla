------------------------------- MODULE Listing -------------------------------
(***************************************************************************)
(* What GET /emails and GET /events show of a gateway that goes on         *)
(* working: queries over the emails and lifecycle_events tables, newest    *)
(* first, and a client that pages through a listing by offset while rows   *)
(* are inserted, rolled back and moved on by events.                       *)
(*                                                                         *)
(* E-mail ids are numbers in the order of their UUIDv7; timestamps are the *)
(* database's milliseconds, several rows may share one. Filters on what    *)
(* never changes (id, recipient, template) are the set they let through.   *)
(***************************************************************************)
EXTENDS Integers, Sequences, FiniteSets

CONSTANTS Emails,         \* e-mail ids
          EventTypes,     \* the types of events that occur
          EmailQueries,   \* the queries of GET /emails clients make
          EventQueries,   \* the queries of GET /events clients make
          DEFAULT_LIMIT,  \* DEFAULT_EMAILS_LIMIT, DEFAULT_EVENTS_LIMIT (20)
          MAX_LIMIT,      \* MAX_EMAILS_LIMIT, MAX_EVENTS_LIMIT (100)
          MaxTime,        \* bound: ticks of the clock
          MaxEvents,      \* bound: events stored
          None

Statuses   == {"queued", "sent", "failed"}
Times      == 0..MaxTime

ASSUME ListingAssumption ==
  /\ Emails \subseteq Nat /\ IsFiniteSet(Emails)
  /\ MAX_LIMIT \in Nat \ {0} /\ DEFAULT_LIMIT \in 1..MAX_LIMIT
  /\ MaxTime \in Nat /\ MaxEvents \in Nat /\ None \notin Statuses
  /\ EmailQueries \subseteq
       [status : Statuses \union {None}, passes : SUBSET Emails, after_ms : Times \union {None},
        before_ms : Times \union {None}, limit : (Nat \ {0}) \union {None}]
  /\ EventQueries \subseteq
       [event_type : EventTypes \union {None}, passes : SUBSET Emails, after_ms : Times \union {None},
        before_ms : Times \union {None}, limit : (Nat \ {0}) \union {None}]

VARIABLES now,     \* the database's clock
          emails,  \* rows of emails: id -> created_at_ms
          gone,    \* e-mails that were rolled back; their ids are not used again
          events,  \* rows of lifecycle_events in the order of their ids
          reader   \* a client paging through a listing

vars == <<now, emails, gone, events, reader>>

Idle == [of |-> "nothing"]

Init == now = 0 /\ emails = <<>> /\ gone = {} /\ events = <<>> /\ reader = Idle

-----------------------------------------------------------------------------
(* The queries.                                                            *)

\* ORDER BY created_at DESC, id DESC LIMIT 1 of the events of an e-mail.
LatestEvent(e) ==
  LET own == {i \in DOMAIN events : events[i].email = e}
  IN IF own = {} THEN "queued"
     ELSE events[CHOOSE i \in own : \A j \in own : j <= i].type

\* EmailStatus by row_to_email_record, and what the response calls it.
StatusOf(e) ==
  CASE LatestEvent(e) = "delivery.succeeded" -> "Sent"
    [] LatestEvent(e) = "delivery.failed"    -> "Failed"
    [] OTHER                                 -> "Queued"

EmailRecordDto(e) ==
  [id |-> e, created_at_ms |-> emails[e],
   status |-> [Queued |-> "queued", Sent |-> "sent", Failed |-> "failed"][StatusOf(e)]]

\* The condition on latest_event_type.
HasStatus(e, status) ==
  CASE status = "sent"   -> LatestEvent(e) = "delivery.succeeded"
    [] status = "failed" -> LatestEvent(e) = "delivery.failed"
    [] status = "queued" -> LatestEvent(e) \notin {"delivery.succeeded", "delivery.failed"}

Within(q, t) == (q.after_ms # None => t > q.after_ms) /\ (q.before_ms # None => t < q.before_ms)

\* The WHERE clause of list_emails.
EmailsMatching(q) ==
  {e \in DOMAIN emails : /\ e \in q.passes
                         /\ Within(q, emails[e])
                         /\ q.status # None => HasStatus(e, q.status)}

\* The WHERE clause of list_events.
EventsMatching(q) ==
  {i \in DOMAIN events : /\ events[i].email \in q.passes
                         /\ q.event_type # None => events[i].type = q.event_type
                         /\ Within(q, events[i].created)}

\* Faulty variant of EmailBefore: ordered by the latest activity.
EmailBefore_ByActivity(a, b) ==
  LET last(e) == Cardinality({i \in DOMAIN events : \E j \in i..Len(events) : events[j].email = e})
  IN last(a) > last(b) \/ (last(a) = last(b) /\ a > b)

\* Their ORDER BY, newest first.
EmailBefore(a, b) == emails[a] > emails[b] \/ (emails[a] = emails[b] /\ a > b)
EventBefore(a, b) ==
  \/ events[a].created > events[b].created
  \/ events[a].created = events[b].created /\ a > b

\* LIMIT and OFFSET, of rows by their place in the ORDER BY.
PageOf(place, limit, offset) ==
  {x \in DOMAIN place : place[x] \in offset .. (offset + limit - 1)}

\* The limit of the handlers.
Limit(q) ==
  LET limit == IF q.limit = None THEN DEFAULT_LIMIT ELSE q.limit
  IN IF limit <= MAX_LIMIT THEN limit ELSE MAX_LIMIT

\* The limit the response reports.
EchoedLimit(q) == Limit(q)

\* The queries, one page each.
EmailsPage(q, limit, offset) ==
  LET rows == EmailsMatching(q)
  IN PageOf([x \in rows |-> Cardinality({y \in rows : EmailBefore(y, x)})], limit, offset)
EventsPage(q, limit, offset) ==
  LET rows == EventsMatching(q)
  IN PageOf([x \in rows |-> Cardinality({y \in rows : EventBefore(y, x)})], limit, offset)

\* The handlers. The events of one e-mail ignore the filter on e-mails.
list_emails(q, offset) ==
  [rows |-> {EmailRecordDto(e) : e \in EmailsPage(q, Limit(q), offset)}, limit |-> EchoedLimit(q)]
list_events(q, offset) ==
  [rows |-> {[id |-> i, created_at_ms |-> events[i].created] : i \in EventsPage(q, Limit(q), offset)},
   limit |-> EchoedLimit(q)]
OfEmail(q, e) == [q EXCEPT !.passes = {e}]

\* Rows of a listing: ids of e-mails, indices of events.
Readers ==
  {Idle} \union
  [of : {"emails"}, query : EmailQueries, offset : Nat, seen : SUBSET Emails,
   initial : SUBSET Emails, left : SUBSET Emails, departures : Nat,
   arrivals : Nat, repeats : Nat, done : BOOLEAN] \union
  [of : {"events"}, query : EventQueries \union {OfEmail(q, e) : q \in EventQueries, e \in Emails},
   offset : Nat, seen : SUBSET (1..MaxEvents),
   initial : SUBSET (1..MaxEvents), left : SUBSET (1..MaxEvents), departures : Nat,
   arrivals : Nat, repeats : Nat, done : BOOLEAN]

TypeOK ==
  /\ now \in Times
  /\ DOMAIN emails \subseteq Emails /\ \A e \in DOMAIN emails : emails[e] \in Times
  /\ gone \in SUBSET (Emails \ DOMAIN emails)
  /\ events \in Seq([email : Emails, type : EventTypes, created : Times]) /\ Len(events) <= MaxEvents
  /\ reader \in Readers

Matching(r) == IF r.of = "emails" THEN EmailsMatching(r.query) ELSE EventsMatching(r.query)

-----------------------------------------------------------------------------
(* The gateway's writes. What a write takes out of a listing under way,    *)
(* and puts into it, is noted in the reader, for the properties.           *)

Note ==
  \E r \in {reader} :
    reader' = IF r = Idle THEN r
              ELSE LET left    == Matching(r) \ Matching(r)'
                       arrived == Matching(r)' \ Matching(r)
                   IN [r EXCEPT !.left = @ \union left,
                                !.departures = @ + Cardinality(left),
                                !.arrivals = @ + Cardinality(arrived)]

Tick == now < MaxTime /\ now' = now + 1 /\ UNCHANGED <<emails, gone, events, reader>>

\* INSERT of save: created_at_ms is the database's, the id is older.
Save(e) ==
  /\ e \notin DOMAIN emails \union gone
  /\ emails' = [x \in DOMAIN emails \union {e} |-> IF x = e THEN now ELSE emails[x]]
  /\ UNCHANGED <<now, gone, events>>
  /\ Note

\* DELETE of a submission that is rolled back; events keep their e-mail's row.
Delete(e) ==
  /\ e \in DOMAIN emails
  /\ \A i \in DOMAIN events : events[i].email # e
  /\ emails' = [x \in DOMAIN emails \ {e} |-> emails[x]]
  /\ gone' = gone \union {e}
  /\ UNCHANGED <<now, events>>
  /\ Note

\* INSERT of a lifecycle event.
Publish(e, type) ==
  /\ e \in DOMAIN emails
  /\ Len(events) < MaxEvents
  /\ events' = Append(events, [email |-> e, type |-> type, created |-> now])
  /\ UNCHANGED <<now, emails, gone>>
  /\ Note

-----------------------------------------------------------------------------
(* The client: one page after the other until one is not full, by the limit *)
(* the response reports.                                                   *)

Begin(of, q, rows) ==
  /\ reader = Idle
  /\ reader' = [of |-> of, query |-> q, offset |-> 0, seen |-> {},
                initial |-> rows, left |-> {}, departures |-> 0,
                arrivals |-> 0, repeats |-> 0, done |-> FALSE]
  /\ UNCHANGED <<now, emails, gone, events>>

NextPage ==
  /\ reader # Idle /\ ~reader.done
  /\ LET q    == reader.query
         page == IF reader.of = "emails" THEN list_emails(q, reader.offset)
                 ELSE list_events(q, reader.offset)
         ids  == {row.id : row \in page.rows}
     IN reader' = [reader EXCEPT !.seen = @ \union ids,
                                 !.repeats = @ + Cardinality(ids \intersect (reader.seen \ reader.left)),
                                 !.offset = @ + page.limit,
                                 !.done = Cardinality(page.rows) < page.limit]
  /\ UNCHANGED <<now, emails, gone, events>>

Finish == reader # Idle /\ reader.done /\ reader' = Idle /\ UNCHANGED <<now, emails, gone, events>>

Next ==
  \/ Tick
  \/ \E e \in Emails : Save(e) \/ Delete(e) \/ \E type \in EventTypes : Publish(e, type)
  \/ \E q \in EmailQueries : Begin("emails", q, EmailsMatching(q))
  \/ \E q \in EventQueries, e \in Emails :
       \E query \in {q, OfEmail(q, e)} : Begin("events", query, EventsMatching(query))
  \/ NextPage
  \/ Finish

Spec == Init /\ [][Next]_vars

-----------------------------------------------------------------------------
(* Properties.                                                             *)

Missed == reader.initial \ (reader.seen \union reader.left)

\* A client that pages to the end misses at most one e-mail for each that left
\* the listing meanwhile, by a rollback or by a change of status.
EmailsMissedBounded ==
  reader # Idle /\ reader.of = "emails" /\ reader.done =>
    Cardinality(Missed) <= reader.departures

\* Nothing ever leaves a listing of events, so a client misses none.
EventsNeverMissed ==
  reader # Idle /\ reader.of = "events" /\ reader.done => Missed = {}

\* It sees a row again that stayed in the listing, but no more of them than rows
\* entered it meanwhile: what is inserted is sorted before the pages to come and
\* pushes one row over the cursor.
RepeatsBounded == reader # Idle => reader.repeats <= reader.arrivals

\* Every page is at most MAX_LIMIT rows long, and the pages of one snapshot are
\* disjoint and cover the listing up to their end.
PagesPartition ==
  \A q \in EmailQueries : \A offset \in 0..Cardinality(Emails) :
    LET page == list_emails(q, offset).rows
        next == list_emails(q, offset + Limit(q)).rows
    IN /\ Cardinality(page) <= MAX_LIMIT
       /\ page \intersect next = {}
       /\ Cardinality(page) < Limit(q) => next = {}

\* A listing filtered by a status shows only e-mails with that status, and the
\* three listings together show every e-mail: the filter in the query and the
\* status of the response read the same event.
FilterIsShown ==
  \A q \in EmailQueries :
    LET all == [q EXCEPT !.limit = MAX_LIMIT]
        of(s) == EmailsMatching([all EXCEPT !.status = s])
    IN /\ \A s \in Statuses : \A row \in list_emails([all EXCEPT !.status = s], 0).rows : row.status = s
       /\ UNION {of(s) : s \in Statuses} = of(None)
=============================================================================
