----------------------------- MODULE SenderUsage -----------------------------
(***************************************************************************)
(* Usage of the configured senders over rolling windows: the events        *)
(* counted by get_stats of the storage adapter, the counts a send relies   *)
(* on while the clock moves, and the listing of GET /senders, which asks   *)
(* once per start of a window while events are stored.                     *)
(*                                                                         *)
(* One worker sends (RoutedSender has the concurrent ones and the order of *)
(* the routes). The clock stops at MaxTime, the history at MaxEvents.      *)
(***************************************************************************)
EXTENDS Naturals, Sequences, FiniteSets

CONSTANTS Backend,    \* "sqlite" or "postgres"
          Configs,    \* the senders: sequence of [name, count, range]
          Length,     \* length of a quota range, in ticks of the clock
          Unlimited,  \* count and range of a sender without a quota
          MaxTime, MaxEvents,
          None

Indices == 1..Len(Configs)
Limited == {i \in Indices : Configs[i].count # Unlimited}

VARIABLES now,       \* the clock, of the process and of the database
          events,    \* lifecycle_events: sequence of [type, sender, at]
          accepted,  \* times of the deliveries that quotas allowed, per name
          send,      \* the worker's send
          list       \* a call of GET /senders

vars == <<now, events, accepted, send, list>>

Names == {Configs[i].name : i \in Indices}

UsageAssumption ==
  /\ Backend \in {"sqlite", "postgres"}
  /\ Length \in [DOMAIN Length -> Nat]
  /\ Configs \in Seq([name : Names, count : Nat \union {Unlimited},
                      range : DOMAIN Length \union {Unlimited}])
  /\ MaxTime \in Nat /\ MaxEvents \in Nat

\* LifecycleEvent::event_type.
EventType == [Sent |-> "delivery.succeeded", Failed |-> "delivery.failed"]

\* QuotaRange::since_ms.
Since(range, t) ==
  IF range = Unlimited \/ t < Length[range] THEN 0 ELSE t - Length[range]

\* The event types the two adapters count.
SqliteTypes   == [sent |-> "delivery.succeeded", failed |-> "delivery.failed"]
PostgresTypes == [sent |-> "sent", failed |-> "failed"]
Types == IF Backend = "sqlite" THEN SqliteTypes ELSE PostgresTypes

\* Faulty variant of InRange: created_at > since.
InRange_Exclusive(e, since) == e.at > since

InRange(e, since) == e.at >= since

\* Rows of a sender with a type, among the first n events.
Count(type, name, since, n) ==
  Cardinality({k \in 1..n : /\ events[k].type = type /\ events[k].sender = name
                            /\ InRange(events[k], since)})

\* get_stats: each name takes its counts out of the map.
GetStats(names, since) ==
  [k \in DOMAIN names |->
     [name |-> names[k],
      sent |-> IF \E j \in 1..(k - 1) : names[j] = names[k] THEN 0
               ELSE Count(Types.sent, names[k], since, Len(events)),
      failed |-> IF \E j \in 1..(k - 1) : names[j] = names[k] THEN 0
                 ELSE Count(Types.failed, names[k], since, Len(events))]]

\* Names of a group, in the order of the configuration.
Group(is, t, since) ==
  LET In(i) == i \in is /\ Since(Configs[i].range, t) = since
  IN [k \in 1..Cardinality({i \in Indices : In(i)}) |->
        Configs[CHOOSE i \in Indices :
                  In(i) /\ Cardinality({j \in 1..i : In(j)}) = k].name]

Starts(is, t) == {Since(Configs[i].range, t) : i \in is}

\* HashMap::insert of every result: the last one of a name stays.
Insert(map, stats) ==
  [n \in Names |->
     IF \E k \in DOMAIN stats : stats[k].name = n
       THEN stats[CHOOSE k \in DOMAIN stats :
                    /\ stats[k].name = n
                    /\ \A j \in DOMAIN stats : stats[j].name = n => j <= k]
       ELSE map[n]]

NoStats == [n \in Names |-> [name |-> n, sent |-> 0, failed |-> 0]]
NoSend  == [at |-> "idle", started |-> 0, left |-> {}, stats |-> NoStats, by |-> None,
            within |-> FALSE, kind |-> "Sent"]
NoList  == [at |-> "idle", started |-> 0, left |-> {}, stats |-> NoStats, seen |-> 0]

TypeOK ==
  /\ now \in 0..MaxTime
  /\ Len(events) <= MaxEvents
  /\ \A k \in 1..Len(events) : events[k].at \in 0..now /\ events[k].sender \in Names
  /\ \A n \in Names : \A k \in DOMAIN accepted[n] : accepted[n][k] \in 0..now
  /\ send.at \in {"idle", "counting", "sent"} /\ list.at \in {"idle", "counting", "done"}
  /\ send.left # {} => send.at = "counting"
  /\ send.started <= now /\ list.started <= now /\ list.seen <= Len(events)

Init ==
  /\ now = 0 /\ events = <<>> /\ accepted = [n \in Names |-> <<>>]
  /\ send = NoSend /\ list = NoList

-----------------------------------------------------------------------------
(* A send.                                                                 *)

BeginSend ==
  /\ send.at = "idle" /\ Len(events) < MaxEvents
  /\ send' = [NoSend EXCEPT !.at = "counting", !.started = now, !.left = Starts(Limited, now)]
  /\ UNCHANGED <<now, events, accepted, list>>

\* One query per start of a window, in the order of a hash map.
CountForSend(s) ==
  /\ send.at = "counting" /\ s \in send.left
  /\ send' = [send EXCEPT !.left = @ \ {s},
                !.stats = Insert(@, GetStats(Group(Limited, send.started, s), s))]
  /\ UNCHANGED <<now, events, accepted, list>>

OverQuota(i) == i \in Limited /\ send.stats[Configs[i].name].sent >= Configs[i].count

\* The e-mail goes to a sender that is not over its quota, or to any if all
\* are; it is accepted, or refused by the last one tried.
Deliver(i) ==
  /\ send.at = "counting" /\ send.left = {}
  /\ OverQuota(i) => \A j \in Indices : OverQuota(j)
  /\ \E kind \in {"Sent", "Failed"} :
       send' = [send EXCEPT !.at = "sent", !.by = Configs[i].name, !.kind = kind,
                            !.within = ~OverQuota(i)]
  /\ UNCHANGED <<now, events, accepted, list>>

\* The worker stores the event, at the clock's time then.
Store ==
  /\ send.at = "sent"
  /\ events' = Append(events, [type |-> EventType[send.kind], sender |-> send.by, at |-> now])
  /\ accepted' = IF send.kind = "Sent" /\ send.within
                   THEN [accepted EXCEPT ![send.by] = Append(@, now)] ELSE accepted
  /\ send' = NoSend
  /\ UNCHANGED <<now, list>>

-----------------------------------------------------------------------------
(* GET /senders.                                                           *)

BeginList ==
  /\ list.at = "idle"
  /\ list' = [NoList EXCEPT !.at = "counting", !.started = now, !.left = Starts(Indices, now),
                            !.seen = Len(events)]
  /\ UNCHANGED <<now, events, accepted, send>>

CountForList(s) ==
  /\ list.at = "counting" /\ s \in list.left
  /\ list' = [list EXCEPT !.left = @ \ {s},
                !.stats = Insert(@, GetStats(Group(Indices, list.started, s), s))]
  /\ UNCHANGED <<now, events, accepted, send>>

Answer ==
  /\ list.at = "counting" /\ list.left = {}
  /\ list' = [list EXCEPT !.at = "done"]
  /\ UNCHANGED <<now, events, accepted, send>>

\* What the answer says of sender i.
Listed(i) == list.stats[Configs[i].name]

Forget ==
  /\ list.at = "done" /\ list' = NoList
  /\ UNCHANGED <<now, events, accepted, send>>

-----------------------------------------------------------------------------

Tick ==
  /\ now < MaxTime /\ now' = now + 1
  /\ UNCHANGED <<events, accepted, send, list>>

Next ==
  \/ BeginSend \/ Store \/ Tick
  \/ \E i \in Indices : Deliver(i)
  \/ BeginList \/ Answer \/ Forget
  \/ \E s \in 0..MaxTime : CountForSend(s) \/ CountForList(s)

Spec == Init /\ [][Next]_vars

-----------------------------------------------------------------------------
(* Properties.                                                             *)

\* Wherever the window of its range is put, both ends included, a sender's
\* quota allowed at most that many of the deliveries in it: with one worker the
\* counts do not drift as windows roll on. (The PostgreSQL adapter breaks this.)
QuotaInWindow ==
  \A i \in Limited : \A t \in 0..now :
    LET at == accepted[Configs[i].name]
    IN Cardinality({k \in DOMAIN at : at[k] \in Since(Configs[i].range, t)..t})
         <= Configs[i].count

\* A listed count is one that was true while the call ran: no less than the
\* events of the sender's own window when it began, no more than those stored
\* by now, whatever was stored between its queries.
ListedWasTrue ==
  list.at = "done" =>
    \A i \in Indices :
      LET since == Since(Configs[i].range, list.started)
          Between(type, n) ==
            /\ n >= Count(EventType[type], Configs[i].name, since, list.seen)
            /\ n <= Count(EventType[type], Configs[i].name, since, Len(events))
      IN Between("Sent", Listed(i).sent) /\ Between("Failed", Listed(i).failed)
=============================================================================
