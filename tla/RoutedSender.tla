----------------------------- MODULE RoutedSender -----------------------------
(***************************************************************************)
(* RoutedEmailSender::send: concurrent sends choose among the configured   *)
(* routes by sender domain, priority and quota. Quotas are counted from    *)
(* the delivery.succeeded events stored so far, one query per quota range, *)
(* and the event of a send is stored by its worker some time after the     *)
(* send. All within one quota window.                                      *)
(*                                                                         *)
(* A fault is a usage query that fails (every route of the range is then   *)
(* treated as eligible), an SMTP acceptance whose answer is lost, or an    *)
(* event that is never stored. MaxFaults bounds them, MaxSends the sends.  *)
(***************************************************************************)
EXTENDS Integers, FiniteSets

CONSTANTS Slots,      \* concurrent sends: worker permits of all processes
          Routes,     \* configured senders
          Domains,    \* sender domains, normalized
          Domain,     \* match_sender_domain of a route, or CatchAll
          CatchAll,
          Priority,   \* priority of a route, then
          Position,   \* its place in the configuration: the sort is stable
          Quota,      \* quota.count of a route, or Unlimited
          Unlimited,
          Window,     \* quota.range of a route
          MaxSends,   \* bound: sends in a behaviour
          MaxFaults,  \* bound: faults in a behaviour
          NoRoute

ASSUME RoutesAssumption ==
  /\ IsFiniteSet(Slots) /\ Slots # {}
  /\ Domain \in [Routes -> Domains \union {CatchAll}]
  /\ CatchAll \notin Domains
  /\ Priority \in [Routes -> Nat]
  /\ Position \in [Routes -> Nat]
  /\ \A q, r \in Routes : q # r => Position[q] # Position[r]
  /\ Quota \in [Routes -> Nat \union {Unlimited}]
  /\ Unlimited \notin Nat
  /\ DOMAIN Window = Routes
  /\ NoRoute \notin Routes
  /\ MaxSends \in Nat /\ MaxFaults \in Nat

VARIABLES send,    \* the call of send in each slot
          usage,   \* delivery.succeeded events of each route
          within,  \* acceptances of each route in a first pass
          sends,
          faults

vars == <<send, usage, within, sends, faults>>

Places   == {"idle", "first", "second", "record", "failed"}
Windows  == {Window[r] : r \in Routes}
SendRecs == [at : Places, domain : Domains, counted : SUBSET Windows,
             over : SUBSET Routes, tried : SUBSET Routes, by : Routes \union {NoRoute}]

Limited(r) == Quota[r] # Unlimited

Candidates(d) == {r \in Routes : Domain[r] \in {d, CatchAll}}

\* Domain-matched routes come before catch-alls, then priority decides.
Before(q, r) ==
  IF (Domain[q] = CatchAll) # (Domain[r] = CatchAll) THEN Domain[r] = CatchAll
  ELSE \/ Priority[q] < Priority[r]
       \/ Priority[q] = Priority[r] /\ Position[q] < Position[r]

\* Windows whose usage is still to be counted.
Uncounted(s) ==
  {Window[r] : r \in {r \in Candidates(send[s].domain) : Limited(r)}} \ send[s].counted

\* Faulty variant of Eligible: the second pass respects quotas as well.
Eligible_NoBypass(s) == Candidates(send[s].domain) \ send[s].over

\* The routes a pass goes through: the first skips those over quota.
Eligible(s) ==
  IF send[s].at = "first" THEN Candidates(send[s].domain) \ send[s].over
  ELSE Candidates(send[s].domain)

Untried(s) == Eligible(s) \ send[s].tried

NoFault == UNCHANGED faults
Fault   == faults < MaxFaults /\ faults' = faults + 1

\* The type invariant.
TypeOK ==
  /\ send \in [Slots -> SendRecs]
  /\ \A s \in Slots : send[s].at = "record" <=> send[s].by \in Routes
  /\ usage \in [Routes -> Nat]
  /\ within \in [Routes -> Nat]
  /\ sends \in 0..MaxSends
  /\ faults \in 0..MaxFaults

Idle(d) == [at |-> "idle", domain |-> d, counted |-> {}, over |-> {},
            tried |-> {}, by |-> NoRoute]

Init ==
  /\ send \in [Slots -> {Idle(d) : d \in Domains}]
  /\ usage = [r \in Routes |-> 0]
  /\ within = [r \in Routes |-> 0]
  /\ sends = 0
  /\ faults = 0

\* send is called; without a candidate it fails with NoMatchingRoute.
Begin(s, d) ==
  /\ send[s].at \in {"idle", "failed"}
  /\ sends < MaxSends
  /\ sends' = sends + 1
  /\ send' = [send EXCEPT ![s] =
                [Idle(d) EXCEPT !.at = IF Candidates(d) = {} THEN "failed" ELSE "first"]]
  /\ UNCHANGED <<usage, within, faults>>

\* Faulty variant of Exhausted: off by one.
Exhausted_OffByOne(r) == Limited(r) /\ usage[r] > Quota[r]

Exhausted(r) == Limited(r) /\ usage[r] >= Quota[r]

\* get_stats for one range; on an error its routes count as eligible.
CountUsage(s, g) ==
  /\ send[s].at = "first"
  /\ g \in Uncounted(s)
  /\ \/ /\ send' = [send EXCEPT
              ![s].counted = @ \union {g},
              ![s].over = @ \union {r \in Candidates(send[s].domain) :
                                      Window[r] = g /\ Exhausted(r)}]
        /\ NoFault
     \/ send' = [send EXCEPT ![s].counted = @ \union {g}] /\ Fault
  /\ UNCHANGED <<usage, within, sends>>

\* transport.deliver to the next route of the pass: accepted, refused, or
\* accepted with the answer lost.
Deliver(s, r) ==
  LET Count == within' = IF send[s].at = "first"
                           THEN [within EXCEPT ![r] = @ + 1] ELSE within
  IN /\ send[s].at \in {"first", "second"}
     /\ Uncounted(s) = {}
     /\ r \in Untried(s)
     /\ \A q \in Untried(s) : ~Before(q, r)
     /\ \/ send' = [send EXCEPT ![s].at = "record", ![s].by = r] /\ Count /\ NoFault
        \/ /\ send' = [send EXCEPT ![s].tried = @ \union {r}]
           /\ \/ NoFault /\ UNCHANGED within
              \/ Fault /\ Count
     /\ UNCHANGED <<usage, sends>>

\* Faulty variant of EndOfPass: refusals in the first pass lead to the second.
EndOfPass_AfterRefusals(s) ==
  /\ send[s].at \in {"first", "second"}
  /\ Uncounted(s) = {} /\ Untried(s) = {}
  /\ send' = [send EXCEPT ![s].at = IF send[s].at = "first" THEN "second" ELSE "failed"]
  /\ UNCHANGED <<usage, within, sends, faults>>

\* The last error ends the send; without one, every candidate was over its
\* quota, and a second pass goes through them all.
EndOfPass(s) ==
  /\ send[s].at \in {"first", "second"}
  /\ Uncounted(s) = {} /\ Untried(s) = {}
  /\ send' = [send EXCEPT
                ![s].at = IF send[s].at = "first" /\ send[s].tried = {}
                            THEN "second" ELSE "failed"]
  /\ UNCHANGED <<usage, within, sends, faults>>

\* The worker stores the Sent event, or fails to.
Record(s) ==
  /\ send[s].at = "record"
  /\ send' = [send EXCEPT ![s] = Idle(send[s].domain)]
  /\ \/ usage' = [usage EXCEPT ![send[s].by] = @ + 1] /\ NoFault
     \/ Fault /\ UNCHANGED usage
  /\ UNCHANGED <<within, sends>>

\* The process dies, or a shutdown aborts the task. After an acceptance this is
\* an event that is not stored, or an answer that is lost.
Abandon(s) ==
  /\ send[s].at \in {"first", "second"}
  /\ send' = [send EXCEPT ![s] = Idle(send[s].domain)]
  /\ UNCHANGED <<usage, within, sends, faults>>

Next ==
  \E s \in Slots :
    \/ \E d \in Domains : Begin(s, d)
    \/ \E g \in Windows : CountUsage(s, g)
    \/ \E r \in Routes : Deliver(s, r)
    \/ EndOfPass(s)
    \/ Record(s)
    \/ Abandon(s)

Spec == Init /\ [][Next]_vars

-----------------------------------------------------------------------------
(* Properties.                                                             *)

\* A quota is overshot by less than the number of concurrent sends, and by one
\* more for each fault: a send reads the usage once and relies on it until its
\* own event is stored. Deliveries of the second pass ignore quotas.
OvershootBounded ==
  \A r \in Routes :
    Limited(r) => within[r] <= Quota[r] + Cardinality(Slots) - 1 + faults

\* No traffic is dropped for a quota: a send with a candidate fails only after
\* some route has refused the e-mail, and none that had quota left was left out.
FailsOnlyRefused ==
  \A s \in Slots :
    LET c == Candidates(send[s].domain)
    IN send[s].at = "failed" /\ c # {} =>
         send[s].tried # {} /\ c \subseteq send[s].tried \union send[s].over

\* A route over its quota is used only if every candidate was: not even an
\* e-mail all other routes have refused goes over a quota.
BypassOnlyWhenAllOver ==
  \A s \in Slots :
    send[s].by \in send[s].over => Candidates(send[s].domain) \subseteq send[s].over
=============================================================================
