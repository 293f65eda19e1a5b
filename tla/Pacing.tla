------------------------------- MODULE Pacing -------------------------------
(***************************************************************************)
(* services/ibkr_pacing.py: the rolling budget of data requests that IBKR  *)
(* imposes per request type, shared by the daily and the intraday jobs.    *)
(* Several windows apply to one type at once, part of each is reserved for *)
(* the daily jobs, and a denied caller is told when to come back.          *)
(*                                                                         *)
(* A timestamp is its age.  Ages stop at the longest window, beyond which  *)
(* no comparison tells them apart.  A budget has one caller at a time, and *)
(* all requests of a plan are made at the same instant.                    *)
(***************************************************************************)
EXTENDS Integers, FiniteSets, Sequences, SequencesExt

CONSTANTS
    Types,      \* request types
    Rules,      \* Rules[t]: sequence of [cap, window, reserved], by window
    Requests,   \* what a plan may ask for: [sym, type, scope, prio, open, upd]
    MaxPlan     \* bound: requests of one plan

Scopes == {"intraday", "daily"}
Windows(t) == {Rules[t][k].window : k \in DOMAIN Rules[t]}
Longest(t) == CHOOSE w \in Windows(t) : \A v \in Windows(t) : v <= w

ASSUME PacingAssumption ==
    /\ \A t \in Types : Rules[t] \in Seq([cap : Nat, window : Nat, reserved : Nat])
    /\ \A t \in Types : Rules[t] # << >>
    /\ \A t \in Types : \A k \in DOMAIN Rules[t] :
          /\ Rules[t][k].window > 0
          /\ Rules[t][k].reserved <= Rules[t][k].cap
          /\ k > 1 => Rules[t][k - 1].window <= Rules[t][k].window
    /\ IsFiniteSet(Requests)
    /\ \A r \in Requests :
          r.type \in Types /\ r.scope \in Scopes /\ r.open \in BOOLEAN

VARIABLES
    events,    \* _events: requests of each type that count, oldest first
    degraded,  \* _last_degraded_at is set
    granted,   \* history: every request sent within the longest window
    promise,   \* history: time left before the next_available_at last told
    plan       \* plan_requests: the requests to come, and what became of others

vars == <<events, degraded, granted, promise, plan>>

NewPlan(o) == [todo |-> o, allowed |-> {}, denied |-> {}]
NoPlan == NewPlan(<< >>)
EventType(t) == [age : 0..Longest(t), scope : Scopes]

TypeOK ==
    /\ DOMAIN events = Types
    /\ \A t \in Types : events[t] \in Seq(EventType(t))
    /\ degraded \in BOOLEAN
    /\ \A t \in Types : granted[t] \in Seq(EventType(t))
    /\ \A t \in Types, s \in Scopes : promise[t][s] \in 0..Longest(t)
    /\ plan \in [todo : Seq(Requests), allowed : SUBSET Requests,
                 denied : SUBSET Requests]

Init ==
    /\ events = [t \in Types |-> << >>]
    /\ degraded = FALSE
    /\ granted = [t \in Types |-> << >>]
    /\ promise = [t \in Types |-> [s \in Scopes |-> 0]]
    /\ plan = NoPlan

\* _used: event.timestamp > now - window.
InWindow(ev, w, scopes) == {k \in DOMAIN ev : ev[k].age < w /\ ev[k].scope \in scopes}
Used(ev, w, scopes) == Cardinality(InWindow(ev, w, scopes))

\* How long each of them still counts.
TimeLeft(ev, w, scopes) == {w - ev[k].age : k \in InWindow(ev, w, scopes)}

\* Mutant: the time the newest request leaves the window.
NextSlotLatest(ev, w, scopes) ==
    LET left == TimeLeft(ev, w, scopes)
    IN IF left = {} THEN 0 ELSE CHOOSE p \in left : \A q \in left : p >= q

\* Mutant: the window is added to the age.
NextSlotPastWindow(ev, w, scopes) ==
    LET left == TimeLeft(ev, w, scopes)
    IN IF left = {} THEN 0 ELSE 2 * w - CHOOSE p \in left : \A q \in left : p <= q

\* _next_slot: when the oldest request that counts leaves the window.
NextSlot(ev, w, scopes) ==
    LET left == TimeLeft(ev, w, scopes)
    IN IF left = {} THEN 0 ELSE CHOOSE p \in left : \A q \in left : p <= q

\* _prune: events are popped until one is within the longest window.
Prune(ev, t) ==
    LET popped == CHOOSE n \in 0..Len(ev) :
                      /\ \A k \in 1..n : ev[k].age >= Longest(t)
                      /\ n < Len(ev) => ev[n + 1].age < Longest(t)
    IN SubSeq(ev, popped + 1, Len(ev))

\* Mutant: the daily jobs' share is not kept back.
RuleBlocksTotalOnly(ev, r, scope) ==
    IF Used(ev, r.window, Scopes) >= r.cap THEN "pacing_exhausted" ELSE "none"

\* Mutant: a daily request is let through a full window.
RuleBlocksIntradayOnly(ev, r, scope) ==
    IF scope = "intraday" /\ Used(ev, r.window, {"intraday"}) >= r.cap - r.reserved
    THEN "daily_budget_reserved" ELSE "none"

RuleBlocks(ev, r, scope) ==
    IF /\ scope = "intraday"
       /\ r.reserved > 0
       /\ Used(ev, r.window, {"intraday"}) >= r.cap - r.reserved
    THEN "daily_budget_reserved"
    ELSE IF Used(ev, r.window, Scopes) >= r.cap THEN "pacing_exhausted"
    ELSE "none"

\* The rules that block a request; the first of them, by window, is reported.
Blocking(ev, t, scope) ==
    {k \in DOMAIN Rules[t] : RuleBlocks(ev, Rules[t][k], scope) # "none"}

NextAvailable(ev, t, scope) ==
    LET blocking == Blocking(ev, t, scope)
        r == Rules[t][CHOOSE k \in blocking : \A j \in blocking : k <= j]
    IN NextSlot(ev, r.window, IF RuleBlocks(ev, r, scope) = "daily_budget_reserved"
                              THEN {"intraday"} ELSE Scopes)

Later(m, n) == IF m < n THEN n ELSE m

\* try_acquire allows the request, or denies it.
Allowed(t, scope) == Blocking(Prune(events[t], t), t, scope) = {}

Acquire(t, scope) ==
    LET ev == Prune(events[t], t)
        event == [age |-> 0, scope |-> scope]
    IN IF Allowed(t, scope)
       THEN /\ events' = [events EXCEPT ![t] = Append(ev, event)]
            /\ granted' = [granted EXCEPT ![t] = Append(@, event)]
            /\ UNCHANGED <<degraded, promise>>
       ELSE /\ events' = [events EXCEPT ![t] = ev]
            /\ degraded' = TRUE
            /\ promise' = [promise EXCEPT ![t][scope] =
                              Later(@, NextAvailable(ev, t, scope))]
            /\ UNCHANGED granted

TryAcquire(t, scope) ==
    /\ plan.todo = << >>
    /\ Acquire(t, scope)
    /\ plan' = NoPlan

(***************************************************************************)
(* plan_requests: one request per key, the most urgent of its duplicates,  *)
(* then in order of urgency: an open position first, then the priority,    *)
(* then the data updated longest ago (0 never, 1 stale, 2 still fresh).    *)
(***************************************************************************)
Key(r) == <<r.type, r.sym>>

\* Mutant: an open position does not come first.
MoreUrgentByPriority(q, r) ==
    \/ q.prio > r.prio
    \/ q.prio = r.prio /\ q.upd < r.upd

MoreUrgent(q, r) ==
    \/ q.open /\ ~r.open
    \/ /\ q.open = r.open
       /\ \/ q.prio > r.prio
          \/ q.prio = r.prio /\ q.upd < r.upd

\* The selections _dedupe_requests may make of S: ties keep the first given.
Deduped(S) ==
    {D \in SUBSET S :
        /\ \A r \in S : \E q \in D : Key(q) = Key(r) /\ ~MoreUrgent(r, q)
        /\ \A q, r \in D : Key(q) = Key(r) => q = r}

Ordered(D) ==
    {o \in SetToSeqs(D) : \A i, j \in DOMAIN o : i < j => ~MoreUrgent(o[j], o[i])}

PlanRequests(S) ==
    /\ plan.todo = << >>
    /\ \E D \in Deduped(S) : \E o \in Ordered(D) : plan' = NewPlan(o)
    /\ UNCHANGED <<events, degraded, granted, promise>>

\* The next request of the plan, unless _cache_is_fresh skips it.
PlanNext ==
    /\ plan.todo # << >>
    /\ LET r == Head(plan.todo)
           rest == [plan EXCEPT !.todo = Tail(@)]
       IN \/ /\ r.upd = 2
             /\ plan' = rest
             /\ UNCHANGED <<events, degraded, granted, promise>>
          \/ /\ r.upd # 2
             /\ Acquire(r.type, r.scope)
             /\ plan' = IF Allowed(r.type, r.scope)
                        THEN [rest EXCEPT !.allowed = @ \union {r}]
                        ELSE [rest EXCEPT !.denied = @ \union {r}]

\* metrics reads the budget and prunes every type.
Metrics ==
    /\ plan.todo = << >>
    /\ events' = [t \in Types |-> Prune(events[t], t)]
    /\ plan' = NoPlan
    /\ UNCHANGED <<degraded, granted, promise>>

Older(ev, t) ==
    [k \in DOMAIN ev |-> [ev[k] EXCEPT !.age = IF @ < Longest(t) THEN @ + 1 ELSE @]]

\* Requests beyond the longest window are the first ones of the history.
Recent(ev, t) ==
    SubSeq(ev, Cardinality({k \in DOMAIN ev : ev[k].age >= Longest(t)}) + 1, Len(ev))

Tick ==
    /\ plan.todo = << >>
    /\ events' = [t \in Types |-> Older(events[t], t)]
    /\ granted' = [t \in Types |-> Recent(Older(granted[t], t), t)]
    /\ promise' = [t \in Types |-> [s \in Scopes |->
                     IF promise[t][s] > 0 THEN promise[t][s] - 1 ELSE 0]]
    /\ plan' = NoPlan
    /\ UNCHANGED degraded

Next ==
    \/ \E t \in Types, s \in Scopes : TryAcquire(t, s)
    \/ \E S \in SUBSET Requests : Cardinality(S) \in 1..MaxPlan /\ PlanRequests(S)
    \/ PlanNext
    \/ Metrics
    \/ Tick

Spec == Init /\ [][Next]_vars

-----------------------------------------------------------------------------
(***************************************************************************)
(* No window of any length that a rule names ever holds more requests than *)
(* the rule's capacity, over everything that was really sent: pruning, the *)
(* edge of a window and the other windows of the type included.            *)
(***************************************************************************)
WindowNeverExceeded ==
    \A t \in Types : \A k \in DOMAIN Rules[t] :
        Used(granted[t], Rules[t][k].window, Scopes) <= Rules[t][k].cap

(***************************************************************************)
(* Within every window the intraday jobs leave the daily reserve alone.    *)
(***************************************************************************)
DailyReserveKept ==
    \A t \in Types : \A k \in DOMAIN Rules[t] :
        LET r == Rules[t][k] IN
        r.reserved > 0 =>
            Used(granted[t], r.window, {"intraday"}) <= r.cap - r.reserved

(***************************************************************************)
(* next_available_at is never too late: a caller that comes back earlier   *)
(* than it was told, within the same scope and type, is denied again.      *)
(***************************************************************************)
SentOf(g, s) == Cardinality({k \in DOMAIN g : g[k].scope = s /\ g[k].age = 0})

NextAvailableIsLowerBound ==
    [][\A t \in Types, s \in Scopes :
          SentOf(granted'[t], s) > SentOf(granted[t], s) => promise[t][s] = 0]_vars

(***************************************************************************)
(* A plan never spends the budget on a new symbol and leaves an open       *)
(* position of the same type and scope without its refresh.                *)
(***************************************************************************)
OpenPositionsFirst ==
    \A q \in plan.denied, r \in plan.allowed :
        q.type = r.type /\ q.scope = r.scope /\ q.open => r.open

=============================================================================
