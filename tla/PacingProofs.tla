---------------------------- MODULE PacingProofs ----------------------------
(***************************************************************************)
(* Theorems about Pacing, for every set of request types, rules and        *)
(* requests: the capacity of every window, the daily reserve, the times a  *)
(* denied caller is told, and the precedence of open positions in a plan.  *)
(***************************************************************************)
EXTENDS Pacing, SequenceTheorems, FiniteSetTheorems, WellFoundedInduction, TLAPS

-----------------------------------------------------------------------------
(***************************************************************************)
(* The inductive invariant, type by type. The deque, whenever somebody     *)
(* looks at it, is the history of what was really sent (Late): what it     *)
(* still holds beyond that is popped first. Every promise is backed by a   *)
(* rule (Backed): the requests that block it still count when all but one  *)
(* of the promised time has passed.                                        *)
(***************************************************************************)
Event == [age : Nat, scope : Scopes]

\* The history: oldest first, and nothing beyond the longest window.
History(g, t) ==
    /\ g \in Seq(Event)
    /\ \A i \in 1..Len(g) : g[i].age < Longest(t)
    /\ \A i, j \in 1..Len(g) : i < j => g[j].age <= g[i].age

Late(e, g, t) ==
    /\ e \in Seq(Event)
    /\ \A i \in 1..Len(e) : e[i].age <= Longest(t)
    /\ \E n \in 0..Len(e) :
          /\ Len(e) = n + Len(g)
          /\ \A i \in 1..n : e[i].age >= Longest(t)
          /\ \A i \in 1..Len(g) : e[n + i] = g[i]

WithinRules(g, t) ==
    \A k \in DOMAIN Rules[t] :
        LET r == Rules[t][k] IN
        /\ Used(g, r.window, Scopes) <= r.cap
        /\ r.reserved > 0 => Used(g, r.window, {"intraday"}) <= r.cap - r.reserved

Full(g, r, s, w) ==
    \/ s = "intraday" /\ r.reserved > 0 /\ Used(g, w, {"intraday"}) >= r.cap - r.reserved
    \/ Used(g, w, Scopes) >= r.cap

Backed(g, p, t, s) ==
    p > 0 => \E k \in DOMAIN Rules[t] : Full(g, Rules[t][k], s, Rules[t][k].window - (p - 1))

Good(e, g, p, t) ==
    /\ History(g, t) /\ Late(e, g, t) /\ WithinRules(g, t)
    /\ p \in [Scopes -> 0..Longest(t)]
    /\ \A s \in Scopes : Backed(g, p[s], t, s)

\* An open position comes before the others, so that what is left of the plan
\* has open positions only as long as nothing else was looked at.
PlanGood(pl, g) ==
    /\ pl \in [todo : Seq(Requests), allowed : SUBSET Requests, denied : SUBSET Requests]
    /\ \A i, j \in 1..Len(pl.todo) : i < j /\ pl.todo[j].open => pl.todo[i].open
    /\ \A q \in pl.allowed \union pl.denied, i \in 1..Len(pl.todo) :
          pl.todo[i].open => q.open
    /\ \A q \in pl.denied : Blocking(g[q.type], q.type, q.scope) # {}
    /\ \A q \in pl.denied, r \in pl.allowed :
          q.type = r.type /\ q.scope = r.scope /\ q.open => r.open

Budgets(e, g, p) ==
    /\ DOMAIN e = Types /\ DOMAIN g = Types /\ DOMAIN p = Types
    /\ \A t \in Types : Good(e[t], g[t], p[t], t)

PacingInv ==
    /\ Budgets(events, granted, promise)
    /\ degraded \in BOOLEAN
    /\ PlanGood(plan, granted)

-----------------------------------------------------------------------------
(***************************************************************************)
(* Least members and longest windows.                                      *)
(***************************************************************************)
LEMMA LessThan ==
    \E R : IsWellFoundedOn(R, Nat) /\ \A x, y \in Nat : y < x => <<y, x>> \in R
<1>1. \A x, y \in Nat : y < x => <<y, x>> \in OpToRel(<, Nat)
  BY DEF OpToRel
<1> QED BY <1>1, NatLessThanWellFounded, Zenon

LEMMA LeastMember ==
    ASSUME NEW T \in SUBSET Nat, T # {}
    PROVE  \E m \in T : \A j \in T : m <= j
<1>1. PICK R : IsWellFoundedOn(R, Nat) /\ \A x, y \in Nat : y < x => <<y, x>> \in R
  BY LessThan
<1>2. PICK x \in T : \A y \in T : ~ (<<y, x>> \in R)
  BY <1>1, WFMin
<1>3. ASSUME NEW y \in T PROVE x <= y
  <2>1. x \in Nat /\ y \in Nat
    OBVIOUS
  <2>2. ~(y < x)
    BY <1>1, <1>2, <2>1
  <2> QED BY <2>1, <2>2
<1> QED BY <1>3

LEMMA RuleShape ==
    ASSUME NEW t \in Types
    PROVE  /\ DOMAIN Rules[t] = 1..Len(Rules[t]) /\ Len(Rules[t]) \in Nat \ {0}
           /\ \A k \in DOMAIN Rules[t] :
                 /\ Rules[t][k].cap \in Nat /\ Rules[t][k].window \in Nat \ {0}
                 /\ Rules[t][k].reserved \in 0..Rules[t][k].cap
<1>1. Rules[t] \in Seq([cap : Nat, window : Nat, reserved : Nat]) /\ Rules[t] # << >>
  BY PacingAssumption
<1>2. DOMAIN Rules[t] = 1..Len(Rules[t]) /\ Len(Rules[t]) \in Nat \ {0}
  BY <1>1
<1>3. ASSUME NEW k \in DOMAIN Rules[t]
      PROVE  /\ Rules[t][k].cap \in Nat /\ Rules[t][k].window \in Nat \ {0}
             /\ Rules[t][k].reserved \in 0..Rules[t][k].cap
  <2>1. Rules[t][k] \in [cap : Nat, window : Nat, reserved : Nat]
    <3>1. PICK q \in Seq([cap : Nat, window : Nat, reserved : Nat]) : q = Rules[t]
      BY <1>1
    <3>2. k \in 1..Len(q)
      BY <1>2, <3>1
    <3>3. q[k] \in [cap : Nat, window : Nat, reserved : Nat]
      BY <3>2, ElementOfSeq
    <3> QED BY <3>1, <3>3
  <2>2. Rules[t][k].window > 0 /\ Rules[t][k].reserved <= Rules[t][k].cap
    BY PacingAssumption
  <2> QED BY <2>1, <2>2
<1> QED BY <1>2, <1>3

\* The rules are sorted by window: the last one has the longest.
LEMMA LongestWindow ==
    ASSUME NEW t \in Types
    PROVE  /\ Longest(t) \in Nat \ {0}
           /\ \A k \in DOMAIN Rules[t] : Rules[t][k].window <= Longest(t)
<1> DEFINE n == Len(Rules[t])
           w(k) == Rules[t][k].window
           T == {m \in 0..n - 1 : w(n - m) > w(n)}
<1>1. n \in Nat \ {0} /\ DOMAIN Rules[t] = 1..n /\ \A k \in 1..n : w(k) \in Nat \ {0}
  BY RuleShape
<1>2. \A k \in 2..n : w(k - 1) <= w(k)
  <2>1. \A k \in 2..n : k \in DOMAIN Rules[t] /\ k > 1
    BY <1>1
  <2>2. \A k \in DOMAIN Rules[t] : k > 1 => Rules[t][k - 1].window <= Rules[t][k].window
    BY PacingAssumption
  <2> QED BY <2>1, <2>2
<1> HIDE DEF n, w
<1>3. T = {}
  <2> SUFFICES ASSUME T # {} PROVE FALSE
    OBVIOUS
  <2>1. T \in SUBSET Nat
    BY <1>1
  <2>2. PICK m \in T : \A j \in T : m <= j
    BY <2>1, LeastMember
  <2>3. m \in 0..n - 1 /\ w(n - m) > w(n)
    OBVIOUS
  <2>4. m # 0
    <3>1. n - 0 = n /\ w(n) \in Nat
      BY <1>1
    <3> QED BY <2>3, <3>1
  <2>5. m - 1 \in 0..n - 1 /\ ~(m <= m - 1)
    BY <1>1, <2>3, <2>4
  <2>6. ~(w(n - (m - 1)) > w(n))
    BY <2>2, <2>5
  <2>7. n - (m - 1) \in 2..n /\ (n - (m - 1)) - 1 = n - m /\ n - m \in 1..n
        /\ n - (m - 1) \in 1..n /\ n \in 1..n
    BY <1>1, <2>3, <2>4
  <2>8. w(n - m) <= w(n - (m - 1))
    BY <1>2, <2>7
  <2>9. w(n - m) \in Nat /\ w(n - (m - 1)) \in Nat /\ w(n) \in Nat
    BY <1>1, <2>7
  <2> QED BY <2>3, <2>6, <2>8, <2>9
<1>4. ASSUME NEW k \in 1..n PROVE w(k) <= w(n)
  <2>1. n - k \in 0..n - 1 /\ n - (n - k) = k /\ n \in 1..n
    BY <1>1
  <2>2. ~(w(n - (n - k)) > w(n))
    BY <1>3, <2>1
  <2> QED BY <1>1, <2>1, <2>2
<1>5. Windows(t) = {w(k) : k \in 1..n}
  BY <1>1 DEF Windows, w
<1>6. \E v \in Windows(t) : \A u \in Windows(t) : u <= v
  <2>1. n \in 1..n
    BY <1>1
  <2> QED BY <1>4, <1>5, <2>1
<1>7. Longest(t) \in Windows(t) /\ \A u \in Windows(t) : u <= Longest(t)
  BY <1>6 DEF Longest
<1> QED BY <1>1, <1>5, <1>7 DEF w

-----------------------------------------------------------------------------
(***************************************************************************)
(* Counting requests in a window.                                          *)
(***************************************************************************)
LEMMA UsedFinite ==
    ASSUME NEW ev \in Seq(Event), NEW w, NEW sc
    PROVE  /\ InWindow(ev, w, sc) \subseteq 1..Len(ev)
           /\ IsFiniteSet(InWindow(ev, w, sc))
           /\ Used(ev, w, sc) \in Nat
<1>1. InWindow(ev, w, sc) \subseteq 1..Len(ev) /\ Len(ev) \in Nat
  BY DEF InWindow
<1>2. IsFiniteSet(1..Len(ev))
  BY <1>1, FS_Interval
<1>3. IsFiniteSet(InWindow(ev, w, sc))
  BY <1>1, <1>2, FS_Subset
<1> QED BY <1>1, <1>3, FS_CardinalityType DEF Used

LEMMA EventOf ==
    ASSUME NEW ev \in Seq(Event), NEW k \in 1..Len(ev)
    PROVE  ev[k].age \in Nat /\ ev[k].scope \in Scopes
<1>1. ev[k] \in Event
  BY ElementOfSeq
<1> QED BY <1>1 DEF Event

\* A wider window counts at least as many.
LEMMA UsedGrows ==
    ASSUME NEW ev \in Seq(Event), NEW v \in Int, NEW w \in Int, v <= w, NEW sc
    PROVE  Used(ev, v, sc) <= Used(ev, w, sc)
<1>1. ASSUME NEW k \in InWindow(ev, v, sc) PROVE k \in InWindow(ev, w, sc)
  <2>1. k \in 1..Len(ev) /\ ev[k].age < v /\ ev[k].scope \in sc
    BY DEF InWindow
  <2>2. ev[k].age \in Nat
    BY <2>1, EventOf
  <2>3. ev[k].age < w
    BY <2>1, <2>2
  <2> QED BY <2>1, <2>3 DEF InWindow
<1> QED BY <1>1, UsedFinite, FS_Subset DEF Used

\* One more request counts for one in the windows it is in.
LEMMA UsedAppend ==
    ASSUME NEW ev \in Seq(Event), NEW e \in Event, NEW w, NEW sc
    PROVE  Used(Append(ev, e), w, sc)
               = Used(ev, w, sc) + (IF e.age < w /\ e.scope \in sc THEN 1 ELSE 0)
<1> DEFINE n == Len(ev) + 1
           new == Append(ev, e)
<1>1. /\ DOMAIN new = 1..n /\ DOMAIN ev = 1..Len(ev) /\ Len(ev) \in Nat /\ new[n] = e
      /\ \A k \in 1..Len(ev) : new[k] = ev[k]
  OBVIOUS
<1> HIDE DEF new
<1>2. InWindow(new, w, sc)
         = IF e.age < w /\ e.scope \in sc THEN InWindow(ev, w, sc) \union {n}
           ELSE InWindow(ev, w, sc)
  <2>1. \A k : k \in 1..n <=> k \in 1..Len(ev) \/ k = n
    BY <1>1
  <2>2. n \notin 1..Len(ev)
    BY <1>1
  <2> HIDE DEF n
  <2>3. CASE e.age < w /\ e.scope \in sc
    BY <1>1, <2>1, <2>2, <2>3 DEF InWindow
  <2>4. CASE ~(e.age < w /\ e.scope \in sc)
    BY <1>1, <2>1, <2>2, <2>4 DEF InWindow
  <2> QED BY <2>3, <2>4
<1>3. n \notin InWindow(ev, w, sc)
  BY <1>1 DEF InWindow
<1>4. IsFiniteSet(InWindow(ev, w, sc)) /\ Used(ev, w, sc) \in Nat
  BY UsedFinite
<1>5. Cardinality(InWindow(ev, w, sc) \union {n}) = Cardinality(InWindow(ev, w, sc)) + 1
  BY <1>3, <1>4, FS_AddElement
<1> QED BY <1>2, <1>4, <1>5 DEF Used, new

\* Requests beyond a limit are the first ones of a sequence that is sorted.
LEMMA OldestFirst ==
    ASSUME NEW ev \in Seq(Event), NEW L \in Nat,
           \A i, j \in 1..Len(ev) : i < j => ev[j].age <= ev[i].age
    PROVE  \E n \in 0..Len(ev) :
               /\ {k \in 1..Len(ev) : ev[k].age >= L} = 1..n
               /\ Cardinality({k \in 1..Len(ev) : ev[k].age >= L}) = n
<1> DEFINE old == {k \in 1..Len(ev) : ev[k].age >= L}
           T == {k \in 1..Len(ev) + 1 : k \notin old}
<1>1. Len(ev) \in Nat /\ \A k \in 1..Len(ev) : ev[k].age \in Nat
  BY EventOf
<1>2. T \in SUBSET Nat /\ Len(ev) + 1 \in T
  BY <1>1
<1>3. PICK f \in T : \A j \in T : f <= j
  BY <1>2, LeastMember
<1>4. f \in 1..Len(ev) + 1 /\ f \notin old
  OBVIOUS
<1>5. ASSUME NEW j \in 1..f - 1 PROVE j \in old
  <2>1. j \in 1..Len(ev) + 1 /\ ~(f <= j)
    BY <1>1, <1>4
  <2> QED BY <1>3, <2>1
<1>6. ASSUME NEW j \in old PROVE j \in 1..f - 1
  <2> SUFFICES ASSUME f <= j PROVE FALSE
    BY <1>1, <1>4
  <2>1. j \in 1..Len(ev) /\ ev[j].age >= L /\ f \in 1..Len(ev)
    BY <1>1, <1>4
  <2>2. CASE f = j
    BY <1>4, <2>2
  <2>3. CASE f < j
    <3>1. ev[j].age <= ev[f].age
      BY <2>1, <2>3
    <3>2. ev[f].age >= L
      BY <1>1, <2>1, <3>1
    <3> QED BY <1>4, <2>1, <3>2
  <2> QED BY <1>1, <1>4, <2>1, <2>2, <2>3
<1>7. old = 1..f - 1
  BY <1>5, <1>6
<1>8. f - 1 \in 0..Len(ev) /\ Cardinality(1..f - 1) = f - 1
  BY <1>1, <1>4, FS_Interval
<1> QED BY <1>7, <1>8

\* What prune leaves is the history of what was sent.
LEMMA PruneIsHistory ==
    ASSUME NEW t \in Types, NEW e, NEW g, History(g, t), Late(e, g, t)
    PROVE  Prune(e, t) = g
<1> DEFINE L == Longest(t)
           Popped(m) == /\ \A k \in 1..m : e[k].age >= L
                        /\ m < Len(e) => e[m + 1].age < L
<1>1. g \in Seq(Event) /\ e \in Seq(Event) /\ L \in Nat /\ Len(e) \in Nat /\ Len(g) \in Nat
  BY LongestWindow DEF History, Late
<1>2. \A k \in 1..Len(e) : e[k].age \in Nat
  BY <1>1, EventOf
<1>3. PICK n \in 0..Len(e) :
          /\ Len(e) = n + Len(g)
          /\ \A i \in 1..n : e[i].age >= L
          /\ \A i \in 1..Len(g) : e[n + i] = g[i]
  BY DEF Late
<1>4. \A i \in 1..Len(g) : g[i].age < L
  BY DEF History
<1>5. Popped(n)
  <2> SUFFICES ASSUME n < Len(e) PROVE e[n + 1].age < L
    BY <1>3
  <2>1. 1 \in 1..Len(g)
    BY <1>1, <1>3
  <2> QED BY <1>3, <1>4, <2>1
<1>6. ASSUME NEW m \in 0..Len(e), Popped(m) PROVE m = n
  <2>1. CASE m < n
    <3>1. m + 1 \in 1..n /\ m < Len(e) /\ m + 1 \in 1..Len(e)
      BY <1>1, <2>1
    <3>2. e[m + 1].age >= L /\ e[m + 1].age < L
      BY <1>3, <1>6, <3>1
    <3> QED BY <1>1, <1>2, <3>1, <3>2
  <2>2. CASE n < m
    <3>1. n + 1 \in 1..m /\ n < Len(e) /\ n + 1 \in 1..Len(e)
      BY <1>1, <2>2
    <3>2. e[n + 1].age >= L /\ e[n + 1].age < L
      BY <1>5, <1>6, <3>1
    <3> QED BY <1>1, <1>2, <3>1, <3>2
  <2> QED BY <1>1, <2>1, <2>2
<1>7. (CHOOSE m \in 0..Len(e) : Popped(m)) = n
  BY <1>5, <1>6
<1>8. SubSeq(e, n + 1, Len(e)) = g
  <2> DEFINE s == SubSeq(e, n + 1, Len(e))
  <2>1. /\ s \in Seq(Event) /\ Len(s) = Len(e) - n
        /\ \A i \in 1..Len(e) - n : s[i] = e[n + i]
    BY <1>1
  <2>2. Len(s) = Len(g) /\ \A i \in 1..Len(g) : s[i] = g[i]
    BY <1>1, <1>3, <2>1
  <2> QED BY <1>1, <2>1, <2>2, SeqEqual
<1> QED BY <1>7, <1>8 DEF Prune

\* A tick makes every request one step older, and forgets those that no rule
\* can see any more: what is left in a window was left in a shorter one.
LEMMA AgedHistory ==
    ASSUME NEW t \in Types, NEW g, History(g, t)
    PROVE  /\ History(Recent(Older(g, t), t), t)
           /\ \A w \in Int : \A sc : w <= Longest(t) =>
                 Used(Recent(Older(g, t), t), w, sc) = Used(g, w - 1, sc)
           /\ \E n \in 0..Len(g) :
                 /\ Len(g) = n + Len(Recent(Older(g, t), t))
                 /\ \A i \in 1..n : g[i].age + 1 = Longest(t)
                 /\ \A i \in 1..Len(g) - n :
                       Recent(Older(g, t), t)[i] = Older(g, t)[n + i]
<1> DEFINE L == Longest(t)
           o == Older(g, t)
           h == Recent(o, t)
<1>1. g \in Seq(Event) /\ L \in Nat \ {0} /\ Len(g) \in Nat /\ DOMAIN g = 1..Len(g)
  BY LongestWindow DEF History
<1>2. ASSUME NEW k \in 1..Len(g)
      PROVE  /\ g[k].age \in Nat /\ g[k].scope \in Scopes /\ g[k].age < L
             /\ g[k] = [age |-> g[k].age, scope |-> g[k].scope]
  <2>1. g[k] \in Event
    BY <1>1, ElementOfSeq
  <2> QED BY <1>1, <2>1 DEF Event, History
<1>3. ASSUME NEW k \in 1..Len(g)
      PROVE  o[k].age = g[k].age + 1 /\ o[k].scope = g[k].scope /\ o[k] \in Event
  <2>1. o[k] = [g[k] EXCEPT !.age = IF @ < L THEN @ + 1 ELSE @]
    BY <1>1 DEF Older
  <2>2. PICK a \in Nat, c \in Scopes : g[k] = [age |-> a, scope |-> c] /\ a < L
    BY <1>2
  <2>3. o[k] = [age |-> a + 1, scope |-> c]
    <3> HIDE DEF o, L
    <3> QED BY <2>1, <2>2
  <2>4. a + 1 \in Nat
    OBVIOUS
  <2> HIDE DEF o
  <2> QED BY <2>2, <2>3, <2>4 DEF Event
<1>4. o \in Seq(Event) /\ Len(o) = Len(g) /\ DOMAIN o = 1..Len(g)
  <2>1. DOMAIN o = 1..Len(g) /\ \A k \in 1..Len(g) : o[k] \in Event
    BY <1>1, <1>3 DEF Older
  <2>2. o = [k \in 1..Len(g) |-> o[k]]
    BY <1>1 DEF Older
  <2> QED BY <1>1, <2>1, <2>2
<1> HIDE DEF o
<1>5. \A i, j \in 1..Len(o) : i < j => o[j].age <= o[i].age
  <2>1. \A i, j \in 1..Len(g) : i < j => g[j].age <= g[i].age
    BY DEF History
  <2> TAKE i, j \in 1..Len(o)
  <2> HAVE i < j
  <2>2. i \in 1..Len(g) /\ j \in 1..Len(g)
    BY <1>4
  <2>3. PICK a \in Nat, b \in Nat : a = g[i].age /\ b = g[j].age /\ b <= a
    BY <1>2, <2>1, <2>2
  <2>4. o[i].age = a + 1 /\ o[j].age = b + 1
    BY <1>3, <2>2, <2>3
  <2> QED BY <2>3, <2>4
<1>6. PICK n \in 0..Len(o) :
          /\ {k \in 1..Len(o) : o[k].age >= L} = 1..n
          /\ Cardinality({k \in 1..Len(o) : o[k].age >= L}) = n
  BY <1>1, <1>4, <1>5, OldestFirst
<1>7. h = SubSeq(o, n + 1, Len(o))
  BY <1>4, <1>6 DEF Recent
<1>8. /\ h \in Seq(Event) /\ Len(h) = Len(g) - n
      /\ \A i \in 1..Len(g) - n : h[i] = o[n + i]
  <2>1. \A i \in n + 1..Len(o) : o[i] \in Event
    BY <1>1, <1>4, <1>6, ElementOfSeq
  <2>2. n + 1 \in Int /\ Len(o) \in Int /\ n \in Nat /\ Len(o) = Len(g) /\ n <= Len(g)
    BY <1>1, <1>4, <1>6
  <2>3. /\ h \in Seq(Event)
        /\ Len(h) = IF n + 1 <= Len(o) THEN Len(o) - (n + 1) + 1 ELSE 0
        /\ \A i \in 1..Len(o) - (n + 1) + 1 : h[i] = o[n + 1 + i - 1]
    <3> HIDE DEF h, o
    <3> QED BY <1>7, <2>1, <2>2, SubSeqProperties
  <2> HIDE DEF h, o
  <2>4. Len(o) - (n + 1) + 1 = Len(g) - n /\ \A i \in 1..Len(g) - n : n + 1 + i - 1 = n + i
    BY <1>1, <2>2
  <2>5. Len(h) = Len(g) - n
    <3>1. PICK l \in Nat : l = Len(g) /\ l = Len(o) /\ n <= l
      BY <1>1, <2>2
    <3> QED BY <2>2, <2>3, <3>1
  <2>6. ASSUME NEW i \in 1..Len(g) - n PROVE h[i] = o[n + i]
    <3>1. i \in 1..Len(o) - (n + 1) + 1 /\ n + 1 + i - 1 = n + i
      BY <2>4
    <3>2. h[i] = o[n + 1 + i - 1]
      BY <2>3, <3>1
    <3> QED BY <3>1, <3>2
  <2> QED BY <2>3, <2>5, <2>6
<1> HIDE DEF h
<1>9. n \in 0..Len(g) /\ Len(g) = n + Len(h)
  BY <1>1, <1>4, <1>6, <1>8
<1>10. \A i \in 1..n : g[i].age + 1 = L
  <2> TAKE i \in 1..n
  <2>1. i \in 1..Len(o) /\ o[i].age >= L
    BY <1>6
  <2>2. i \in 1..Len(g) /\ o[i].age = g[i].age + 1
    BY <1>3, <1>4, <2>1
  <2> QED BY <1>1, <1>2, <2>1, <2>2
<1>11. ASSUME NEW i \in 1..Len(g) - n
       PROVE  /\ h[i].age = g[n + i].age + 1 /\ h[i].scope = g[n + i].scope
              /\ h[i].age < L /\ n + i \in 1..Len(g)
  <2>1. n + i \in 1..Len(g) /\ n + i \notin 1..n
    BY <1>1, <1>9
  <2>2. h[i] = o[n + i]
    BY <1>8
  <2>3. ~(o[n + i].age >= L)
    BY <1>4, <1>6, <2>1
  <2>4. o[n + i].age = g[n + i].age + 1 /\ o[n + i].scope = g[n + i].scope
    BY <1>3, <2>1
  <2>5. PICK a \in Nat : a = g[n + i].age
    BY <1>2, <2>1
  <2> QED BY <1>1, <2>1, <2>2, <2>3, <2>4, <2>5
<1>12. History(h, t)
  <2>1. \A i \in 1..Len(h) : h[i].age < L
    BY <1>8, <1>11
  <2>2. ASSUME NEW i \in 1..Len(h), NEW j \in 1..Len(h), i < j PROVE h[j].age <= h[i].age
    <3>1. i \in 1..Len(g) - n /\ j \in 1..Len(g) - n /\ n + i < n + j
      BY <1>8, <1>9, <2>2
    <3>2. h[i] = o[n + i] /\ h[j] = o[n + j] /\ n + i \in 1..Len(o) /\ n + j \in 1..Len(o)
      BY <1>4, <1>8, <1>11, <3>1
    <3> QED BY <1>5, <3>1, <3>2
  <2> QED BY <1>8, <2>1, <2>2 DEF History
<1>13. ASSUME NEW w \in Int, NEW sc, w <= L PROVE Used(h, w, sc) = Used(g, w - 1, sc)
  <2> DEFINE f == [i \in InWindow(h, w, sc) |-> n + i]
  <2>0. n \in Nat
    BY <1>1, <1>9
  <2>1. ASSUME NEW i \in InWindow(h, w, sc) PROVE n + i \in InWindow(g, w - 1, sc)
    <3>1. i \in 1..Len(h) /\ h[i].age < w /\ h[i].scope \in sc
      BY <1>8 DEF InWindow
    <3>2. n + i \in 1..Len(g) /\ h[i].age = g[n + i].age + 1 /\ h[i].scope = g[n + i].scope
      BY <1>8, <1>11, <3>1
    <3>3. g[n + i].age \in Nat
      BY <1>2, <3>2
    <3>4. g[n + i].age < w - 1
      BY <3>1, <3>2, <3>3
    <3> QED BY <1>1, <3>1, <3>2, <3>4 DEF InWindow
  <2>2. ASSUME NEW k \in InWindow(g, w - 1, sc) PROVE k - n \in InWindow(h, w, sc) /\ n + (k - n) = k
    <3>1. k \in 1..Len(g) /\ g[k].age < w - 1 /\ g[k].scope \in sc
      BY <1>1 DEF InWindow
    <3>2. g[k].age \in Nat
      BY <1>2, <3>1
    <3>3. k \notin 1..n
      <4> SUFFICES ASSUME k \in 1..n PROVE FALSE
        OBVIOUS
      <4>1. g[k].age + 1 = L
        BY <1>10
      <4> QED BY <1>1, <1>13, <3>1, <3>2, <4>1
    <3>4. k - n \in 1..Len(g) - n /\ n + (k - n) = k
      BY <1>1, <2>0, <3>1, <3>3
    <3>5. h[k - n].age = g[k].age + 1 /\ h[k - n].scope = g[k].scope
      BY <1>11, <3>4
    <3>6. h[k - n].age < w
      BY <3>1, <3>2, <3>5
    <3>7. k - n \in DOMAIN h
      BY <1>8, <3>4
    <3> QED BY <3>1, <3>4, <3>5, <3>6, <3>7 DEF InWindow
  <2>3. InWindow(h, w, sc) \subseteq 1..Len(h) /\ IsFiniteSet(InWindow(h, w, sc))
    BY <1>8, UsedFinite
  <2>4. f \in Bijection(InWindow(h, w, sc), InWindow(g, w - 1, sc))
    <3>1. f \in [InWindow(h, w, sc) -> InWindow(g, w - 1, sc)]
      BY <2>1
    <3>2. \A i, j \in InWindow(h, w, sc) : f[i] = f[j] => i = j
      <4>1. \A i \in InWindow(h, w, sc) : i \in Int
        BY <2>3
      <4> QED BY <2>0, <4>1
    <3>3. \A k \in InWindow(g, w - 1, sc) : \E i \in InWindow(h, w, sc) : f[i] = k
      BY <2>2
    <3> HIDE DEF f
    <3> QED BY <3>1, <3>2, <3>3, Zenon DEF Bijection, Injection, Surjection, IsInjective
  <2> HIDE DEF f
  <2>5. ExistsBijection(InWindow(h, w, sc), InWindow(g, w - 1, sc))
    BY <2>4 DEF ExistsBijection
  <2> QED BY <2>3, <2>5, FS_Bijection DEF Used
<1> QED BY <1>8, <1>9, <1>10, <1>12, <1>13 DEF h, o

-----------------------------------------------------------------------------
(***************************************************************************)
(* What each step of one type's budget does to its state.                  *)
(***************************************************************************)

\* A rule that blocks a request has no room left for one of its scope.
LEMMA BlockingIsFull ==
    ASSUME NEW ev, NEW t, NEW s
    PROVE  Blocking(ev, t, s)
               = {k \in DOMAIN Rules[t] : Full(ev, Rules[t][k], s, Rules[t][k].window)}
BY DEF Blocking, RuleBlocks, Full

\* One more request leaves less room in every window.
LEMMA BlockedStaysBlocked ==
    ASSUME NEW g \in Seq(Event), NEW e \in Event, NEW t \in Types, NEW s,
           Blocking(g, t, s) # {}
    PROVE  Blocking(Append(g, e), t, s) # {}
<1>1. PICK k \in DOMAIN Rules[t] : Full(g, Rules[t][k], s, Rules[t][k].window)
  BY BlockingIsFull
<1> DEFINE w == Rules[t][k].window
           r == Rules[t][k]
<1>2. \A sc : /\ Used(g, w, sc) \in Nat
              /\ Used(Append(g, e), w, sc) \in Nat
              /\ Used(Append(g, e), w, sc) >= Used(g, w, sc)
  <2> TAKE sc
  <2>1. Used(g, w, sc) \in Nat
    BY UsedFinite
  <2>2. Used(Append(g, e), w, sc)
          = Used(g, w, sc) + (IF e.age < w /\ e.scope \in sc THEN 1 ELSE 0)
    BY UsedAppend
  <2> QED BY <2>1, <2>2
<1>3. r.cap \in Nat /\ r.reserved \in 0..r.cap
  BY RuleShape
<1>4. Full(g, r, s, w)
  BY <1>1
<1> HIDE DEF w, r
<1>5. Full(Append(g, e), r, s, w)
  BY <1>2, <1>3, <1>4 DEF Full
<1> QED BY <1>5, BlockingIsFull DEF w, r

\* A promise that has not run out is backed by a rule that blocks.
LEMMA PromisedIsBlocked ==
    ASSUME NEW t \in Types, NEW s \in Scopes, NEW g \in Seq(Event), NEW p \in Nat,
           p > 0, Backed(g, p, t, s)
    PROVE  Blocking(g, t, s) # {}
<1>1. PICK k \in DOMAIN Rules[t] : Full(g, Rules[t][k], s, Rules[t][k].window - (p - 1))
  BY DEF Backed
<1> DEFINE w == Rules[t][k].window
           r == Rules[t][k]
<1>2. w \in Nat /\ r.cap \in Nat /\ r.reserved \in 0..r.cap
  BY RuleShape
<1>3. Full(g, r, s, w - (p - 1))
  BY <1>1
<1> HIDE DEF w, r
<1>4. w - (p - 1) \in Int /\ w - (p - 1) <= w
  BY <1>2
<1>5. \A sc : /\ Used(g, w - (p - 1), sc) \in Nat /\ Used(g, w, sc) \in Nat
              /\ Used(g, w - (p - 1), sc) <= Used(g, w, sc)
  BY <1>2, <1>4, UsedFinite, UsedGrows
<1>6. Full(g, r, s, w)
  <2> DEFINE v == w - (p - 1)
  <2> HIDE DEF v
  <2>1. /\ \A sc : Used(g, v, sc) \in Nat /\ Used(g, w, sc) \in Nat /\ Used(g, v, sc) <= Used(g, w, sc)
        /\ Full(g, r, s, v)
    BY <1>3, <1>5 DEF v
  <2> QED BY <1>2, <2>1 DEF Full
<1> QED BY <1>6, BlockingIsFull DEF w, r

\* The time until the next slot: every request that counts now counts for longer.
LEMMA SlotIsEarliest ==
    ASSUME NEW t \in Types, NEW g, History(g, t), NEW w \in Nat \ {0}, w <= Longest(t), NEW sc
    PROVE  /\ NextSlot(g, w, sc) \in 0..Longest(t)
           /\ NextSlot(g, w, sc) > 0 =>
                Used(g, w - (NextSlot(g, w, sc) - 1), sc) = Used(g, w, sc)
<1> DEFINE left == TimeLeft(g, w, sc)
           p == NextSlot(g, w, sc)
<1>1. g \in Seq(Event) /\ Longest(t) \in Nat
  BY LongestWindow DEF History
<1>2. \A k \in InWindow(g, w, sc) : w - g[k].age \in 1..w /\ k \in 1..Len(g)
  <2> TAKE k \in InWindow(g, w, sc)
  <2>1. k \in 1..Len(g) /\ g[k].age < w
    BY <1>1 DEF InWindow
  <2>2. g[k].age \in Nat
    BY <1>1, <2>1, EventOf
  <2> QED BY <2>1, <2>2
<1>3. left \in SUBSET Nat /\ \A q \in left : q \in 1..w
  BY <1>2 DEF TimeLeft
<1>4. CASE left = {}
  BY <1>1, <1>4 DEF NextSlot
<1>5. CASE left # {}
  <2>1. \E m \in left : \A q \in left : m <= q
    BY <1>3, <1>5, LeastMember
  <2>2. p = CHOOSE m \in left : \A q \in left : m <= q
    BY <1>5 DEF NextSlot
  <2>3. p \in left /\ \A q \in left : p <= q
    BY <2>1, <2>2
  <2> HIDE DEF p, left
  <2>4. p \in 1..w /\ p \in 0..Longest(t)
    BY <1>1, <1>3, <2>3
  <2>5. InWindow(g, w - (p - 1), sc) = InWindow(g, w, sc)
    <3>1. ASSUME NEW k \in InWindow(g, w, sc) PROVE k \in InWindow(g, w - (p - 1), sc)
      <4>1. k \in DOMAIN g /\ g[k].age < w /\ g[k].scope \in sc
        BY DEF InWindow
      <4>2. w - g[k].age \in left
        BY DEF TimeLeft, left
      <4>3. p <= w - g[k].age
        BY <2>3, <4>2
      <4>4. g[k].age \in Nat
        BY <1>1, <1>2, EventOf
      <4>5. g[k].age < w - (p - 1)
        BY <2>4, <4>3, <4>4
      <4> QED BY <4>1, <4>5 DEF InWindow
    <3>2. ASSUME NEW k \in InWindow(g, w - (p - 1), sc) PROVE k \in InWindow(g, w, sc)
      <4>1. k \in DOMAIN g /\ g[k].age < w - (p - 1) /\ g[k].scope \in sc
        BY DEF InWindow
      <4>2. k \in 1..Len(g)
        BY <1>1, <4>1
      <4>3. g[k].age \in Nat
        BY <1>1, <4>2, EventOf
      <4>4. g[k].age < w
        BY <2>4, <4>1, <4>3
      <4> QED BY <4>1, <4>4 DEF InWindow
    <3> QED BY <3>1, <3>2
  <2> QED BY <2>4, <2>5 DEF Used, p
<1> QED BY <1>4, <1>5

\* A denied caller is told a time that a rule stands behind.
LEMMA DenialIsBacked ==
    ASSUME NEW t \in Types, NEW s \in Scopes, NEW g, History(g, t), Blocking(g, t, s) # {}
    PROVE  /\ NextAvailable(g, t, s) \in 0..Longest(t)
           /\ Backed(g, NextAvailable(g, t, s), t, s)
<1> DEFINE blocking == Blocking(g, t, s)
           k == CHOOSE i \in blocking : \A j \in blocking : i <= j
           r == Rules[t][k]
           w == r.window
           sc == IF RuleBlocks(g, r, s) = "daily_budget_reserved" THEN {"intraday"} ELSE Scopes
           p == NextSlot(g, w, sc)
<1>1. blocking \in SUBSET Nat
  BY RuleShape DEF Blocking
<1>2. k \in blocking
  <2>1. \E i \in blocking : \A j \in blocking : i <= j
    BY <1>1, LeastMember
  <2> QED BY <2>1
<1>3. k \in DOMAIN Rules[t] /\ RuleBlocks(g, r, s) # "none"
  BY <1>2 DEF Blocking
<1>4. NextAvailable(g, t, s) = p
  BY DEF NextAvailable
<1> HIDE DEF k
<1>5. w \in Nat \ {0} /\ w <= Longest(t)
  BY <1>3, RuleShape, LongestWindow
<1>6. p \in 0..Longest(t) /\ (p > 0 => Used(g, w - (p - 1), sc) = Used(g, w, sc))
  <2> HIDE DEF sc, w, r
  <2> QED BY <1>5, SlotIsEarliest
<1>7. \/ /\ s = "intraday" /\ r.reserved > 0 /\ sc = {"intraday"}
         /\ Used(g, w, sc) >= r.cap - r.reserved
      \/ sc = Scopes /\ Used(g, w, sc) >= r.cap
  BY <1>3 DEF RuleBlocks
<1>8. p > 0 => Full(g, r, s, w - (p - 1))
  <2> HIDE DEF p, w, sc, r
  <2> QED BY <1>6, <1>7 DEF Full
<1> HIDE DEF p, sc
<1> QED BY <1>3, <1>4, <1>6, <1>8 DEF Backed

LEMMA NothingToPrune ==
    ASSUME NEW t \in Types, NEW g, History(g, t)
    PROVE  Late(g, g, t)
<1>1. g \in Seq(Event) /\ Len(g) \in Nat /\ Longest(t) \in Nat
  BY LongestWindow DEF History
<1>2. \A i \in 1..Len(g) : g[i].age <= Longest(t)
  <2> TAKE i \in 1..Len(g)
  <2>1. g[i].age < Longest(t) /\ g[i].age \in Nat
    BY <1>1, EventOf DEF History
  <2> QED BY <1>1, <2>1
<1>3. /\ 0 \in 0..Len(g) /\ Len(g) = 0 + Len(g) /\ 1..0 = {}
      /\ \A i \in 1..Len(g) : 0 + i = i
  BY <1>1
<1> QED BY <1>1, <1>2, <1>3 DEF Late

\* A request that no rule blocks is sent.
Sent(g, s) == Append(g, [age |-> 0, scope |-> s])

LEMMA GoodAllowed ==
    ASSUME NEW t \in Types, NEW s \in Scopes, NEW e, NEW g, NEW p, Good(e, g, p, t),
           Blocking(g, t, s) = {}
    PROVE  Good(Sent(g, s), Sent(g, s), p, t) /\ p[s] = 0
<1> DEFINE new == [age |-> 0, scope |-> s]
           h == Sent(g, s)
<1>1. /\ g \in Seq(Event) /\ new \in Event /\ Longest(t) \in Nat \ {0} /\ Len(g) \in Nat
      /\ History(g, t) /\ WithinRules(g, t) /\ p \in [Scopes -> 0..Longest(t)]
      /\ \A c \in Scopes : Backed(g, p[c], t, c)
  BY LongestWindow DEF Good, History, Event
<1>2. /\ h \in Seq(Event) /\ Len(h) = Len(g) + 1 /\ h[Len(g) + 1] = new
      /\ \A i \in 1..Len(g) : h[i] = g[i]
  BY <1>1 DEF Sent
<1> HIDE DEF h
<1>3. History(h, t)
  <2>1. \A i \in 1..Len(h) : h[i].age < Longest(t)
    <3> TAKE i \in 1..Len(h)
    <3>1. CASE i \in 1..Len(g)
      BY <1>1, <1>2, <3>1 DEF History
    <3>2. CASE i = Len(g) + 1
      BY <1>1, <1>2, <3>2
    <3> QED BY <1>1, <1>2, <3>1, <3>2
  <2>2. ASSUME NEW i \in 1..Len(h), NEW j \in 1..Len(h), i < j PROVE h[j].age <= h[i].age
    <3>0. i \in 1..Len(g) /\ h[i] = g[i] /\ g[i].age \in Nat
      <4>1. i \in 1..Len(g)
        BY <1>1, <1>2, <2>2
      <4> QED BY <1>1, <1>2, <4>1, EventOf
    <3>1. CASE j \in 1..Len(g)
      BY <1>1, <1>2, <2>2, <3>0, <3>1 DEF History
    <3>2. CASE j = Len(g) + 1
      BY <1>2, <3>0, <3>2
    <3> QED BY <1>1, <1>2, <3>1, <3>2
  <2> QED BY <1>2, <2>1, <2>2 DEF History
<1>4. \A w, sc : /\ Used(h, w, sc) = Used(g, w, sc) + (IF 0 < w /\ s \in sc THEN 1 ELSE 0)
                 /\ Used(g, w, sc) \in Nat
  BY <1>1, UsedAppend, UsedFinite DEF h, Sent
<1>5. WithinRules(h, t)
  <2> SUFFICES ASSUME NEW k \in DOMAIN Rules[t]
               PROVE  /\ Used(h, Rules[t][k].window, Scopes) <= Rules[t][k].cap
                      /\ Rules[t][k].reserved > 0 =>
                            Used(h, Rules[t][k].window, {"intraday"})
                                <= Rules[t][k].cap - Rules[t][k].reserved
    BY DEF WithinRules
  <2> DEFINE r == Rules[t][k]
             w == r.window
  <2>1. w \in Nat \ {0} /\ r.cap \in Nat /\ r.reserved \in 0..r.cap
    BY RuleShape
  <2>2. ~Full(g, r, s, w)
    BY BlockingIsFull
  <2>3. /\ Used(g, w, Scopes) <= r.cap
        /\ r.reserved > 0 => Used(g, w, {"intraday"}) <= r.cap - r.reserved
    BY <1>1 DEF WithinRules
  <2> HIDE DEF w, r
  <2>4. Used(h, w, Scopes) = Used(g, w, Scopes) + 1 /\ Used(g, w, Scopes) \in Nat
    BY <1>4, <2>1
  <2>5. Used(h, w, Scopes) <= r.cap
    BY <2>1, <2>2, <2>4 DEF Full
  <2>6. ASSUME r.reserved > 0 PROVE Used(h, w, {"intraday"}) <= r.cap - r.reserved
    <3>1. CASE s = "intraday"
      BY <1>4, <2>1, <2>2, <2>6, <3>1 DEF Full
    <3>2. CASE s # "intraday"
      <4>1. Used(h, w, {"intraday"}) = Used(g, w, {"intraday"})
        BY <1>4, <3>2
      <4> QED BY <2>3, <2>6, <4>1
    <3> QED BY <3>1, <3>2
  <2> QED BY <2>5, <2>6 DEF w, r
<1>6. ASSUME NEW c \in Scopes PROVE Backed(h, p[c], t, c)
  <2> SUFFICES ASSUME p[c] > 0
               PROVE  \E k \in DOMAIN Rules[t] :
                          Full(h, Rules[t][k], c, Rules[t][k].window - (p[c] - 1))
    BY DEF Backed
  <2>1. PICK k \in DOMAIN Rules[t] : Full(g, Rules[t][k], c, Rules[t][k].window - (p[c] - 1))
    BY <1>1 DEF Backed
  <2> DEFINE r == Rules[t][k]
             w == r.window - (p[c] - 1)
  <2>2. r.cap \in Nat /\ r.reserved \in 0..r.cap /\ Full(g, r, c, w)
    BY <2>1, RuleShape
  <2> HIDE DEF w, r
  <2>3. \A sc : Used(h, w, sc) \in Nat /\ Used(g, w, sc) \in Nat /\ Used(g, w, sc) <= Used(h, w, sc)
    BY <1>4
  <2>4. Full(h, r, c, w)
    BY <2>2, <2>3 DEF Full
  <2> QED BY <2>4 DEF w, r
<1>7. p[s] = 0
  <2>1. p[s] \in Nat
    BY <1>1
  <2> SUFFICES ASSUME p[s] > 0 PROVE FALSE
    BY <2>1
  <2> QED BY <1>1, <2>1, PromisedIsBlocked
<1> QED BY <1>1, <1>3, <1>5, <1>6, <1>7, NothingToPrune DEF Good, h

\* A request that a rule blocks is denied, with the time it is told.
LEMMA GoodDenied ==
    ASSUME NEW t \in Types, NEW s \in Scopes, NEW e, NEW g, NEW p, Good(e, g, p, t),
           Blocking(g, t, s) # {}
    PROVE  Good(g, g, [p EXCEPT ![s] = Later(@, NextAvailable(g, t, s))], t)
<1> DEFINE a == NextAvailable(g, t, s)
           p2 == [p EXCEPT ![s] = Later(@, a)]
<1>1. /\ Longest(t) \in Nat /\ History(g, t) /\ WithinRules(g, t)
      /\ p \in [Scopes -> 0..Longest(t)]
      /\ \A c \in Scopes : Backed(g, p[c], t, c)
  BY LongestWindow DEF Good
<1>2. a \in 0..Longest(t) /\ Backed(g, a, t, s)
  BY <1>1, DenialIsBacked
<1> HIDE DEF a
<1>3. p2 \in [Scopes -> 0..Longest(t)]
  BY <1>1, <1>2 DEF Later
<1>4. \A c \in Scopes : p2[c] = p[c] \/ (c = s /\ p2[c] = a)
  BY <1>1 DEF Later
<1>5. \A c \in Scopes : Backed(g, p2[c], t, c)
  <2> HIDE DEF p2
  <2> QED BY <1>1, <1>2, <1>4
<1> QED BY <1>1, <1>3, <1>5, NothingToPrune DEF Good, a

\* A tick: everything is one step older.
LEMMA GoodOlder ==
    ASSUME NEW t \in Types, NEW e, NEW g, NEW p, Good(e, g, p, t)
    PROVE  Good(Older(e, t), Recent(Older(g, t), t),
                [s \in Scopes |-> IF p[s] > 0 THEN p[s] - 1 ELSE 0], t)
<1> DEFINE h == Recent(Older(g, t), t)
           o == Older(e, t)
           p2 == [s \in Scopes |-> IF p[s] > 0 THEN p[s] - 1 ELSE 0]
           L == Longest(t)
<1>1. /\ L \in Nat \ {0} /\ History(g, t) /\ WithinRules(g, t) /\ Late(e, g, t)
      /\ p \in [Scopes -> 0..L] /\ g \in Seq(Event) /\ e \in Seq(Event)
      /\ Len(g) \in Nat /\ Len(e) \in Nat
      /\ \A c \in Scopes : Backed(g, p[c], t, c)
  BY LongestWindow DEF Good, Late, History
<1>2. /\ History(h, t)
      /\ \A w \in Int : \A sc : w <= L => Used(h, w, sc) = Used(g, w - 1, sc)
  BY <1>1, AgedHistory
<1>3. PICK n \in 0..Len(g) :
          /\ Len(g) = n + Len(h)
          /\ \A i \in 1..n : g[i].age + 1 = L
          /\ \A i \in 1..Len(g) - n : h[i] = Older(g, t)[n + i]
  BY <1>1, AgedHistory
<1>4. PICK m \in 0..Len(e) :
          /\ Len(e) = m + Len(g)
          /\ \A i \in 1..m : e[i].age >= L
          /\ \A i \in 1..Len(g) : e[m + i] = g[i]
  BY <1>1 DEF Late
<1> HIDE DEF h
<1>5. ASSUME NEW k \in 1..Len(e)
      PROVE  /\ o[k] \in Event /\ o[k].age \in 0..L
             /\ e[k].age >= L \/ e[k].age + 1 = L => o[k].age = L
  <2>1. PICK a \in Nat, c \in Scopes : e[k] = [age |-> a, scope |-> c] /\ a <= L
    <3>1. e[k] \in Event /\ e[k].age <= L
      BY <1>1, ElementOfSeq DEF Late
    <3> QED BY <3>1 DEF Event
  <2>2. k \in DOMAIN e
    BY <1>1
  <2>3. o[k] = [e[k] EXCEPT !.age = IF @ < L THEN @ + 1 ELSE @]
    BY <2>2 DEF Older
  <2> HIDE DEF o, L
  <2>4. o[k] = [age |-> IF a < L THEN a + 1 ELSE a, scope |-> c]
    BY <2>1, <2>3
  <2>5. (IF a < L THEN a + 1 ELSE a) \in 0..L
    BY <1>1, <2>1
  <2>6. e[k].age = a /\ o[k].age = IF a < L THEN a + 1 ELSE a
    BY <2>1, <2>4
  <2>7. o[k] \in Event
    BY <2>4, <2>5 DEF Event
  <2>8. e[k].age >= L \/ e[k].age + 1 = L => o[k].age = L
    BY <1>1, <2>1, <2>6
  <2> QED BY <2>5, <2>6, <2>7, <2>8
<1>6. o \in Seq(Event) /\ Len(o) = Len(e)
  <2>1. DOMAIN o = 1..Len(e)
    BY <1>1 DEF Older
  <2>2. o = [k \in 1..Len(e) |-> o[k]]
    BY <1>1 DEF Older
  <2> HIDE DEF o
  <2> QED BY <1>1, <1>5, <2>1, <2>2
<1>7. Late(o, h, t)
  <2> DEFINE b == m + n
  <2>0. Len(h) \in Nat
    BY <1>2 DEF History
  <2>1. b \in 0..Len(o) /\ Len(o) = b + Len(h)
    BY <1>1, <1>3, <1>4, <1>6, <2>0
  <2>2. ASSUME NEW i \in 1..b PROVE o[i].age >= L
    <3>1. i \in 1..Len(e)
      BY <1>1, <1>6, <2>0, <2>1
    <3>2. CASE i <= m
      <4>1. e[i].age >= L
        BY <1>4, <3>1, <3>2
      <4> QED BY <1>1, <1>5, <3>1, <4>1
    <3>3. CASE ~(i <= m)
      <4>1. i - m \in 1..n /\ i - m \in 1..Len(g) /\ m + (i - m) = i
        BY <1>1, <1>3, <1>4, <3>1, <3>3
      <4>2. e[i] = g[i - m] /\ g[i - m].age + 1 = L
        BY <1>3, <1>4, <4>1
      <4> QED BY <1>1, <1>5, <3>1, <4>2
    <3> QED BY <3>2, <3>3
  <2>3. ASSUME NEW i \in 1..Len(h) PROVE o[b + i] = h[i]
    <3>1. i \in 1..Len(g) - n /\ n + i \in 1..Len(g) /\ m + (n + i) = b + i
          /\ b + i \in 1..Len(e)
      BY <1>1, <1>3, <1>4, <2>0
    <3>2. e[b + i] = g[n + i] /\ b + i \in DOMAIN e /\ n + i \in DOMAIN g
      BY <1>1, <1>4, <3>1
    <3>3. o[b + i] = Older(g, t)[n + i]
      BY <3>2 DEF Older
    <3> QED BY <1>3, <3>1, <3>3
  <2>4. \A i \in 1..Len(o) : o[i].age <= L
    BY <1>1, <1>5, <1>6
  <2> HIDE DEF o, b
  <2> QED BY <1>6, <2>1, <2>2, <2>3, <2>4 DEF Late
<1>8. WithinRules(h, t)
  <2> SUFFICES ASSUME NEW k \in DOMAIN Rules[t]
               PROVE  /\ Used(h, Rules[t][k].window, Scopes) <= Rules[t][k].cap
                      /\ Rules[t][k].reserved > 0 =>
                            Used(h, Rules[t][k].window, {"intraday"})
                                <= Rules[t][k].cap - Rules[t][k].reserved
    BY DEF WithinRules
  <2> DEFINE r == Rules[t][k]
             w == r.window
  <2>1. w \in Nat \ {0} /\ w <= L /\ r.cap \in Nat /\ r.reserved \in 0..r.cap
    BY RuleShape, LongestWindow
  <2>2. /\ Used(g, w, Scopes) <= r.cap
        /\ r.reserved > 0 => Used(g, w, {"intraday"}) <= r.cap - r.reserved
    BY <1>1 DEF WithinRules
  <2> HIDE DEF w, r
  <2>3. \A sc : /\ Used(h, w, sc) <= Used(g, w, sc)
                /\ Used(h, w, sc) \in Nat /\ Used(g, w, sc) \in Nat
    <3> TAKE sc
    <3>1. Used(h, w, sc) = Used(g, w - 1, sc)
      BY <1>2, <2>1
    <3>2. w - 1 \in Int /\ w \in Int /\ w - 1 <= w
      BY <2>1
    <3>3. Used(g, w - 1, sc) <= Used(g, w, sc) /\ Used(g, w - 1, sc) \in Nat /\ Used(g, w, sc) \in Nat
      BY <1>1, <3>2, UsedGrows, UsedFinite
    <3> QED BY <3>1, <3>3
  <2> QED BY <2>1, <2>2, <2>3 DEF w, r
<1>9. p2 \in [Scopes -> 0..L]
  BY <1>1
<1>10. ASSUME NEW c \in Scopes PROVE Backed(h, p2[c], t, c)
  <2> SUFFICES ASSUME p2[c] > 0
               PROVE  \E k \in DOMAIN Rules[t] :
                          Full(h, Rules[t][k], c, Rules[t][k].window - (p2[c] - 1))
    BY DEF Backed
  <2>1. p[c] \in Nat /\ p[c] > 1 /\ p2[c] = p[c] - 1
    BY <1>1
  <2>2. PICK k \in DOMAIN Rules[t] : Full(g, Rules[t][k], c, Rules[t][k].window - (p[c] - 1))
    BY <1>1, <2>1 DEF Backed
  <2> DEFINE r == Rules[t][k]
  <2>3. r.window \in Nat /\ r.window <= L
    BY RuleShape, LongestWindow
  <2> HIDE DEF p2, r
  <2>4. r.window - (p2[c] - 1) \in Int /\ r.window - (p2[c] - 1) <= L
        /\ (r.window - (p2[c] - 1)) - 1 = r.window - (p[c] - 1)
    BY <1>1, <2>1, <2>3
  <2>5. \A sc : Used(h, r.window - (p2[c] - 1), sc) = Used(g, r.window - (p[c] - 1), sc)
    BY <1>2, <2>4
  <2>6. Full(g, r, c, r.window - (p[c] - 1))
    BY <2>2 DEF r
  <2>7. Full(h, r, c, r.window - (p2[c] - 1))
    BY <2>5, <2>6 DEF Full
  <2> QED BY <2>7 DEF r
<1> HIDE DEF p2, o
<1> QED BY <1>2, <1>7, <1>8, <1>9, <1>10 DEF Good, h, o, p2

-----------------------------------------------------------------------------
(***************************************************************************)
(* What each step of a plan does to it.                                    *)
(***************************************************************************)

\* A plan starts with the open positions in front.
LEMMA PlanStarts ==
    ASSUME NEW D \in SUBSET Requests, NEW o \in Ordered(D), NEW g
    PROVE  PlanGood(NewPlan(o), g)
<1>1. o \in [1..Cardinality(D) -> D] /\ Cardinality(D) \in Nat
  <2>1. IsFiniteSet(D)
    BY PacingAssumption, FS_Subset
  <2>2. Cardinality(D) \in Nat
    BY <2>1, FS_CardinalityType
  <2> QED BY <2>2 DEF Ordered, SetToSeqs
<1>2. o \in Seq(Requests) /\ Len(o) \in Nat /\ DOMAIN o = 1..Len(o)
  BY <1>1
<1>3. ASSUME NEW i \in 1..Len(o), NEW j \in 1..Len(o), i < j, o[j].open PROVE o[i].open
  <2>1. ~MoreUrgent(o[j], o[i])
    BY <1>2, <1>3 DEF Ordered
  <2> QED BY <1>3, <2>1 DEF MoreUrgent
<1> QED BY <1>2, <1>3 DEF PlanGood, NewPlan

LEMMA NoPlanGood ==
    ASSUME NEW g
    PROVE  PlanGood(NoPlan, g)
<1>1. << >> \in Seq(Requests) /\ 1..Len(<< >>) = {}
  OBVIOUS
<1>2. NoPlan = [todo |-> << >>, allowed |-> {}, denied |-> {}]
  BY DEF NoPlan, NewPlan
<1> QED BY <1>1, <1>2 DEF PlanGood

\* The request that comes next, and what is left of the plan after it.
ComesNext(r, pl) ==
    /\ r \in Requests
    /\ \A i \in 1..Len(pl.todo) : pl.todo[i].open => r.open
    /\ r.open => \A q \in pl.allowed \union pl.denied : q.open

LEMMA PlanGoesOn ==
    ASSUME NEW pl, NEW g, PlanGood(pl, g), pl.todo # << >>
    PROVE  /\ ComesNext(Head(pl.todo), [pl EXCEPT !.todo = Tail(@)])
           /\ PlanGood([pl EXCEPT !.todo = Tail(@)], g)
<1>1. PICK todo \in Seq(Requests), allowed \in SUBSET Requests, denied \in SUBSET Requests :
          pl = [todo |-> todo, allowed |-> allowed, denied |-> denied]
  BY DEF PlanGood
<1> DEFINE r == Head(todo)
           rest == Tail(todo)
<1>2. todo # << >> /\ pl.todo = todo /\ pl.allowed = allowed /\ pl.denied = denied
  BY <1>1
<1>3. /\ r = todo[1] /\ r \in Requests /\ 1 \in 1..Len(todo)
      /\ rest \in Seq(Requests)
      /\ \A i \in 1..Len(rest) : rest[i] = todo[i + 1] /\ i + 1 \in 1..Len(todo) /\ 1 < i + 1
      /\ \A i \in 1..Len(rest) : i \in Int
  BY <1>2
<1> HIDE DEF r, rest
<1>4. [pl EXCEPT !.todo = Tail(@)] = [todo |-> rest, allowed |-> allowed, denied |-> denied]
  BY <1>1 DEF rest
<1>5. /\ \A i, j \in 1..Len(todo) : i < j /\ todo[j].open => todo[i].open
      /\ \A q \in allowed \union denied, i \in 1..Len(todo) : todo[i].open => q.open
      /\ \A q \in denied : Blocking(g[q.type], q.type, q.scope) # {}
      /\ \A q \in denied, v \in allowed :
            q.type = v.type /\ q.scope = v.scope /\ q.open => v.open
  BY <1>2 DEF PlanGood
<1>6. \A i \in 1..Len(rest) : rest[i].open => r.open
  BY <1>3, <1>5
<1>7. r.open => \A q \in allowed \union denied : q.open
  BY <1>3, <1>5
<1>8. ASSUME NEW i \in 1..Len(rest), NEW j \in 1..Len(rest), i < j, rest[j].open
      PROVE  rest[i].open
  <2>1. i + 1 < j + 1
    BY <1>3, <1>8
  <2> QED BY <1>3, <1>5, <1>8, <2>1
<1>9. \A q \in allowed \union denied, i \in 1..Len(rest) : rest[i].open => q.open
  BY <1>6, <1>7
<1> DEFINE pl2 == [pl EXCEPT !.todo = Tail(@)]
<1> HIDE DEF pl2
<1>10. /\ pl2 \in [todo : Seq(Requests), allowed : SUBSET Requests, denied : SUBSET Requests]
       /\ pl2.todo = rest /\ pl2.allowed = allowed /\ pl2.denied = denied
  BY <1>3, <1>4 DEF pl2
<1>11. ComesNext(r, pl2)
  BY <1>3, <1>6, <1>7, <1>10 DEF ComesNext
<1>12. PlanGood(pl2, g)
  BY <1>5, <1>8, <1>9, <1>10 DEF PlanGood
<1> QED BY <1>2, <1>11, <1>12 DEF pl2, r

LEMMA PlanAllows ==
    ASSUME NEW pl, NEW g, NEW h, PlanGood(pl, g), NEW r, ComesNext(r, pl),
           Blocking(g[r.type], r.type, r.scope) = {},
           \A q \in Requests : Blocking(g[q.type], q.type, q.scope) # {} =>
                                   Blocking(h[q.type], q.type, q.scope) # {}
    PROVE  PlanGood([pl EXCEPT !.allowed = @ \union {r}], h)
<1> DEFINE pl2 == [pl EXCEPT !.allowed = @ \union {r}]
<1>1. pl \in [todo : Seq(Requests), allowed : SUBSET Requests, denied : SUBSET Requests]
  BY DEF PlanGood
<1>2. /\ pl2 \in [todo : Seq(Requests), allowed : SUBSET Requests, denied : SUBSET Requests]
      /\ pl2.todo = pl.todo /\ pl2.allowed = pl.allowed \union {r} /\ pl2.denied = pl.denied
  BY <1>1 DEF ComesNext
<1> HIDE DEF pl2
<1>3. ASSUME NEW q \in pl.denied, q.type = r.type, q.scope = r.scope PROVE FALSE
  BY <1>3 DEF PlanGood
<1>4. pl.denied \subseteq Requests
  BY <1>1
<1> QED BY <1>2, <1>3, <1>4 DEF PlanGood, ComesNext, pl2

LEMMA PlanDenies ==
    ASSUME NEW pl, NEW g, PlanGood(pl, g), NEW r, ComesNext(r, pl),
           Blocking(g[r.type], r.type, r.scope) # {}
    PROVE  PlanGood([pl EXCEPT !.denied = @ \union {r}], g)
<1> DEFINE pl2 == [pl EXCEPT !.denied = @ \union {r}]
<1>1. pl \in [todo : Seq(Requests), allowed : SUBSET Requests, denied : SUBSET Requests]
  BY DEF PlanGood
<1>2. /\ pl2 \in [todo : Seq(Requests), allowed : SUBSET Requests, denied : SUBSET Requests]
      /\ pl2.todo = pl.todo /\ pl2.allowed = pl.allowed /\ pl2.denied = pl.denied \union {r}
  BY <1>1 DEF ComesNext
<1> HIDE DEF pl2
<1>3. \A v \in pl.allowed : r.open => v.open
  BY DEF ComesNext
<1> QED BY <1>2, <1>3 DEF PlanGood, ComesNext, pl2

-----------------------------------------------------------------------------
(***************************************************************************)
(* The steps of the whole budget.                                          *)
(***************************************************************************)

\* What no step of the budget takes back: a blocked scope stays blocked, and
\* nothing is sent before the time that was promised.
Kept(g, h, p) ==
    \A t \in Types, s \in Scopes :
        /\ Blocking(g[t], t, s) # {} => Blocking(h[t], t, s) # {}
        /\ SentOf(h[t], s) > SentOf(g[t], s) => p[t][s] = 0

LEMMA SentIsUsed ==
    ASSUME NEW g \in Seq(Event), NEW s
    PROVE  SentOf(g, s) = Used(g, 1, {s}) /\ SentOf(g, s) \in Nat
<1>1. DOMAIN g = 1..Len(g)
  OBVIOUS
<1>2. \A k \in 1..Len(g) : g[k].age \in Nat
  BY EventOf
<1>3. {k \in DOMAIN g : g[k].scope = s /\ g[k].age = 0} = InWindow(g, 1, {s})
  BY <1>1, <1>2 DEF InWindow
<1> QED BY <1>3, UsedFinite DEF SentOf, Used

LEMMA NothingSent ==
    ASSUME NEW e, NEW g, NEW p, Budgets(e, g, p)
    PROVE  Kept(g, g, p)
<1> SUFFICES ASSUME NEW t \in Types, NEW s \in Scopes
             PROVE  ~(SentOf(g[t], s) > SentOf(g[t], s))
  BY DEF Kept
<1>1. g[t] \in Seq(Event)
  BY DEF Budgets, Good, History
<1>2. PICK n \in Nat : n = SentOf(g[t], s)
  BY <1>1, SentIsUsed
<1> QED BY <1>2

\* A request that is let through.
LEMMA BudgetAllowed ==
    ASSUME NEW t \in Types, NEW s \in Scopes, NEW e, NEW g, NEW p, Budgets(e, g, p),
           Blocking(Prune(e[t], t), t, s) = {}
    PROVE  LET new == [age |-> 0, scope |-> s]
               h == [g EXCEPT ![t] = Append(@, new)]
           IN /\ Budgets([e EXCEPT ![t] = Append(Prune(e[t], t), new)], h, p)
              /\ Kept(g, h, p)
              /\ Blocking(g[t], t, s) = {}
<1> DEFINE new == [age |-> 0, scope |-> s]
           f == Sent(g[t], s)
           h == [g EXCEPT ![t] = f]
           d == [e EXCEPT ![t] = f]
<1>1. /\ DOMAIN e = Types /\ DOMAIN g = Types /\ DOMAIN p = Types
      /\ \A u \in Types : Good(e[u], g[u], p[u], u)
  BY DEF Budgets
<1>2. Prune(e[t], t) = g[t]
  BY <1>1, PruneIsHistory DEF Good
<1>3. Blocking(g[t], t, s) = {}
  BY <1>2
<1>4. g[t] \in Seq(Event) /\ new \in Event
  BY <1>1 DEF Good, History, Event
<1>5. Good(f, f, p[t], t) /\ p[t][s] = 0
  <2>1. Good(e[t], g[t], p[t], t)
    BY <1>1
  <2> HIDE DEF f
  <2> QED BY <1>3, <2>1, GoodAllowed DEF f
<1>6. \A w, sc : /\ Used(f, w, sc) = Used(g[t], w, sc) + (IF 0 < w /\ s \in sc THEN 1 ELSE 0)
                 /\ Used(g[t], w, sc) \in Nat
  BY <1>4, UsedAppend, UsedFinite DEF Sent
<1>7. \A c : Blocking(g[t], t, c) # {} => Blocking(f, t, c) # {}
  BY <1>4, BlockedStaysBlocked DEF Sent
<1>8. f \in Seq(Event)
  BY <1>4 DEF Sent
<1> HIDE DEF f, new
<1>9. /\ DOMAIN d = Types /\ DOMAIN h = Types /\ d[t] = f /\ h[t] = f
      /\ \A u \in Types : u # t => d[u] = e[u] /\ h[u] = g[u]
  BY <1>1
<1> HIDE DEF d, h
<1>10. Budgets(d, h, p)
  BY <1>1, <1>5, <1>9 DEF Budgets
<1>11. ASSUME NEW u \in Types, NEW c \in Scopes, SentOf(h[u], c) > SentOf(g[u], c)
       PROVE  p[u][c] = 0
  <2>1. g[u] \in Seq(Event)
    BY <1>1 DEF Good, History
  <2>2. u = t
    <3>1. PICK n \in Nat : n = SentOf(g[u], c)
      BY <2>1, SentIsUsed
    <3> QED BY <1>9, <1>11, <3>1
  <2>3. SentOf(f, c) = Used(f, 1, {c}) /\ SentOf(g[t], c) = Used(g[t], 1, {c})
    BY <1>4, <1>8, SentIsUsed
  <2>4. c = s
    <3> SUFFICES ASSUME c # s PROVE FALSE
      OBVIOUS
    <3>1. Used(f, 1, {c}) = Used(g[t], 1, {c}) + 0 /\ Used(g[t], 1, {c}) \in Nat
      BY <1>6
    <3>2. Used(f, 1, {c}) > Used(g[t], 1, {c})
      BY <1>9, <1>11, <2>2, <2>3
    <3> QED BY <3>1, <3>2
  <2> QED BY <1>5, <2>2, <2>4
<1>12. Kept(g, h, p)
  BY <1>7, <1>9, <1>11 DEF Kept
<1> QED BY <1>2, <1>3, <1>10, <1>12 DEF d, h, f, new, Sent

\* A request that is denied.
LEMMA BudgetDenied ==
    ASSUME NEW t \in Types, NEW s \in Scopes, NEW e, NEW g, NEW p, Budgets(e, g, p),
           Blocking(Prune(e[t], t), t, s) # {}
    PROVE  /\ Budgets([e EXCEPT ![t] = Prune(e[t], t)], g,
                      [p EXCEPT ![t][s] = Later(@, NextAvailable(Prune(e[t], t), t, s))])
           /\ Blocking(g[t], t, s) # {}
<1> DEFINE a == NextAvailable(g[t], t, s)
           p2 == [p EXCEPT ![t][s] = Later(@, a)]
           d == [e EXCEPT ![t] = g[t]]
<1>1. /\ DOMAIN e = Types /\ DOMAIN g = Types /\ DOMAIN p = Types
      /\ \A u \in Types : Good(e[u], g[u], p[u], u)
  BY DEF Budgets
<1>2. Prune(e[t], t) = g[t]
  BY <1>1, PruneIsHistory DEF Good
<1>3. Blocking(g[t], t, s) # {}
  BY <1>2
<1>4. Good(g[t], g[t], [p[t] EXCEPT ![s] = Later(@, a)], t)
  BY <1>1, <1>3, GoodDenied
<1> HIDE DEF a
<1>5. /\ DOMAIN d = Types /\ DOMAIN p2 = Types
      /\ d[t] = g[t] /\ p2[t] = [p[t] EXCEPT ![s] = Later(@, a)]
      /\ \A u \in Types : u # t => d[u] = e[u] /\ p2[u] = p[u]
  BY <1>1
<1> HIDE DEF d, p2
<1>6. Budgets(d, g, p2)
  BY <1>1, <1>4, <1>5 DEF Budgets
<1> QED BY <1>2, <1>3, <1>6 DEF d, p2, a

LEMMA BudgetPruned ==
    ASSUME NEW e, NEW g, NEW p, Budgets(e, g, p)
    PROVE  Budgets([t \in Types |-> Prune(e[t], t)], g, p)
<1> DEFINE d == [t \in Types |-> Prune(e[t], t)]
<1>1. ASSUME NEW t \in Types PROVE Good(d[t], g[t], p[t], t)
  <2>1. Good(e[t], g[t], p[t], t)
    BY DEF Budgets
  <2>2. d[t] = g[t]
    BY <2>1, PruneIsHistory DEF Good
  <2> HIDE DEF d
  <2>3. Late(g[t], g[t], t)
    BY <2>1, NothingToPrune DEF Good
  <2> QED BY <2>1, <2>2, <2>3 DEF Good
<1> QED BY <1>1 DEF Budgets

LEMMA BudgetOlder ==
    ASSUME NEW e, NEW g, NEW p, Budgets(e, g, p)
    PROVE  LET h == [t \in Types |-> Recent(Older(g[t], t), t)]
           IN /\ Budgets([t \in Types |-> Older(e[t], t)], h,
                         [t \in Types |-> [s \in Scopes |->
                             IF p[t][s] > 0 THEN p[t][s] - 1 ELSE 0]])
              /\ \A t \in Types, s \in Scopes : ~(SentOf(h[t], s) > SentOf(g[t], s))
<1> DEFINE h == [t \in Types |-> Recent(Older(g[t], t), t)]
           d == [t \in Types |-> Older(e[t], t)]
           p2 == [t \in Types |-> [s \in Scopes |-> IF p[t][s] > 0 THEN p[t][s] - 1 ELSE 0]]
<1>1. \A t \in Types : Good(e[t], g[t], p[t], t)
  BY DEF Budgets
<1>2. ASSUME NEW t \in Types PROVE Good(d[t], h[t], p2[t], t)
  <2>1. Good(Older(e[t], t), Recent(Older(g[t], t), t),
             [s \in Scopes |-> IF p[t][s] > 0 THEN p[t][s] - 1 ELSE 0], t)
    BY <1>1, GoodOlder
  <2> QED BY <2>1
<1>3. ASSUME NEW t \in Types, NEW s \in Scopes PROVE ~(SentOf(h[t], s) > SentOf(g[t], s))
  <2>1. /\ h[t] = Recent(Older(g[t], t), t) /\ History(g[t], t) /\ g[t] \in Seq(Event)
        /\ h[t] \in Seq(Event) /\ Longest(t) \in Nat \ {0}
    BY <1>1, <1>2, LongestWindow DEF Good, History
  <2> HIDE DEF h
  <2>2. Used(h[t], 1, {s}) = Used(g[t], 1 - 1, {s})
    <3>1. \A w \in Int : \A sc : w <= Longest(t) => Used(h[t], w, sc) = Used(g[t], w - 1, sc)
      BY <2>1, AgedHistory
    <3>2. 1 \in Int /\ 1 <= Longest(t)
      BY <2>1
    <3> QED BY <3>1, <3>2
  <2>3. Used(g[t], 1 - 1, {s}) <= Used(g[t], 1, {s})
    BY <2>1, UsedGrows
  <2>4. SentOf(h[t], s) = Used(h[t], 1, {s}) /\ SentOf(g[t], s) = Used(g[t], 1, {s})
        /\ SentOf(h[t], s) \in Nat /\ SentOf(g[t], s) \in Nat
    BY <2>1, SentIsUsed
  <2> QED BY <2>2, <2>3, <2>4
<1>4. DOMAIN d = Types /\ DOMAIN h = Types /\ DOMAIN p2 = Types
  OBVIOUS
<1> HIDE DEF d, h, p2
<1>5. Budgets(d, h, p2)
  BY <1>2, <1>4 DEF Budgets
<1> QED BY <1>3, <1>5 DEF d, h, p2

-----------------------------------------------------------------------------
(***************************************************************************)
(* The invariant, and what it gives.                                       *)
(***************************************************************************)
LEMMA PacingInit == Init => PacingInv
<1> SUFFICES ASSUME Init PROVE PacingInv
  OBVIOUS
<1>1. ASSUME NEW t \in Types PROVE Good(events[t], granted[t], promise[t], t)
  <2>1. /\ << >> \in Seq(Event) /\ Len(<< >>) = 0 /\ 1..0 = {} /\ Longest(t) \in Nat \ {0}
    BY LongestWindow
  <2>2. History(<< >>, t)
    BY <2>1 DEF History
  <2>3. Late(<< >>, << >>, t)
    BY <2>2, NothingToPrune
  <2>4. \A w, sc : Used(<< >>, w, sc) = 0
    <3> TAKE w, sc
    <3>1. InWindow(<< >>, w, sc) = {}
      BY DEF InWindow
    <3> QED BY <3>1, FS_EmptySet DEF Used
  <2>5. WithinRules(<< >>, t)
    BY <2>4, RuleShape DEF WithinRules
  <2>6. promise[t] = [s \in Scopes |-> 0]
    BY DEF Init
  <2>7. promise[t] \in [Scopes -> 0..Longest(t)] /\ \A s \in Scopes : Backed(<< >>, promise[t][s], t, s)
    BY <2>1, <2>6 DEF Backed
  <2>8. events[t] = << >> /\ granted[t] = << >>
    BY DEF Init
  <2> QED BY <2>2, <2>3, <2>5, <2>7, <2>8 DEF Good
<1> QED BY <1>1, NoPlanGood DEF Init, PacingInv, Budgets

\* A request of either kind, and what the plan may rely on afterwards.
LEMMA PacingAcquire ==
    ASSUME PacingInv, NEW t \in Types, NEW s \in Scopes, Acquire(t, s)
    PROVE  /\ Budgets(events, granted, promise)' /\ degraded' \in BOOLEAN
           /\ Kept(granted, granted', promise)
           /\ IF Allowed(t, s) THEN Blocking(granted[t], t, s) = {}
              ELSE granted' = granted /\ Blocking(granted[t], t, s) # {}
<1>1. Budgets(events, granted, promise) /\ degraded \in BOOLEAN
  BY DEF PacingInv
<1> DEFINE ev == Prune(events[t], t)
           new == [age |-> 0, scope |-> s]
<1>2. CASE Allowed(t, s)
  <2>1. Blocking(ev, t, s) = {}
    BY <1>2 DEF Allowed
  <2>2. /\ events' = [events EXCEPT ![t] = Append(ev, new)]
        /\ granted' = [granted EXCEPT ![t] = Append(@, new)]
        /\ degraded' = degraded /\ promise' = promise
    BY <1>2 DEF Acquire
  <2>3. LET h == [granted EXCEPT ![t] = Append(@, new)]
        IN /\ Budgets([events EXCEPT ![t] = Append(ev, new)], h, promise)
           /\ Kept(granted, h, promise)
           /\ Blocking(granted[t], t, s) = {}
    BY <1>1, <2>1, BudgetAllowed
  <2>4. Budgets(events', granted', promise') /\ Kept(granted, granted', promise)
    BY <2>2, <2>3
  <2> QED BY <1>1, <1>2, <2>2, <2>3, <2>4
<1>3. CASE ~Allowed(t, s)
  <2>1. Blocking(ev, t, s) # {}
    BY <1>3 DEF Allowed
  <2>2. /\ events' = [events EXCEPT ![t] = ev] /\ degraded' = TRUE /\ granted' = granted
        /\ promise' = [promise EXCEPT ![t][s] = Later(@, NextAvailable(ev, t, s))]
    BY <1>3 DEF Acquire
  <2>3. /\ Budgets([events EXCEPT ![t] = ev], granted,
                   [promise EXCEPT ![t][s] = Later(@, NextAvailable(ev, t, s))])
        /\ Blocking(granted[t], t, s) # {}
    BY <1>1, <2>1, BudgetDenied
  <2>4. Budgets(events', granted', promise') /\ Kept(granted, granted', promise)
    BY <1>1, <2>2, <2>3, NothingSent
  <2> QED BY <1>3, <2>2, <2>3, <2>4
<1> QED BY <1>2, <1>3

LEMMA PacingNext ==
    ASSUME PacingInv, [Next]_vars
    PROVE  \/ PacingInv' /\ Kept(granted, granted', promise)
           \/ /\ PacingInv'
              /\ \A t \in Types, s \in Scopes : ~(SentOf(granted'[t], s) > SentOf(granted[t], s))
<1>1. Budgets(events, granted, promise) /\ degraded \in BOOLEAN /\ PlanGood(plan, granted)
  BY DEF PacingInv
<1>2. ASSUME NEW t \in Types, NEW s \in Scopes, TryAcquire(t, s)
      PROVE  PacingInv' /\ Kept(granted, granted', promise)
  <2>1. Acquire(t, s) /\ plan' = NoPlan
    BY <1>2 DEF TryAcquire
  <2>2. /\ Budgets(events, granted, promise)' /\ degraded' \in BOOLEAN
        /\ Kept(granted, granted', promise)
    BY <2>1, PacingAcquire
  <2>3. PlanGood(plan', granted')
    BY <2>1, NoPlanGood
  <2> QED BY <2>2, <2>3 DEF PacingInv
<1>3. ASSUME NEW S \in SUBSET Requests, PlanRequests(S)
      PROVE  PacingInv' /\ Kept(granted, granted', promise)
  <2>0. PICK D \in SUBSET Requests : \E o \in Ordered(D) : plan' = NewPlan(o)
    BY <1>3 DEF PlanRequests, Deduped
  <2>1. PICK o \in Ordered(D) : plan' = NewPlan(o)
    BY <2>0
  <2>2. events' = events /\ degraded' = degraded /\ granted' = granted /\ promise' = promise
    BY <1>3 DEF PlanRequests
  <2>3. PlanGood(plan', granted')
    BY <2>1, PlanStarts
  <2> QED BY <1>1, <2>2, <2>3, NothingSent DEF PacingInv
<1>4. ASSUME PlanNext PROVE PacingInv' /\ Kept(granted, granted', promise)
  <2> DEFINE r == Head(plan.todo)
             rest == [plan EXCEPT !.todo = Tail(@)]
  <2>1. ComesNext(r, rest) /\ PlanGood(rest, granted)
    <3>1. plan.todo # << >>
      BY <1>4 DEF PlanNext
    <3> QED BY <1>1, <3>1, PlanGoesOn
  <2>2. CASE r.upd = 2
    <3>1. /\ plan' = rest /\ events' = events /\ degraded' = degraded
          /\ granted' = granted /\ promise' = promise
      BY <1>4, <2>2 DEF PlanNext
    <3> HIDE DEF rest
    <3> QED BY <1>1, <2>1, <3>1, NothingSent DEF PacingInv
  <2>3. CASE r.upd # 2
    <3>1. /\ Acquire(r.type, r.scope)
          /\ plan' = IF Allowed(r.type, r.scope)
                     THEN [rest EXCEPT !.allowed = @ \union {r}]
                     ELSE [rest EXCEPT !.denied = @ \union {r}]
      BY <1>4, <2>3 DEF PlanNext
    <3> HIDE DEF r, rest
    <3>2. r \in Requests /\ r.type \in Types /\ r.scope \in Scopes
      BY <2>1, PacingAssumption DEF ComesNext
    <3>3. /\ Budgets(events, granted, promise)' /\ degraded' \in BOOLEAN
          /\ Kept(granted, granted', promise)
          /\ IF Allowed(r.type, r.scope) THEN Blocking(granted[r.type], r.type, r.scope) = {}
             ELSE granted' = granted /\ Blocking(granted[r.type], r.type, r.scope) # {}
      BY <3>1, <3>2, PacingAcquire
    <3>4. PICK h : h = granted'
      OBVIOUS
    <3>5. CASE Allowed(r.type, r.scope)
      <4>1. \A q \in Requests : Blocking(granted[q.type], q.type, q.scope) # {} =>
                                    Blocking(h[q.type], q.type, q.scope) # {}
        BY <3>3, <3>4, PacingAssumption DEF Kept
      <4>2. PlanGood([rest EXCEPT !.allowed = @ \union {r}], h)
        BY <2>1, <3>3, <3>5, <4>1, PlanAllows
      <4>3. PlanGood(plan', granted')
        BY <3>1, <3>4, <3>5, <4>2
      <4> QED BY <3>3, <4>3 DEF PacingInv
    <3>6. CASE ~Allowed(r.type, r.scope)
      <4>1. PlanGood([rest EXCEPT !.denied = @ \union {r}], granted)
        BY <2>1, <3>3, <3>6, PlanDenies
      <4>2. PlanGood(plan', granted')
        BY <3>1, <3>3, <3>6, <4>1
      <4> QED BY <3>3, <4>2 DEF PacingInv
    <3> QED BY <3>5, <3>6
  <2> QED BY <2>2, <2>3
<1>5. ASSUME Metrics PROVE PacingInv' /\ Kept(granted, granted', promise)
  <2>1. /\ events' = [t \in Types |-> Prune(events[t], t)] /\ plan' = NoPlan
        /\ degraded' = degraded /\ granted' = granted /\ promise' = promise
    BY <1>5 DEF Metrics
  <2>2. Budgets([t \in Types |-> Prune(events[t], t)], granted, promise)
    BY <1>1, BudgetPruned
  <2>3. PlanGood(NoPlan, granted)
    BY NoPlanGood
  <2> QED BY <1>1, <2>1, <2>2, <2>3, NothingSent DEF PacingInv
<1>6. ASSUME Tick
      PROVE  /\ PacingInv'
             /\ \A t \in Types, s \in Scopes : ~(SentOf(granted'[t], s) > SentOf(granted[t], s))
  <2>1. /\ events' = [t \in Types |-> Older(events[t], t)]
        /\ granted' = [t \in Types |-> Recent(Older(granted[t], t), t)]
        /\ promise' = [t \in Types |-> [s \in Scopes |->
                          IF promise[t][s] > 0 THEN promise[t][s] - 1 ELSE 0]]
        /\ plan' = NoPlan /\ degraded' = degraded
    BY <1>6 DEF Tick
  <2>2. LET h == [t \in Types |-> Recent(Older(granted[t], t), t)]
        IN /\ Budgets([t \in Types |-> Older(events[t], t)], h,
                      [t \in Types |-> [s \in Scopes |->
                          IF promise[t][s] > 0 THEN promise[t][s] - 1 ELSE 0]])
           /\ \A t \in Types, s \in Scopes : ~(SentOf(h[t], s) > SentOf(granted[t], s))
    BY <1>1, BudgetOlder
  <2>3. /\ Budgets(events', granted', promise')
        /\ \A t \in Types, s \in Scopes : ~(SentOf(granted'[t], s) > SentOf(granted[t], s))
    BY <2>1, <2>2
  <2>4. PlanGood(plan', granted')
    BY <2>1, NoPlanGood
  <2> QED BY <1>1, <2>1, <2>3, <2>4 DEF PacingInv
<1>7. CASE UNCHANGED vars
  <2>1. /\ events' = events /\ degraded' = degraded /\ granted' = granted
        /\ promise' = promise /\ plan' = plan
    BY <1>7 DEF vars
  <2> QED BY <1>1, <2>1, NothingSent DEF PacingInv
<1> QED BY <1>2, <1>3, <1>4, <1>5, <1>6, <1>7 DEF Next

(***************************************************************************)
(* Whatever is asked of the budget, and whatever ages, is pruned, planned  *)
(* or promised, PacingInv holds.                                           *)
(***************************************************************************)
THEOREM PacingInvariant == Spec => []PacingInv
<1>1. PacingInv /\ [Next]_vars => PacingInv'
  BY PacingNext
<1> QED BY <1>1, PacingInit, PTL DEF Spec

(***************************************************************************)
(* No window that a rule names ever holds more requests than its capacity, *)
(* over everything that was sent (try_acquire, _used, _prune).             *)
(***************************************************************************)
THEOREM WindowsNeverExceeded == Spec => []WindowNeverExceeded
<1>1. PacingInv => WindowNeverExceeded
  BY DEF PacingInv, Budgets, Good, WithinRules, WindowNeverExceeded
<1> QED BY <1>1, PacingInvariant, PTL

(***************************************************************************)
(* Within every window the intraday jobs leave the daily reserve alone.    *)
(***************************************************************************)
THEOREM DailyReserveHolds == Spec => []DailyReserveKept
<1>1. PacingInv => DailyReserveKept
  BY DEF PacingInv, Budgets, Good, WithinRules, DailyReserveKept
<1> QED BY <1>1, PacingInvariant, PTL

(***************************************************************************)
(* plan_requests never spends the budget on a new symbol and leaves an     *)
(* open position of the same type and scope without its refresh.           *)
(***************************************************************************)
THEOREM OpenPositionsComeFirst == Spec => []OpenPositionsFirst
<1>1. PacingInv => OpenPositionsFirst
  BY DEF PacingInv, PlanGood, OpenPositionsFirst
<1> QED BY <1>1, PacingInvariant, PTL

(***************************************************************************)
(* next_available_at is never too late: nothing of a type and scope is     *)
(* sent before the time its last denial was told.                          *)
(***************************************************************************)
THEOREM NextAvailableNotTooLate == Spec => NextAvailableIsLowerBound
<1> DEFINE NotEarly == \A t \in Types, s \in Scopes :
                       SentOf(granted'[t], s) > SentOf(granted[t], s) => promise[t][s] = 0
<1>1. PacingInv /\ [Next]_vars => NotEarly
  BY PacingNext DEF Kept
<1>2. PacingInv /\ [Next]_vars => [NotEarly]_vars
  BY <1>1
<1> HIDE DEF NotEarly
<1>3. Spec => [][NotEarly]_vars
  BY <1>2, PacingInvariant, PTL DEF Spec
<1> QED BY <1>3 DEF NotEarly, NextAvailableIsLowerBound

\* What the invariant says of one type's sequences is their type.
LEMMA TypedEvents ==
    ASSUME NEW t \in Types, NEW ev \in Seq(Event),
           \A i \in 1..Len(ev) : ev[i].age <= Longest(t)
    PROVE  ev \in Seq(EventType(t))
<1>1. ASSUME NEW i \in 1..Len(ev) PROVE ev[i] \in EventType(t)
  <2>1. ev[i] \in Event /\ ev[i].age <= Longest(t) /\ Longest(t) \in Nat
    BY ElementOfSeq, LongestWindow
  <2> QED BY <2>1 DEF Event, EventType
<1>2. Len(ev) \in Nat /\ ev = [i \in 1..Len(ev) |-> ev[i]]
  OBVIOUS
<1> QED BY <1>1, <1>2

(***************************************************************************)
(* Every variable of the budget and of the plan has its type, the time     *)
(* promised to a denied caller between nothing and the longest window.     *)
(***************************************************************************)
THEOREM PacingTypeCorrect == Spec => []TypeOK
<1>1. ASSUME PacingInv PROVE TypeOK
  <2>1. /\ DOMAIN events = Types /\ degraded \in BOOLEAN
        /\ plan \in [todo : Seq(Requests), allowed : SUBSET Requests,
                     denied : SUBSET Requests]
        /\ \A t \in Types : Good(events[t], granted[t], promise[t], t)
    BY <1>1 DEF PacingInv, Budgets, PlanGood
  <2>2. ASSUME NEW t \in Types
        PROVE  /\ events[t] \in Seq(EventType(t)) /\ granted[t] \in Seq(EventType(t))
               /\ \A s \in Scopes : promise[t][s] \in 0..Longest(t)
    <3>1. /\ History(granted[t], t) /\ Late(events[t], granted[t], t)
          /\ promise[t] \in [Scopes -> 0..Longest(t)]
      BY <2>1 DEF Good
    <3>2. events[t] \in Seq(EventType(t))
      BY <3>1, TypedEvents DEF Late
    <3>3. granted[t] \in Seq(EventType(t))
      <4>1. Late(granted[t], granted[t], t)
        BY <3>1, NothingToPrune
      <4> QED BY <4>1, TypedEvents DEF Late
    <3> QED BY <3>1, <3>2, <3>3
  <2> QED BY <2>1, <2>2 DEF TypeOK
<1> QED BY <1>1, PacingInvariant, PTL

=============================================================================
