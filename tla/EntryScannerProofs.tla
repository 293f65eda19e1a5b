------------------------- MODULE EntryScannerProofs -------------------------
(***************************************************************************)
(* Theorems about EntryScanner, for every set of scanners, pairs and       *)
(* bounds.  The type invariant needs nothing; what the scanner promises    *)
(* needs what the scheduler gives it: one scan of a module at a time.      *)
(***************************************************************************)
EXTENDS EntryScanner, FiniteSetTheorems, WellFoundedInduction, TLAPS

\* No two scanners of one module: the scheduler's job has max_instances = 1.
OnePerModule == \A p, q \in Scanners : module[p] = module[q] => p = q

-----------------------------------------------------------------------------
SignalType == [st : Statuses, mod : Modules, key : Keys \union {NoKey},
               bar : 0..MaxBars, noOrder : BOOLEAN, near : BOOLEAN,
               out : Outcomes, age : Ages]

ScanType == [pc : {"idle", "loop", "store", "observe", "submit", "placed"},
             exec : BOOLEAN, req : BOOLEAN, todo : SUBSET Keys,
             blocked : SUBSET {SymbolOf[k] : k \in Keys}, bar : 0..MaxBars,
             key : Keys \union {NoKey}, near : BOOLEAN, order : BOOLEAN,
             sig : 0..MaxSignals]

Shapes ==
    /\ module \in [Scanners -> Deployed]
    /\ signals \in [Ids -> SignalType]
    /\ real \in [Ids -> [open : Nat, closed : Nat]]
    /\ shadow \in [Ids -> {"none", "open", "closed", "cancelled"}]
    /\ killSwitch \in BOOLEAN
    /\ bar \in 0..MaxBars
    /\ scan \in [Scanners -> ScanType]
    /\ brackets \in [Ids -> Nat]
    /\ crashes \in 0..MaxCrashes

\* A scanner has a pair from the decision on, and a stored signal of that pair
\* and of its module from the store on; only orders of other modules than Fox
\* Hunter are submitted.
ScanOK(p) ==
    LET r == scan[p] IN
    /\ r.exec => module[p] # "fox_hunter"
    /\ r.order => r.exec /\ ~r.near
    /\ r.pc = "loop" => ~r.order /\ ~r.near
    /\ r.pc \in {"store", "observe", "submit", "placed"} => r.key \in Keys
    /\ r.pc \in {"observe", "submit", "placed"} =>
          /\ r.sig \in Stored
          /\ signals[r.sig].mod = module[p] /\ signals[r.sig].key = r.key
    /\ r.pc \in {"submit", "placed"} => r.exec

\* Who has placed a bracket for s and not heard of it yet.
PlacedOn(s) == {p \in Scanners : scan[p].pc = "placed" /\ scan[p].sig = s}

\* Every open trade and every bracket under way is a bracket at the broker.
BracketsCounted ==
    \A s \in Ids : real[s].open + Cardinality(PlacedOn(s)) <= brackets[s]

\* Signals are stored in their order, so that the next one is free; an unstored
\* one has no trade.
StoredInOrder ==
    /\ \E k \in 0..MaxSignals : \A s \in Ids : s \in Stored <=> s <= k
    /\ \A s \in Ids \ Stored : real[s].open = 0

Base ==
    /\ Shapes
    /\ StoredInOrder
    /\ \A p \in Scanners : ScanOK(p)
    /\ BracketsCounted

-----------------------------------------------------------------------------
SignalOK(s) ==
    /\ signals[s].st = "pending_human_approval" => signals[s].mod = "fox_hunter"
    /\ signals[s].out \in RetryableOutcomes => signals[s].st = "paper_approved"

NoOpenTrade(mod, k) ==
    \A s \in Stored : signals[s].mod = mod /\ signals[s].key = k => real[s].open = 0

\* No order of the Laboratory on the symbol failed in the last ten minutes.
Cooled(sym) ==
    \A s \in Stored :
        /\ signals[s].mod = "laboratory"
        /\ SymbolOf[signals[s].key] = sym
        /\ signals[s].out \in RetryableOutcomes
        => signals[s].age >= 2

\* The match under way will be ordered.
Ordering(p) ==
    \/ scan[p].pc \in {"submit", "placed"}
    \/ scan[p].pc = "store" /\ scan[p].order

\* What a scanner read when it decided still holds while it acts on it.
DecisionHolds(p) ==
    LET r == scan[p] IN
    /\ r.pc = "store" => Duplicates(module[p], r.key, r.bar) = {}
    /\ r.pc \in {"submit", "placed"} => signals[r.sig].st = "paper_approved"
    /\ Ordering(p) => /\ NoOpenTrade(module[p], r.key)
                      /\ module[p] = "laboratory" => Cooled(SymbolOf[r.key])

Promises ==
    /\ \A s \in Ids : SignalOK(s)
    /\ \A p \in Scanners : DecisionHolds(p)
    /\ OneSignalPerBar
    /\ OneOpenTradePerExposure

ScannerInv == OnePerModule /\ Base /\ Promises

-----------------------------------------------------------------------------
\* The natural numbers are well ordered, so that Min chooses from its argument.
LEMMA LessThan ==
    \E R : IsWellFoundedOn(R, Nat) /\ \A x, y \in Nat : y < x => <<y, x>> \in R
<1>1. \A x, y \in Nat : y < x => <<y, x>> \in OpToRel(<, Nat)
  BY DEF OpToRel
<1> QED BY <1>1, NatLessThanWellFounded, Zenon

LEMMA MinChosen ==
    ASSUME NEW T \in SUBSET Nat, T # {}
    PROVE  Min(T) \in T
<1>1. PICK R : IsWellFoundedOn(R, Nat) /\ \A x, y \in Nat : y < x => <<y, x>> \in R
  BY LessThan
<1>2. PICK x \in T : \A y \in T : ~ (<<y, x>> \in R)
  BY <1>1, WFMin
<1>3. T \subseteq Nat
  OBVIOUS
<1>4. ASSUME NEW y \in T PROVE x <= y
  <2>1. x \in Nat /\ y \in Nat
    BY <1>3
  <2>2. ~(y < x)
    BY <1>1, <1>2, <2>1
  <2> QED BY <2>1, <2>2
<1> QED BY <1>4 DEF Min

LEMMA NextIdFree ==
    ASSUME StoredInOrder
    PROVE  \E k \in 0..MaxSignals : /\ \A s \in Ids : s \in Stored <=> s <= k
                                    /\ Cardinality(Stored) + 1 = k + 1
<1>1. PICK k \in 0..MaxSignals : \A s \in Ids : s \in Stored <=> s <= k
  BY DEF StoredInOrder
<1>2. MaxSignals \in Nat
  BY ScannerAssumption
<1>3. Stored = 1..k
  BY <1>1, <1>2 DEF Ids, Stored
<1>4. Cardinality(1..k) = k
  BY <1>1, <1>2, FS_Interval
<1> QED BY <1>1, <1>3, <1>4

-----------------------------------------------------------------------------
\* What the next match leaves of a scan.
LEMMA NextMatchIs ==
    ASSUME NEW r \in ScanType
    PROVE  /\ NextMatch(r) \in ScanType
           /\ NextMatch(r).pc \in {"idle", "loop"}
           /\ NextMatch(r).order = FALSE /\ NextMatch(r).near = FALSE
           /\ NextMatch(r).exec => r.exec
<1>1. 0 \in 0..MaxSignals /\ 0 \in 0..MaxBars
  BY ScannerAssumption
<1>2. Idle \in ScanType
  BY <1>1 DEF Idle, ScanType
<1>3. [r EXCEPT !.pc = "loop", !.key = NoKey, !.near = FALSE,
               !.order = FALSE, !.sig = 0] \in ScanType
  BY <1>1 DEF ScanType
<1> QED BY <1>2, <1>3 DEF NextMatch, Idle, ScanType

\* Stored signals stay stored, for the same pair and module.
SignalsKept ==
    \A s \in Stored : /\ signals'[s].st # "none"
                      /\ signals'[s].mod = signals[s].mod
                      /\ signals'[s].key = signals[s].key

\* The next state n of scanner p, judged with the signals it leaves.
GoesOn(p, n) ==
    /\ n.exec => module[p] # "fox_hunter"
    /\ n.order => n.exec /\ ~n.near
    /\ n.pc = "loop" => ~n.order /\ ~n.near
    /\ n.pc \in {"store", "observe", "submit", "placed"} => n.key \in Keys
    /\ n.pc \in {"observe", "submit", "placed"} =>
          /\ n.sig \in Ids /\ signals'[n.sig].st # "none"
          /\ signals'[n.sig].mod = module[p] /\ signals'[n.sig].key = n.key
    /\ n.pc \in {"submit", "placed"} => n.exec

One(b) == IF b THEN 1 ELSE 0

\* The brackets pay for the open trades and for the bracket p has under way.
BracketsPay(p, n) ==
    \A s \in Ids :
        real'[s].open - real[s].open + One(n.pc = "placed" /\ n.sig = s)
            - One(scan[p].pc = "placed" /\ scan[p].sig = s)
          <= brackets'[s] - brackets[s]

OtherShapes ==
    /\ UNCHANGED module
    /\ signals' \in [Ids -> SignalType]
    /\ real' \in [Ids -> [open : Nat, closed : Nat]]
    /\ shadow' \in [Ids -> {"none", "open", "closed", "cancelled"}]
    /\ killSwitch' \in BOOLEAN
    /\ bar' \in 0..MaxBars
    /\ brackets' \in [Ids -> Nat]
    /\ crashes' \in 0..MaxCrashes

LEMMA PlacedCount ==
    ASSUME Shapes, NEW s \in Ids
    PROVE  IsFiniteSet(PlacedOn(s)) /\ Cardinality(PlacedOn(s)) \in Nat
<1>1. IsFiniteSet(Scanners) /\ PlacedOn(s) \in SUBSET Scanners
  BY ScannerAssumption DEF PlacedOn
<1>2. IsFiniteSet(PlacedOn(s))
  BY <1>1, FS_Subset
<1>3. Cardinality(PlacedOn(s)) \in Nat
  BY <1>2, FS_CardinalityType
<1> QED BY <1>2, <1>3

LEMMA PlacedMoves ==
    ASSUME Shapes, NEW p \in Scanners, NEW n \in ScanType,
           scan' = [scan EXCEPT ![p] = n], NEW s \in Ids
    PROVE  Cardinality(PlacedOn(s))' =
              Cardinality(PlacedOn(s)) + One(n.pc = "placed" /\ n.sig = s)
                 - One(scan[p].pc = "placed" /\ scan[p].sig = s)
<1> DEFINE old == PlacedOn(s)
           new == PlacedOn(s)'
<1>1. /\ scan'[p] = n /\ \A q \in Scanners \ {p} : scan'[q] = scan[q]
  BY DEF Shapes
<1>2. IsFiniteSet(old) /\ Cardinality(old) \in Nat
  BY PlacedCount
<1>3. p \in old <=> scan[p].pc = "placed" /\ scan[p].sig = s
  BY DEF PlacedOn
<1>4. CASE n.pc = "placed" /\ n.sig = s
  <2>1. new = old \union {p}
    BY <1>1, <1>4 DEF PlacedOn
  <2>2. Cardinality(old \union {p}) =
           IF p \in old THEN Cardinality(old) ELSE Cardinality(old) + 1
    BY <1>2, FS_AddElement
  <2> HIDE DEF old, new
  <2>3. Cardinality(new) = Cardinality(old) + 1 - One(p \in old)
    BY <1>2, <2>1, <2>2 DEF One
  <2> QED BY <1>3, <1>4, <2>3 DEF old, new, One
<1>5. CASE ~(n.pc = "placed" /\ n.sig = s)
  <2>1. new = old \ {p}
    BY <1>1, <1>5 DEF PlacedOn
  <2>2. Cardinality(old \ {p}) =
           IF p \in old THEN Cardinality(old) - 1 ELSE Cardinality(old)
    BY <1>2, FS_RemoveElement
  <2> HIDE DEF old, new
  <2>3. Cardinality(new) = Cardinality(old) - One(p \in old)
    BY <1>2, <2>1, <2>2 DEF One
  <2> QED BY <1>2, <1>3, <1>5, <2>3 DEF old, new, One
<1> QED BY <1>4, <1>5

\* One scanner goes on to its next state n.
LEMMA Moves ==
    ASSUME Base, NEW p \in Scanners, NEW n \in ScanType,
           scan' = [scan EXCEPT ![p] = n],
           OtherShapes, SignalsKept, StoredInOrder', GoesOn(p, n), BracketsPay(p, n)
    PROVE  Base'
<1>1. scan'[p] = n /\ \A q \in Scanners \ {p} : scan'[q] = scan[q]
  BY DEF Base, Shapes
<1>2. Shapes'
  BY DEF Base, Shapes, OtherShapes
<1>3. ASSUME NEW q \in Scanners PROVE ScanOK(q)'
  <2>1. CASE q = p
    BY <1>1, <2>1 DEF GoesOn, ScanOK, Stored, OtherShapes
  <2>2. CASE q # p
    BY <1>1, <2>2 DEF Base, ScanOK, Stored, SignalsKept, OtherShapes
  <2> QED BY <2>1, <2>2
<1>4. BracketsCounted'
  <2> SUFFICES ASSUME NEW s \in Ids
               PROVE  real'[s].open + Cardinality(PlacedOn(s))' <= brackets'[s]
    BY DEF BracketsCounted
  <2>1. Cardinality(PlacedOn(s))' =
           Cardinality(PlacedOn(s)) + One(n.pc = "placed" /\ n.sig = s)
              - One(scan[p].pc = "placed" /\ scan[p].sig = s)
    BY PlacedMoves DEF Base
  <2>2. Cardinality(PlacedOn(s)) \in Nat
    BY PlacedCount DEF Base
  <2>3. real[s].open + Cardinality(PlacedOn(s)) <= brackets[s]
    BY DEF Base, BracketsCounted
  <2>4. /\ real[s].open \in Nat /\ real'[s].open \in Nat
        /\ brackets[s] \in Nat /\ brackets'[s] \in Nat
    BY <1>2 DEF Base, Shapes
  <2>5. real'[s].open - real[s].open + One(n.pc = "placed" /\ n.sig = s)
           - One(scan[p].pc = "placed" /\ scan[p].sig = s)
          <= brackets'[s] - brackets[s]
    BY DEF BracketsPay
  <2>6. /\ One(n.pc = "placed" /\ n.sig = s) \in 0..1
        /\ One(scan[p].pc = "placed" /\ scan[p].sig = s) \in 0..1
    BY DEF One
  <2> QED BY <2>1, <2>2, <2>3, <2>4, <2>5, <2>6
<1> QED BY <1>2, <1>3, <1>4 DEF Base

-----------------------------------------------------------------------------
LEMMA SameSignals ==
    ASSUME Base, UNCHANGED <<signals, real>>
    PROVE  SignalsKept /\ StoredInOrder'
<1>1. SignalsKept
  BY DEF SignalsKept, Stored
<1>2. Stored' = Stored
  BY DEF Stored
<1>3. StoredInOrder'
  BY <1>2 DEF Base, StoredInOrder
<1> QED BY <1>1, <1>3

\* One stored signal is written again, as the same one.
LEMMA SignalEdited ==
    ASSUME Base, NEW s \in Stored, NEW x \in SignalType,
           signals' = [signals EXCEPT ![s] = x],
           x.st # "none", x.mod = signals[s].mod, x.key = signals[s].key,
           \A t \in Ids \ Stored : real'[t].open = 0
    PROVE  SignalsKept /\ StoredInOrder' /\ signals' \in [Ids -> SignalType]
<1>1. s \in Ids /\ signals'[s] = x /\ \A t \in Ids \ {s} : signals'[t] = signals[t]
  BY DEF Base, Shapes, Stored
<1>2. Stored' = Stored
  BY <1>1 DEF Stored
<1> QED BY <1>1, <1>2 DEF SignalsKept, Stored, StoredInOrder, Base, Shapes

\* What Stored and the scans are made of.
LEMMA Parts ==
    ASSUME Base
    PROVE  /\ Stored \in SUBSET Nat /\ Stored \subseteq Ids
           /\ \A p \in Scanners : scan[p] \in ScanType
           /\ \A s \in Ids : /\ signals[s] \in SignalType
                             /\ real[s] \in [open : Nat, closed : Nat]
                             /\ brackets[s] \in Nat
           /\ 0 \in 0..MaxSignals /\ 0 \in 0..MaxBars /\ MaxSignals \in Nat
           /\ Idle \in ScanType
<1>1. 0 \in 0..MaxSignals /\ 0 \in 0..MaxBars /\ MaxSignals \in Nat
  BY ScannerAssumption
<1>2. Idle \in ScanType
  BY <1>1 DEF Idle, ScanType
<1>3. Stored \in SUBSET Nat /\ Stored \subseteq Ids
  BY <1>1 DEF Stored, Ids
<1> QED BY <1>1, <1>2, <1>3 DEF Base, Shapes

LEMMA BeginScanBase ==
    ASSUME Base, NEW p \in Scanners, NEW req \in BOOLEAN, BeginScan(p, req)
    PROVE  Base'
<1>1. PICK todo \in SUBSET Keys :
         scan' = [scan EXCEPT ![p] =
                     IF todo = {} THEN Idle
                     ELSE [Idle EXCEPT !.pc = "loop", !.todo = todo,
                                       !.exec = Executes(p, req),
                                       !.req = req, !.bar = bar]]
  BY DEF BeginScan
<1> DEFINE n == IF todo = {} THEN Idle
                ELSE [Idle EXCEPT !.pc = "loop", !.todo = todo,
                                  !.exec = Executes(p, req), !.req = req, !.bar = bar]
<1>2. Executes(p, req) \in BOOLEAN /\ bar \in 0..MaxBars
  BY DEF Executes, Base, Shapes
<1>3. n \in ScanType
  BY <1>2, Parts DEF Idle, ScanType
<1>4. /\ n.pc \in {"idle", "loop"} /\ n.order = FALSE /\ n.near = FALSE
      /\ n.exec => Executes(p, req)
  BY DEF Idle
<1>5. scan' = [scan EXCEPT ![p] = n]
  BY <1>1
<1> HIDE DEF n
<1>6. /\ scan[p].pc = "idle"
      /\ UNCHANGED <<module, signals, real, killSwitch, bar, brackets, crashes>>
  BY DEF BeginScan
<1>7. GoesOn(p, n)
  BY <1>4 DEF GoesOn, Executes
<1>8. BracketsPay(p, n)
  BY <1>4, <1>6, Parts DEF BracketsPay, One
<1>9. shadow' \in [Ids -> {"none", "open", "closed", "cancelled"}]
  BY DEF BeginScan, Base, Shapes
<1>10. OtherShapes
  BY <1>6, <1>9 DEF OtherShapes, Base, Shapes
<1> QED BY <1>3, <1>5, <1>6, <1>7, <1>8, <1>10, SameSignals, Moves

-----------------------------------------------------------------------------
\* What the verdicts that go on promise.
LEMMA VerdictStores ==
    ASSUME NEW p, NEW k, NEW m, Verdict(p, k, m) \in {"store", "near_miss"}
    PROVE  /\ Duplicates(module[p], k, scan[p].bar) = {}
           /\ Verdict(p, k, m) = "store" =>
                 /\ ~ActiveExposure(module[p], k,
                                    module[p] = "laboratory" /\ scan[p].exec, {})
                 /\ module[p] = "laboratory" /\ scan[p].exec =>
                       ~RecentSymbolFailure(SymbolOf[k])
<1>1. \A b, store : \A ok :
         NearMissVerdict(module[p], k, b, ok, store) \in {"near_miss", "near_miss_refused"}
  BY DEF NearMissVerdict
<1>2. \A b, store : \A ok :
         NearMissVerdict(module[p], k, b, ok, store) = "near_miss" =>
            Duplicates(module[p], k, b) = {}
  BY DEF NearMissVerdict
<1>3. \A d : DuplicateVerdict(p, d, k, m) \notin {"store", "near_miss"}
  BY DEF DuplicateVerdict
<1> QED BY <1>1, <1>2, <1>3 DEF Verdict

LEMMA VerdictRetries ==
    ASSUME NEW p, NEW k, NEW m, Verdict(p, k, m) = "retry"
    PROVE  LET dups == Duplicates(module[p], k, scan[p].bar)
           IN  /\ dups # {}
               /\ scan[p].exec /\ CanSubmitDuplicate(Min(dups), module[p])
               /\ ~ActiveExposure(module[p], k, module[p] = "laboratory", {Min(dups)})
               /\ module[p] = "laboratory" => ~RecentSymbolFailure(SymbolOf[k])
<1>1. \A b, store : \A ok :
         NearMissVerdict(module[p], k, b, ok, store) # "retry"
  BY DEF NearMissVerdict
<1>2. \A d : DuplicateVerdict(p, d, k, m) = "retry" =>
         /\ scan[p].exec /\ CanSubmitDuplicate(d, module[p])
         /\ ~ActiveExposure(module[p], k, module[p] = "laboratory", {d})
  BY DEF DuplicateVerdict
<1> QED BY <1>1, <1>2 DEF Verdict

\* The match under way after the decision.
Decided(p, k, m) ==
    LET v == Verdict(p, k, m)
        r == [scan[p] EXCEPT !.todo = @ \ {k}, !.key = k]
    IN CASE v = "store" -> [r EXCEPT !.pc = "store", !.order = r.exec /\ m.allowed]
         [] v = "near_miss" -> [r EXCEPT !.pc = "store", !.near = TRUE]
         [] v = "retry" -> [r EXCEPT !.pc = "submit",
                                     !.sig = Min(Duplicates(module[p], k, r.bar))]
         [] OTHER -> NextMatch(r)

\* What the decision may come to.
DecisionIs(p, k, m) ==
    LET n == Decided(p, k, m)
        v == Verdict(p, k, m)
        dups == Duplicates(module[p], k, scan[p].bar)
    IN  /\ n \in ScanType
        /\ \/ /\ v = "store" /\ n.pc = "store" /\ n.key = k /\ ~n.near
              /\ n.order = (scan[p].exec /\ m.allowed)
              /\ n.exec = scan[p].exec /\ n.bar = scan[p].bar
           \/ /\ v = "near_miss" /\ n.pc = "store" /\ n.key = k /\ ~n.order
              /\ n.exec = scan[p].exec /\ n.bar = scan[p].bar
           \/ /\ v = "retry" /\ n.pc = "submit" /\ n.key = k
              /\ n.exec = scan[p].exec /\ ~n.order
              /\ n.sig = Min(dups) /\ n.sig \in dups
           \/ /\ n.pc \in {"idle", "loop"} /\ ~n.order /\ ~n.near
              /\ n.exec => scan[p].exec

LEMMA DecidedIs ==
    ASSUME Base, NEW p \in Scanners, scan[p].pc = "loop",
           NEW k \in scan[p].todo, NEW m \in Matches
    PROVE  DecisionIs(p, k, m)
<1> DEFINE v == Verdict(p, k, m)
           r == [scan[p] EXCEPT !.todo = @ \ {k}, !.key = k]
           dups == Duplicates(module[p], k, scan[p].bar)
           ns == [r EXCEPT !.pc = "store", !.order = r.exec /\ m.allowed]
           nn == [r EXCEPT !.pc = "store", !.near = TRUE]
           nr == [r EXCEPT !.pc = "submit", !.sig = Min(dups)]
<1>1. scan[p] \in ScanType /\ k \in Keys
  BY Parts DEF ScanType
<1>2. r \in ScanType
  BY <1>1 DEF ScanType
<1>3. /\ r.exec = scan[p].exec /\ r.bar = scan[p].bar /\ r.key = k
      /\ r.order = scan[p].order /\ r.near = scan[p].near
  BY <1>1 DEF ScanType
<1>4. ~scan[p].order /\ ~scan[p].near
  BY DEF Base, ScanOK
<1>5. m.allowed \in BOOLEAN
  BY DEF Matches
<1>6. Decided(p, k, m) = CASE v = "store" -> ns
                           [] v = "near_miss" -> nn
                           [] v = "retry" -> nr
                           [] OTHER -> NextMatch(r)
  BY <1>3 DEF Decided
<1> HIDE DEF r, v, dups
<1>7. /\ ns \in ScanType /\ ns.pc = "store" /\ ns.key = k
      /\ ns.near = r.near /\ ns.order = (r.exec /\ m.allowed)
      /\ ns.exec = r.exec /\ ns.bar = r.bar
  BY <1>2, <1>3, <1>5 DEF ScanType
<1>8. /\ nn \in ScanType /\ nn.pc = "store" /\ nn.key = k /\ nn.order = r.order
      /\ nn.exec = r.exec /\ nn.bar = r.bar
  BY <1>2, <1>3 DEF ScanType
<1>9. ASSUME v = "retry"
      PROVE  /\ nr \in ScanType /\ nr.pc = "submit" /\ nr.key = k
             /\ nr.exec = r.exec /\ nr.order = r.order
             /\ nr.sig = Min(dups) /\ nr.sig \in dups
  <2>1. dups # {} /\ dups \in SUBSET Nat /\ dups \subseteq Ids
    <3>1. dups # {}
      BY <1>9, VerdictRetries DEF v, dups
    <3>2. dups \subseteq Stored
      BY DEF dups, Duplicates
    <3> QED BY <3>1, <3>2, Parts
  <2>2. Min(dups) \in dups
    BY <2>1, MinChosen
  <2>3. Min(dups) \in 0..MaxSignals
    <3>1. Min(dups) \in Ids
      BY <2>1, <2>2
    <3> QED BY <3>1, Parts DEF Ids
  <2> QED BY <1>2, <1>3, <2>2, <2>3 DEF ScanType
<1> HIDE DEF ns, nn, nr
<1>10. CASE v = "store"
  BY <1>3, <1>4, <1>6, <1>7, <1>10 DEF v, DecisionIs
<1>11. CASE v = "near_miss"
  BY <1>3, <1>4, <1>6, <1>8, <1>11 DEF v, DecisionIs
<1>12. CASE v = "retry"
  BY <1>3, <1>4, <1>6, <1>9, <1>12 DEF v, dups, DecisionIs
<1>13. CASE v # "store" /\ v # "near_miss" /\ v # "retry"
  <2>1. Decided(p, k, m) = NextMatch(r)
    BY <1>6, <1>13
  <2>2. /\ Decided(p, k, m) \in ScanType
        /\ Decided(p, k, m).pc \in {"idle", "loop"}
        /\ Decided(p, k, m).order = FALSE /\ Decided(p, k, m).near = FALSE
        /\ Decided(p, k, m).exec => r.exec
    BY <1>2, <2>1, NextMatchIs
  <2> QED BY <1>3, <2>2 DEF DecisionIs
<1> QED BY <1>10, <1>11, <1>12, <1>13

LEMMA DecideMatchBase ==
    ASSUME Base, NEW p \in Scanners, DecideMatch(p)
    PROVE  Base'
<1>1. PICK k \in scan[p].todo, m \in Matches :
         scan' = [scan EXCEPT ![p] = Decided(p, k, m)]
  BY DEF DecideMatch, Decided
<1>2. /\ scan[p].pc = "loop"
      /\ UNCHANGED <<module, signals, real, shadow, killSwitch, bar, brackets, crashes>>
  BY DEF DecideMatch, dbVars
<1> DEFINE n == Decided(p, k, m)
           dups == Duplicates(module[p], k, scan[p].bar)
<1>3. /\ n \in ScanType
      /\ n.pc \in {"idle", "loop", "store", "submit"}
      /\ n.exec => scan[p].exec
      /\ n.order => n.exec /\ ~n.near
      /\ n.pc = "loop" => ~n.order /\ ~n.near
      /\ n.pc \in {"store", "submit"} => n.key = k
      /\ n.pc = "submit" => n.sig \in dups /\ Verdict(p, k, m) = "retry" /\ n.exec = scan[p].exec
  BY <1>2, DecidedIs DEF DecisionIs
<1>4. k \in Keys
  BY Parts DEF ScanType
<1>5. scan[p].exec => module[p] # "fox_hunter"
  BY DEF Base, ScanOK
<1>6. n.pc = "submit" => scan[p].exec
  BY <1>3, VerdictRetries
<1> HIDE DEF n
<1>7. GoesOn(p, n)
  BY <1>2, <1>3, <1>4, <1>5, <1>6, Parts DEF GoesOn, Duplicates, Stored
<1>8. BracketsPay(p, n)
  BY <1>2, <1>3, Parts DEF BracketsPay, One
<1>9. OtherShapes
  BY <1>2 DEF OtherShapes, Base, Shapes
<1> QED BY <1>1, <1>2, <1>3, <1>7, <1>8, <1>9, SameSignals, Moves DEF n

-----------------------------------------------------------------------------
\* The signal that StoreSignal writes, and the scan after it.
NewSignal(p) ==
    LET mod == module[p]
        r == scan[p]
    IN [st |-> IF mod = "fox_hunter" THEN "pending_human_approval"
               ELSE IF r.near THEN "watchlist" ELSE "paper_approved",
        mod |-> mod, key |-> r.key, bar |-> r.bar,
        noOrder |-> mod # "fox_hunter" /\ ~r.order, near |-> r.near,
        out |-> IF r.order \/ (mod = "fox_hunter" /\ ~r.req) THEN "none"
                ELSE "no_order",
        age |-> 0]

AfterStore(p, s) ==
    LET r == [scan[p] EXCEPT !.sig = s]
    IN IF r.order THEN [r EXCEPT !.pc = "submit"]
       ELSE IF module[p] = "laboratory" THEN [r EXCEPT !.pc = "observe"]
       ELSE NextMatch(r)

\* What the store comes to.
StoreIs(p, s) ==
    LET x == NewSignal(p)
        n == AfterStore(p, s)
    IN  /\ s = Cardinality(Stored) + 1
        /\ signals' = [signals EXCEPT ![s] = x]
        /\ scan' = [scan EXCEPT ![p] = n]
        /\ x \in SignalType /\ n \in ScanType
        /\ x.st # "none" /\ x.st # "rejected"
        /\ x.mod = module[p] /\ x.key = scan[p].key /\ x.bar = scan[p].bar
        /\ x.out \in {"none", "no_order"}
        /\ x.st = "pending_human_approval" => module[p] = "fox_hunter"
        /\ scan[p].order => x.st = "paper_approved"
        /\ \/ /\ scan[p].order /\ n.pc = "submit" /\ n.sig = s
              /\ n.key = scan[p].key /\ n.exec = scan[p].exec
              /\ n.order = scan[p].order /\ n.near = scan[p].near
           \/ /\ ~scan[p].order /\ n.pc = "observe" /\ n.sig = s
              /\ n.key = scan[p].key /\ n.exec = scan[p].exec
              /\ n.order = scan[p].order /\ n.near = scan[p].near
           \/ /\ n.pc \in {"idle", "loop"} /\ ~n.order /\ ~n.near
              /\ n.exec => scan[p].exec

LEMMA StoreSignalIs ==
    ASSUME Base, NEW p \in Scanners, StoreSignal(p)
    PROVE  \E s \in Ids \ Stored : StoreIs(p, s)
<1>1. PICK s \in Ids :
         /\ s = Cardinality(Stored) + 1
         /\ signals' = [signals EXCEPT ![s] = NewSignal(p)]
         /\ scan' = [scan EXCEPT ![p] = AfterStore(p, s)]
  <2>1. PICK s \in Ids :
           LET mod == module[p]
               r == [scan[p] EXCEPT !.sig = s]
           IN
           /\ s = Cardinality(Stored) + 1
           /\ signals' = [signals EXCEPT ![s] =
                 [st |-> IF mod = "fox_hunter" THEN "pending_human_approval"
                         ELSE IF r.near THEN "watchlist" ELSE "paper_approved",
                  mod |-> mod, key |-> r.key, bar |-> r.bar,
                  noOrder |-> mod # "fox_hunter" /\ ~r.order,
                  near |-> r.near,
                  out |-> IF r.order \/ (mod = "fox_hunter" /\ ~r.req)
                          THEN "none" ELSE "no_order",
                  age |-> 0]]
           /\ scan' = [scan EXCEPT ![p] = AfterStore(p, s)]
    BY DEF StoreSignal, AfterStore
  <2>2. LET r == [scan[p] EXCEPT !.sig = s]
        IN  /\ r.near = scan[p].near /\ r.order = scan[p].order
            /\ r.key = scan[p].key /\ r.bar = scan[p].bar /\ r.req = scan[p].req
    BY Parts DEF ScanType
  <2> QED BY <2>1, <2>2 DEF NewSignal
<1>2. s \notin Stored
  BY <1>1, NextIdFree DEF Base
<1> DEFINE x == NewSignal(p)
           n == AfterStore(p, s)
           r == [scan[p] EXCEPT !.sig = s]
<1>3. /\ scan[p] \in ScanType /\ scan[p].key \in Keys
      /\ module[p] \in Modules /\ module[p] \in Deployed
      /\ scan[p].order => scan[p].exec /\ ~scan[p].near
      /\ scan[p].exec => module[p] # "fox_hunter"
  BY Parts, ScannerAssumption DEF Base, Shapes, ScanOK, StoreSignal, Modules
<1>4. /\ x.st \in {"pending_human_approval", "watchlist", "paper_approved"}
      /\ x.mod = module[p] /\ x.key = scan[p].key /\ x.bar = scan[p].bar
      /\ x.noOrder \in BOOLEAN /\ x.near = scan[p].near
      /\ x.out \in {"none", "no_order"} /\ x.age = 0
      /\ x.st = "pending_human_approval" => module[p] = "fox_hunter"
      /\ scan[p].order => x.st = "paper_approved"
  BY <1>3 DEF NewSignal
<1>5. x \in SignalType
  BY <1>3, <1>4 DEF NewSignal, SignalType, Statuses, Outcomes, FinalOutcomes,
                    RetryableOutcomes, Ages, ScanType
<1>6. r \in ScanType
  BY <1>3 DEF ScanType, Ids
<1>7. /\ r.order = scan[p].order /\ r.key = scan[p].key /\ r.exec = scan[p].exec
      /\ r.near = scan[p].near /\ r.sig = s
  BY <1>3 DEF ScanType
<1>8. n = IF r.order THEN [r EXCEPT !.pc = "submit"]
          ELSE IF module[p] = "laboratory" THEN [r EXCEPT !.pc = "observe"]
          ELSE NextMatch(r)
  BY DEF AfterStore
<1> HIDE DEF r, n
<1>9. CASE r.order
  <2>1. n = [r EXCEPT !.pc = "submit"]
    BY <1>8, <1>9
  <2>2. n \in ScanType /\ n.pc = "submit" /\ n.sig = r.sig /\ n.key = r.key
        /\ n.exec = r.exec /\ n.order = r.order /\ n.near = r.near
    BY <1>6, <2>1 DEF ScanType
  <2>3. StoreIs(p, s)
    BY <1>1, <1>4, <1>5, <1>7, <1>9, <2>2 DEF n, StoreIs
  <2> QED BY <1>2, <2>3
<1>10. CASE ~r.order /\ module[p] = "laboratory"
  <2>1. n = [r EXCEPT !.pc = "observe"]
    BY <1>8, <1>10
  <2>2. n \in ScanType /\ n.pc = "observe" /\ n.sig = r.sig /\ n.key = r.key
        /\ n.exec = r.exec /\ n.order = r.order /\ n.near = r.near
    BY <1>6, <2>1 DEF ScanType
  <2>3. StoreIs(p, s)
    BY <1>1, <1>4, <1>5, <1>7, <1>10, <2>2 DEF n, StoreIs
  <2> QED BY <1>2, <2>3
<1>11. CASE ~r.order /\ module[p] # "laboratory"
  <2>1. n = NextMatch(r)
    BY <1>8, <1>11
  <2>2. /\ n \in ScanType /\ n.pc \in {"idle", "loop"}
        /\ n.order = FALSE /\ n.near = FALSE
        /\ n.exec => r.exec
    BY <1>6, <2>1, NextMatchIs
  <2>3. /\ n \in ScanType /\ n.pc \in {"idle", "loop"} /\ ~n.order /\ ~n.near
        /\ n.exec => scan[p].exec
    BY <1>7, <2>2
  <2>4. StoreIs(p, s)
    BY <1>1, <1>4, <1>5, <2>3 DEF n, x, StoreIs
  <2> QED BY <1>2, <2>4
<1> QED BY <1>9, <1>10, <1>11

LEMMA StoreSignalBase ==
    ASSUME Base, NEW p \in Scanners, StoreSignal(p)
    PROVE  Base'
<1>1. PICK s \in Ids \ Stored :
         LET x == NewSignal(p)
             n == AfterStore(p, s)
         IN  /\ s = Cardinality(Stored) + 1
             /\ signals' = [signals EXCEPT ![s] = x]
             /\ scan' = [scan EXCEPT ![p] = n]
             /\ x \in SignalType /\ n \in ScanType
             /\ x.st # "none"
             /\ x.mod = module[p] /\ x.key = scan[p].key
             /\ n.pc \in {"submit", "observe", "idle", "loop"}
             /\ n.pc \in {"submit", "observe"} =>
                   /\ n.sig = s /\ n.key = scan[p].key /\ n.exec = scan[p].exec
                   /\ n.order = scan[p].order /\ n.near = scan[p].near
             /\ n.pc = "submit" => scan[p].order
             /\ n.pc \in {"idle", "loop"} => ~n.order /\ ~n.near
             /\ n.exec => scan[p].exec
  BY StoreSignalIs DEF StoreIs
<1> DEFINE x == NewSignal(p)
           n == AfterStore(p, s)
<1>2. /\ scan[p].pc = "store"
      /\ UNCHANGED <<module, real, shadow, killSwitch, bar, brackets, crashes>>
  BY DEF StoreSignal
<1>3. /\ scan[p].key \in Keys
      /\ scan[p].order => scan[p].exec /\ ~scan[p].near
      /\ scan[p].exec => module[p] # "fox_hunter"
  BY <1>2 DEF Base, ScanOK
<1>4. signals'[s] = x /\ \A t \in Ids \ {s} : signals'[t] = signals[t]
  BY <1>1 DEF Base, Shapes
<1>5. x \in SignalType /\ x.st # "none" /\ x.mod = module[p] /\ x.key = scan[p].key
  BY <1>1
<1> HIDE DEF x
<1>6. SignalsKept
  BY <1>1, <1>4 DEF SignalsKept, Stored
<1>7. StoredInOrder'
  <2>1. PICK k \in 0..MaxSignals : /\ \A t \in Ids : t \in Stored <=> t <= k
                                   /\ Cardinality(Stored) + 1 = k + 1
    BY NextIdFree DEF Base
  <2>2. s = k + 1
    BY <1>1, <2>1
  <2>3. Stored' = Stored \union {s}
    BY <1>1, <1>4, <1>5 DEF Stored
  <2>4. k + 1 \in 0..MaxSignals
    BY <2>2, Parts DEF Ids
  <2>5. \A t \in Ids : t \in Stored' <=> t <= k + 1
    BY <2>1, <2>2, <2>3, Parts DEF Ids
  <2>6. \A t \in Ids \ Stored' : real'[t].open = 0
    BY <1>2, <2>3 DEF Base, StoredInOrder
  <2> QED BY <2>4, <2>5, <2>6 DEF StoredInOrder
<1>8. /\ n \in ScanType /\ scan' = [scan EXCEPT ![p] = n]
      /\ n.pc \in {"submit", "observe", "idle", "loop"}
      /\ n.pc \in {"submit", "observe"} =>
            /\ n.sig = s /\ n.key = scan[p].key /\ n.exec = scan[p].exec
            /\ n.order = scan[p].order /\ n.near = scan[p].near
      /\ n.pc = "submit" => scan[p].order
      /\ n.pc \in {"idle", "loop"} => ~n.order /\ ~n.near
      /\ n.exec => scan[p].exec
  BY <1>1
<1> HIDE DEF n
<1>9. GoesOn(p, n)
  BY <1>3, <1>4, <1>5, <1>8 DEF GoesOn
<1>10. BracketsPay(p, n)
  BY <1>2, <1>8, Parts DEF BracketsPay, One
<1>11. signals' \in [Ids -> SignalType]
  BY <1>1, <1>5 DEF Base, Shapes, x
<1>12. OtherShapes
  BY <1>2, <1>11 DEF OtherShapes, Base, Shapes
<1> QED BY <1>6, <1>7, <1>8, <1>9, <1>10, <1>12, Moves

-----------------------------------------------------------------------------
LEMMA OpenObservationBase ==
    ASSUME Base, NEW p \in Scanners, OpenObservation(p)
    PROVE  Base'
<1> DEFINE n == NextMatch(scan[p])
<1>1. /\ scan[p].pc = "observe"
      /\ scan' = [scan EXCEPT ![p] = n]
      /\ shadow' = [shadow EXCEPT ![scan[p].sig] = "open"]
      /\ UNCHANGED <<module, signals, real, killSwitch, bar, brackets, crashes>>
  BY DEF OpenObservation
<1>2. /\ n \in ScanType /\ n.pc \in {"idle", "loop"}
      /\ n.order = FALSE /\ n.near = FALSE
      /\ n.exec => scan[p].exec
  BY Parts, NextMatchIs
<1> HIDE DEF n
<1>3. GoesOn(p, n)
  BY <1>2 DEF GoesOn, Base, ScanOK
<1>4. BracketsPay(p, n)
  BY <1>1, <1>2, Parts DEF BracketsPay, One
<1>5. OtherShapes
  BY <1>1 DEF OtherShapes, Base, Shapes
<1> QED BY <1>1, <1>2, <1>3, <1>4, <1>5, SameSignals, Moves

LEMMA PlaceBracketBase ==
    ASSUME Base, NEW p \in Scanners, PlaceBracket(p)
    PROVE  Base'
<1> DEFINE n == [scan[p] EXCEPT !.pc = "placed"]
           s == scan[p].sig
<1>1. /\ scan[p].pc = "submit"
      /\ brackets' = [brackets EXCEPT ![s] = @ + 1]
      /\ scan' = [scan EXCEPT ![p].pc = "placed"]
      /\ UNCHANGED <<module, signals, real, shadow, killSwitch, bar, crashes>>
  BY DEF PlaceBracket, dbVars
<1>2. /\ n \in ScanType /\ n.pc = "placed" /\ n.sig = s /\ n.key = scan[p].key
      /\ n.exec = scan[p].exec /\ n.order = scan[p].order /\ n.near = scan[p].near
  BY Parts DEF ScanType
<1>3. scan' = [scan EXCEPT ![p] = n]
  BY <1>1 DEF Base, Shapes
<1> HIDE DEF n
<1>4. s \in Ids /\ GoesOn(p, n)
  BY <1>1, <1>2 DEF GoesOn, Base, ScanOK, Stored
<1>5. brackets[s] \in Nat /\ brackets' \in [Ids -> Nat]
  BY <1>1, <1>4 DEF Base, Shapes
<1>6. BracketsPay(p, n)
  BY <1>1, <1>2, <1>4, Parts DEF BracketsPay, One, Base, Shapes
<1>7. OtherShapes
  BY <1>1, <1>5 DEF OtherShapes, Base, Shapes
<1> QED BY <1>1, <1>2, <1>3, <1>4, <1>6, <1>7, SameSignals, Moves

\* The answer of the broker ends the match: the signal is written again.
LEMMA SubmissionEnds ==
    ASSUME Base, NEW p \in Scanners, NEW n \in ScanType,
           scan[p].pc \in {"submit", "placed"},
           scan' = [scan EXCEPT ![p] = n],
           n.pc \in {"idle", "loop"}, ~n.order, ~n.near, n.exec => scan[p].exec,
           NEW x \in SignalType, signals' = [signals EXCEPT ![scan[p].sig] = x],
           x.st # "none", x.mod = signals[scan[p].sig].mod,
           x.key = signals[scan[p].sig].key,
           real' \in [Ids -> [open : Nat, closed : Nat]],
           \A t \in Ids \ {scan[p].sig} : real'[t].open = real[t].open,
           shadow' = Prepared(scan[p].sig), brackets' \in [Ids -> Nat],
           UNCHANGED <<module, killSwitch, bar, crashes>>,
           BracketsPay(p, n)
    PROVE  Base'
<1>1. scan[p].sig \in Stored
  BY DEF Base, ScanOK
<1>2. \A t \in Ids \ Stored : real'[t].open = 0
  BY <1>1 DEF Base, StoredInOrder
<1>3. SignalsKept /\ StoredInOrder' /\ signals' \in [Ids -> SignalType]
  BY <1>1, <1>2, SignalEdited
<1>4. GoesOn(p, n)
  BY DEF GoesOn, Base, ScanOK
<1>5. shadow' \in [Ids -> {"none", "open", "closed", "cancelled"}]
  BY DEF Prepared, Base, Shapes
<1>6. OtherShapes
  BY <1>3, <1>5 DEF OtherShapes, Base, Shapes
<1> QED BY <1>3, <1>4, <1>6, Moves

LEMMA OrderAcceptedBase ==
    ASSUME Base, NEW p \in Scanners, OrderAccepted(p)
    PROVE  Base'
<1> DEFINE n == NextMatch(scan[p])
           s == scan[p].sig
           x == [signals[s] EXCEPT !.st = "executed", !.out = "submitted",
                                   !.noOrder = FALSE, !.age = 0]
           y == [real[s] EXCEPT !.open = @ + 1]
<1>1. /\ scan[p].pc = "placed"
      /\ signals' = [signals EXCEPT ![s].st = "executed", ![s].out = "submitted",
                                    ![s].noOrder = FALSE, ![s].age = 0]
      /\ real' = [real EXCEPT ![s].open = @ + 1]
      /\ shadow' = Prepared(s)
      /\ scan' = [scan EXCEPT ![p] = n]
      /\ UNCHANGED <<module, killSwitch, bar, brackets, crashes>>
  BY DEF OrderAccepted
<1>2. s \in Ids
  BY <1>1 DEF Base, ScanOK, Stored
<1>3. /\ n \in ScanType /\ n.pc \in {"idle", "loop"} /\ ~n.order /\ ~n.near
      /\ n.exec => scan[p].exec
  <2>1. /\ n \in ScanType /\ n.pc \in {"idle", "loop"}
        /\ n.order = FALSE /\ n.near = FALSE
        /\ n.exec => scan[p].exec
    BY Parts, NextMatchIs
  <2> QED BY <2>1
<1> HIDE DEF n
<1>4. signals[s] \in SignalType /\ real[s] \in [open : Nat, closed : Nat]
  BY <1>2, Parts
<1>5. /\ x \in SignalType /\ x.st # "none"
      /\ x.mod = signals[s].mod /\ x.key = signals[s].key
  <2>1. "executed" \in Statuses /\ "submitted" \in Outcomes /\ 0 \in Ages
    BY DEF Statuses, Outcomes, FinalOutcomes, Ages
  <2>2. x \in SignalType
    BY <1>4, <2>1 DEF SignalType
  <2> QED BY <1>4, <2>2 DEF SignalType
<1>6. y \in [open : Nat, closed : Nat] /\ y.open = real[s].open + 1
  BY <1>4
<1>7. signals' = [signals EXCEPT ![s] = x] /\ real' = [real EXCEPT ![s] = y]
  BY <1>1, <1>2 DEF Base, Shapes, SignalType
<1> HIDE DEF x, y
<1>8. real' \in [Ids -> [open : Nat, closed : Nat]]
      /\ \A t \in Ids : real'[t].open = real[t].open + One(t = s)
  BY <1>2, <1>6, <1>7, Parts DEF Base, Shapes, One
<1>9. BracketsPay(p, n)
  BY <1>1, <1>3, <1>8, Parts DEF BracketsPay, One
<1>10. \A t \in Ids \ {s} : real'[t].open = real[t].open
  BY <1>8, Parts DEF One
<1>11. brackets' \in [Ids -> Nat]
  BY <1>1 DEF Base, Shapes
<1> QED BY <1>1, <1>3, <1>5, <1>7, <1>8, <1>9, <1>10, <1>11, SubmissionEnds

\* The failed order marks the signal; a bracket that was placed is cancelled.
FailedSignal(s, f) ==
    [signals[s] EXCEPT !.out = f, !.age = 0, !.noOrder = FALSE,
                       !.st = IF f = "final_failure" THEN "rejected" ELSE @]

AfterFailure(p, f) ==
    LET r == scan[p]
    IN NextMatch(IF f \in RetryableOutcomes
                 THEN [r EXCEPT !.blocked = @ \union {SymbolOf[r.key]}] ELSE r)

LEMMA OrderFailsIs ==
    ASSUME Base, NEW p \in Scanners,
           NEW f \in RetryableOutcomes \union {"final_failure"}, OrderFails(p, f)
    PROVE  LET s == scan[p].sig
               x == FailedSignal(s, f)
               n == AfterFailure(p, f)
           IN  /\ scan[p].pc \in {"submit", "placed"} /\ s \in Ids
               /\ signals' = [signals EXCEPT ![s] = x]
               /\ x \in SignalType /\ x.st # "none"
               /\ x.mod = signals[s].mod /\ x.key = signals[s].key
               /\ x.bar = signals[s].bar
               /\ x.out = f /\ x.st \in {signals[s].st, "rejected"}
               /\ f # "final_failure" => x.st = signals[s].st
               /\ scan' = [scan EXCEPT ![p] = n]
               /\ n \in ScanType /\ n.pc \in {"idle", "loop"} /\ ~n.order /\ ~n.near
               /\ n.exec => scan[p].exec
<1> DEFINE s == scan[p].sig
           r == scan[p]
           b == IF f \in RetryableOutcomes
                THEN [r EXCEPT !.blocked = @ \union {SymbolOf[r.key]}] ELSE r
           x == FailedSignal(s, f)
           n == AfterFailure(p, f)
<1>1. /\ scan[p].pc \in {"submit", "placed"}
      /\ scan' = [scan EXCEPT ![p] = n]
      /\ signals' = [signals EXCEPT
                       ![s].out = f, ![s].age = 0, ![s].noOrder = FALSE,
                       ![s].st = IF f = "final_failure" THEN "rejected" ELSE @]
  BY DEF OrderFails, AfterFailure
<1>2. s \in Ids /\ r.key \in Keys /\ r \in ScanType /\ signals[s] \in SignalType
      /\ signals[s].st # "none"
  BY <1>1, Parts DEF Base, ScanOK, Stored
<1>3. b \in ScanType /\ b.exec = r.exec
  BY <1>2 DEF ScanType
<1>4. n = NextMatch(b)
  BY DEF AfterFailure
<1> HIDE DEF b, n
<1>5. /\ n \in ScanType /\ n.pc \in {"idle", "loop"}
      /\ n.order = FALSE /\ n.near = FALSE
      /\ n.exec => r.exec
  BY <1>3, <1>4, NextMatchIs
<1>6. ~n.order /\ ~n.near
  BY <1>5
<1>7. f \in Outcomes /\ 0 \in Ages /\ "rejected" \in Statuses
  BY DEF Outcomes, FinalOutcomes, Ages, Statuses
<1>8. x \in SignalType
  BY <1>2, <1>7 DEF FailedSignal, SignalType
<1>9. /\ x.mod = signals[s].mod /\ x.key = signals[s].key /\ x.bar = signals[s].bar
      /\ x.out = f /\ x.st = (IF f = "final_failure" THEN "rejected" ELSE signals[s].st)
  BY <1>2 DEF FailedSignal, SignalType
<1>10. signals' = [signals EXCEPT ![s] = x]
  BY <1>1, <1>2 DEF FailedSignal, Base, Shapes, SignalType
<1> HIDE DEF x
<1> QED BY <1>1, <1>2, <1>5, <1>6, <1>8, <1>9, <1>10 DEF x, n

LEMMA OrderFailsBase ==
    ASSUME Base, NEW p \in Scanners,
           NEW f \in RetryableOutcomes \union {"final_failure"}, OrderFails(p, f)
    PROVE  Base'
<1> DEFINE s == scan[p].sig
           x == FailedSignal(s, f)
           n == AfterFailure(p, f)
<1>1. /\ shadow' = Prepared(s)
      /\ UNCHANGED <<module, real, killSwitch, bar, crashes>>
      /\ \/ scan[p].pc = "submit" /\ UNCHANGED brackets
         \/ scan[p].pc = "placed" /\ brackets' = [brackets EXCEPT ![s] = @ - 1]
  BY DEF OrderFails
<1>2. /\ scan[p].pc \in {"submit", "placed"} /\ s \in Ids
      /\ signals' = [signals EXCEPT ![s] = x]
      /\ x \in SignalType /\ x.st # "none"
      /\ x.mod = signals[s].mod /\ x.key = signals[s].key
      /\ scan' = [scan EXCEPT ![p] = n]
      /\ n \in ScanType /\ n.pc \in {"idle", "loop"} /\ ~n.order /\ ~n.near
      /\ n.exec => scan[p].exec
  BY OrderFailsIs
<1> HIDE DEF x, n
<1>3. brackets' \in [Ids -> Nat] /\ BracketsPay(p, n)
  <2>1. CASE scan[p].pc = "submit" /\ UNCHANGED brackets
    BY <1>1, <1>2, <2>1, Parts DEF BracketsPay, One, Base, Shapes
  <2>2. CASE scan[p].pc = "placed" /\ brackets' = [brackets EXCEPT ![s] = @ - 1]
    <3>1. p \in PlacedOn(s)
      BY <2>2 DEF PlacedOn
    <3>2. IsFiniteSet(PlacedOn(s)) /\ Cardinality(PlacedOn(s)) \in Nat
      BY <1>2, PlacedCount DEF Base
    <3>3. Cardinality(PlacedOn(s)) # 0
      BY <3>1, <3>2, FS_EmptySet
    <3>4. real[s].open + Cardinality(PlacedOn(s)) <= brackets[s]
      BY <1>2 DEF Base, BracketsCounted
    <3>5. brackets[s] \in Nat /\ real[s].open \in Nat
      BY <1>2, Parts
    <3>6. brackets[s] - 1 \in Nat
      BY <3>2, <3>3, <3>4, <3>5
    <3>7. brackets' \in [Ids -> Nat]
      BY <1>2, <2>2, <3>6 DEF Base, Shapes
    <3>8. BracketsPay(p, n)
      BY <1>1, <1>2, <2>2, Parts DEF BracketsPay, One, Base, Shapes
    <3> QED BY <3>7, <3>8
  <2> QED BY <1>1, <2>1, <2>2
<1>4. /\ real' \in [Ids -> [open : Nat, closed : Nat]]
      /\ \A t \in Ids \ {s} : real'[t].open = real[t].open
  BY <1>1 DEF Base, Shapes
<1> QED BY <1>1, <1>2, <1>3, <1>4, SubmissionEnds

LEMMA CrashBase ==
    ASSUME Base, NEW p \in Scanners, Crash(p)
    PROVE  Base'
<1>1. /\ scan' = [scan EXCEPT ![p] = Idle]
      /\ UNCHANGED <<module, signals, real, shadow, killSwitch, bar, brackets>>
      /\ crashes' \in 0..MaxCrashes
  BY ScannerAssumption DEF Crash, dbVars, Base, Shapes
<1>2. GoesOn(p, Idle)
  BY DEF GoesOn, Idle
<1>3. BracketsPay(p, Idle)
  BY <1>1, Parts DEF BracketsPay, One, Idle
<1>4. OtherShapes
  BY <1>1 DEF OtherShapes, Base, Shapes
<1> QED BY <1>1, <1>2, <1>3, <1>4, Parts, SameSignals, Moves

-----------------------------------------------------------------------------
\* No scanner moves; the broker gives no trade that no bracket pays for.
LEMMA ScansStay ==
    ASSUME Base, UNCHANGED scan, OtherShapes, SignalsKept, StoredInOrder',
           \A s \in Ids :
              real'[s].open - real[s].open <= brackets'[s] - brackets[s]
    PROVE  Base'
<1>1. Shapes'
  BY DEF Base, Shapes, OtherShapes
<1>2. ASSUME NEW q \in Scanners PROVE ScanOK(q)'
  BY DEF Base, ScanOK, Stored, SignalsKept, OtherShapes
<1>3. BracketsCounted'
  <2> SUFFICES ASSUME NEW s \in Ids
               PROVE  real'[s].open + Cardinality(PlacedOn(s))' <= brackets'[s]
    BY DEF BracketsCounted
  <2>1. PlacedOn(s)' = PlacedOn(s)
    BY DEF PlacedOn
  <2>2. Cardinality(PlacedOn(s)) \in Nat
    BY PlacedCount DEF Base
  <2>3. real[s].open + Cardinality(PlacedOn(s)) <= brackets[s]
    BY DEF Base, BracketsCounted
  <2>4. /\ real[s].open \in Nat /\ real'[s].open \in Nat
        /\ brackets[s] \in Nat /\ brackets'[s] \in Nat
    BY <1>1 DEF Base, Shapes
  <2>5. real'[s].open - real[s].open <= brackets'[s] - brackets[s]
    OBVIOUS
  <2>6. Cardinality(PlacedOn(s))' = Cardinality(PlacedOn(s))
    BY <2>1
  <2> QED BY <2>2, <2>3, <2>4, <2>5, <2>6
<1> QED BY <1>1, <1>2, <1>3 DEF Base

LEMMA TradeClosesBase ==
    ASSUME Base, NEW s \in Ids, TradeCloses(s)
    PROVE  Base'
<1> DEFINE y == [real[s] EXCEPT !.open = @ - 1, !.closed = @ + 1]
<1>1. /\ real[s].open > 0
      /\ real' = [real EXCEPT ![s].open = @ - 1, ![s].closed = @ + 1]
      /\ brackets' = [brackets EXCEPT ![s] = @ - 1]
      /\ UNCHANGED <<module, signals, shadow, killSwitch, bar, scan, crashes>>
  BY DEF TradeCloses
<1>2. real[s] \in [open : Nat, closed : Nat] /\ brackets[s] \in Nat
  BY Parts
<1>3. Cardinality(PlacedOn(s)) \in Nat
  BY PlacedCount DEF Base
<1>4. real[s].open + Cardinality(PlacedOn(s)) <= brackets[s]
  BY DEF Base, BracketsCounted
<1>5. real[s].open - 1 \in Nat /\ brackets[s] - 1 \in Nat
  BY <1>1, <1>2, <1>3, <1>4
<1>6. y \in [open : Nat, closed : Nat] /\ y.open = real[s].open - 1
  <2> DEFINE z == [real[s] EXCEPT !.open = real[s].open - 1]
  <2>1. z \in [open : Nat, closed : Nat] /\ z.open = real[s].open - 1
    BY <1>2, <1>5
  <2>2. y = [z EXCEPT !.closed = @ + 1]
    OBVIOUS
  <2> HIDE DEF y, z
  <2> QED BY <2>1, <2>2
<1>7. real' = [real EXCEPT ![s] = y]
  BY <1>1 DEF Base, Shapes
<1> HIDE DEF y
<1>8. /\ real' \in [Ids -> [open : Nat, closed : Nat]]
      /\ brackets' \in [Ids -> Nat]
  BY <1>1, <1>5, <1>6, <1>7 DEF Base, Shapes
<1>9. /\ real'[s].open = real[s].open - 1 /\ brackets'[s] = brackets[s] - 1
      /\ \A t \in Ids \ {s} : real'[t] = real[t] /\ brackets'[t] = brackets[t]
  BY <1>1, <1>6, <1>7 DEF Base, Shapes
<1>10. \A t \in Ids : real'[t].open - real[t].open <= brackets'[t] - brackets[t]
  BY <1>9, Parts
<1>11. SignalsKept
  BY <1>1 DEF SignalsKept, Stored
<1>12. StoredInOrder'
  <2>1. s \in Stored
    BY <1>1 DEF Base, StoredInOrder
  <2>2. Stored' = Stored
    BY <1>1 DEF Stored
  <2> QED BY <1>9, <2>1, <2>2 DEF Base, StoredInOrder
<1>13. OtherShapes
  BY <1>1, <1>8 DEF OtherShapes, Base, Shapes
<1> QED BY <1>1, <1>10, <1>11, <1>12, <1>13, ScansStay

\* What a human decides: the signal leaves "pending", perhaps with a trade.
LEMMA HumanDecidesIs ==
    ASSUME Base, NEW s \in Ids, HumanDecides(s)
    PROVE  \E x \in SignalType :
              /\ signals[s].st = "pending_human_approval"
              /\ signals' = [signals EXCEPT ![s] = x]
              /\ x.st \in {"executed", "rejected"}
              /\ x.mod = signals[s].mod /\ x.key = signals[s].key
              /\ x.bar = signals[s].bar
              /\ x.out \in {signals[s].out, "submitted"}
              /\ UNCHANGED <<module, shadow, killSwitch, bar, scan, crashes>>
<1>1. signals[s] \in SignalType
  BY Parts
<1>2. CASE signals' = [signals EXCEPT ![s].st = "executed",
                                      ![s].out = "submitted", ![s].age = 0]
  <2> DEFINE x == [signals[s] EXCEPT !.st = "executed", !.out = "submitted", !.age = 0]
  <2>1. "executed" \in Statuses /\ "submitted" \in Outcomes /\ 0 \in Ages
    BY DEF Statuses, Outcomes, FinalOutcomes, Ages
  <2>2. x \in SignalType
    BY <1>1, <2>1 DEF SignalType
  <2>3. /\ x.st = "executed" /\ x.out = "submitted"
        /\ x.mod = signals[s].mod /\ x.key = signals[s].key /\ x.bar = signals[s].bar
    BY <1>1 DEF SignalType
  <2>4. signals' = [signals EXCEPT ![s] = x]
    BY <1>2 DEF Base, Shapes, SignalType
  <2> HIDE DEF x
  <2> QED BY <2>2, <2>3, <2>4 DEF HumanDecides
<1>3. CASE signals' = [signals EXCEPT ![s].st = "rejected"]
  <2> DEFINE x == [signals[s] EXCEPT !.st = "rejected"]
  <2>1. "rejected" \in Statuses
    BY DEF Statuses
  <2>2. x \in SignalType
    BY <1>1, <2>1 DEF SignalType
  <2>3. /\ x.st = "rejected" /\ x.out = signals[s].out
        /\ x.mod = signals[s].mod /\ x.key = signals[s].key /\ x.bar = signals[s].bar
    BY <1>1 DEF SignalType
  <2>4. signals' = [signals EXCEPT ![s] = x]
    BY <1>3 DEF Base, Shapes, SignalType
  <2> HIDE DEF x
  <2> QED BY <2>2, <2>3, <2>4 DEF HumanDecides
<1> QED BY <1>2, <1>3 DEF HumanDecides

\* It is stored, and its trade is a bracket that was placed for it.
LEMMA HumanTrades ==
    ASSUME Base, NEW s \in Ids, HumanDecides(s)
    PROVE  /\ s \in Stored
           /\ real' \in [Ids -> [open : Nat, closed : Nat]]
           /\ brackets' \in [Ids -> Nat]
           /\ \A t \in Ids : /\ real'[t].open - real[t].open
                                   <= brackets'[t] - brackets[t]
                             /\ t # s => real'[t].open = real[t].open
<1>1. s \in Stored
  BY DEF HumanDecides, Stored
<1>2. CASE UNCHANGED <<real, brackets>>
  BY <1>1, <1>2, Parts DEF Base, Shapes
<1>3. CASE /\ real' = [real EXCEPT ![s].open = @ + 1]
           /\ brackets' = [brackets EXCEPT ![s] = @ + 1]
  <2> DEFINE y == [real[s] EXCEPT !.open = @ + 1]
  <2>1. real[s] \in [open : Nat, closed : Nat] /\ brackets[s] + 1 \in Nat
    BY Parts
  <2>2. y \in [open : Nat, closed : Nat] /\ y.open = real[s].open + 1
    BY <2>1
  <2>3. real' = [real EXCEPT ![s] = y]
    BY <1>3 DEF Base, Shapes
  <2> HIDE DEF y
  <2>4. /\ real' \in [Ids -> [open : Nat, closed : Nat]]
        /\ brackets' \in [Ids -> Nat]
    BY <1>3, <2>1, <2>2, <2>3 DEF Base, Shapes
  <2>5. /\ real'[s].open = real[s].open + 1 /\ brackets'[s] = brackets[s] + 1
        /\ \A t \in Ids \ {s} : real'[t] = real[t] /\ brackets'[t] = brackets[t]
    BY <1>3, <2>2, <2>3 DEF Base, Shapes
  <2> QED BY <1>1, <2>4, <2>5, Parts
<1> QED BY <1>2, <1>3 DEF HumanDecides

LEMMA HumanDecidesBase ==
    ASSUME Base, NEW s \in Ids, HumanDecides(s)
    PROVE  Base'
<1>1. PICK x \in SignalType :
         /\ signals' = [signals EXCEPT ![s] = x]
         /\ x.st \in {"executed", "rejected"}
         /\ x.mod = signals[s].mod /\ x.key = signals[s].key
         /\ UNCHANGED <<module, shadow, killSwitch, bar, scan, crashes>>
  BY HumanDecidesIs
<1>2. /\ s \in Stored
      /\ real' \in [Ids -> [open : Nat, closed : Nat]]
      /\ brackets' \in [Ids -> Nat]
      /\ \A t \in Ids : /\ real'[t].open - real[t].open <= brackets'[t] - brackets[t]
                        /\ t # s => real'[t].open = real[t].open
  BY HumanTrades
<1>3. \A t \in Ids \ Stored : real'[t].open = 0
  BY <1>2 DEF Base, StoredInOrder
<1>4. x.st # "none"
  BY <1>1
<1>5. SignalsKept /\ StoredInOrder' /\ signals' \in [Ids -> SignalType]
  BY <1>1, <1>2, <1>3, <1>4, SignalEdited
<1>6. OtherShapes
  BY <1>1, <1>2, <1>5 DEF OtherShapes, Base, Shapes
<1> QED BY <1>1, <1>2, <1>5, <1>6, ScansStay

\* Time passes for what is stored and nothing else.
LEMMA TickIs ==
    ASSUME Base, Tick
    PROVE  /\ signals' \in [Ids -> SignalType]
           /\ \A s \in Ids :
                 /\ signals'[s].st = signals[s].st
                 /\ signals'[s].mod = signals[s].mod
                 /\ signals'[s].key = signals[s].key
                 /\ signals'[s].bar = signals[s].bar
                 /\ signals'[s].out = signals[s].out
                 /\ signals'[s].age >= signals[s].age
           /\ UNCHANGED <<module, real, shadow, killSwitch, bar, scan, brackets, crashes>>
<1>1. ASSUME NEW s \in Ids
      PROVE  /\ signals'[s] \in SignalType
             /\ signals'[s].st = signals[s].st
             /\ signals'[s].mod = signals[s].mod
             /\ signals'[s].key = signals[s].key
             /\ signals'[s].bar = signals[s].bar
             /\ signals'[s].out = signals[s].out
             /\ signals'[s].age >= signals[s].age
  <2> DEFINE a == signals[s].age
             c == s \in Stored /\ AgeIsRead(s) /\ a < 3
             b == IF c THEN a + 1 ELSE a
  <2>1. signals[s] \in SignalType
    BY Parts
  <2>2. signals'[s] = [signals[s] EXCEPT !.age = b]
    BY DEF Tick
  <2>3. a \in 0..3
    BY <2>1 DEF SignalType, Ages
  <2>4. b \in 0..3 /\ b >= a
    BY <2>3
  <2> HIDE DEF b
  <2>5. [signals[s] EXCEPT !.age = b] \in SignalType
    BY <2>1, <2>4 DEF SignalType, Ages
  <2> QED BY <2>1, <2>2, <2>4, <2>5 DEF SignalType
<1>2. signals' = [s \in Ids |-> signals'[s]]
  BY DEF Tick
<1>3. signals' \in [Ids -> SignalType]
  BY <1>1, <1>2
<1> QED BY <1>1, <1>3 DEF Tick

LEMMA TickBase ==
    ASSUME Base, Tick
    PROVE  Base'
<1>1. SignalsKept /\ Stored' = Stored
  BY TickIs DEF SignalsKept, Stored
<1>2. StoredInOrder'
  BY <1>1, TickIs DEF Base, StoredInOrder
<1>3. OtherShapes
  BY TickIs DEF OtherShapes, Base, Shapes
<1>4. \A s \in Ids : real'[s].open - real[s].open <= brackets'[s] - brackets[s]
  BY TickIs, Parts
<1> QED BY <1>1, <1>2, <1>3, <1>4, TickIs, ScansStay

LEMMA BaseInit ==
    ASSUME Init
    PROVE  Base
<1>1. 0 \in 0..MaxSignals /\ 0 \in 0..MaxBars /\ 0 \in 0..MaxCrashes /\ MaxSignals \in Nat
  BY ScannerAssumption
<1>2. NoSignal \in SignalType
  BY <1>1 DEF NoSignal, SignalType, Statuses, Modules, Outcomes, Ages
<1>3. Idle \in ScanType
  BY <1>1 DEF Idle, ScanType
<1>4. Shapes
  BY <1>1, <1>2, <1>3 DEF Init, Shapes
<1>5. Stored = {}
  BY DEF Init, Stored, NoSignal
<1>6. StoredInOrder
  <2>1. \A s \in Ids : s \in Stored <=> s <= 0
    BY <1>1, <1>5 DEF Ids
  <2>2. \A s \in Ids \ Stored : real[s].open = 0
    BY DEF Init
  <2> QED BY <1>1, <2>1, <2>2 DEF StoredInOrder
<1>7. \A p \in Scanners : ScanOK(p)
  BY DEF Init, ScanOK, Idle
<1>8. ASSUME NEW s \in Ids
      PROVE  real[s].open + Cardinality(PlacedOn(s)) <= brackets[s]
  <2>1. PlacedOn(s) = {}
    BY DEF Init, PlacedOn, Idle
  <2>2. Cardinality(PlacedOn(s)) = 0
    BY <2>1, FS_EmptySet
  <2> QED BY <2>2 DEF Init
<1> QED BY <1>4, <1>6, <1>7, <1>8 DEF Base, BracketsCounted

LEMMA BaseNext ==
    ASSUME Base, [Next]_vars
    PROVE  Base'
<1>1. CASE UNCHANGED vars
  BY <1>1 DEF vars, dbVars, Base, Shapes, StoredInOrder, Stored, ScanOK,
              BracketsCounted, PlacedOn
<1>2. CASE ToggleKillSwitch
  <2>1. UNCHANGED <<module, signals, real, shadow, bar, scan, brackets, crashes>>
    BY <1>2 DEF ToggleKillSwitch, dbVars
  <2>2. killSwitch' \in BOOLEAN
    BY <1>2 DEF ToggleKillSwitch
  <2>3. OtherShapes
    BY <2>1, <2>2 DEF OtherShapes, Base, Shapes
  <2> QED BY <2>1, <2>3, SameSignals, ScansStay, Parts
<1>3. CASE NewBar
  <2>1. UNCHANGED <<module, signals, real, shadow, killSwitch, scan, brackets, crashes>>
    BY <1>3 DEF NewBar, dbVars
  <2>2. bar' \in 0..MaxBars
    BY <1>3, ScannerAssumption DEF NewBar, Base, Shapes
  <2>3. OtherShapes
    BY <2>1, <2>2 DEF OtherShapes, Base, Shapes
  <2> QED BY <2>1, <2>3, SameSignals, ScansStay, Parts
<1>4. CASE \E p \in Scanners :
             \/ \E req \in BOOLEAN : BeginScan(p, req)
             \/ DecideMatch(p)
             \/ StoreSignal(p)
             \/ OpenObservation(p)
             \/ PlaceBracket(p)
             \/ OrderAccepted(p)
             \/ \E f \in RetryableOutcomes \union {"final_failure"} : OrderFails(p, f)
             \/ Crash(p)
  BY <1>4, BeginScanBase, DecideMatchBase, StoreSignalBase, OpenObservationBase,
     PlaceBracketBase, OrderAcceptedBase, OrderFailsBase, CrashBase
<1>5. CASE \E s \in Ids : TradeCloses(s) \/ HumanDecides(s)
  BY <1>5, TradeClosesBase, HumanDecidesBase
<1>6. CASE Tick
  BY <1>6, TickBase
<1> QED BY <1>1, <1>2, <1>3, <1>4, <1>5, <1>6 DEF Next

\* Every signal, trade, observation and scan is what the code can hold: a scan
\* that submits works on a stored signal of a module that orders, the next
\* signal id is free, and a cancelled or closed bracket is never one too many.
THEOREM ScannerTypeCorrect == Spec => []TypeOK
<1>1. Init => Base
  BY BaseInit
<1>2. Base /\ [Next]_vars => Base'
  BY BaseNext
<1>3. Base => TypeOK
  <2> SUFFICES ASSUME Base PROVE TypeOK
    OBVIOUS
  <2>1. Shapes /\ \A p \in Scanners : ScanOK(p)
    BY DEF Base
  <2>2. DOMAIN scan = Scanners
    BY <2>1 DEF Shapes
  <2>3. ASSUME NEW p \in Scanners
        PROVE  /\ scan[p].pc \in {"idle", "loop", "store", "observe", "submit", "placed"}
               /\ scan[p].todo \subseteq Keys
               /\ scan[p].sig \in 0..MaxSignals
               /\ scan[p].pc \in {"submit", "placed"} =>
                     /\ module[p] # "fox_hunter"
                     /\ signals[scan[p].sig].st # "none"
    BY <2>1 DEF Shapes, ScanType, ScanOK, Stored
  <2> QED BY <2>1, <2>2, <2>3 DEF TypeOK, Shapes, SignalType
<1> QED BY <1>1, <1>2, <1>3, PTL DEF Spec

-----------------------------------------------------------------------------
\* Nothing a decision of q rests on has changed: the signals of its module are
\* the same ones, none came back, none was taken away, none failed or traded.
Quiet(q) ==
    \A s \in Ids :
        /\ signals'[s].st # "none"
        /\ signals'[s].mod = module[q]
        => /\ s \in Stored
           /\ signals[s].mod = module[q]
           /\ signals'[s].key = signals[s].key
           /\ signals'[s].bar = signals[s].bar
           /\ signals[s].st = "rejected" => signals'[s].st = "rejected"
           /\ signals[s].st = "paper_approved" => signals'[s].st = "paper_approved"
           /\ signals'[s].out \in RetryableOutcomes =>
                 signals'[s].out = signals[s].out /\ signals'[s].age >= signals[s].age
           /\ module[q] # "fox_hunter" => real'[s].open <= real[s].open

LEMMA QuietKeeps ==
    ASSUME Base, NEW q \in Scanners, DecisionHolds(q),
           scan'[q] = scan[q], UNCHANGED module, SignalsKept, Quiet(q),
           real' \in [Ids -> [open : Nat, closed : Nat]],
           signals' \in [Ids -> SignalType]
    PROVE  DecisionHolds(q)'
<1> DEFINE r == scan[q]
           mod == module[q]
<1>1. ASSUME r.pc = "store" PROVE Duplicates(mod, r.key, r.bar)' = {}
  <2>1. Duplicates(mod, r.key, r.bar) = {}
    BY <1>1 DEF DecisionHolds
  <2> SUFFICES ASSUME NEW s \in Ids, signals'[s].st # "none",
                      signals'[s].st # "rejected", signals'[s].mod = mod,
                      signals'[s].key = r.key, signals'[s].bar = r.bar
               PROVE  FALSE
    BY DEF Duplicates, Stored
  <2>2. /\ s \in Stored /\ signals[s].mod = mod
        /\ signals[s].key = r.key /\ signals[s].bar = r.bar
        /\ signals[s].st # "rejected"
    BY DEF Quiet
  <2> QED BY <2>1, <2>2 DEF Duplicates
<1>2. ASSUME r.pc \in {"submit", "placed"} PROVE signals'[r.sig].st = "paper_approved"
  <2>1. /\ r.sig \in Stored /\ signals[r.sig].mod = mod
        /\ signals[r.sig].st = "paper_approved"
    BY <1>2 DEF DecisionHolds, Base, ScanOK
  <2>2. /\ r.sig \in Ids /\ signals'[r.sig].st # "none"
        /\ signals'[r.sig].mod = mod
    BY <2>1 DEF SignalsKept, Stored
  <2> QED BY <2>1, <2>2 DEF Quiet
<1>3. ASSUME Ordering(q)
      PROVE  /\ \A s \in Ids : /\ signals'[s].st # "none"
                               /\ signals'[s].mod = mod /\ signals'[s].key = r.key
                               => real'[s].open = 0
             /\ mod = "laboratory" =>
                   \A s \in Ids : /\ signals'[s].st # "none"
                                  /\ signals'[s].mod = "laboratory"
                                  /\ SymbolOf[signals'[s].key] = SymbolOf[r.key]
                                  /\ signals'[s].out \in RetryableOutcomes
                                  => signals'[s].age >= 2
  <2>1. mod # "fox_hunter"
    BY <1>3 DEF Ordering, Base, ScanOK
  <2>2. NoOpenTrade(mod, r.key) /\ (mod = "laboratory" => Cooled(SymbolOf[r.key]))
    BY <1>3 DEF DecisionHolds
  <2>3. ASSUME NEW s \in Ids, signals'[s].st # "none",
               signals'[s].mod = mod, signals'[s].key = r.key
        PROVE  real'[s].open = 0
    <3>1. /\ s \in Stored /\ signals[s].mod = mod /\ signals[s].key = r.key
          /\ real'[s].open <= real[s].open
      BY <2>1, <2>3 DEF Quiet
    <3>2. real[s].open = 0
      BY <2>2, <3>1 DEF NoOpenTrade
    <3>3. real'[s].open \in Nat
      OBVIOUS
    <3> QED BY <3>1, <3>2, <3>3
  <2>4. ASSUME mod = "laboratory", NEW s \in Ids, signals'[s].st # "none",
               signals'[s].mod = "laboratory",
               SymbolOf[signals'[s].key] = SymbolOf[r.key],
               signals'[s].out \in RetryableOutcomes
        PROVE  signals'[s].age >= 2
    <3>1. /\ s \in Stored /\ signals[s].mod = "laboratory"
          /\ SymbolOf[signals[s].key] = SymbolOf[r.key]
          /\ signals[s].out \in RetryableOutcomes
          /\ signals'[s].age >= signals[s].age
      BY <2>4 DEF Quiet
    <3>2. signals[s].age >= 2
      BY <2>2, <2>4, <3>1 DEF Cooled
    <3>3. signals[s].age \in 0..3 /\ signals'[s].age \in 0..3
      BY Parts DEF SignalType, Ages
    <3> QED BY <3>1, <3>2, <3>3
  <2> QED BY <2>3, <2>4
<1>4. Ordering(q)' <=> Ordering(q)
  BY DEF Ordering
<1>5. Ordering(q)' => /\ NoOpenTrade(mod, r.key)'
                      /\ mod = "laboratory" => Cooled(SymbolOf[r.key])'
  BY <1>3, <1>4 DEF NoOpenTrade, Cooled, Stored
<1>6. /\ r' = r /\ mod' = mod
  OBVIOUS
<1> QED BY <1>1, <1>2, <1>5, <1>6 DEF DecisionHolds, NoOpenTrade, Cooled, Duplicates, Stored

\* Steps that leave the signals and the trades alone keep every promise but
\* that of the scanner that moves.
LEMMA TablesStay ==
    ASSUME ScannerInv, UNCHANGED <<module, signals, real>>,
           \A q \in Scanners : scan'[q] = scan[q] \/ DecisionHolds(q)'
    PROVE  Promises'
<1>1. SignalsKept /\ \A q \in Scanners : Quiet(q)
  BY Parts DEF ScannerInv, SignalsKept, Stored, Quiet, SignalType, Ages
<1>2. ASSUME NEW q \in Scanners PROVE DecisionHolds(q)'
  <2>1. CASE scan'[q] = scan[q]
    BY <1>1, <2>1, QuietKeeps DEF ScannerInv, Promises, Base, Shapes
  <2> QED BY <2>1
<1>3. (\A s \in Ids : SignalOK(s))' /\ OneSignalPerBar' /\ OneOpenTradePerExposure'
  BY DEF ScannerInv, Promises, SignalOK, OneSignalPerBar, SameOpportunity,
         OneOpenTradePerExposure, Stored
<1> QED BY <1>2, <1>3 DEF Promises

\* A scanner between two matches promises nothing.
LEMMA BetweenMatches ==
    ASSUME NEW p \in Scanners, scan'[p].pc \in {"idle", "loop", "observe"}
    PROVE  DecisionHolds(p)'
  BY DEF DecisionHolds, Ordering

LEMMA ScanStepPromises ==
    ASSUME ScannerInv, NEW p \in Scanners,
           \/ \E req \in BOOLEAN : BeginScan(p, req)
           \/ OpenObservation(p)
           \/ PlaceBracket(p)
           \/ Crash(p)
    PROVE  Promises'
<1>1. Base
  BY DEF ScannerInv
<1>2. /\ UNCHANGED <<module, signals, real>>
      /\ \A q \in Scanners \ {p} : scan'[q] = scan[q]
  BY <1>1 DEF BeginScan, OpenObservation, PlaceBracket, Crash, dbVars, Base, Shapes
<1>3. DecisionHolds(p)'
  <2>1. CASE \E req \in BOOLEAN : BeginScan(p, req)
    <3>1. PICK n : scan' = [scan EXCEPT ![p] = n] /\ n.pc \in {"idle", "loop"}
      <4>1. PICK req \in BOOLEAN : BeginScan(p, req)
        BY <2>1
      <4>2. PICK todo \in SUBSET Keys :
               scan' = [scan EXCEPT ![p] =
                           IF todo = {} THEN Idle
                           ELSE [Idle EXCEPT !.pc = "loop", !.todo = todo,
                                             !.exec = Executes(p, req),
                                             !.req = req, !.bar = bar]]
        BY <4>1 DEF BeginScan
      <4> DEFINE n == IF todo = {} THEN Idle
                      ELSE [Idle EXCEPT !.pc = "loop", !.todo = todo,
                                        !.exec = Executes(p, req),
                                        !.req = req, !.bar = bar]
      <4>3. n.pc \in {"idle", "loop"}
        BY DEF Idle
      <4>4. scan' = [scan EXCEPT ![p] = n]
        BY <4>2
      <4> HIDE DEF n
      <4> QED BY <4>3, <4>4
    <3>2. scan'[p].pc \in {"idle", "loop"}
      BY <1>1, <3>1 DEF Base, Shapes
    <3> QED BY <3>2, BetweenMatches
  <2>2. CASE OpenObservation(p)
    <3>1. scan'[p] = NextMatch(scan[p])
      BY <1>1, <2>2 DEF OpenObservation, Base, Shapes
    <3>2. scan'[p].pc \in {"idle", "loop"}
      BY <1>1, <3>1, Parts, NextMatchIs
    <3> QED BY <3>2, BetweenMatches
  <2>3. CASE PlaceBracket(p)
    <3>1. scan'[p] = [scan[p] EXCEPT !.pc = "placed"] /\ scan[p].pc = "submit"
      BY <1>1, <2>3 DEF PlaceBracket, Base, Shapes
    <3>2. scan[p] \in ScanType
      BY <1>1, Parts
    <3>3. /\ scan'[p].pc = "placed" /\ scan'[p].sig = scan[p].sig
          /\ scan'[p].key = scan[p].key
      BY <3>1, <3>2 DEF ScanType
    <3>4. /\ signals[scan[p].sig].st = "paper_approved"
          /\ NoOpenTrade(module[p], scan[p].key)
          /\ module[p] = "laboratory" => Cooled(SymbolOf[scan[p].key])
      BY <3>1 DEF ScannerInv, Promises, DecisionHolds, Ordering
    <3> QED BY <1>2, <3>3, <3>4 DEF DecisionHolds, NoOpenTrade, Cooled, Stored
  <2>4. CASE Crash(p)
    <3>1. scan'[p].pc = "idle"
      BY <1>1, <2>4 DEF Crash, Idle, Base, Shapes
    <3> QED BY <3>1, BetweenMatches
  <2> QED BY <2>1, <2>2, <2>3, <2>4
<1> QED BY <1>2, <1>3, TablesStay

\* No trade of the pair is open: what no active exposure means for the order.
LEMMA NoExposure ==
    ASSUME Base, NEW mod, NEW k, NEW ignore, NEW except,
           ~ActiveExposure(mod, k, ignore, except),
           \A s \in except : s \in Ids => real[s].open = 0
    PROVE  NoOpenTrade(mod, k)
<1> SUFFICES ASSUME NEW s \in Stored, signals[s].mod = mod, signals[s].key = k
             PROVE  real[s].open = 0
  BY DEF NoOpenTrade
<1>1. s \in Ids /\ real[s].open \in Nat
  BY Parts
<1>2. CASE s \in except
  BY <1>1, <1>2
<1>3. CASE s \notin except
  <2>1. ~(real[s].open > 0)
    BY <1>3 DEF ActiveExposure
  <2> QED BY <1>1, <2>1
<1> QED BY <1>2, <1>3

\* The symbol cooled down: no failure of the last ten minutes is left on it.
LEMMA NoRecentFailure ==
    ASSUME Base, \A s \in Ids : SignalOK(s), NEW sym, ~RecentSymbolFailure(sym)
    PROVE  Cooled(sym)
<1> SUFFICES ASSUME NEW s \in Stored, signals[s].mod = "laboratory",
                    SymbolOf[signals[s].key] = sym,
                    signals[s].out \in RetryableOutcomes
             PROVE  signals[s].age >= 2
  BY DEF Cooled
<1>1. s \in Ids /\ signals[s].age \in 0..3
  BY Parts DEF SignalType, Ages
<1>2. signals[s].st = "paper_approved"
  BY <1>1 DEF SignalOK
<1>3. /\ ~(signals[s].out = "bracket_not_accepted" /\ signals[s].age < 2)
      /\ ~(signals[s].out = "submission_failed" /\ signals[s].age < 3)
  BY <1>2 DEF RecentSymbolFailure
<1> QED BY <1>1, <1>3 DEF RetryableOutcomes

LEMMA DecideMatchPromises ==
    ASSUME ScannerInv, NEW p \in Scanners, DecideMatch(p)
    PROVE  Promises'
<1>1. PICK k \in scan[p].todo, m \in Matches :
         scan' = [scan EXCEPT ![p] = Decided(p, k, m)]
  BY DEF DecideMatch, Decided
<1> DEFINE n == Decided(p, k, m)
           mod == module[p]
           dups == Duplicates(mod, k, scan[p].bar)
<1>2. Base /\ (\A s \in Ids : SignalOK(s)) /\ scan[p].pc = "loop"
  BY DEF ScannerInv, Promises, DecideMatch
<1>3. /\ scan'[p] = n /\ \A q \in Scanners \ {p} : scan'[q] = scan[q]
      /\ UNCHANGED <<module, signals, real>>
  BY <1>1, <1>2 DEF DecideMatch, dbVars, Base, Shapes
<1>4. DecisionIs(p, k, m)
  BY <1>2, DecidedIs
<1> HIDE DEF n
<1>5. DecisionHolds(p)'
  <2>1. CASE /\ Verdict(p, k, m) = "store" /\ n.pc = "store" /\ n.key = k
             /\ n.order = (scan[p].exec /\ m.allowed)
             /\ n.bar = scan[p].bar
    <3>1. /\ dups = {}
          /\ ~ActiveExposure(mod, k, mod = "laboratory" /\ scan[p].exec, {})
          /\ mod = "laboratory" /\ scan[p].exec => ~RecentSymbolFailure(SymbolOf[k])
      BY <2>1, VerdictStores
    <3>2. NoOpenTrade(mod, k)
      BY <1>2, <3>1, NoExposure
    <3>3. mod = "laboratory" /\ scan[p].exec => Cooled(SymbolOf[k])
      BY <1>2, <3>1, NoRecentFailure
    <3>4. n.order => scan[p].exec
      BY <2>1
    <3> QED BY <1>3, <2>1, <3>1, <3>2, <3>3, <3>4
            DEF DecisionHolds, Ordering, NoOpenTrade, Cooled, Duplicates, Stored
  <2>2. CASE /\ Verdict(p, k, m) = "near_miss" /\ n.pc = "store" /\ n.key = k
             /\ ~n.order /\ n.bar = scan[p].bar
    <3>1. dups = {}
      BY <2>2, VerdictStores
    <3> QED BY <1>3, <2>2, <3>1 DEF DecisionHolds, Ordering, Duplicates, Stored
  <2>3. CASE /\ Verdict(p, k, m) = "retry" /\ n.pc = "submit" /\ n.key = k
             /\ n.sig = Min(dups) /\ n.sig \in dups
    <3>1. /\ CanSubmitDuplicate(n.sig, mod)
          /\ ~ActiveExposure(mod, k, mod = "laboratory", {n.sig})
          /\ mod = "laboratory" => ~RecentSymbolFailure(SymbolOf[k])
      <4>1. Verdict(p, k, m) = "retry" /\ Min(dups) = n.sig
        BY <2>3
      <4>2. /\ CanSubmitDuplicate(Min(dups), mod)
            /\ ~ActiveExposure(mod, k, mod = "laboratory", {Min(dups)})
            /\ mod = "laboratory" => ~RecentSymbolFailure(SymbolOf[k])
        BY <4>1, VerdictRetries, Zenon
      <4> QED BY <4>1, <4>2, Zenon
    <3>2. signals[n.sig].st = "paper_approved" /\ real[n.sig].open = 0
      BY <3>1 DEF CanSubmitDuplicate
    <3>3. NoOpenTrade(mod, k)
      BY <1>2, <3>1, <3>2, NoExposure
    <3>4. mod = "laboratory" => Cooled(SymbolOf[k])
      BY <1>2, <3>1, NoRecentFailure
    <3> QED BY <1>3, <2>3, <3>2, <3>3, <3>4
            DEF DecisionHolds, Ordering, NoOpenTrade, Cooled, Stored
  <2>4. CASE n.pc \in {"idle", "loop"}
    BY <1>3, <2>4, BetweenMatches
  <2> QED BY <1>4, <2>1, <2>2, <2>3, <2>4 DEF DecisionIs, n
<1> QED BY <1>3, <1>5, TablesStay

-----------------------------------------------------------------------------
\* A step of p that writes one signal of p's module is nothing to the others.
LEMMA OthersQuiet ==
    ASSUME Base, OnePerModule, NEW p \in Scanners, NEW q \in Scanners \ {p},
           NEW s \in Ids, NEW x \in SignalType, x.mod = module[p],
           signals' = [signals EXCEPT ![s] = x],
           \A t \in Ids \ {s} : real'[t].open = real[t].open
    PROVE  Quiet(q)
<1>1. module[q] # module[p]
  BY DEF OnePerModule
<1>2. signals'[s] = x /\ \A t \in Ids \ {s} : signals'[t] = signals[t]
  BY DEF Base, Shapes
<1> SUFFICES ASSUME NEW t \in Ids, signals'[t].st # "none", signals'[t].mod = module[q]
             PROVE  /\ t \in Stored /\ signals'[t] = signals[t]
                    /\ real'[t].open = real[t].open
                    /\ real[t].open \in Nat /\ signals[t].age \in 0..3
  BY DEF Quiet
<1>3. t # s
  BY <1>1, <1>2
<1>4. real[t].open \in Nat /\ signals[t].age \in 0..3
  BY Parts DEF SignalType, Ages
<1> QED BY <1>2, <1>3, <1>4 DEF Stored

\* One scanner writes one signal of its module: what is left to show of it.
LEMMA OneSignalWritten ==
    ASSUME ScannerInv, Base', NEW p \in Scanners,
           \A q \in Scanners \ {p} : scan'[q] = scan[q],
           UNCHANGED module, SignalsKept,
           NEW s \in Ids, NEW x \in SignalType, x.mod = module[p],
           signals' = [signals EXCEPT ![s] = x],
           \A t \in Ids \ {s} : real'[t].open = real[t].open,
           x.st = "pending_human_approval" => x.mod = "fox_hunter",
           x.out \in RetryableOutcomes => x.st = "paper_approved",
           \A t \in Stored \ {s} :
              /\ signals[t].mod = x.mod
              /\ signals[t].key = x.key
              /\ signals[t].bar = x.bar
              => "rejected" \in {signals[t].st, x.st},
           \/ x.mod = "fox_hunter"
           \/ real'[s].open = 0
           \/ /\ real'[s].open = 1
              /\ \A t \in Stored \ {s} : /\ signals[t].mod = x.mod
                                        /\ signals[t].key = x.key
                                        => real[t].open = 0,
           DecisionHolds(p)'
    PROVE  Promises'
<1>1. Base /\ OnePerModule /\ Promises
  BY DEF ScannerInv
<1>2. signals'[s] = x /\ \A t \in Ids \ {s} : signals'[t] = signals[t]
  BY <1>1 DEF Base, Shapes
<1>3. /\ real' \in [Ids -> [open : Nat, closed : Nat]]
      /\ signals' \in [Ids -> SignalType]
  BY DEF Base, Shapes
<1>4. ASSUME NEW q \in Scanners PROVE DecisionHolds(q)'
  <2>1. CASE q = p
    BY <2>1
  <2>2. CASE q # p
    <3>1. Quiet(q)
      BY <1>1, <2>2, OthersQuiet
    <3> QED BY <1>1, <1>3, <2>2, <3>1, QuietKeeps DEF Promises
  <2> QED BY <2>1, <2>2
<1>5. \A t \in Ids : SignalOK(t)'
  BY <1>1, <1>2 DEF Promises, SignalOK
<1>6. Stored' \ {s} = Stored \ {s}
  BY <1>2 DEF Stored
<1>7. OneSignalPerBar'
  <2> SUFFICES ASSUME NEW t \in Stored', NEW u \in Stored', t # u,
                      SameOpportunity(t, u)'
               PROVE  "rejected" \in {signals'[t].st, signals'[u].st}
    BY DEF OneSignalPerBar
  <2>1. CASE t # s /\ u # s
    <3>1. t \in Stored /\ u \in Stored /\ SameOpportunity(t, u)
      BY <1>2, <1>6, <2>1 DEF SameOpportunity, Stored
    <3> QED BY <1>1, <1>2, <2>1, <3>1 DEF Promises, OneSignalPerBar, Stored
  <2>2. CASE t = s
    BY <1>2, <1>6, <2>2 DEF SameOpportunity, Stored
  <2>3. CASE u = s
    BY <1>2, <1>6, <2>3 DEF SameOpportunity, Stored
  <2> QED BY <2>1, <2>2, <2>3
<1>8. OneOpenTradePerExposure'
  <2> SUFFICES ASSUME NEW t \in Stored', NEW u \in Stored',
                      signals'[t].mod = signals'[u].mod,
                      signals'[t].mod # "fox_hunter",
                      signals'[t].key = signals'[u].key,
                      real'[t].open > 0, real'[u].open > 0
               PROVE  t = u /\ real'[t].open = 1
    BY DEF OneOpenTradePerExposure
  <2>1. t \in Ids /\ u \in Ids
    BY DEF Stored
  <2>2. CASE t # s /\ u # s
    <3>1. t \in Stored /\ u \in Stored /\ signals'[t] = signals[t]
          /\ signals'[u] = signals[u] /\ real'[t].open = real[t].open
          /\ real'[u].open = real[u].open
      BY <1>2, <1>6, <2>1, <2>2
    <3> QED BY <1>1, <3>1 DEF Promises, OneOpenTradePerExposure
  <2>3. CASE t = s
    BY <1>2, <1>6, <2>1, <2>3
  <2>4. CASE u = s
    BY <1>2, <1>6, <2>1, <2>4
  <2> QED BY <2>2, <2>3, <2>4
<1> QED BY <1>4, <1>5, <1>7, <1>8 DEF Promises

LEMMA OrderAcceptedIs ==
    ASSUME Base, NEW p \in Scanners, OrderAccepted(p)
    PROVE  \E x \in SignalType :
              LET s == scan[p].sig IN
              /\ scan[p].pc = "placed" /\ s \in Stored
              /\ signals' = [signals EXCEPT ![s] = x]
              /\ x.st = "executed" /\ x.out = "submitted" /\ x.mod = module[p]
              /\ x.key = signals[s].key /\ x.bar = signals[s].bar
              /\ x.key = scan[p].key
              /\ real'[s].open = real[s].open + 1
              /\ \A t \in Ids \ {s} : real'[t].open = real[t].open
              /\ UNCHANGED module
              /\ \A q \in Scanners \ {p} : scan'[q] = scan[q]
              /\ scan'[p].pc \in {"idle", "loop"}
<1> DEFINE s == scan[p].sig
           x == [signals[s] EXCEPT !.st = "executed", !.out = "submitted",
                                   !.noOrder = FALSE, !.age = 0]
<1>1. /\ scan[p].pc = "placed"
      /\ signals' = [signals EXCEPT ![s].st = "executed", ![s].out = "submitted",
                                    ![s].noOrder = FALSE, ![s].age = 0]
      /\ real' = [real EXCEPT ![s].open = @ + 1]
      /\ scan' = [scan EXCEPT ![p] = NextMatch(scan[p])]
      /\ UNCHANGED module
  BY DEF OrderAccepted
<1>2. s \in Stored /\ signals[s].mod = module[p] /\ signals[s].key = scan[p].key
  BY <1>1 DEF Base, ScanOK
<1>3. s \in Ids /\ signals[s] \in SignalType /\ real[s] \in [open : Nat, closed : Nat]
  BY <1>2, Parts
<1>4. "executed" \in Statuses /\ "submitted" \in Outcomes /\ 0 \in Ages
  BY DEF Statuses, Outcomes, FinalOutcomes, Ages
<1>5. x \in SignalType
  BY <1>3, <1>4 DEF SignalType
<1>6. /\ x.st = "executed" /\ x.out = "submitted" /\ x.mod = signals[s].mod
      /\ x.key = signals[s].key /\ x.bar = signals[s].bar
  BY <1>3 DEF SignalType
<1>7. signals' = [signals EXCEPT ![s] = x]
  BY <1>1, <1>3 DEF Base, Shapes, SignalType
<1> HIDE DEF x
<1>8. real' = [real EXCEPT ![s] = [real[s] EXCEPT !.open = @ + 1]]
  BY <1>1, <1>3 DEF Base, Shapes
<1>9. /\ real'[s].open = real[s].open + 1
      /\ \A t \in Ids \ {s} : real'[t].open = real[t].open
  BY <1>3, <1>8 DEF Base, Shapes
<1>10. /\ \A q \in Scanners \ {p} : scan'[q] = scan[q]
       /\ scan'[p] = NextMatch(scan[p])
  BY <1>1 DEF Base, Shapes
<1>11. scan'[p].pc \in {"idle", "loop"}
  BY <1>10, Parts, NextMatchIs
<1> QED BY <1>1, <1>2, <1>5, <1>6, <1>7, <1>9, <1>10, <1>11

LEMMA OrderAcceptedPromises ==
    ASSUME ScannerInv, NEW p \in Scanners, OrderAccepted(p)
    PROVE  Promises'
<1>1. Base /\ Promises
  BY DEF ScannerInv
<1>2. Base'
  BY <1>1, OrderAcceptedBase
<1> DEFINE s == scan[p].sig
<1>3. PICK x \in SignalType :
         /\ scan[p].pc = "placed" /\ s \in Stored
         /\ signals' = [signals EXCEPT ![s] = x]
         /\ x.st = "executed" /\ x.out = "submitted" /\ x.mod = module[p]
         /\ x.key = signals[s].key /\ x.bar = signals[s].bar
         /\ x.key = scan[p].key
         /\ real'[s].open = real[s].open + 1
         /\ \A t \in Ids \ {s} : real'[t].open = real[t].open
         /\ UNCHANGED module
         /\ \A q \in Scanners \ {p} : scan'[q] = scan[q]
         /\ scan'[p].pc \in {"idle", "loop"}
  BY <1>1, OrderAcceptedIs
<1>4. s \in Ids /\ signals[s].mod = module[p] /\ signals[s].key = scan[p].key
  BY <1>1, <1>3, Parts DEF Base, ScanOK
<1>5. signals[s].st = "paper_approved" /\ NoOpenTrade(module[p], scan[p].key)
  BY <1>1, <1>3 DEF Promises, DecisionHolds, Ordering
<1>6. real'[s].open = 1 /\ \A t \in Stored \ {s} :
         /\ signals[t].mod = x.mod
         /\ signals[t].key = x.key
         => real[t].open = 0
  BY <1>3, <1>4, <1>5 DEF NoOpenTrade
<1>7. \A t \in Stored \ {s} :
         /\ signals[t].mod = x.mod
         /\ signals[t].key = x.key
         /\ signals[t].bar = x.bar
         => "rejected" \in {signals[t].st, x.st}
  BY <1>1, <1>3, <1>4, <1>5 DEF Promises, OneSignalPerBar, SameOpportunity
<1>8. DecisionHolds(p)'
  BY <1>3, BetweenMatches
<1>9. SignalsKept
  BY <1>1, <1>3, <1>4 DEF SignalsKept, Stored, Base, Shapes
<1>10. /\ x.st # "pending_human_approval" /\ x.out \notin RetryableOutcomes
  BY <1>3 DEF RetryableOutcomes
<1> HIDE DEF s
<1> QED BY <1>1, <1>2, <1>3, <1>4, <1>6, <1>7, <1>8, <1>9, <1>10, OneSignalWritten

LEMMA OrderFailsPromises ==
    ASSUME ScannerInv, NEW p \in Scanners,
           NEW f \in RetryableOutcomes \union {"final_failure"}, OrderFails(p, f)
    PROVE  Promises'
<1> DEFINE s == scan[p].sig
           x == FailedSignal(s, f)
           n == AfterFailure(p, f)
<1>1. Base /\ Promises
  BY DEF ScannerInv
<1>2. Base'
  BY <1>1, OrderFailsBase
<1>3. /\ scan[p].pc \in {"submit", "placed"} /\ s \in Ids
      /\ signals' = [signals EXCEPT ![s] = x]
      /\ x \in SignalType /\ x.st # "none"
      /\ x.mod = signals[s].mod /\ x.key = signals[s].key /\ x.bar = signals[s].bar
      /\ x.out = f /\ x.st \in {signals[s].st, "rejected"}
      /\ f # "final_failure" => x.st = signals[s].st
      /\ scan' = [scan EXCEPT ![p] = n]
      /\ n.pc \in {"idle", "loop"}
  BY <1>1, OrderFailsIs
<1> HIDE DEF x, n
<1>4. UNCHANGED <<module, real>>
  BY DEF OrderFails
<1>5. s \in Stored /\ signals[s].mod = module[p] /\ signals[s].key = scan[p].key
  BY <1>1, <1>3 DEF Base, ScanOK
<1>6. signals[s].st = "paper_approved" /\ NoOpenTrade(module[p], scan[p].key)
  BY <1>1, <1>3 DEF Promises, DecisionHolds, Ordering
<1>7. real'[s].open = 0
  BY <1>4, <1>5, <1>6 DEF NoOpenTrade
<1>8. \A t \in Stored \ {s} :
         /\ signals[t].mod = x.mod
         /\ signals[t].key = x.key
         /\ signals[t].bar = x.bar
         => "rejected" \in {signals[t].st, x.st}
  BY <1>1, <1>3, <1>5, <1>6 DEF Promises, OneSignalPerBar, SameOpportunity
<1>9. scan'[p] = n /\ \A q \in Scanners \ {p} : scan'[q] = scan[q]
  BY <1>1, <1>3 DEF Base, Shapes
<1>10. DecisionHolds(p)'
  BY <1>3, <1>9, BetweenMatches
<1>11. SignalsKept
  BY <1>1, <1>3 DEF SignalsKept, Stored, Base, Shapes
<1>12. x.st # "pending_human_approval"
  BY <1>3, <1>6
<1>13. x.out \in RetryableOutcomes => x.st = "paper_approved"
  BY <1>3, <1>6 DEF RetryableOutcomes
<1>14. x.mod = module[p] /\ \A t \in Ids \ {s} : real'[t].open = real[t].open
  BY <1>3, <1>4, <1>5
<1>15. /\ x.st = "pending_human_approval" => x.mod = "fox_hunter"
       /\ \/ x.mod = "fox_hunter"
          \/ real'[s].open = 0
          \/ /\ real'[s].open = 1
             /\ \A t \in Stored \ {s} : /\ signals[t].mod = x.mod
                                       /\ signals[t].key = x.key
                                       => real[t].open = 0
  BY <1>7, <1>12
<1>16. x \in SignalType /\ signals' = [signals EXCEPT ![s] = x] /\ s \in Ids
  BY <1>3
<1>17. UNCHANGED module /\ \A q \in Scanners \ {p} : scan'[q] = scan[q]
  BY <1>4, <1>9
<1> HIDE DEF s
<1> QED BY <1>2, <1>8, <1>10, <1>11, <1>13, <1>14, <1>15, <1>16, <1>17,
           OneSignalWritten

LEMMA StoreSignalPromises ==
    ASSUME ScannerInv, NEW p \in Scanners, StoreSignal(p)
    PROVE  Promises'
<1>1. Base /\ Promises
  BY DEF ScannerInv
<1>2. Base'
  BY <1>1, StoreSignalBase
<1>3. PICK s \in Ids \ Stored : StoreIs(p, s)
  BY <1>1, StoreSignalIs
<1> DEFINE x == NewSignal(p)
           n == AfterStore(p, s)
<1>4. /\ signals' = [signals EXCEPT ![s] = x]
      /\ scan' = [scan EXCEPT ![p] = n]
      /\ x \in SignalType
      /\ x.mod = module[p] /\ x.key = scan[p].key /\ x.bar = scan[p].bar
      /\ x.out \in {"none", "no_order"}
      /\ x.st = "pending_human_approval" => module[p] = "fox_hunter"
      /\ scan[p].order => x.st = "paper_approved"
      /\ \/ scan[p].order /\ n.pc = "submit" /\ n.sig = s /\ n.key = scan[p].key
         \/ n.pc \in {"idle", "loop", "observe"}
  BY <1>3 DEF StoreIs
<1> HIDE DEF x, n
<1>5. /\ scan[p].pc = "store"
      /\ UNCHANGED <<module, real>>
  BY DEF StoreSignal
<1>6. signals'[s] = x /\ \A t \in Ids \ {s} : signals'[t] = signals[t]
  BY <1>1, <1>4 DEF Base, Shapes
<1>7. Duplicates(module[p], scan[p].key, scan[p].bar) = {}
  BY <1>1, <1>5 DEF Promises, DecisionHolds
<1>8. \A t \in Stored \ {s} :
         /\ signals[t].mod = x.mod
         /\ signals[t].key = x.key
         /\ signals[t].bar = x.bar
         => "rejected" \in {signals[t].st, x.st}
  BY <1>4, <1>7 DEF Duplicates
<1>9. real'[s].open = 0
  BY <1>1, <1>5 DEF Base, StoredInOrder
<1>10. SignalsKept
  BY <1>6 DEF SignalsKept, Stored
<1>11. scan'[p] = n /\ \A q \in Scanners \ {p} : scan'[q] = scan[q]
  BY <1>1, <1>4 DEF Base, Shapes
<1>12. x.out \notin RetryableOutcomes
  BY <1>4 DEF RetryableOutcomes
<1>13. DecisionHolds(p)'
  <2>1. CASE scan[p].order /\ n.pc = "submit" /\ n.sig = s /\ n.key = scan[p].key
    <3>1. /\ NoOpenTrade(module[p], scan[p].key)
          /\ module[p] = "laboratory" => Cooled(SymbolOf[scan[p].key])
      BY <1>1, <1>5, <2>1 DEF Promises, DecisionHolds, Ordering
    <3>2. NoOpenTrade(module[p], scan[p].key)'
      <4> SUFFICES ASSUME NEW t \in Ids, signals'[t].st # "none",
                          signals'[t].mod = module[p], signals'[t].key = scan[p].key
                   PROVE  real'[t].open = 0
        BY <1>5, <1>11, <2>1 DEF NoOpenTrade, Stored
      <4>1. CASE t = s
        BY <1>9, <4>1
      <4>2. CASE t # s
        BY <1>5, <1>6, <3>1, <4>2 DEF NoOpenTrade, Stored
      <4> QED BY <4>1, <4>2
    <3>3. ASSUME module[p] = "laboratory"
          PROVE  Cooled(SymbolOf[scan[p].key])'
      <4> SUFFICES ASSUME NEW t \in Ids, signals'[t].st # "none",
                          signals'[t].mod = "laboratory",
                          SymbolOf[signals'[t].key] = SymbolOf[scan[p].key],
                          signals'[t].out \in RetryableOutcomes
                   PROVE  signals'[t].age >= 2
        BY <1>11, <2>1 DEF Cooled, Stored
      <4>1. t # s
        BY <1>6, <1>12
      <4> QED BY <1>6, <3>1, <3>3, <4>1 DEF Cooled, Stored
    <3>4. signals'[s].st = "paper_approved"
      BY <1>4, <1>6, <2>1
    <3> QED BY <1>5, <1>11, <2>1, <3>2, <3>3, <3>4 DEF DecisionHolds
  <2>2. CASE n.pc \in {"idle", "loop", "observe"}
    BY <1>11, <2>2, BetweenMatches
  <2> QED BY <1>4, <2>1, <2>2
<1>14. \A t \in Ids \ {s} : real'[t].open = real[t].open
  BY <1>5
<1>15. /\ x.st = "pending_human_approval" => x.mod = "fox_hunter"
       /\ x.out \in RetryableOutcomes => x.st = "paper_approved"
       /\ \/ x.mod = "fox_hunter"
          \/ real'[s].open = 0
          \/ /\ real'[s].open = 1
             /\ \A t \in Stored \ {s} : /\ signals[t].mod = x.mod
                                       /\ signals[t].key = x.key
                                       => real[t].open = 0
  BY <1>4, <1>9, <1>12
<1>16. x \in SignalType /\ x.mod = module[p] /\ signals' = [signals EXCEPT ![s] = x]
  BY <1>4
<1>17. UNCHANGED module /\ \A q \in Scanners \ {p} : scan'[q] = scan[q]
  BY <1>5, <1>11
<1> QED BY <1>2, <1>8, <1>10, <1>13, <1>14, <1>15, <1>16, <1>17, OneSignalWritten

LEMMA TradesOnlyClose ==
    ASSUME Base, NEW s \in Ids, TradeCloses(s)
    PROVE  \A t \in Ids : real'[t].open <= real[t].open
<1> TAKE t \in Ids
<1>1. real[t] \in [open : Nat, closed : Nat]
  BY Parts
<1>2. real' = [real EXCEPT ![s] = [[real[s] EXCEPT !.open = @ - 1] EXCEPT !.closed = @ + 1]]
  BY DEF TradeCloses, Base, Shapes
<1>3. CASE t = s
  <2> DEFINE z == [real[s] EXCEPT !.open = @ - 1]
  <2>1. DOMAIN z = {"open", "closed"} /\ z.open = real[s].open - 1
    BY <1>1, <1>3
  <2>2. real'[t] = [z EXCEPT !.closed = @ + 1]
    BY <1>2, <1>3 DEF Base, Shapes
  <2> HIDE DEF z
  <2>3. real'[t].open = real[s].open - 1
    BY <2>1, <2>2
  <2> QED BY <1>1, <1>3, <2>3
<1>4. CASE t # s
  BY <1>1, <1>2, <1>4 DEF Base, Shapes
<1> QED BY <1>3, <1>4

LEMMA TradeClosesPromises ==
    ASSUME ScannerInv, NEW s \in Ids, TradeCloses(s)
    PROVE  Promises'
<1>1. Base /\ Promises
  BY DEF ScannerInv
<1>2. Base'
  BY <1>1, TradeClosesBase
<1>3. UNCHANGED <<module, signals, scan>>
  BY DEF TradeCloses
<1>4. /\ real' \in [Ids -> [open : Nat, closed : Nat]]
      /\ signals' \in [Ids -> SignalType]
  BY <1>2 DEF Base, Shapes
<1>5. \A t \in Ids : real'[t].open <= real[t].open /\ real[t].open \in Nat
  BY <1>1, TradesOnlyClose, Parts
<1>6. SignalsKept /\ \A q \in Scanners : Quiet(q)
  BY <1>1, <1>3, <1>5, Parts DEF SignalsKept, Stored, Quiet, SignalType, Ages
<1>7. \A q \in Scanners : DecisionHolds(q)'
  BY <1>1, <1>3, <1>4, <1>6, QuietKeeps DEF Promises
<1>8. (\A t \in Ids : SignalOK(t))' /\ OneSignalPerBar'
  BY <1>1, <1>3 DEF Promises, SignalOK, OneSignalPerBar, SameOpportunity, Stored
<1>9. OneOpenTradePerExposure'
  <2> SUFFICES ASSUME NEW t \in Stored, NEW u \in Stored,
                      signals[t].mod = signals[u].mod,
                      signals[t].mod # "fox_hunter",
                      signals[t].key = signals[u].key,
                      real'[t].open > 0, real'[u].open > 0
               PROVE  t = u /\ real'[t].open = 1
    BY <1>3 DEF OneOpenTradePerExposure, Stored
  <2>1. t \in Ids /\ u \in Ids /\ real'[t].open \in Nat /\ real'[u].open \in Nat
    BY <1>4 DEF Stored
  <2>2. real[t].open > 0 /\ real[u].open > 0
    BY <1>5, <2>1
  <2>3. t = u /\ real[t].open = 1
    BY <1>1, <2>2 DEF Promises, OneOpenTradePerExposure
  <2>4. real'[t].open <= real[t].open
    BY <1>5, <2>1
  <2> QED BY <2>1, <2>3, <2>4
<1> QED BY <1>7, <1>8, <1>9 DEF Promises

LEMMA TickPromises ==
    ASSUME ScannerInv, Tick
    PROVE  Promises'
<1>1. Base /\ Promises
  BY DEF ScannerInv
<1>2. /\ real' \in [Ids -> [open : Nat, closed : Nat]]
      /\ signals' \in [Ids -> SignalType]
      /\ UNCHANGED <<module, real, scan>>
      /\ \A s \in Ids : /\ signals'[s].st = signals[s].st
                        /\ signals'[s].mod = signals[s].mod
                        /\ signals'[s].key = signals[s].key
                        /\ signals'[s].bar = signals[s].bar
                        /\ signals'[s].out = signals[s].out
                        /\ signals'[s].age >= signals[s].age
  BY <1>1, TickIs DEF Base, Shapes
<1>3. Stored' = Stored /\ Stored \subseteq Ids
  BY <1>2 DEF Stored
<1>4. SignalsKept /\ \A q \in Scanners : Quiet(q)
  BY <1>1, <1>2, Parts DEF SignalsKept, Stored, Quiet
<1>5. \A q \in Scanners : DecisionHolds(q)'
  BY <1>1, <1>2, <1>4, QuietKeeps DEF Promises
<1>6. \A t \in Ids : SignalOK(t)'
  BY <1>1, <1>2 DEF Promises, SignalOK
<1>7. OneSignalPerBar'
  BY <1>1, <1>2, <1>3 DEF Promises, OneSignalPerBar, SameOpportunity
<1>8. OneOpenTradePerExposure'
  BY <1>1, <1>2, <1>3 DEF Promises, OneOpenTradePerExposure
<1> QED BY <1>5, <1>6, <1>7, <1>8 DEF Promises

LEMMA HumanDecidesPromises ==
    ASSUME ScannerInv, NEW s \in Ids, HumanDecides(s)
    PROVE  Promises'
<1>1. Base /\ Promises
  BY DEF ScannerInv
<1>2. Base'
  BY <1>1, HumanDecidesBase
<1>3. PICK x \in SignalType :
         /\ signals[s].st = "pending_human_approval"
         /\ signals' = [signals EXCEPT ![s] = x]
         /\ x.st \in {"executed", "rejected"}
         /\ x.mod = signals[s].mod /\ x.key = signals[s].key
         /\ x.bar = signals[s].bar
         /\ x.out \in {signals[s].out, "submitted"}
         /\ UNCHANGED <<module, scan>>
  BY <1>1, HumanDecidesIs
<1>4. /\ s \in Stored
      /\ \A t \in Ids \ {s} : real'[t].open = real[t].open
  BY <1>1, HumanTrades
<1>5. /\ real' \in [Ids -> [open : Nat, closed : Nat]]
      /\ signals' \in [Ids -> SignalType]
  BY <1>2 DEF Base, Shapes
<1>6. signals[s].mod = "fox_hunter" /\ x.out \notin RetryableOutcomes
  BY <1>1, <1>3 DEF Promises, SignalOK, RetryableOutcomes
<1>7. signals'[s] = x /\ \A t \in Ids \ {s} : signals'[t] = signals[t]
  BY <1>1, <1>3 DEF Base, Shapes
<1>8. SignalsKept /\ Stored' = Stored
  BY <1>3, <1>4, <1>7 DEF SignalsKept, Stored
<1>9. ASSUME NEW q \in Scanners PROVE Quiet(q)
  <2> SUFFICES ASSUME NEW t \in Ids, signals'[t].st # "none", signals'[t].mod = module[q]
               PROVE  /\ t \in Stored
                      /\ signals[t].mod = module[q]
                      /\ signals'[t].key = signals[t].key
                      /\ signals'[t].bar = signals[t].bar
                      /\ signals[t].st = "rejected" => signals'[t].st = "rejected"
                      /\ signals[t].st = "paper_approved" =>
                            signals'[t].st = "paper_approved"
                      /\ signals'[t].out \in RetryableOutcomes =>
                            /\ signals'[t].out = signals[t].out
                            /\ signals'[t].age >= signals[t].age
                      /\ module[q] # "fox_hunter" => real'[t].open <= real[t].open
    BY DEF Quiet
  <2>1. CASE t = s
    BY <1>3, <1>4, <1>6, <1>7, <2>1
  <2>2. CASE t # s
    <3>1. signals'[t] = signals[t] /\ real'[t].open = real[t].open
      BY <1>4, <1>7, <2>2
    <3>2. real[t].open \in Nat /\ signals[t].age \in 0..3
      BY <1>1, Parts DEF SignalType, Ages
    <3> QED BY <3>1, <3>2 DEF Stored
  <2> QED BY <2>1, <2>2
<1>10. \A q \in Scanners : DecisionHolds(q)'
  BY <1>1, <1>3, <1>5, <1>8, <1>9, QuietKeeps DEF Promises
<1>11. \A t \in Ids : SignalOK(t)'
  BY <1>1, <1>3, <1>6, <1>7 DEF Promises, SignalOK
<1>12. OneSignalPerBar'
  <2> SUFFICES ASSUME NEW t \in Stored, NEW u \in Stored, t # u,
                      SameOpportunity(t, u)'
               PROVE  "rejected" \in {signals'[t].st, signals'[u].st}
    BY <1>8 DEF OneSignalPerBar
  <2>1. t \in Ids /\ u \in Ids
    BY DEF Stored
  <2>2. \A v \in Ids : /\ signals'[v].mod = signals[v].mod
                       /\ signals'[v].key = signals[v].key
                       /\ signals'[v].bar = signals[v].bar
                       /\ signals[v].st = "rejected" => signals'[v].st = "rejected"
    BY <1>3, <1>7
  <2>3. SameOpportunity(t, u)
    BY <2>1, <2>2 DEF SameOpportunity
  <2>4. "rejected" \in {signals[t].st, signals[u].st}
    BY <1>1, <2>3 DEF Promises, OneSignalPerBar
  <2> QED BY <2>1, <2>2, <2>4
<1>13. OneOpenTradePerExposure'
  <2> SUFFICES ASSUME NEW t \in Stored, NEW u \in Stored,
                      signals'[t].mod = signals'[u].mod,
                      signals'[t].mod # "fox_hunter",
                      signals'[t].key = signals'[u].key,
                      real'[t].open > 0, real'[u].open > 0
               PROVE  t = u /\ real'[t].open = 1
    BY <1>8 DEF OneOpenTradePerExposure
  <2>1. t \in Ids /\ u \in Ids /\ t # s /\ u # s
    BY <1>3, <1>6, <1>7 DEF Stored
  <2>2. /\ signals'[t] = signals[t] /\ signals'[u] = signals[u]
        /\ real'[t].open = real[t].open /\ real'[u].open = real[u].open
    BY <1>4, <1>7, <2>1
  <2> QED BY <1>1, <2>2 DEF Promises, OneOpenTradePerExposure
<1> QED BY <1>10, <1>11, <1>12, <1>13 DEF Promises

LEMMA PromisesInit ==
    ASSUME Init
    PROVE  Promises
<1>1. Stored = {}
  BY DEF Init, Stored, NoSignal
<1>2. \A s \in Ids : SignalOK(s)
  BY DEF Init, SignalOK, NoSignal, RetryableOutcomes
<1>3. \A p \in Scanners : DecisionHolds(p)
  BY DEF Init, DecisionHolds, Ordering, Idle
<1> QED BY <1>1, <1>2, <1>3 DEF Promises, OneSignalPerBar, OneOpenTradePerExposure

LEMMA PromisesNext ==
    ASSUME ScannerInv, [Next]_vars
    PROVE  Promises'
<1>1. CASE UNCHANGED vars
  BY <1>1, TablesStay DEF vars, dbVars
<1>2. CASE ToggleKillSwitch \/ NewBar
  BY <1>2, TablesStay DEF ToggleKillSwitch, NewBar, dbVars
<1>3. CASE \E p \in Scanners :
             \/ \E req \in BOOLEAN : BeginScan(p, req)
             \/ OpenObservation(p)
             \/ PlaceBracket(p)
             \/ Crash(p)
  BY <1>3, ScanStepPromises
<1>4. CASE \E p \in Scanners :
             \/ DecideMatch(p)
             \/ StoreSignal(p)
             \/ OrderAccepted(p)
             \/ \E f \in RetryableOutcomes \union {"final_failure"} : OrderFails(p, f)
  BY <1>4, DecideMatchPromises, StoreSignalPromises, OrderAcceptedPromises,
     OrderFailsPromises
<1>5. CASE \E s \in Ids : TradeCloses(s) \/ HumanDecides(s)
  BY <1>5, TradeClosesPromises, HumanDecidesPromises
<1>6. CASE Tick
  BY <1>6, TickPromises
<1> QED BY <1>1, <1>2, <1>3, <1>4, <1>5, <1>6 DEF Next

LEMMA ModulesStay ==
    ASSUME [Next]_vars
    PROVE  UNCHANGED module
  BY DEF Next, vars, dbVars, BeginScan, DecideMatch, StoreSignal, OpenObservation,
         PlaceBracket, OrderAccepted, OrderFails, Crash, TradeCloses, HumanDecides,
         ToggleKillSwitch, NewBar, Tick

-----------------------------------------------------------------------------
\* With one scan of a module at a time, what a scan read when it decided still
\* holds when it acts, whatever other modules' scans, the human, the exits of
\* trades and the restarts do in between.
THEOREM ScannerInvariant == Spec /\ OnePerModule => []ScannerInv
<1>1. Init /\ OnePerModule => ScannerInv
  BY BaseInit, PromisesInit DEF ScannerInv
<1>2. ScannerInv /\ [Next]_vars => ScannerInv'
  <2> SUFFICES ASSUME ScannerInv, [Next]_vars PROVE ScannerInv'
    OBVIOUS
  <2>1. OnePerModule'
    BY ModulesStay DEF ScannerInv, OnePerModule
  <2>2. Base' /\ Promises'
    BY BaseNext, PromisesNext DEF ScannerInv
  <2> QED BY <2>1, <2>2 DEF ScannerInv
<1> QED BY <1>1, <1>2, PTL DEF Spec

\* The scan stores and orders nothing twice for a bar: _duplicate_signal keeps
\* the signals of a module, pair and bar that were not rejected down to one.
THEOREM OneSignalStored == Spec /\ OnePerModule => []OneSignalPerBar
<1>1. ScannerInv => OneSignalPerBar
  BY DEF ScannerInv, Promises
<1> QED BY <1>1, ScannerInvariant, PTL

\* _has_active_exposure keeps the open trades of a pair and module down to one.
THEOREM OneTradeOpen == Spec /\ OnePerModule => []OneOpenTradePerExposure
<1>1. ScannerInv => OneOpenTradePerExposure
  BY DEF ScannerInv, Promises
<1> QED BY <1>1, ScannerInvariant, PTL

\* No bracket of the Laboratory goes out on a symbol of which an order failed in
\* the last ten minutes, in this scan or in an earlier one.
THEOREM CooldownKept == Spec /\ OnePerModule => SymbolCooldownKept
<1> DEFINE Kept ==
      \A p \in Scanners :
          module[p] = "laboratory" /\ brackets' # brackets /\ PlaceBracket(p) =>
              \A s \in Stored :
                  /\ signals[s].mod = "laboratory"
                  /\ SymbolOf[signals[s].key] = SymbolOf[scan[p].key]
                  /\ signals[s].out \in RetryableOutcomes
                  => signals[s].age >= 2
<1>1. ScannerInv => [Kept]_vars
  <2> SUFFICES ASSUME ScannerInv, NEW p \in Scanners,
                      module[p] = "laboratory", PlaceBracket(p)
               PROVE  Cooled(SymbolOf[scan[p].key])
    BY DEF Cooled
  <2>1. Ordering(p)
    BY DEF PlaceBracket, Ordering
  <2> QED BY <2>1 DEF ScannerInv, Promises, DecisionHolds
<1>2. SymbolCooldownKept <=> [][Kept]_vars
  BY PTL DEF SymbolCooldownKept
<1> HIDE DEF Kept
<1> QED BY <1>1, <1>2, ScannerInvariant, PTL

-----------------------------------------------------------------------------
DailyTrades == OpenTrades(DailySignals)

\* The cap that a daily scan read when it decided still has room when it orders.
RoomLeft(p) == module[p] = "daily" /\ Ordering(p) => Cardinality(DailyTrades) < MaxOpen

CapInv ==
    /\ IsFiniteSet(OpenTrades(Ids))
    /\ DailyPositionsCapped
    /\ \A p \in Scanners : RoomLeft(p)

LEMMA TradesFinite ==
    ASSUME Base, IsFiniteSet(OpenTrades(Ids))
    PROVE  /\ IsFiniteSet(DailyTrades) /\ Cardinality(DailyTrades) \in Nat
           /\ OpenPositions \in Nat /\ Cardinality(DailyTrades) <= OpenPositions
<1>1. DailyTrades \in SUBSET OpenTrades(Ids)
  BY DEF DailyTrades, OpenTrades, DailySignals, Stored
<1>2. IsFiniteSet(DailyTrades) /\ Cardinality(DailyTrades) <= OpenPositions
  BY <1>1, FS_Subset DEF OpenPositions
<1> QED BY <1>2, FS_CardinalityType DEF OpenPositions

\* No trade is opened.
LEMMA NoneOpened ==
    ASSUME Base, Base', CapInv,
           \A s \in Ids : real'[s].open <= real[s].open,
           \A s \in Ids : s \in DailySignals' /\ real[s].open > 0 => s \in DailySignals
    PROVE  /\ IsFiniteSet(OpenTrades(Ids)')
           /\ Cardinality(DailyTrades') <= Cardinality(DailyTrades)
<1>1. \A s \in Ids : 1..real'[s].open \subseteq 1..real[s].open
  <2> TAKE s \in Ids
  <2>1. real'[s].open \in Nat /\ real[s].open \in Nat
    BY Parts DEF Base, Shapes
  <2> QED BY <2>1
<1>2. OpenTrades(Ids)' \in SUBSET OpenTrades(Ids)
  BY <1>1 DEF OpenTrades
<1>3. DailyTrades' \in SUBSET DailyTrades
  <2> SUFFICES ASSUME NEW s \in DailySignals', NEW i \in 1..real'[s].open
               PROVE  s \in DailySignals /\ i \in 1..real[s].open
    BY DEF DailyTrades, OpenTrades
  <2>1. s \in Ids /\ i \in 1..real[s].open
    BY <1>1 DEF DailySignals, Stored
  <2>2. real[s].open > 0
    BY <2>1, Parts
  <2> QED BY <2>1, <2>2
<1>4. IsFiniteSet(OpenTrades(Ids)')
  BY <1>2, FS_Subset DEF CapInv
<1>5. IsFiniteSet(DailyTrades)
  BY TradesFinite DEF CapInv
<1> QED BY <1>3, <1>4, <1>5, FS_Subset

\* The trade of s is opened.
LEMMA OneOpened ==
    ASSUME Base, Base', CapInv, NEW s \in Ids,
           real'[s].open = real[s].open + 1,
           \A t \in Ids \ {s} : real'[t].open = real[t].open,
           DailySignals' = DailySignals
    PROVE  /\ IsFiniteSet(OpenTrades(Ids)')
           /\ Cardinality(DailyTrades')
                 <= Cardinality(DailyTrades) + One(s \in DailySignals)
<1> DEFINE e == <<s, real[s].open + 1>>
<1>1. \A t \in Ids : \A i \in 1..real'[t].open :
         i \in 1..real[t].open \/ <<t, i>> = e
  <2> TAKE t \in Ids
  <2> TAKE i \in 1..real'[t].open
  <2>1. real[t].open \in Nat
    BY Parts
  <2>2. CASE t = s
    BY <2>1, <2>2
  <2>3. CASE t # s
    BY <2>3
  <2> QED BY <2>2, <2>3
<1> HIDE DEF e
<1>2. OpenTrades(Ids)' \in SUBSET (OpenTrades(Ids) \union {e})
  BY <1>1 DEF OpenTrades
<1>3. IsFiniteSet(OpenTrades(Ids)')
  <2>1. IsFiniteSet(OpenTrades(Ids) \union {e})
    BY FS_AddElement DEF CapInv
  <2> QED BY <1>2, <2>1, FS_Subset
<1>4. IsFiniteSet(DailyTrades) /\ Cardinality(DailyTrades) \in Nat
  BY TradesFinite DEF CapInv
<1>5. DailySignals \subseteq Ids
  BY DEF DailySignals, Stored
<1>6. CASE s \in DailySignals
  <2>1. DailyTrades' \in SUBSET (DailyTrades \union {e})
    BY <1>1, <1>5 DEF DailyTrades, OpenTrades
  <2>2. /\ IsFiniteSet(DailyTrades \union {e})
        /\ Cardinality(DailyTrades \union {e}) =
              IF e \in DailyTrades THEN Cardinality(DailyTrades)
              ELSE Cardinality(DailyTrades) + 1
    BY <1>4, FS_AddElement
  <2>3. /\ IsFiniteSet(DailyTrades')
        /\ Cardinality(DailyTrades') <= Cardinality(DailyTrades \union {e})
    BY <2>1, <2>2, FS_Subset
  <2>4. Cardinality(DailyTrades') \in Nat
    BY <2>3, FS_CardinalityType
  <2>5. One(s \in DailySignals) = 1
    BY <1>6 DEF One
  <2> QED BY <1>3, <1>4, <2>2, <2>3, <2>4, <2>5
<1>7. CASE s \notin DailySignals
  <2>1. DailyTrades' = DailyTrades
    BY <1>5, <1>7 DEF DailyTrades, OpenTrades
  <2>2. One(s \in DailySignals) = 0
    BY <1>7 DEF One
  <2> QED BY <1>3, <1>4, <2>1, <2>2
<1> QED BY <1>6, <1>7

\* A verdict that orders has read the cap.
LEMMA VerdictReadsCap ==
    ASSUME NEW p, NEW k, NEW m, Verdict(p, k, m) \in {"store", "retry"},
           module[p] # "laboratory"
    PROVE  OpenPositions < MaxOpen
<1>1. \A b, store : \A ok :
         NearMissVerdict(module[p], k, b, ok, store) \notin {"store", "retry"}
  BY DEF NearMissVerdict
<1>2. \A d : DuplicateVerdict(p, d, k, m) # "store"
  BY DEF DuplicateVerdict
<1>3. \A d : DuplicateVerdict(p, d, k, m) = "retry" => RiskApproves(module[p], m.ok)
  BY DEF DuplicateVerdict
<1>4. RiskApproves(module[p], m.ok)
  BY <1>1, <1>2, <1>3 DEF Verdict
<1> QED BY <1>4 DEF RiskApproves

\* The daily trades do not grow, and who orders has read the cap or did so before.
LEMMA CapKept ==
    ASSUME Base, CapInv, UNCHANGED module, IsFiniteSet(OpenTrades(Ids)'), Base',
           Cardinality(DailyTrades') <= Cardinality(DailyTrades),
           \A q \in Scanners : /\ module[q] = "daily"
                               /\ Ordering(q)'
                               => Ordering(q) \/ Cardinality(DailyTrades) < MaxOpen
    PROVE  CapInv'
<1>1. Cardinality(DailyTrades) \in Nat /\ Cardinality(DailyTrades') \in Nat
  <2>1. Cardinality(DailyTrades) \in Nat
    BY TradesFinite DEF CapInv
  <2>2. DailyTrades' \in SUBSET OpenTrades(Ids)'
    BY DEF DailyTrades, OpenTrades, DailySignals, Stored
  <2>3. IsFiniteSet(DailyTrades')
    BY <2>2, FS_Subset
  <2> QED BY <2>1, <2>3, FS_CardinalityType
<1>2. MaxOpen \in Nat
  BY ScannerAssumption
<1>3. DailyPositionsCapped'
  BY <1>1, <1>2 DEF CapInv, DailyPositionsCapped, DailyTrades
<1>4. \A q \in Scanners : RoomLeft(q)'
  BY <1>1, <1>2 DEF CapInv, RoomLeft
<1> QED BY <1>3, <1>4 DEF CapInv

\* Steps that leave the trades and the signals' modules alone.
LEMMA CapUntouched ==
    ASSUME Base, Base', CapInv, UNCHANGED module,
           \A s \in Ids : real'[s].open <= real[s].open,
           \A s \in Ids : s \in Stored' /\ real[s].open > 0 =>
              s \in Stored /\ signals'[s].mod = signals[s].mod,
           \A q \in Scanners : /\ module[q] = "daily"
                               /\ Ordering(q)'
                               => Ordering(q) \/ Cardinality(DailyTrades) < MaxOpen
    PROVE  CapInv'
<1>1. \A s \in Ids : s \in DailySignals' /\ real[s].open > 0 => s \in DailySignals
  BY DEF DailySignals
<1>2. /\ IsFiniteSet(OpenTrades(Ids)')
      /\ Cardinality(DailyTrades') <= Cardinality(DailyTrades)
  BY <1>1, NoneOpened
<1> QED BY <1>2, CapKept

LEMMA CapInit ==
    ASSUME Init
    PROVE  CapInv
<1>1. OpenTrades(Ids) = {} /\ DailyTrades = {}
  BY DEF Init, OpenTrades, DailyTrades, DailySignals, Stored, NoSignal
<1>2. IsFiniteSet(OpenTrades(Ids)) /\ Cardinality(DailyTrades) = 0
  BY <1>1, FS_EmptySet
<1>3. DailyPositionsCapped
  BY <1>2, ScannerAssumption DEF DailyPositionsCapped, DailyTrades
<1>4. \A p \in Scanners : RoomLeft(p)
  BY DEF Init, RoomLeft, Ordering, Idle
<1> QED BY <1>2, <1>3, <1>4 DEF CapInv

LEMMA CapScanStep ==
    ASSUME ScannerInv, Base', CapInv, NEW p \in Scanners,
           \/ \E req \in BOOLEAN : BeginScan(p, req)
           \/ OpenObservation(p)
           \/ PlaceBracket(p)
           \/ Crash(p)
    PROVE  CapInv'
<1>1. Base
  BY DEF ScannerInv
<1>2. /\ UNCHANGED <<module, signals, real>>
      /\ \A q \in Scanners \ {p} : scan'[q] = scan[q]
  BY <1>1 DEF BeginScan, OpenObservation, PlaceBracket, Crash, dbVars, Base, Shapes
<1>3. Ordering(p)' => Ordering(p)
  <2>1. CASE \E req \in BOOLEAN : BeginScan(p, req)
    <3>1. PICK req \in BOOLEAN : BeginScan(p, req)
      BY <2>1
    <3>2. PICK todo \in SUBSET Keys :
             scan' = [scan EXCEPT ![p] =
                         IF todo = {} THEN Idle
                         ELSE [Idle EXCEPT !.pc = "loop", !.todo = todo,
                                           !.exec = Executes(p, req),
                                           !.req = req, !.bar = bar]]
      BY <3>1 DEF BeginScan
    <3> DEFINE n == IF todo = {} THEN Idle
                    ELSE [Idle EXCEPT !.pc = "loop", !.todo = todo,
                                      !.exec = Executes(p, req),
                                      !.req = req, !.bar = bar]
    <3>3. n.pc \in {"idle", "loop"} /\ scan' = [scan EXCEPT ![p] = n]
      BY <3>2 DEF Idle
    <3> HIDE DEF n
    <3>4. scan'[p].pc \in {"idle", "loop"}
      BY <1>1, <3>3 DEF Base, Shapes
    <3> QED BY <3>4 DEF Ordering
  <2>2. CASE OpenObservation(p)
    <3>1. scan'[p] = NextMatch(scan[p])
      BY <1>1, <2>2 DEF OpenObservation, Base, Shapes
    <3>2. scan'[p].pc \in {"idle", "loop"}
      BY <1>1, <3>1, Parts, NextMatchIs
    <3> QED BY <3>2 DEF Ordering
  <2>3. CASE PlaceBracket(p)
    BY <2>3 DEF PlaceBracket, Ordering
  <2>4. CASE Crash(p)
    <3>1. scan'[p].pc = "idle"
      BY <1>1, <2>4 DEF Crash, Idle, Base, Shapes
    <3> QED BY <3>1 DEF Ordering
  <2> QED BY <2>1, <2>2, <2>3, <2>4
<1>4. \A q \in Scanners : Ordering(q)' => Ordering(q)
  BY <1>2, <1>3 DEF Ordering
<1>5. \A s \in Ids : real'[s].open <= real[s].open
  BY <1>1, <1>2, Parts
<1> QED BY <1>1, <1>2, <1>4, <1>5, CapUntouched DEF Stored

LEMMA CapDecideMatch ==
    ASSUME ScannerInv, Base', CapInv, NEW p \in Scanners, DecideMatch(p)
    PROVE  CapInv'
<1>1. Base /\ scan[p].pc = "loop"
  BY DEF ScannerInv, DecideMatch
<1>2. PICK k \in scan[p].todo, m \in Matches :
         scan' = [scan EXCEPT ![p] = Decided(p, k, m)]
  BY DEF DecideMatch, Decided
<1> DEFINE n == Decided(p, k, m)
<1>3. /\ scan'[p] = n /\ \A q \in Scanners \ {p} : scan'[q] = scan[q]
      /\ UNCHANGED <<module, signals, real>>
  BY <1>1, <1>2 DEF DecideMatch, dbVars, Base, Shapes
<1>4. DecisionIs(p, k, m)
  BY <1>1, DecidedIs
<1> HIDE DEF n
<1>5. ASSUME module[p] = "daily", Ordering(p)'
      PROVE  Cardinality(DailyTrades) < MaxOpen
  <2>1. Verdict(p, k, m) \in {"store", "retry"}
    BY <1>3, <1>4, <1>5 DEF DecisionIs, Ordering, n
  <2>2. OpenPositions < MaxOpen
    BY <1>5, <2>1, VerdictReadsCap
  <2> QED BY <1>1, <2>2, TradesFinite, ScannerAssumption DEF CapInv
<1>6. \A q \in Scanners : /\ module[q] = "daily"
                          /\ Ordering(q)'
                          => Ordering(q) \/ Cardinality(DailyTrades) < MaxOpen
  BY <1>3, <1>5 DEF Ordering
<1>7. \A s \in Ids : real'[s].open <= real[s].open
  BY <1>1, <1>3, Parts
<1> QED BY <1>1, <1>3, <1>6, <1>7, CapUntouched DEF Stored

LEMMA CapStoreSignal ==
    ASSUME ScannerInv, Base', CapInv, NEW p \in Scanners, StoreSignal(p)
    PROVE  CapInv'
<1>1. Base /\ scan[p].pc = "store" /\ UNCHANGED <<module, real>>
  BY DEF ScannerInv, StoreSignal
<1>2. PICK s \in Ids \ Stored : StoreIs(p, s)
  BY <1>1, StoreSignalIs
<1> DEFINE n == AfterStore(p, s)
<1>3. /\ signals' = [signals EXCEPT ![s] = NewSignal(p)]
      /\ scan' = [scan EXCEPT ![p] = n]
      /\ scan[p].order \/ n.pc \in {"idle", "loop", "observe"}
  BY <1>2 DEF StoreIs
<1> HIDE DEF n
<1>4. /\ scan'[p] = n /\ \A q \in Scanners \ {p} : scan'[q] = scan[q]
      /\ \A t \in Ids \ {s} : signals'[t] = signals[t]
  BY <1>1, <1>3 DEF Base, Shapes
<1>5. \A q \in Scanners : Ordering(q)' => Ordering(q)
  BY <1>1, <1>3, <1>4 DEF Ordering
<1>6. real[s].open = 0
  BY <1>1 DEF Base, StoredInOrder
<1>7. \A t \in Ids : real'[t].open <= real[t].open
  BY <1>1, Parts
<1>8. \A t \in Ids : t \in Stored' /\ real[t].open > 0 =>
         t \in Stored /\ signals'[t].mod = signals[t].mod
  BY <1>4, <1>6 DEF Stored
<1> QED BY <1>1, <1>5, <1>7, <1>8, CapUntouched

LEMMA CapOrderAccepted ==
    ASSUME ScannerInv, Base', CapInv, NEW p \in Scanners, OrderAccepted(p)
    PROVE  CapInv'
<1>1. Base /\ OnePerModule
  BY DEF ScannerInv
<1> DEFINE s == scan[p].sig
<1>2. PICK x \in SignalType :
         /\ scan[p].pc = "placed" /\ s \in Stored
         /\ signals' = [signals EXCEPT ![s] = x]
         /\ x.st = "executed" /\ x.mod = module[p]
         /\ real'[s].open = real[s].open + 1
         /\ \A t \in Ids \ {s} : real'[t].open = real[t].open
         /\ UNCHANGED module
         /\ \A q \in Scanners \ {p} : scan'[q] = scan[q]
         /\ scan'[p].pc \in {"idle", "loop"}
  BY <1>1, OrderAcceptedIs
<1>3. s \in Ids /\ signals[s].mod = module[p]
  BY <1>1, <1>2, Parts DEF Base, ScanOK
<1>4. signals'[s] = x /\ \A t \in Ids \ {s} : signals'[t] = signals[t]
  BY <1>1, <1>2, <1>3 DEF Base, Shapes
<1>5. DailySignals' = DailySignals
  BY <1>2, <1>3, <1>4 DEF DailySignals, Stored
<1> HIDE DEF s
<1>6. /\ IsFiniteSet(OpenTrades(Ids)')
      /\ Cardinality(DailyTrades') <= Cardinality(DailyTrades) + One(s \in DailySignals)
  BY <1>1, <1>2, <1>3, <1>5, OneOpened
<1>7. Ordering(p) /\ ~Ordering(p)'
  BY <1>2 DEF Ordering
<1>8. CASE module[p] = "daily"
  <2>1. Cardinality(DailyTrades) < MaxOpen
    BY <1>7, <1>8 DEF CapInv, RoomLeft
  <2>2. Cardinality(DailyTrades') <= MaxOpen
    <3>1. One(s \in DailySignals) \in 0..1
      BY DEF One
    <3>2. DailyTrades' \in SUBSET OpenTrades(Ids)'
      BY DEF DailyTrades, OpenTrades, DailySignals, Stored
    <3>3. Cardinality(DailyTrades') \in Nat
      BY <1>6, <3>2, FS_Subset, FS_CardinalityType
    <3> QED BY <1>1, <1>6, <2>1, <3>1, <3>3, TradesFinite, ScannerAssumption DEF CapInv
  <2>3. \A q \in Scanners : module[q] = "daily" => ~Ordering(q)'
    BY <1>1, <1>7, <1>8 DEF OnePerModule
  <2>4. \A q \in Scanners : RoomLeft(q)'
    BY <1>2, <2>3 DEF RoomLeft
  <2>5. DailyPositionsCapped'
    BY <2>2 DEF DailyPositionsCapped, DailyTrades
  <2> QED BY <1>6, <2>4, <2>5 DEF CapInv
<1>9. CASE module[p] # "daily"
  <2>1. s \notin DailySignals
    BY <1>3, <1>9 DEF DailySignals
  <2>2. Cardinality(DailyTrades') <= Cardinality(DailyTrades)
    <3>1. One(s \in DailySignals) = 0 /\ Cardinality(DailyTrades) \in Nat
      BY <1>1, <2>1, TradesFinite DEF One, CapInv
    <3> QED BY <1>6, <3>1
  <2>3. \A q \in Scanners : Ordering(q)' => Ordering(q)
    BY <1>2, <1>7 DEF Ordering
  <2> QED BY <1>1, <1>2, <1>6, <2>2, <2>3, CapKept
<1> QED BY <1>8, <1>9

LEMMA CapOrderFails ==
    ASSUME ScannerInv, Base', CapInv, NEW p \in Scanners,
           NEW f \in RetryableOutcomes \union {"final_failure"}, OrderFails(p, f)
    PROVE  CapInv'
<1> DEFINE s == scan[p].sig
           x == FailedSignal(s, f)
           n == AfterFailure(p, f)
<1>1. Base /\ UNCHANGED <<module, real>>
  BY DEF ScannerInv, OrderFails
<1>2. /\ scan[p].pc \in {"submit", "placed"} /\ s \in Ids
      /\ signals' = [signals EXCEPT ![s] = x]
      /\ x.mod = signals[s].mod
      /\ scan' = [scan EXCEPT ![p] = n]
      /\ n.pc \in {"idle", "loop"}
  BY <1>1, OrderFailsIs
<1> HIDE DEF x, n
<1>3. s \in Stored
  BY <1>1, <1>2 DEF Base, ScanOK
<1>4. /\ scan'[p] = n /\ \A q \in Scanners \ {p} : scan'[q] = scan[q]
      /\ signals'[s] = x /\ \A t \in Ids \ {s} : signals'[t] = signals[t]
  BY <1>1, <1>2 DEF Base, Shapes
<1>5. \A q \in Scanners : Ordering(q)' => Ordering(q)
  BY <1>2, <1>4 DEF Ordering
<1>6. \A t \in Ids : real'[t].open <= real[t].open
  BY <1>1, Parts
<1>7. \A t \in Ids : t \in Stored' /\ real[t].open > 0 =>
         t \in Stored /\ signals'[t].mod = signals[t].mod
  BY <1>2, <1>3, <1>4 DEF Stored
<1> QED BY <1>1, <1>5, <1>6, <1>7, CapUntouched

LEMMA CapElsewhere ==
    ASSUME ScannerInv, Base', CapInv,
           \/ \E s \in Ids : TradeCloses(s)
           \/ Tick
           \/ ToggleKillSwitch \/ NewBar \/ UNCHANGED vars
    PROVE  CapInv'
<1>1. Base /\ UNCHANGED <<module, scan>>
  BY DEF ScannerInv, TradeCloses, Tick, ToggleKillSwitch, NewBar, vars
<1>2. \A t \in Ids : real'[t].open <= real[t].open
  <2>1. CASE \E s \in Ids : TradeCloses(s)
    BY <1>1, <2>1, TradesOnlyClose
  <2>2. CASE UNCHANGED real
    BY <1>1, <2>2, Parts
  <2> QED BY <2>1, <2>2 DEF Tick, ToggleKillSwitch, NewBar, vars, dbVars
<1>3. \A t \in Ids : /\ signals'[t].st = signals[t].st
                     /\ signals'[t].mod = signals[t].mod
  BY <1>1, TickIs DEF TradeCloses, ToggleKillSwitch, NewBar, vars, dbVars
<1>4. \A q \in Scanners : Ordering(q)' => Ordering(q)
  BY <1>1 DEF Ordering
<1> QED BY <1>1, <1>2, <1>3, <1>4, CapUntouched DEF Stored

LEMMA CapHumanDecides ==
    ASSUME ScannerInv, Base', CapInv, NEW s \in Ids, HumanDecides(s)
    PROVE  CapInv'
<1>1. Base /\ Promises
  BY DEF ScannerInv
<1>2. PICK x \in SignalType :
         /\ signals[s].st = "pending_human_approval"
         /\ signals' = [signals EXCEPT ![s] = x]
         /\ x.st \in {"executed", "rejected"} /\ x.mod = signals[s].mod
         /\ UNCHANGED <<module, scan>>
  BY <1>1, HumanDecidesIs
<1>3. signals'[s] = x /\ \A t \in Ids \ {s} : signals'[t] = signals[t]
  BY <1>1, <1>2 DEF Base, Shapes
<1>4. s \notin DailySignals /\ DailySignals' = DailySignals
  <2>1. signals[s].mod = "fox_hunter"
    BY <1>1, <1>2 DEF Promises, SignalOK
  <2> QED BY <1>2, <1>3, <2>1 DEF DailySignals, Stored
<1>5. \A q \in Scanners : Ordering(q)' => Ordering(q)
  BY <1>2 DEF Ordering
<1>6. \A t \in Ids \ {s} : real'[t].open = real[t].open
  BY <1>1, HumanTrades
<1>7. CASE UNCHANGED real
  <2>1. \A t \in Ids : real'[t].open <= real[t].open
    BY <1>1, <1>7, Parts
  <2>2. \A t \in Ids : t \in DailySignals' /\ real[t].open > 0 => t \in DailySignals
    BY <1>4
  <2>3. /\ IsFiniteSet(OpenTrades(Ids)')
        /\ Cardinality(DailyTrades') <= Cardinality(DailyTrades)
    BY <1>1, <2>1, <2>2, NoneOpened
  <2> QED BY <1>1, <1>2, <1>5, <2>3, CapKept
<1>8. CASE real' = [real EXCEPT ![s].open = @ + 1]
  <2>1. real'[s].open = real[s].open + 1
    <3>1. real[s] \in [open : Nat, closed : Nat]
      BY <1>1, Parts
    <3>2. real'[s] = [real[s] EXCEPT !.open = @ + 1]
      BY <1>1, <1>8 DEF Base, Shapes
    <3> QED BY <3>1, <3>2
  <2>2. /\ IsFiniteSet(OpenTrades(Ids)')
        /\ Cardinality(DailyTrades')
              <= Cardinality(DailyTrades) + One(s \in DailySignals)
    BY <1>1, <1>4, <1>6, <2>1, OneOpened
  <2>3. Cardinality(DailyTrades') <= Cardinality(DailyTrades)
    <3>1. One(s \in DailySignals) = 0 /\ Cardinality(DailyTrades) \in Nat
      BY <1>1, <1>4, TradesFinite DEF One, CapInv
    <3> QED BY <2>2, <3>1
  <2> QED BY <1>1, <1>2, <1>5, <2>2, <2>3, CapKept
<1> QED BY <1>7, <1>8 DEF HumanDecides

LEMMA CapNext ==
    ASSUME ScannerInv, Base', CapInv, [Next]_vars
    PROVE  CapInv'
<1>1. CASE \/ \E s \in Ids : TradeCloses(s)
           \/ Tick
           \/ ToggleKillSwitch \/ NewBar \/ UNCHANGED vars
  BY <1>1, CapElsewhere
<1>2. CASE \E s \in Ids : HumanDecides(s)
  BY <1>2, CapHumanDecides
<1>3. CASE \E p \in Scanners :
             \/ \E req \in BOOLEAN : BeginScan(p, req)
             \/ OpenObservation(p)
             \/ PlaceBracket(p)
             \/ Crash(p)
  BY <1>3, CapScanStep
<1>4. CASE \E p \in Scanners :
             \/ DecideMatch(p)
             \/ StoreSignal(p)
             \/ OrderAccepted(p)
             \/ \E f \in RetryableOutcomes \union {"final_failure"} : OrderFails(p, f)
  BY <1>4, CapDecideMatch, CapStoreSignal, CapOrderAccepted, CapOrderFails
<1> QED BY <1>1, <1>2, <1>3, <1>4 DEF Next

\* The cap on open positions, read when the match is decided, holds for the
\* trades of the daily module when the broker has answered, whatever the other
\* modules' trades do in between.
THEOREM DailyCapKept == Spec /\ OnePerModule => []DailyPositionsCapped
<1>1. Init => CapInv
  BY CapInit
<1>2. ScannerInv /\ ScannerInv' /\ CapInv /\ [Next]_vars => CapInv'
  BY CapNext DEF ScannerInv
<1>3. CapInv => DailyPositionsCapped
  BY DEF CapInv
<1> QED BY <1>1, <1>2, <1>3, ScannerInvariant, PTL DEF Spec

=============================================================================
