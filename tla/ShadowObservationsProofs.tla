---------------------- MODULE ShadowObservationsProofs ----------------------
(***************************************************************************)
(* Theorems about ShadowObservations, for every set of observations and    *)
(* sessions, every market and every bound: the shapes, the cache that      *)
(* never mixes two adjustments, and the exits that are the worst ones the  *)
(* market allowed.                                                         *)
(***************************************************************************)
EXTENDS ShadowObservations, SequenceTheorems, FiniteSetTheorems,
        WellFoundedInduction, TLAPS

-----------------------------------------------------------------------------
(***************************************************************************)
(* One bar against two orders.                                             *)
(***************************************************************************)
TermsType == [side : {1, -1}, entry : Nat, stop : Nat, target : Nat]
Reaches(t, price) == ReachesStop(t, price) \/ ReachesTarget(t, price)

LEMMA LessThan ==
    \E R : IsWellFoundedOn(R, Nat) /\ \A x, y \in Nat : y < x => <<y, x>> \in R
<1>1. \A x, y \in Nat : y < x => <<y, x>> \in OpToRel(<, Nat)
  BY DEF OpToRel
<1> QED BY <1>1, NatLessThanWellFounded, Zenon

\* A set of numbers that is not empty has a first one.
LEMMA FirstChosen ==
    ASSUME NEW T \in SUBSET Nat, T # {}
    PROVE  /\ (CHOOSE i \in T : \A j \in T : i <= j) \in T
           /\ \A j \in T : (CHOOSE i \in T : \A k \in T : i <= k) <= j
<1>1. PICK R : IsWellFoundedOn(R, Nat) /\ \A x, y \in Nat : y < x => <<y, x>> \in R
  BY LessThan
<1>2. PICK x \in T : \A y \in T : ~ (<<y, x>> \in R)
  BY <1>1, WFMin
<1>3. T \subseteq Nat
  OBVIOUS
<1>4. ASSUME NEW y \in T PROVE x <= y
  <2>1. x \in Nat /\ y \in Nat
    BY <1>3
  <2>2. ~(y < x)
    BY <1>1, <1>2, <2>1
  <2> QED BY <2>1, <2>2
<1> QED BY <1>4

\* Rewritten history keeps the order of prices, and changes every price.
LEMMA ScaledOrder ==
    ASSUME NEW a \in Nat, NEW b \in Nat, NEW f \in Nat, a <= b
    PROVE  a * f <= b * f
OBVIOUS

LEMMA ScaledApart ==
    ASSUME NEW a \in Nat \ {0}, NEW x \in Nat, NEW y \in Nat, a * x = a * y
    PROVE  x = y
OBVIOUS

\* The prices of a row, whatever its basis.
LEMMA RowPrices ==
    ASSUME NEW row \in Row
    PROVE  /\ Price(row, "open") \in Nat /\ Price(row, "high") \in Nat
           /\ Price(row, "low") \in Nat /\ Price(row, "close") \in Nat
           /\ Price(row, "low") <= Price(row, "open")
           /\ Price(row, "open") <= Price(row, "high")
           /\ Price(row, "low") <= Price(row, "close")
           /\ Price(row, "close") <= Price(row, "high")
<1> DEFINE b == row.bar
           f == Factor[row.basis]
<1>1. b \in Bars /\ b \in Bar /\ f \in Nat
  BY ShadowAssumption DEF Row
<1>2. /\ b.open \in Nat /\ b.high \in Nat /\ b.low \in Nat /\ b.close \in Nat
      /\ b.low <= b.open /\ b.open <= b.high
      /\ b.low <= b.close /\ b.close <= b.high
  BY <1>1, ShadowAssumption DEF Bar
<1>3. /\ Price(row, "open") = b.open * f /\ Price(row, "high") = b.high * f
      /\ Price(row, "low") = b.low * f /\ Price(row, "close") = b.close * f
  BY DEF Price
<1> HIDE DEF b, f
<1>4. /\ b.open * f \in Nat /\ b.high * f \in Nat /\ b.low * f \in Nat
      /\ b.close * f \in Nat
  BY <1>1, <1>2
<1>5. /\ b.low * f <= b.open * f /\ b.open * f <= b.high * f
      /\ b.low * f <= b.close * f /\ b.close * f <= b.high * f
  BY <1>1, <1>2, ScaledOrder
<1> QED BY <1>3, <1>4, <1>5

\* What reaching a level means on each side.
LEMMA LongReaches ==
    ASSUME NEW t \in TermsType, t.side = 1, NEW p \in Nat
    PROVE  (ReachesStop(t, p) <=> p <= t.stop) /\ (ReachesTarget(t, p) <=> p >= t.target)
BY DEF ReachesStop, ReachesTarget, TermsType

LEMMA ShortReaches ==
    ASSUME NEW t \in TermsType, t.side = -1, NEW p \in Nat
    PROVE  (ReachesStop(t, p) <=> p >= t.stop) /\ (ReachesTarget(t, p) <=> p <= t.target)
BY DEF ReachesStop, ReachesTarget, TermsType

LEMMA WellFormed ==
    ASSUME NEW t \in TermsType, ~Malformed(t)
    PROVE  /\ t.side = 1 => t.stop < t.target
           /\ t.side = -1 => t.target < t.stop
<1>1. CASE t.side = 1
  BY <1>1, LongReaches DEF Malformed, TermsType
<1>2. CASE t.side = -1
  BY <1>2, ShortReaches DEF Malformed, TermsType
<1> QED BY <1>1, <1>2 DEF TermsType

\* What fills along a path of four prices: the first that reaches a level.
FillAt(t, p, k) ==
    IF ReachesTarget(t, p) THEN {t.target} ELSE IF k = 1 THEN {p} ELSE {t.stop}

LEMMA PathFills ==
    ASSUME NEW t, NEW a, NEW b, NEW c, NEW d
    PROVE  OrderFills(t, <<a, b, c, d>>) =
               IF Reaches(t, a) THEN FillAt(t, a, 1)
               ELSE IF Reaches(t, b) THEN FillAt(t, b, 2)
               ELSE IF Reaches(t, c) THEN FillAt(t, c, 3)
               ELSE IF Reaches(t, d) THEN FillAt(t, d, 4) ELSE {}
<1> DEFINE path == <<a, b, c, d>>
           reached == {k \in 1 .. 4 : ReachesStop(t, path[k]) \/ ReachesTarget(t, path[k])}
           first == CHOOSE k \in reached : \A j \in reached : k <= j
<1>1. OrderFills(t, path) =
         IF reached = {} THEN {}
         ELSE IF ReachesTarget(t, path[first]) THEN {t.target}
         ELSE IF first = 1 THEN {path[1]} ELSE {t.stop}
  BY DEF OrderFills
<1>2. /\ 1 \in reached <=> Reaches(t, a)
      /\ 2 \in reached <=> Reaches(t, b)
      /\ 3 \in reached <=> Reaches(t, c)
      /\ 4 \in reached <=> Reaches(t, d)
  BY DEF Reaches
<1>3. reached \in SUBSET Nat /\ \A k \in reached : k = 1 \/ k = 2 \/ k = 3 \/ k = 4
  OBVIOUS
<1>4. path[1] = a /\ path[2] = b /\ path[3] = c /\ path[4] = d
  OBVIOUS
<1> HIDE DEF reached
<1>5. reached # {} => first \in reached /\ \A j \in reached : first <= j
  BY <1>3, FirstChosen
<1> HIDE DEF first, path
<1>6. CASE reached = {}
  BY <1>1, <1>2, <1>6 DEF path
<1>7. CASE reached # {}
  <2>1. first \in reached /\ \A j \in reached : first <= j
    BY <1>5, <1>7
  <2>2. OrderFills(t, path) = FillAt(t, path[first], first)
    BY <1>1, <1>7, <2>1 DEF FillAt
  <2>3. CASE first = 1
    BY <1>2, <1>4, <2>1, <2>2, <2>3 DEF path
  <2>4. CASE first = 2
    BY <1>2, <1>4, <2>1, <2>2, <2>4 DEF path
  <2>5. CASE first = 3
    BY <1>2, <1>4, <2>1, <2>2, <2>5 DEF path
  <2>6. CASE first = 4
    BY <1>2, <1>4, <2>1, <2>2, <2>6 DEF path
  <2> QED BY <1>3, <2>1, <2>3, <2>4, <2>5, <2>6
<1> QED BY <1>6, <1>7

LEMMA FillsOfRow ==
    ASSUME NEW t, NEW row
    PROVE  LET o == Price(row, "open")
               h == Price(row, "high")
               l == Price(row, "low")
               c == Price(row, "close")
           IN  Fills(t, row) = OrderFills(t, <<o, h, l, c>>) \union OrderFills(t, <<o, l, h, c>>)
BY DEF Fills, Paths, Path

\* The engine looks at the extremes of a bar, the orders at every price of it:
\* they agree on whether a bar ends the observation.
LEMMA TouchesIffFills ==
    ASSUME NEW t \in TermsType, ~Malformed(t), NEW row \in Row
    PROVE  Touches(t, row) <=> Fills(t, row) # {}
<1> DEFINE o == Price(row, "open")
           h == Price(row, "high")
           l == Price(row, "low")
           c == Price(row, "close")
<1>1. /\ o \in Nat /\ h \in Nat /\ l \in Nat /\ c \in Nat
      /\ l <= o /\ o <= h /\ l <= c /\ c <= h
  BY RowPrices
<1>2. Fills(t, row) = OrderFills(t, <<o, h, l, c>>) \union OrderFills(t, <<o, l, h, c>>)
  BY FillsOfRow
<1>3. Touches(t, row) <=>
         ReachesStop(t, IF t.side > 0 THEN l ELSE h)
         \/ ReachesTarget(t, IF t.side > 0 THEN h ELSE l)
  BY DEF Touches, Adverse, Favourable
<1> HIDE DEF o, h, l, c
<1>4. \A p, k : FillAt(t, p, k) # {}
  BY DEF FillAt
<1>5. Fills(t, row) # {} <=> Reaches(t, o) \/ Reaches(t, h) \/ Reaches(t, l) \/ Reaches(t, c)
  BY <1>2, <1>4, PathFills
<1>6. CASE t.side = 1
  <2>1. /\ Reaches(t, o) <=> o <= t.stop \/ o >= t.target
        /\ Reaches(t, h) <=> h <= t.stop \/ h >= t.target
        /\ Reaches(t, l) <=> l <= t.stop \/ l >= t.target
        /\ Reaches(t, c) <=> c <= t.stop \/ c >= t.target
        /\ ReachesStop(t, l) <=> l <= t.stop
        /\ ReachesTarget(t, h) <=> h >= t.target
    BY <1>1, <1>6, LongReaches DEF Reaches
  <2>2. Touches(t, row) <=> l <= t.stop \/ h >= t.target
    BY <1>3, <1>6, <2>1
  <2>3. t.stop \in Nat /\ t.target \in Nat
    BY DEF TermsType
  <2> QED BY <1>1, <1>5, <2>1, <2>2, <2>3
<1>7. CASE t.side = -1
  <2>1. /\ Reaches(t, o) <=> o >= t.stop \/ o <= t.target
        /\ Reaches(t, h) <=> h >= t.stop \/ h <= t.target
        /\ Reaches(t, l) <=> l >= t.stop \/ l <= t.target
        /\ Reaches(t, c) <=> c >= t.stop \/ c <= t.target
        /\ ReachesStop(t, h) <=> h >= t.stop
        /\ ReachesTarget(t, l) <=> l <= t.target
    BY <1>1, <1>7, ShortReaches DEF Reaches
  <2>2. Touches(t, row) <=> h >= t.stop \/ l <= t.target
    BY <1>3, <1>7, <2>1
  <2>3. t.stop \in Nat /\ t.target \in Nat
    BY DEF TermsType
  <2> QED BY <1>1, <1>5, <2>1, <2>2, <2>3
<1> QED BY <1>6, <1>7 DEF TermsType

\* The rules for a gap and for a bar that touches both barriers give the worse
\* of the two orders in which the bar may have reached them.
LEMMA BarrierExitIsWorst ==
    ASSUME NEW t \in TermsType, ~Malformed(t), NEW row \in Row, Touches(t, row),
           NEW held
    PROVE  BarrierExit(t, row, held).price \in Worst(t, Fills(t, row))
<1> DEFINE o == Price(row, "open")
           h == Price(row, "high")
           l == Price(row, "low")
           c == Price(row, "close")
           adverse == IF t.side > 0 THEN l ELSE h
           favourable == IF t.side > 0 THEN h ELSE l
           price == BarrierExit(t, row, held).price
           fills == Fills(t, row)
<1>1. /\ o \in Nat /\ h \in Nat /\ l \in Nat /\ c \in Nat
      /\ l <= o /\ o <= h /\ l <= c /\ c <= h
  BY RowPrices
<1>2. fills = OrderFills(t, <<o, h, l, c>>) \union OrderFills(t, <<o, l, h, c>>)
  BY FillsOfRow
<1>3. ReachesStop(t, adverse) \/ ReachesTarget(t, favourable)
  BY DEF Touches, Adverse, Favourable
<1>4. /\ ReachesStop(t, o) => price = o
      /\ ~ReachesStop(t, o) /\ ReachesTarget(t, o) => price = t.target
      /\ ~ReachesStop(t, o) /\ ~ReachesTarget(t, o) /\ ReachesStop(t, adverse)
            => price = t.stop
      /\ ~ReachesStop(t, o) /\ ~ReachesTarget(t, o) /\ ~ReachesStop(t, adverse)
            => price = t.target
  BY DEF BarrierExit, Adverse
<1> DEFINE hl == OrderFills(t, <<o, h, l, c>>)
           lh == OrderFills(t, <<o, l, h, c>>)
<1>8. fills = hl \union lh
  BY <1>2
<1>9. hl = IF Reaches(t, o) THEN FillAt(t, o, 1)
           ELSE IF Reaches(t, h) THEN FillAt(t, h, 2)
           ELSE IF Reaches(t, l) THEN FillAt(t, l, 3)
           ELSE IF Reaches(t, c) THEN FillAt(t, c, 4) ELSE {}
  BY PathFills
<1>10. lh = IF Reaches(t, o) THEN FillAt(t, o, 1)
            ELSE IF Reaches(t, l) THEN FillAt(t, l, 2)
            ELSE IF Reaches(t, h) THEN FillAt(t, h, 3)
            ELSE IF Reaches(t, c) THEN FillAt(t, c, 4) ELSE {}
  BY PathFills
<1>11. /\ \A p, k : ReachesTarget(t, p) => FillAt(t, p, k) = {t.target}
       /\ \A p : ~ReachesTarget(t, p) => FillAt(t, p, 1) = {p}
       /\ \A p : ~ReachesTarget(t, p) => /\ FillAt(t, p, 2) = {t.stop}
                                        /\ FillAt(t, p, 3) = {t.stop}
  BY DEF FillAt
<1>5. t.stop \in Nat /\ t.target \in Nat /\ t.side \in {1, -1}
  BY DEF TermsType
<1> HIDE DEF o, h, l, c, price, fills, hl, lh
<1>6. CASE t.side = 1
  <2>1. /\ \A p \in {o, h, l, c} : /\ ReachesStop(t, p) <=> p <= t.stop
                                   /\ ReachesTarget(t, p) <=> p >= t.target
        /\ t.stop < t.target
        /\ adverse = l /\ favourable = h
    BY <1>1, <1>6, LongReaches, WellFormed
  <2>2. CASE o <= t.stop
    <3>1. price = o
      BY <1>4, <2>1, <2>2
    <3>2. Reaches(t, o) /\ ~ReachesTarget(t, o)
      BY <1>1, <1>5, <2>1, <2>2 DEF Reaches
    <3>3. hl = {o} /\ lh = {o}
      BY <1>9, <1>10, <1>11, <3>2
    <3>4. fills = {o}
      BY <1>8, <3>3
    <3> QED BY <1>1, <1>6, <3>1, <3>4 DEF Worst, price, fills
  <2>3. CASE o >= t.target
    <3>1. price = t.target
      BY <1>1, <1>4, <1>5, <2>1, <2>3
    <3>2. Reaches(t, o) /\ ReachesTarget(t, o)
      BY <2>1, <2>3 DEF Reaches
    <3>3. hl = {t.target} /\ lh = {t.target}
      BY <1>9, <1>10, <1>11, <3>2
    <3>4. fills = {t.target}
      BY <1>8, <3>3
    <3> QED BY <1>5, <1>6, <3>1, <3>4 DEF Worst, price, fills
  <2>4. CASE ~(o <= t.stop) /\ ~(o >= t.target) /\ l <= t.stop
    <3>1. price = t.stop
      BY <1>4, <2>1, <2>4
    <3>2. ~Reaches(t, o) /\ Reaches(t, l) /\ ~ReachesTarget(t, l)
      BY <1>1, <1>5, <2>1, <2>4 DEF Reaches
    <3>3. lh = {t.stop}
      BY <1>10, <1>11, <3>2
    <3>4. hl = {t.stop} \/ hl = {t.target}
      BY <1>9, <1>11, <3>2
    <3>5. t.stop \in fills /\ \A q \in fills : q = t.stop \/ q = t.target
      BY <1>8, <3>3, <3>4
    <3>6. \A q \in fills : t.side * (q - t.stop) >= 0
      BY <1>5, <1>6, <2>1, <3>5
    <3> QED BY <3>1, <3>5, <3>6 DEF Worst, price, fills
  <2>5. CASE ~(o <= t.stop) /\ ~(o >= t.target) /\ ~(l <= t.stop)
    <3>1. price = t.target
      BY <1>4, <2>1, <2>5
    <3>2. h >= t.target
      BY <1>3, <2>1, <2>5
    <3>3. /\ ~Reaches(t, o) /\ ~Reaches(t, l) /\ Reaches(t, h) /\ ReachesTarget(t, h)
      BY <1>1, <1>5, <2>1, <2>5, <3>2 DEF Reaches
    <3>4. hl = {t.target} /\ lh = {t.target}
      BY <1>9, <1>10, <1>11, <3>3
    <3>5. fills = {t.target}
      BY <1>8, <3>4
    <3> QED BY <1>5, <1>6, <3>1, <3>5 DEF Worst, price, fills
  <2> QED BY <2>2, <2>3, <2>4, <2>5
<1>7. CASE t.side = -1
  <2>1. /\ \A p \in {o, h, l, c} : /\ ReachesStop(t, p) <=> p >= t.stop
                                   /\ ReachesTarget(t, p) <=> p <= t.target
        /\ t.target < t.stop
        /\ adverse = h /\ favourable = l
    BY <1>1, <1>7, ShortReaches, WellFormed
  <2>2. CASE o >= t.stop
    <3>1. price = o
      BY <1>4, <2>1, <2>2
    <3>2. Reaches(t, o) /\ ~ReachesTarget(t, o)
      BY <1>1, <1>5, <2>1, <2>2 DEF Reaches
    <3>3. hl = {o} /\ lh = {o}
      BY <1>9, <1>10, <1>11, <3>2
    <3>4. fills = {o}
      BY <1>8, <3>3
    <3> QED BY <1>1, <1>7, <3>1, <3>4 DEF Worst, price, fills
  <2>3. CASE o <= t.target
    <3>1. price = t.target
      BY <1>1, <1>4, <1>5, <2>1, <2>3
    <3>2. Reaches(t, o) /\ ReachesTarget(t, o)
      BY <2>1, <2>3 DEF Reaches
    <3>3. hl = {t.target} /\ lh = {t.target}
      BY <1>9, <1>10, <1>11, <3>2
    <3>4. fills = {t.target}
      BY <1>8, <3>3
    <3> QED BY <1>5, <1>7, <3>1, <3>4 DEF Worst, price, fills
  <2>4. CASE ~(o >= t.stop) /\ ~(o <= t.target) /\ h >= t.stop
    <3>1. price = t.stop
      BY <1>4, <2>1, <2>4
    <3>2. ~Reaches(t, o) /\ Reaches(t, h) /\ ~ReachesTarget(t, h)
      BY <1>1, <1>5, <2>1, <2>4 DEF Reaches
    <3>3. hl = {t.stop}
      BY <1>9, <1>11, <3>2
    <3>4. lh = {t.stop} \/ lh = {t.target}
      BY <1>10, <1>11, <3>2
    <3>5. t.stop \in fills /\ \A q \in fills : q = t.stop \/ q = t.target
      BY <1>8, <3>3, <3>4
    <3>6. \A q \in fills : t.side * (q - t.stop) >= 0
      BY <1>5, <1>7, <2>1, <3>5
    <3> QED BY <3>1, <3>5, <3>6 DEF Worst, price, fills
  <2>5. CASE ~(o >= t.stop) /\ ~(o <= t.target) /\ ~(h >= t.stop)
    <3>1. price = t.target
      BY <1>4, <2>1, <2>5
    <3>2. l <= t.target
      BY <1>3, <2>1, <2>5
    <3>3. /\ ~Reaches(t, o) /\ ~Reaches(t, h) /\ Reaches(t, l) /\ ReachesTarget(t, l)
      BY <1>1, <1>5, <2>1, <2>5, <3>2 DEF Reaches
    <3>4. hl = {t.target} /\ lh = {t.target}
      BY <1>9, <1>10, <1>11, <3>3
    <3>5. fills = {t.target}
      BY <1>8, <3>4
    <3> QED BY <1>5, <1>7, <3>1, <3>5 DEF Worst, price, fills
  <2> QED BY <2>2, <2>3, <2>4, <2>5
<1> QED BY <1>5, <1>6, <1>7

-----------------------------------------------------------------------------
(***************************************************************************)
(* The outcome of a sequence of bars.                                      *)
(***************************************************************************)
LEMMA BarrierExitTyped ==
    ASSUME NEW t \in TermsType, NEW row \in Row, NEW held \in 1 .. MaxHold
    PROVE  LET e == BarrierExit(t, row, held)
           IN e \in Exit /\ e.reason # "none" /\ e.held = held /\ e.basis = row.basis
<1>1. Price(row, "open") \in Nat /\ t.target \in Nat /\ t.stop \in Nat
  BY RowPrices DEF TermsType
<1>2. row.basis \in 0 .. MaxActions /\ held \in 0 .. MaxHold
  BY ShadowAssumption DEF Row
<1>3. \E r \in {"stop_gap", "target_gap", "stop", "target",
                "stop_and_target_conservative"} : \E p \in Nat :
         BarrierExit(t, row, held)
            = [reason |-> r, price |-> p, held |-> held, basis |-> row.basis]
  <2>1. CASE ReachesStop(t, Price(row, "open"))
    BY <1>1, <2>1 DEF BarrierExit
  <2>2. CASE ~ReachesStop(t, Price(row, "open")) /\ ReachesTarget(t, Price(row, "open"))
    BY <1>1, <2>2 DEF BarrierExit
  <2>3. CASE ~ReachesStop(t, Price(row, "open")) /\ ~ReachesTarget(t, Price(row, "open"))
    BY <1>1, <2>3 DEF BarrierExit
  <2> QED BY <2>1, <2>2, <2>3
<1> QED BY <1>2, <1>3 DEF Exit

\* The exit an outcome reports is the one the orders would have had.
Deserved(t, future, e) ==
    /\ e.reason # "none"
    /\ e.held \in 1 .. MaxHold /\ e.held <= Len(future)
    /\ e.basis = future[e.held].basis
    /\ \A j \in 1 .. e.held - 1 : Fills(t, future[j]) = {}
    /\ IF Fills(t, future[e.held]) = {}
       THEN e.held = MaxHold /\ e.price = Price(future[e.held], "close")
       ELSE e.price \in Worst(t, Fills(t, future[e.held]))

RightOutcome(t, future, e) == e \in Exit /\ (e = NoExit \/ Deserved(t, future, e))

LEMMA OutcomeDeserved ==
    ASSUME NEW t \in TermsType, NEW future \in Seq(Row)
    PROVE  RightOutcome(t, future, TripleBarrierOutcome(t, future))
<1> DEFINE touched == {i \in 1 .. Len(future) : i <= MaxHold /\ Touches(t, future[i])}
           first == CHOOSE i \in touched : \A j \in touched : i <= j
           e == TripleBarrierOutcome(t, future)
<1>1. /\ Len(future) \in Nat /\ \A i \in 1 .. Len(future) : future[i] \in Row
      /\ MaxHold \in Nat \ {0} /\ MaxActions \in Nat
  BY ShadowAssumption
<1>2. NoExit \in Exit
  BY <1>1 DEF NoExit, Exit
<1>3. e = IF Malformed(t) THEN NoExit
          ELSE IF touched # {} THEN BarrierExit(t, future[first], first)
          ELSE IF Len(future) >= MaxHold
               THEN [reason |-> "time", price |-> Price(future[MaxHold], "close"),
                     held |-> MaxHold, basis |-> future[MaxHold].basis]
               ELSE NoExit
  BY DEF TripleBarrierOutcome
<1>4. touched \in SUBSET Nat
  BY <1>1
<1>5. \A i \in 1 .. Len(future) : i <= MaxHold => (i \in touched <=> Touches(t, future[i]))
  OBVIOUS
<1>6. touched \subseteq 1 .. Len(future) /\ \A i \in touched : i <= MaxHold
  OBVIOUS
<1> HIDE DEF touched
<1>7. touched # {} => first \in touched /\ \A j \in touched : first <= j
  BY <1>4, FirstChosen
<1> HIDE DEF first, e
<1> SUFFICES RightOutcome(t, future, e)
  BY DEF e
<1>8. CASE Malformed(t) \/ (touched = {} /\ ~(Len(future) >= MaxHold))
  BY <1>2, <1>3, <1>8 DEF RightOutcome
<1>9. CASE ~Malformed(t) /\ touched # {}
  <2>0. first \in touched
    BY <1>7, <1>9
  <2>1. /\ first \in 1 .. Len(future) /\ first \in 1 .. MaxHold /\ first \in Nat
        /\ Touches(t, future[first]) /\ future[first] \in Row
    <3>1. first \in 1 .. Len(future) /\ first <= MaxHold
      BY <1>6, <2>0
    <3> QED BY <1>1, <1>5, <2>0, <3>1
  <2>2. e = BarrierExit(t, future[first], first)
    BY <1>3, <1>9
  <2>3. /\ e \in Exit /\ e.reason # "none" /\ e.held = first
        /\ e.basis = future[first].basis
    BY <2>1, <2>2, BarrierExitTyped
  <2>4. /\ Fills(t, future[first]) # {}
        /\ e.price \in Worst(t, Fills(t, future[first]))
    BY <1>9, <2>1, <2>2, TouchesIffFills, BarrierExitIsWorst
  <2>5. ASSUME NEW j \in 1 .. first - 1 PROVE Fills(t, future[j]) = {}
    <3>1. j \in 1 .. Len(future) /\ j <= MaxHold /\ ~(first <= j)
      BY <2>1, <1>1
    <3>2. ~Touches(t, future[j])
      BY <1>5, <1>7, <1>9, <3>1
    <3> QED BY <1>1, <1>9, <3>1, <3>2, TouchesIffFills
  <2>6. first <= Len(future)
    BY <1>1, <2>1
  <2>7. Deserved(t, future, e)
    BY <2>1, <2>3, <2>4, <2>5, <2>6 DEF Deserved
  <2> QED BY <2>3, <2>7 DEF RightOutcome
<1>10. CASE ~Malformed(t) /\ touched = {} /\ Len(future) >= MaxHold
  <2>1. future[MaxHold] \in Row /\ MaxHold \in 1 .. Len(future)
    BY <1>1, <1>10
  <2>2. e = [reason |-> "time", price |-> Price(future[MaxHold], "close"),
             held |-> MaxHold, basis |-> future[MaxHold].basis]
    BY <1>3, <1>10
  <2>3. Price(future[MaxHold], "close") \in Nat /\ future[MaxHold].basis \in 0 .. MaxActions
    BY <2>1, RowPrices DEF Row
  <2>4. e \in Exit
    BY <1>1, <2>2, <2>3 DEF Exit
  <2>5. ASSUME NEW j \in 1 .. MaxHold PROVE Fills(t, future[j]) = {}
    <3>1. j \in 1 .. Len(future) /\ j <= MaxHold
      BY <1>1, <1>10
    <3>2. ~Touches(t, future[j])
      BY <1>5, <1>10, <3>1
    <3> QED BY <1>1, <1>10, <3>1, <3>2, TouchesIffFills
  <2>6. /\ e.reason = "time" /\ e.held = MaxHold /\ e.basis = future[MaxHold].basis
        /\ e.price = Price(future[MaxHold], "close")
    BY <2>2
  <2>7. Deserved(t, future, e)
    <3>1. /\ MaxHold \in 1 .. MaxHold /\ MaxHold <= Len(future)
          /\ Fills(t, future[MaxHold]) = {}
          /\ \A j \in 1 .. MaxHold - 1 : Fills(t, future[j]) = {}
      <4>1. MaxHold \in 1 .. MaxHold /\ MaxHold <= Len(future)
        BY <1>1, <1>10
      <4>2. \A j \in 1 .. MaxHold - 1 : j \in 1 .. MaxHold
        BY <1>1
      <4> QED BY <2>5, <4>1, <4>2
    <3> QED BY <2>6, <3>1 DEF Deserved
  <2> QED BY <2>4, <2>7 DEF RightOutcome
<1> QED BY <1>8, <1>9, <1>10

-----------------------------------------------------------------------------
(***************************************************************************)
(* The inductive invariant. What is stored has the shapes TypeOK asks for; *)
(* every copy of the cached file (the file itself, the rows a session read *)
(* from it, the frame it was served) is a prefix of the finished bars,     *)
(* under one adjustment; and the trades of a session were opened before it *)
(* loaded them. A finished bar never changes, which keeps old copies true. *)
(***************************************************************************)
BarrierType == [side : {1, -1}, entry : Nat, stop : Nat, target : Nat]
ObsType == [status : {"none", "open", "closed"}, nr : Nat, at : Nat,
            basis : 0 .. MaxActions, barrier : BarrierType,
            exit : Exit, outcome : Exit]
SesType == [pc : {"idle", "loaded", "first", "tail", "full", "ready"},
            rows : SUBSET Observations, cached : Seq(Row), frame : Seq(Row)]

\* rows is an early part of the n finished bars of the market m, under one adjustment.
PrefixOf(rows, m, n) ==
    /\ rows \in Seq(Row) /\ Len(rows) <= n
    /\ \A i \in 1 .. Len(rows) : rows[i].bar = m[i]
    /\ \A i, j \in 1 .. Len(rows) : rows[i].basis = rows[j].basis

\* ExitIsWorstCase of the stored trade x, in the first n bars of the market m.
TermsOf(x) ==
    [side |-> x.barrier.side, entry |-> x.barrier.entry * Factor[x.basis],
     stop |-> x.barrier.stop * Factor[x.basis],
     target |-> x.barrier.target * Factor[x.basis]]
RowAt(x, m, i) == [bar |-> m[i], basis |-> x.basis]

WorstCase(x, m, n) ==
    x.status = "closed" /\ x.exit.basis = x.basis =>
        /\ x.exit.held \in 1 .. MaxHold /\ x.at + x.exit.held <= n
        /\ \A j \in 1 .. x.exit.held - 1 : Fills(TermsOf(x), RowAt(x, m, x.at + j)) = {}
        /\ LET row == RowAt(x, m, x.at + x.exit.held)
           IN IF Fills(TermsOf(x), row) = {}
              THEN x.exit.held = MaxHold /\ x.exit.price = Price(row, "close")
              ELSE x.exit.price \in Worst(TermsOf(x), Fills(TermsOf(x), row))

MarketOK ==
    /\ market \in Seq(Bars) /\ Len(market) \in 1 .. MaxBars
    /\ forming \in BOOLEAN
    /\ basis \in 0 .. MaxActions
    /\ crashes \in 0 .. MaxCrashes

TradesOK ==
    /\ obs \in [Observations -> ObsType]
    /\ \A o \in Observations : /\ obs[o].exit = NoExit <=> obs[o].status # "closed"
                               /\ WorstCase(obs[o], market, Complete)

CachesOK ==
    /\ file \in [exists : BOOLEAN, rows : Seq(Row)]
    /\ PrefixOf(file.rows, market, Complete)
    /\ ses \in [Sessions -> SesType]
    /\ \A s \in Sessions : /\ PrefixOf(ses[s].cached, market, Complete)
                           /\ PrefixOf(ses[s].frame, market, Complete)

LoadedWereOpened == \A s \in Sessions : ses[s].rows \subseteq Opened

ShadowInv == MarketOK /\ TradesOK /\ CachesOK /\ LoadedWereOpened

-----------------------------------------------------------------------------
(***************************************************************************)
(* The invariant gives the properties.                                     *)
(***************************************************************************)
LEMMA CompleteBars ==
    ASSUME MarketOK
    PROVE  /\ Complete \in 0 .. MaxBars /\ Complete <= Len(market) /\ Len(market) \in Nat
           /\ forming => Complete = Len(market) - 1
           /\ ~forming => Complete = Len(market)
BY ShadowAssumption DEF MarketOK, Complete

LEMMA PrefixIsRows ==
    ASSUME MarketOK, NEW rows, PrefixOf(rows, market, Complete)
    PROVE  rows \in Rows
<1>1. Len(rows) \in 0 .. MaxBars /\ rows \in [1 .. Len(rows) -> Row]
  BY CompleteBars, ShadowAssumption DEF PrefixOf
<1> QED BY <1>1 DEF Rows

LEMMA InvWorstCase == ShadowInv => ExitIsWorstCase
<1> SUFFICES ASSUME ShadowInv, NEW o \in Observations,
                    obs[o].status = "closed", obs[o].exit.basis = obs[o].basis
             PROVE  LET i == obs[o].at + obs[o].exit.held
                    IN /\ i <= Complete
                       /\ WorkingUntil(o, i)
                       /\ obs[o].exit.price \in WorstExit(o, i)
  BY DEF ExitIsWorstCase
<1> DEFINE x == obs[o]
           i == x.at + x.exit.held
           row == RowAt(x, market, i)
<1>1. x \in ObsType /\ WorstCase(x, market, Complete)
  BY DEF ShadowInv, TradesOK
<1>2. /\ x.exit.held \in 1 .. MaxHold /\ i <= Complete
      /\ \A j \in 1 .. x.exit.held - 1 :
            Fills(TermsOf(x), RowAt(x, market, x.at + j)) = {}
      /\ IF Fills(TermsOf(x), row) = {}
         THEN x.exit.held = MaxHold /\ x.exit.price = Price(row, "close")
         ELSE x.exit.price \in Worst(TermsOf(x), Fills(TermsOf(x), row))
  BY <1>1 DEF WorstCase
<1>3. x.at \in Nat /\ x.exit.held \in Nat /\ MaxHold \in Nat /\ i - x.at = x.exit.held
  BY <1>1, <1>2, ShadowAssumption DEF ObsType
<1>4. Terms(o) = TermsOf(x)
  BY DEF Terms, TermsOf, Level
<1>5. \A j : FillsIn(o, j) = Fills(TermsOf(x), RowAt(x, market, j))
  BY <1>4 DEF FillsIn, Bar0, RowAt
<1>6. WorkingUntil(o, i)
  <2>1. ASSUME NEW j \in x.at + 1 .. i - 1 PROVE FillsIn(o, j) = {}
    <3>1. j - x.at \in 1 .. x.exit.held - 1 /\ x.at + (j - x.at) = j
      BY <1>3
    <3> QED BY <1>2, <1>5, <3>1
  <2> QED BY <1>2, <1>3, <2>1 DEF WorkingUntil
<1>7. x.exit.price \in WorstExit(o, i)
  <2>1. Bar0(o, i) = row
    BY DEF Bar0, RowAt
  <2>2. CASE FillsIn(o, i) = {}
    <3>1. i - x.at \in {i - x.at} \cap {MaxHold} /\ x.exit.price = Price(row, "close")
      BY <1>2, <1>3, <1>5, <2>2
    <3> QED BY <2>1, <2>2, <3>1 DEF WorstExit
  <2>3. CASE FillsIn(o, i) # {}
    BY <1>2, <1>4, <1>5, <2>3 DEF WorstExit
  <2> QED BY <2>2, <2>3
<1> QED BY <1>2, <1>6, <1>7

LEMMA InvType == ShadowInv => TypeOK
<1> SUFFICES ASSUME ShadowInv PROVE TypeOK
  OBVIOUS
<1>1. /\ Len(market) \in 1 .. MaxBars /\ \A i \in 1 .. Len(market) : market[i] \in Bars
      /\ forming \in BOOLEAN /\ basis \in 0 .. MaxActions /\ crashes \in 0 .. MaxCrashes
  BY DEF ShadowInv, MarketOK
<1>2. file.exists \in BOOLEAN /\ file = [exists |-> file.exists, rows |-> file.rows]
  BY DEF ShadowInv, CachesOK
<1>3. file \in [exists : BOOLEAN, rows : Rows]
  BY <1>2, PrefixIsRows DEF ShadowInv, CachesOK
<1>4. ASSUME NEW o \in Observations
      PROVE  /\ obs[o].status \in {"none", "open", "closed"}
             /\ obs[o].exit \in Exit /\ obs[o].outcome \in Exit
             /\ obs[o].exit = NoExit <=> obs[o].status # "closed"
  <2>1. obs[o] \in ObsType
    BY DEF ShadowInv, TradesOK
  <2> QED BY <2>1 DEF ObsType, ShadowInv, TradesOK
<1>5. ASSUME NEW s \in Sessions
      PROVE  /\ ses[s].pc \in {"idle", "loaded", "first", "tail", "full", "ready"}
             /\ ses[s].rows \subseteq Observations
             /\ ses[s].cached \in Rows
             /\ ses[s].frame \in Rows
  <2>1. ses[s] \in SesType
    BY DEF ShadowInv, CachesOK
  <2>2. ses[s].cached \in Rows /\ ses[s].frame \in Rows
    BY PrefixIsRows DEF ShadowInv, CachesOK
  <2> QED BY <2>1, <2>2 DEF SesType
<1> QED BY <1>1, <1>3, <1>4, <1>5 DEF TypeOK

LEMMA InvOneBasis == ShadowInv => OneBasis
BY DEF ShadowInv, CachesOK, PrefixOf, OneBasis

LEMMA InitInv == Init => ShadowInv
<1> SUFFICES ASSUME Init PROVE ShadowInv
  OBVIOUS
<1>1. PICK b \in Bars : market = <<b>>
  BY ShadowAssumption DEF Init
<1>2. Len(market) = 1 /\ market \in Seq(Bars) /\ Complete = 1
  BY <1>1 DEF Init, Complete
<1>3. MarketOK
  <2>1. forming \in BOOLEAN
    BY Zenon DEF Init
  <2>2. Len(market) \in 1 .. MaxBars /\ basis \in 0 .. MaxActions /\ crashes \in 0 .. MaxCrashes
    BY <1>2, ShadowAssumption DEF Init
  <2> QED BY <1>2, <2>1, <2>2 DEF MarketOK
<1>4. NoExit \in Exit /\ 0 \in 0 .. MaxActions
  BY ShadowAssumption DEF NoExit, Exit
<1>5. Unopened \in ObsType
  BY <1>4 DEF Unopened, ObsType, BarrierType
<1>6. TradesOK
  <2>1. Unopened.exit = NoExit /\ Unopened.status = "none"
    BY DEF Unopened
  <2> QED BY <1>5, <2>1 DEF Init, TradesOK, WorstCase
<1>7. PrefixOf(<<>>, market, Complete)
  BY <1>2 DEF PrefixOf
<1>8. file \in [exists : BOOLEAN, rows : Seq(Row)] /\ PrefixOf(file.rows, market, Complete)
  BY <1>7 DEF Init, NoFile
<1>9. /\ Idle \in SesType /\ Idle.cached = <<>> /\ Idle.frame = <<>> /\ Idle.rows = {}
  BY DEF Idle, SesType
<1>10. CachesOK
  BY <1>7, <1>8, <1>9 DEF Init, CachesOK
<1>11. LoadedWereOpened
  BY <1>9 DEF Init, LoadedWereOpened
<1> QED BY <1>3, <1>6, <1>10, <1>11 DEF ShadowInv

-----------------------------------------------------------------------------
(***************************************************************************)
(* What the market does leaves finished bars as they are.                  *)
(***************************************************************************)
Extends(m, n, m2, n2) == n <= n2 /\ \A i \in 1 .. n : m2[i] = m[i]

LEMMA PrefixStays ==
    ASSUME NEW rows, NEW m, NEW n \in Nat, NEW m2, NEW n2 \in Nat,
           PrefixOf(rows, m, n), Extends(m, n, m2, n2)
    PROVE  PrefixOf(rows, m2, n2)
<1>1. Len(rows) \in Nat /\ Len(rows) <= n /\ n <= n2
  BY DEF PrefixOf, Extends
<1>2. \A i \in 1 .. Len(rows) : i \in 1 .. n
  BY <1>1
<1> QED BY <1>1, <1>2 DEF PrefixOf, Extends

LEMMA WorstCaseStays ==
    ASSUME NEW x \in ObsType, NEW m, NEW n \in Nat, NEW m2, NEW n2 \in Nat,
           WorstCase(x, m, n), Extends(m, n, m2, n2)
    PROVE  WorstCase(x, m2, n2)
<1> SUFFICES ASSUME x.status = "closed", x.exit.basis = x.basis
             PROVE  WorstCase(x, m2, n2)
  BY DEF WorstCase
<1>1. /\ x.exit.held \in 1 .. MaxHold /\ x.at + x.exit.held <= n
      /\ x.at \in Nat /\ MaxHold \in Nat
  BY ShadowAssumption DEF WorstCase, ObsType
<1>2. x.at + x.exit.held <= n2
  BY <1>1 DEF Extends
<1>3. \A j \in 1 .. x.exit.held : x.at + j \in 1 .. n
  BY <1>1
<1>4. \A j \in 1 .. x.exit.held : RowAt(x, m2, x.at + j) = RowAt(x, m, x.at + j)
  BY <1>3 DEF Extends, RowAt
<1>5. \A j \in 1 .. x.exit.held - 1 : j \in 1 .. x.exit.held
  BY <1>1
<1>6. x.exit.held \in 1 .. x.exit.held
  BY <1>1
<1> QED BY <1>1, <1>2, <1>4, <1>5, <1>6 DEF WorstCase

LEMMA MarketMoves ==
    ASSUME ShadowInv, MarketOK', Extends(market, Complete, market', Complete'),
           UNCHANGED <<file, obs, ses>>
    PROVE  ShadowInv'
<1>1. PICK m, n : m = market /\ n = Complete
  OBVIOUS
<1>2. PICK m2, n2 : m2 = market' /\ n2 = Complete'
  OBVIOUS
<1>3. n \in Nat /\ n2 \in Nat /\ Extends(m, n, m2, n2)
  <2>1. MarketOK => Complete \in Nat
    BY CompleteBars
  <2>2. Complete' \in Nat
    <3>1. Len(market') - 1 \in Nat /\ Len(market') \in Nat
      BY ShadowAssumption DEF MarketOK
    <3> QED BY <3>1 DEF Complete
  <2> QED BY <1>1, <1>2, <2>1, <2>2 DEF ShadowInv
<1>4. TradesOK'
  <2>1. ASSUME NEW o \in Observations PROVE WorstCase(obs[o], m2, n2)
    <3>1. PICK x \in ObsType : x = obs[o]
      BY DEF ShadowInv, TradesOK
    <3>2. WorstCase(x, m, n)
      BY <1>1, <3>1 DEF ShadowInv, TradesOK
    <3> QED BY <1>3, <3>1, <3>2, WorstCaseStays
  <2> QED BY <1>2, <2>1 DEF ShadowInv, TradesOK
<1>5. ASSUME NEW rows, PrefixOf(rows, m, n) PROVE PrefixOf(rows, m2, n2)
  BY <1>3, <1>5, PrefixStays
<1>6. CachesOK'
  <2>1. PrefixOf(file.rows, m2, n2)
    BY <1>1, <1>5 DEF ShadowInv, CachesOK
  <2>2. \A s \in Sessions : PrefixOf(ses[s].cached, m2, n2) /\ PrefixOf(ses[s].frame, m2, n2)
    BY <1>1, <1>5 DEF ShadowInv, CachesOK
  <2> QED BY <1>2, <2>1, <2>2 DEF ShadowInv, CachesOK
<1>7. LoadedWereOpened'
  BY DEF ShadowInv, LoadedWereOpened, Opened
<1> QED BY <1>4, <1>6, <1>7 DEF ShadowInv

LEMMA MarketSteps ==
    ASSUME ShadowInv, BarStarts \/ BarEnds \/ CorporateAction
    PROVE  ShadowInv'
<1>1. /\ MarketOK /\ Complete \in 0 .. MaxBars /\ Complete <= Len(market)
      /\ Len(market) \in Nat /\ market \in Seq(Bars)
      /\ forming => Complete = Len(market) - 1
      /\ ~forming => Complete = Len(market)
  BY CompleteBars DEF ShadowInv, MarketOK
<1>2. CASE BarStarts
  <2>1. PICK b \in Bars : market' = Append(market, b)
    BY <1>2 DEF BarStarts
  <2>2. /\ market' \in Seq(Bars) /\ Len(market') = Len(market) + 1
        /\ \A i \in 1 .. Len(market) : market'[i] = market[i]
    BY <1>1, <2>1
  <2>3. Complete' = Len(market) /\ Complete = Len(market)
    <3>1. Complete' = Len(market') - 1
      BY <1>2 DEF BarStarts, Complete
    <3>2. ~forming
      BY <1>2 DEF BarStarts
    <3> QED BY <1>1, <2>2, <3>1, <3>2
  <2>4. MarketOK'
    <3>1. forming' \in BOOLEAN
      BY <1>2, Zenon DEF BarStarts
    <3>2. Len(market') \in 1 .. MaxBars
      BY <1>1, <1>2, <2>2, ShadowAssumption DEF BarStarts
    <3> QED BY <1>1, <1>2, <2>2, <3>1, <3>2 DEF BarStarts, MarketOK
  <2> QED BY <1>1, <1>2, <2>2, <2>3, <2>4, MarketMoves DEF BarStarts, Extends
<1>3. CASE BarEnds
  <2>1. PICK b \in Bars : market' = [market EXCEPT ![Len(market)] = b]
    BY <1>3 DEF BarEnds
  <2>2. /\ market' \in Seq(Bars) /\ Len(market') = Len(market)
        /\ \A i \in 1 .. Len(market) - 1 : market'[i] = market[i]
    <3>1. Len(market) \in 1 .. Len(market)
      BY <1>1 DEF MarketOK
    <3>2. /\ market' \in Seq(Bars) /\ Len(market') = Len(market)
          /\ \A i \in 1 .. Len(market) :
                market'[i] = IF i = Len(market) THEN b ELSE market[i]
      BY <1>1, <2>1, <3>1, ExceptSeq
    <3> QED BY <1>1, <3>2
  <2>3. Complete' = Len(market) /\ Complete = Len(market) - 1
    BY <1>1, <1>3, <2>2 DEF BarEnds, Complete
  <2>4. MarketOK'
    <3>1. forming' \in BOOLEAN
      BY <1>3, Zenon DEF BarEnds
    <3> QED BY <1>1, <1>3, <2>2, <3>1 DEF BarEnds, MarketOK
  <2> QED BY <1>1, <1>3, <2>2, <2>3, <2>4, MarketMoves DEF BarEnds, Extends
<1>4. CASE CorporateAction
  <2>1. Complete' = Complete
    BY <1>4 DEF CorporateAction, Complete
  <2>2. basis' \in 0 .. MaxActions
    BY <1>1, <1>4, ShadowAssumption DEF CorporateAction, MarketOK
  <2>3. MarketOK'
    <3>1. forming' \in BOOLEAN
      BY <1>1, <1>4, Zenon DEF CorporateAction, MarketOK
    <3> QED BY <1>1, <1>4, <2>2, <3>1 DEF CorporateAction, MarketOK
  <2> QED BY <1>1, <1>4, <2>1, <2>3, MarketMoves DEF CorporateAction, Extends
<1> QED BY <1>2, <1>3, <1>4

-----------------------------------------------------------------------------
(***************************************************************************)
(* What a session does to the file and to itself.                          *)
(***************************************************************************)
Cached(rows) == PrefixOf(rows, market, Complete)

LEMMA SessionMoves ==
    ASSUME ShadowInv, NEW s \in Sessions, NEW x \in SesType, x.rows \subseteq Opened,
           Cached(x.cached), Cached(x.frame), ses' = [ses EXCEPT ![s] = x],
           NEW f \in [exists : BOOLEAN, rows : Seq(Row)], Cached(f.rows), file' = f,
           UNCHANGED <<market, forming, basis, obs>>, crashes' \in 0 .. MaxCrashes
    PROVE  ShadowInv'
<1>1. MarketOK'
  BY Zenon DEF ShadowInv, MarketOK
<1>2. Complete' = Complete /\ Opened' = Opened
  BY DEF Complete, Opened
<1>3. TradesOK'
  BY <1>2 DEF ShadowInv, TradesOK
<1>4. /\ ses \in [Sessions -> SesType] /\ ses' \in [Sessions -> SesType]
      /\ ses'[s] = x /\ \A r \in Sessions : r # s => ses'[r] = ses[r]
  BY DEF ShadowInv, CachesOK
<1>5. CachesOK'
  <2>1. /\ PrefixOf(f.rows, market, Complete)
        /\ PrefixOf(x.cached, market, Complete) /\ PrefixOf(x.frame, market, Complete)
    BY DEF Cached
  <2>2. ASSUME NEW r \in Sessions
        PROVE  /\ PrefixOf(ses'[r].cached, market, Complete)
               /\ PrefixOf(ses'[r].frame, market, Complete)
    BY <1>4, <2>1 DEF ShadowInv, CachesOK
  <2> QED BY <1>2, <1>4, <2>1, <2>2 DEF CachesOK
<1>6. LoadedWereOpened'
  BY <1>2, <1>4 DEF ShadowInv, LoadedWereOpened
<1> QED BY <1>1, <1>3, <1>5, <1>6 DEF ShadowInv

LEMMA NothingCached ==
    ASSUME ShadowInv PROVE Cached(<<>>)
<1>1. Complete \in Nat
  BY CompleteBars DEF ShadowInv
<1> QED BY <1>1 DEF Cached, PrefixOf

\* What a session holds, and what the file holds.
LEMMA SessionHolds ==
    ASSUME ShadowInv, NEW s \in Sessions
    PROVE  /\ ses[s] \in SesType /\ ses[s].rows \subseteq Opened
           /\ Cached(ses[s].cached) /\ Cached(ses[s].frame)
           /\ file \in [exists : BOOLEAN, rows : Seq(Row)] /\ Cached(file.rows)
           /\ crashes \in 0 .. MaxCrashes
BY DEF ShadowInv, CachesOK, LoadedWereOpened, MarketOK, Cached

\* The feed's answer: the finished bars at the present adjustment.
LEMMA Answer ==
    ASSUME ShadowInv
    PROVE  LET rows == CompleteBarsOnly(Upstream)
           IN /\ Cached(rows) /\ rows \in Seq(Row) /\ Len(rows) = Complete
              /\ \A i \in 1 .. Complete :
                    rows[i] = [bar |-> market[i], basis |-> basis]
<1> DEFINE rows == CompleteBarsOnly(Upstream)
<1>1. /\ Complete \in Nat /\ Complete <= Len(market) /\ Len(market) \in Nat
      /\ market \in Seq(Bars) /\ basis \in 0 .. MaxActions
  BY CompleteBars DEF ShadowInv, MarketOK
<1>2. \A i \in 1 .. Len(market) : [bar |-> market[i], basis |-> basis] \in Row
  BY <1>1 DEF Row
<1>3. /\ Upstream \in Seq(Row) /\ Len(Upstream) = Len(market)
      /\ \A i \in 1 .. Len(market) : Upstream[i] = [bar |-> market[i], basis |-> basis]
  BY <1>1, <1>2 DEF Upstream
<1>4. \A i \in 1 .. Complete : i \in 1 .. Len(market)
  BY <1>1
<1>5. /\ rows \in Seq(Row) /\ Len(rows) = Complete
      /\ \A i \in 1 .. Complete : rows[i] = Upstream[i]
  <2>1. CASE Complete = 0
    BY <1>1, <1>3, <2>1 DEF CompleteBarsOnly
  <2>2. CASE Complete # 0
    BY <1>1, <1>3, <2>2, SubSeqProperties DEF CompleteBarsOnly
  <2> QED BY <2>1, <2>2
<1>6. \A i \in 1 .. Complete : rows[i] = [bar |-> market[i], basis |-> basis]
  BY <1>3, <1>4, <1>5
<1> HIDE DEF rows
<1>7. Cached(rows)
  <2>1. \A i \in 1 .. Len(rows) : rows[i].bar = market[i] /\ rows[i].basis = basis
    BY <1>5, <1>6
  <2> QED BY <1>1, <1>5, <2>1 DEF Cached, PrefixOf
<1> QED BY <1>5, <1>6, <1>7 DEF rows

\* A tail whose overlap agrees continues the cached rows: the first open price
\* that agrees shows that both have the same adjustment.
LEMMA Merged ==
    ASSUME ShadowInv, NEW cached, Cached(cached),
           OverlapMatches(cached, CompleteBarsOnly(Upstream))
    PROVE  LET tail == CompleteBarsOnly(Upstream)
               merged == cached \o SubSeq(tail, Len(cached) + 1, Len(tail))
           IN Cached(merged) /\ merged \in Seq(Row)
<1> DEFINE tail == CompleteBarsOnly(Upstream)
           rest == SubSeq(tail, Len(cached) + 1, Len(tail))
           merged == cached \o rest
<1>1. /\ tail \in Seq(Row) /\ Len(tail) = Complete /\ Complete \in Nat
      /\ \A i \in 1 .. Complete : tail[i] = [bar |-> market[i], basis |-> basis]
  BY Answer, CompleteBars DEF ShadowInv
<1>2. /\ cached \in Seq(Row) /\ Len(cached) \in Nat /\ Len(cached) <= Complete
      /\ \A i \in 1 .. Len(cached) : cached[i].bar = market[i] /\ cached[i] \in Row
      /\ \A i, j \in 1 .. Len(cached) : cached[i].basis = cached[j].basis
  BY DEF Cached, PrefixOf
<1>3. \A i \in 1 .. Len(cached) : cached[i].basis = basis
  <2> SUFFICES ASSUME NEW i \in 1 .. Len(cached) PROVE cached[i].basis = basis
    OBVIOUS
  <2> DEFINE n == Len(cached)
  <2>1. n \in 1 .. n /\ n \in 1 .. Complete /\ n > n - Overlap
    BY <1>1, <1>2, ShadowAssumption
  <2>2. Price(cached[n], "open") = Price(tail[n], "open")
    BY <2>1 DEF OverlapMatches
  <2>3. /\ cached[n].bar = market[n] /\ cached[n].basis \in 0 .. MaxActions
        /\ tail[n].bar = market[n] /\ tail[n].basis = basis
        /\ market[n].open \in Nat \ {0} /\ basis \in 0 .. MaxActions
    <3>1. cached[n] \in Row /\ cached[n].bar = market[n]
      BY <1>2, <2>1
    <3>2. market[n] \in Bars /\ market[n] \in Bar
      BY <3>1, ShadowAssumption DEF Row
    <3>3. basis \in 0 .. MaxActions
      BY DEF ShadowInv, MarketOK
    <3>4. tail[n] = [bar |-> market[n], basis |-> basis]
      BY <1>1, <2>1
    <3> QED BY <3>1, <3>2, <3>3, <3>4 DEF Row, Bar
  <2>4. market[n].open * Factor[cached[n].basis] = market[n].open * Factor[basis]
    BY <2>2, <2>3 DEF Price
  <2>5. Factor[cached[n].basis] \in Nat /\ Factor[basis] \in Nat
    BY <2>3, ShadowAssumption
  <2>6. Factor[cached[n].basis] = Factor[basis]
    BY <2>3, <2>4, <2>5, ScaledApart
  <2>7. cached[n].basis = basis
    BY <2>3, <2>6, ShadowAssumption
  <2> QED BY <1>2, <2>1, <2>7
<1>4. /\ rest \in Seq(Row) /\ Len(rest) = Complete - Len(cached)
      /\ \A i \in 1 .. Complete - Len(cached) : rest[i] = tail[Len(cached) + i]
  <2>1. \A i \in Len(cached) + 1 .. Len(tail) : tail[i] \in Row
    BY <1>1, <1>2
  <2>2. Len(cached) + 1 \in Int /\ Len(tail) \in Int
    BY <1>1, <1>2
  <2> HIDE DEF tail
  <2>3. /\ rest \in Seq(Row)
        /\ Len(rest) = IF Len(cached) + 1 <= Len(tail)
                       THEN Len(tail) - (Len(cached) + 1) + 1 ELSE 0
        /\ \A i \in 1 .. Len(tail) - (Len(cached) + 1) + 1 :
              rest[i] = tail[(Len(cached) + 1) + i - 1]
    BY <2>1, <2>2, SubSeqProperties
  <2> HIDE DEF rest
  <2>4. Len(rest) = Complete - Len(cached)
    BY <1>1, <1>2, <2>3
  <2>5. ASSUME NEW i \in 1 .. Complete - Len(cached)
        PROVE  rest[i] = tail[Len(cached) + i]
    <3>1. i \in 1 .. Len(tail) - (Len(cached) + 1) + 1 /\ (Len(cached) + 1) + i - 1 = Len(cached) + i
      BY <1>1, <1>2
    <3> QED BY <2>3, <3>1
  <2> QED BY <2>3, <2>4, <2>5
<1> HIDE DEF tail, rest
<1>5. /\ merged \in Seq(Row) /\ Len(merged) = Complete
      /\ \A i \in 1 .. Complete :
            merged[i] = IF i <= Len(cached) THEN cached[i] ELSE rest[i - Len(cached)]
  BY <1>1, <1>2, <1>4, ConcatProperties
<1> HIDE DEF merged
<1>6. ASSUME NEW i \in 1 .. Complete
      PROVE  merged[i].bar = market[i] /\ merged[i].basis = basis
  <2>1. CASE i <= Len(cached)
    <3>1. i \in 1 .. Len(cached)
      BY <1>2, <2>1
    <3> QED BY <1>2, <1>3, <1>5, <2>1, <3>1
  <2>2. CASE ~(i <= Len(cached))
    <3>1. i - Len(cached) \in 1 .. Complete - Len(cached) /\ Len(cached) + (i - Len(cached)) = i
      BY <1>1, <1>2, <2>2
    <3>2. merged[i] = tail[i]
      BY <1>4, <1>5, <2>2, <3>1
    <3> QED BY <1>1, <3>2
  <2> QED BY <2>1, <2>2
<1>7. Cached(merged)
  BY <1>1, <1>5, <1>6 DEF Cached, PrefixOf
<1> QED BY <1>5, <1>7 DEF merged, rest, tail

LEMMA UpdatedSession ==
    ASSUME NEW A, NEW B, NEW C, NEW D,
           NEW y \in [pc : A, rows : B, cached : C, frame : D],
           NEW pc \in A, NEW cached \in C, NEW frame \in D
    PROVE  /\ LET x == [y EXCEPT !.pc = pc, !.cached = cached, !.frame = frame]
              IN /\ x \in [pc : A, rows : B, cached : C, frame : D]
                 /\ x.rows = y.rows /\ x.cached = cached /\ x.frame = frame
           /\ LET x == [y EXCEPT !.pc = pc, !.cached = cached]
              IN /\ x \in [pc : A, rows : B, cached : C, frame : D]
                 /\ x.rows = y.rows /\ x.cached = cached /\ x.frame = y.frame
OBVIOUS

LEMMA ServedOK ==
    ASSUME ShadowInv, NEW s \in Sessions, NEW rows, Cached(rows)
    PROVE  /\ Served(s, rows) \in SesType /\ Served(s, rows).rows = ses[s].rows
           /\ Served(s, rows).cached = <<>> /\ Served(s, rows).frame = rows
<1>1. rows \in Seq(Row) /\ <<>> \in Seq(Row)
  BY DEF Cached, PrefixOf
<1>2. PICK y \in SesType : y = ses[s]
  BY SessionHolds
<1>3. LET x == [y EXCEPT !.pc = "ready", !.cached = <<>>, !.frame = rows]
      IN x \in SesType /\ x.rows = y.rows /\ x.cached = <<>> /\ x.frame = rows
  BY <1>1, UpdatedSession DEF SesType
<1> QED BY <1>2, <1>3 DEF Served

-----------------------------------------------------------------------------
(***************************************************************************)
(* One step of a session.                                                  *)
(***************************************************************************)
\* The session goes on to pc with the rows it read; the file does not change.
LEMMA HoldsRows ==
    ASSUME ShadowInv, NEW s \in Sessions, NEW rows, Cached(rows),
           NEW pc \in {"first", "tail", "full"}
    PROVE  LET x == [ses[s] EXCEPT !.pc = pc, !.cached = rows]
           IN /\ x \in SesType /\ x.rows = ses[s].rows
              /\ x.cached = rows /\ x.frame = ses[s].frame
<1>1. rows \in Seq(Row)
  BY DEF Cached, PrefixOf
<1>2. PICK y \in SesType : y = ses[s]
  BY SessionHolds
<1>3. LET x == [y EXCEPT !.pc = pc, !.cached = rows]
      IN x \in SesType /\ x.rows = y.rows /\ x.cached = rows /\ x.frame = y.frame
  <2>1. y.frame \in Seq(Row)
    BY DEF SesType
  <2> QED BY <1>1, <2>1, UpdatedSession DEF SesType
<1> QED BY <1>2, <1>3

LEMMA BeginClosingInv ==
    ASSUME ShadowInv, NEW s \in Sessions, BeginClosing(s)
    PROVE  ShadowInv'
<1>1. PICK x : x = [Idle EXCEPT !.pc = "loaded", !.rows = Oldest]
  OBVIOUS
<1>2. PICK f : f = file
  OBVIOUS
<1>3. Oldest \subseteq Opened /\ Opened \subseteq Observations
  BY DEF Oldest, Open, Opened
<1>4. x = [pc |-> "loaded", rows |-> Oldest, cached |-> <<>>, frame |-> <<>>]
  BY <1>1 DEF Idle
<1>5. x \in SesType /\ x.rows \subseteq Opened
  BY <1>3, <1>4 DEF SesType
<1>6. Cached(x.cached) /\ Cached(x.frame)
  BY <1>4, NothingCached
<1>7. f \in [exists : BOOLEAN, rows : Seq(Row)] /\ Cached(f.rows) /\ file' = f
  BY <1>2, SessionHolds DEF BeginClosing
<1>8. ses' = [ses EXCEPT ![s] = x]
  BY <1>1 DEF BeginClosing
<1>9. UNCHANGED <<market, forming, basis, obs>> /\ crashes' \in 0 .. MaxCrashes
  BY SessionHolds DEF BeginClosing
<1> QED BY <1>5, <1>6, <1>7, <1>8, <1>9, SessionMoves

LEMMA ReadCacheInv ==
    ASSUME ShadowInv, NEW s \in Sessions, ReadCache(s)
    PROVE  ShadowInv'
<1>1. PICK f : f = file
  OBVIOUS
<1>2. f \in [exists : BOOLEAN, rows : Seq(Row)] /\ Cached(f.rows) /\ file' = f
  BY <1>1, SessionHolds DEF ReadCache
<1>3. UNCHANGED <<market, forming, basis, obs>> /\ crashes' \in 0 .. MaxCrashes
  BY SessionHolds DEF ReadCache
<1>4. /\ ses[s] \in SesType /\ ses[s].rows \subseteq Opened
      /\ Cached(ses[s].cached) /\ Cached(ses[s].frame)
  BY SessionHolds
<1>5. CASE file = NoFile
  <2>1. PICK x : x = [ses[s] EXCEPT !.pc = "first", !.cached = ses[s].cached]
    OBVIOUS
  <2>2. /\ x \in SesType /\ x.rows = ses[s].rows
        /\ x.cached = ses[s].cached /\ x.frame = ses[s].frame
    BY <1>4, <2>1, HoldsRows
  <2>3. ses' = [ses EXCEPT ![s] = x]
    <3>1. x = [ses[s] EXCEPT !.pc = "first"]
      BY <1>4, <2>1 DEF SesType
    <3> QED BY <1>5, <3>1 DEF ReadCache
  <2> QED BY <1>2, <1>3, <1>4, <2>2, <2>3, SessionMoves
<1>6. CASE file # NoFile /\ RefreshMode(file.rows) = "ready"
  <2>1. PICK x : x = Served(s, file.rows)
    OBVIOUS
  <2>2. /\ x \in SesType /\ x.rows = ses[s].rows
        /\ x.cached = <<>> /\ x.frame = file.rows
    BY <1>1, <1>2, <2>1, ServedOK
  <2>3. ses' = [ses EXCEPT ![s] = x]
    BY <1>6, <2>1 DEF ReadCache
  <2> QED BY <1>1, <1>2, <1>3, <1>4, <2>2, <2>3, NothingCached, SessionMoves
<1>7. CASE file # NoFile /\ RefreshMode(file.rows) # "ready"
  <2>1. RefreshMode(file.rows) \in {"tail", "full"}
    BY <1>7 DEF RefreshMode
  <2>2. PICK x : x = [ses[s] EXCEPT !.pc = RefreshMode(file.rows), !.cached = file.rows]
    OBVIOUS
  <2>3. /\ x \in SesType /\ x.rows = ses[s].rows
        /\ x.cached = file.rows /\ x.frame = ses[s].frame
    <3>1. PICK rows : rows = file.rows
      OBVIOUS
    <3>2. Cached(rows)
      BY <1>1, <1>2, <3>1
    <3>3. CASE RefreshMode(file.rows) = "tail"
      <4>1. x = [ses[s] EXCEPT !.pc = "tail", !.cached = rows]
        BY <2>2, <3>1, <3>3
      <4>2. LET z == [ses[s] EXCEPT !.pc = "tail", !.cached = rows]
            IN /\ z \in SesType /\ z.rows = ses[s].rows
               /\ z.cached = rows /\ z.frame = ses[s].frame
        BY <3>2, HoldsRows
      <4> QED BY <3>1, <4>1, <4>2
    <3>4. CASE RefreshMode(file.rows) = "full"
      <4>1. x = [ses[s] EXCEPT !.pc = "full", !.cached = rows]
        BY <2>2, <3>1, <3>4
      <4>2. LET z == [ses[s] EXCEPT !.pc = "full", !.cached = rows]
            IN /\ z \in SesType /\ z.rows = ses[s].rows
               /\ z.cached = rows /\ z.frame = ses[s].frame
        BY <3>2, HoldsRows
      <4> QED BY <3>1, <4>1, <4>2
    <3> QED BY <2>1, <3>3, <3>4
  <2>4. ses' = [ses EXCEPT ![s] = x]
    BY <1>7, <2>2 DEF ReadCache
  <2> QED BY <1>1, <1>2, <1>3, <1>4, <2>3, <2>4, SessionMoves
<1> QED BY <1>5, <1>6, <1>7

\* The session is served rows, and they are what the file has afterwards.
LEMMA ServesAndSaves ==
    ASSUME ShadowInv, NEW s \in Sessions, NEW rows, Cached(rows),
           ses' = [ses EXCEPT ![s] = Served(s, rows)],
           NEW f \in [exists : BOOLEAN, rows : Seq(Row)], Cached(f.rows), file' = f,
           UNCHANGED <<market, forming, basis, obs, crashes>>
    PROVE  ShadowInv'
<1>1. PICK x : x = Served(s, rows)
  OBVIOUS
<1>2. /\ x \in SesType /\ x.rows = ses[s].rows /\ x.cached = <<>> /\ x.frame = rows
  BY <1>1, ServedOK
<1>3. ses[s].rows \subseteq Opened /\ crashes' \in 0 .. MaxCrashes
  BY SessionHolds
<1> QED BY <1>1, <1>2, <1>3, NothingCached, SessionMoves

LEMMA CsvOK ==
    ASSUME NEW rows, Cached(rows)
    PROVE  Csv(rows) \in [exists : BOOLEAN, rows : Seq(Row)] /\ Csv(rows).rows = rows
BY DEF Cached, PrefixOf, Csv

LEMMA FullRefetchInv ==
    ASSUME ShadowInv, NEW s \in Sessions, FullRefetch(s)
    PROVE  ShadowInv'
<1>1. PICK rows : rows = CompleteBarsOnly(Upstream)
  OBVIOUS
<1>2. Cached(rows)
  BY <1>1, Answer
<1> QED BY <1>1, <1>2, CsvOK, ServesAndSaves DEF FullRefetch

LEMMA AppendTailInv ==
    ASSUME ShadowInv, NEW s \in Sessions, AppendTail(s)
    PROVE  ShadowInv'
<1>1. PICK cached : cached = ses[s].cached
  OBVIOUS
<1>2. PICK tail : tail = CompleteBarsOnly(Upstream)
  OBVIOUS
<1>3. Cached(cached) /\ ses[s] \in SesType /\ ses[s].rows \subseteq Opened /\ Cached(ses[s].frame)
  BY <1>1, SessionHolds
<1>4. CASE OverlapMatches(cached, tail)
  <2>1. PICK merged : merged = cached \o SubSeq(tail, Len(cached) + 1, Len(tail))
    OBVIOUS
  <2>2. Cached(merged)
    BY <1>2, <1>3, <1>4, <2>1, Merged
  <2>3. file' = Csv(merged) /\ ses' = [ses EXCEPT ![s] = Served(s, merged)]
    BY <1>1, <1>2, <1>4, <2>1 DEF AppendTail
  <2>4. PICK f : f = Csv(merged)
    OBVIOUS
  <2>5. f \in [exists : BOOLEAN, rows : Seq(Row)] /\ Cached(f.rows) /\ file' = f
    BY <2>2, <2>3, <2>4, CsvOK
  <2>6. UNCHANGED <<market, forming, basis, obs, crashes>>
    BY DEF AppendTail
  <2> QED BY <2>2, <2>3, <2>5, <2>6, ServesAndSaves
<1>5. CASE ~OverlapMatches(cached, tail)
  <2>1. PICK x : x = [ses[s] EXCEPT !.pc = "full", !.cached = cached]
    OBVIOUS
  <2>2. /\ x \in SesType /\ x.rows = ses[s].rows
        /\ x.cached = cached /\ x.frame = ses[s].frame
    BY <1>3, <2>1, HoldsRows
  <2>3. x = [ses[s] EXCEPT !.pc = "full"]
    BY <1>1, <1>3, <2>1 DEF SesType
  <2>4. ses' = [ses EXCEPT ![s] = x]
    BY <1>1, <1>2, <1>5, <2>3 DEF AppendTail
  <2>5. PICK f : f = file
    OBVIOUS
  <2>6. f \in [exists : BOOLEAN, rows : Seq(Row)] /\ Cached(f.rows) /\ file' = f
    BY <1>1, <1>2, <1>5, <2>5, SessionHolds DEF AppendTail
  <2>7. UNCHANGED <<market, forming, basis, obs>> /\ crashes' \in 0 .. MaxCrashes
    BY SessionHolds DEF AppendTail
  <2> QED BY <1>3, <2>2, <2>4, <2>6, <2>7, SessionMoves
<1> QED BY <1>4, <1>5

LEMMA FeedFailsInv ==
    ASSUME ShadowInv, NEW s \in Sessions, FeedFails(s)
    PROVE  ShadowInv'
<1>1. CASE ses[s].pc = "first"
  <2>1. PICK f : f = file
    OBVIOUS
  <2>2. f \in [exists : BOOLEAN, rows : Seq(Row)] /\ Cached(f.rows) /\ file' = f
    BY <1>1, <2>1, SessionHolds DEF FeedFails
  <2>3. ses' = [ses EXCEPT ![s] = Served(s, <<>>)]
    BY <1>1 DEF FeedFails
  <2> QED BY <2>2, <2>3, NothingCached, ServesAndSaves DEF FeedFails
<1>2. CASE ses[s].pc # "first"
  <2>1. PICK rows : rows = ses[s].cached
    OBVIOUS
  <2>2. Cached(rows)
    BY <2>1, SessionHolds
  <2>3. file' = Csv(rows) /\ ses' = [ses EXCEPT ![s] = Served(s, rows)]
    BY <1>2, <2>1 DEF FeedFails
  <2>4. PICK f : f = Csv(rows)
    OBVIOUS
  <2>5. f \in [exists : BOOLEAN, rows : Seq(Row)] /\ Cached(f.rows) /\ file' = f
    BY <2>2, <2>3, <2>4, CsvOK
  <2>6. UNCHANGED <<market, forming, basis, obs, crashes>>
    BY DEF FeedFails
  <2> QED BY <2>2, <2>3, <2>5, <2>6, ServesAndSaves
<1> QED BY <1>1, <1>2

LEMMA CrashInv ==
    ASSUME ShadowInv, NEW s \in Sessions, Crash(s)
    PROVE  ShadowInv'
<1>1. PICK x : x = Idle
  OBVIOUS
<1>2. PICK f : f = file
  OBVIOUS
<1>3. /\ x \in SesType /\ x.rows = {} /\ x.cached = <<>> /\ x.frame = <<>>
  BY <1>1 DEF Idle, SesType
<1>4. f \in [exists : BOOLEAN, rows : Seq(Row)] /\ Cached(f.rows) /\ file' = f
  BY <1>2, SessionHolds DEF Crash
<1>5. crashes' \in 0 .. MaxCrashes
  BY SessionHolds, ShadowAssumption DEF Crash
<1>6. ses' = [ses EXCEPT ![s] = x]
  BY <1>1 DEF Crash
<1>7. UNCHANGED <<market, forming, basis, obs>> /\ x.rows \subseteq Opened
  BY <1>3 DEF Crash
<1> QED BY <1>3, <1>4, <1>5, <1>6, <1>7, NothingCached, SessionMoves

-----------------------------------------------------------------------------
(***************************************************************************)
(* Opening and closing observations.                                       *)
(***************************************************************************)
\* Trades move while the market and the caches stay.
LEMMA TradesMove ==
    ASSUME ShadowInv, obs' \in [Observations -> ObsType],
           \A o \in Observations :
               /\ obs'[o].exit = NoExit <=> obs'[o].status # "closed"
               /\ WorstCase(obs'[o], market, Complete)
               /\ obs[o].status # "none" => obs'[o].status # "none",
           UNCHANGED <<market, forming, basis, file, crashes>>
    PROVE  /\ MarketOK' /\ TradesOK' /\ Complete' = Complete
           /\ Opened \subseteq Opened'
<1>1. MarketOK'
  BY Zenon DEF ShadowInv, MarketOK
<1>2. Complete' = Complete
  BY DEF Complete
<1>3. TradesOK'
  BY <1>2 DEF TradesOK
<1>4. Opened \subseteq Opened'
  BY DEF Opened
<1> QED BY <1>1, <1>2, <1>3, <1>4

LEMMA OpenObservationInv ==
    ASSUME ShadowInv, NEW o \in Observations, OpenObservation(o)
    PROVE  ShadowInv'
<1>1. PICK b \in Barriers :
         obs' = [obs EXCEPT ![o] =
                    [@ EXCEPT !.status = "open", !.nr = Cardinality(Opened) + 1,
                              !.at = Len(market), !.basis = basis, !.barrier = b]]
  BY DEF OpenObservation
<1>2. PICK x \in ObsType : x = obs[o]
  BY DEF ShadowInv, TradesOK
<1>3. PICK y : y = [x EXCEPT !.status = "open", !.nr = Cardinality(Opened) + 1,
                             !.at = Len(market), !.basis = basis, !.barrier = b]
  OBVIOUS
<1>4. obs \in [Observations -> ObsType] /\ obs' = [obs EXCEPT ![o] = y]
  BY <1>1, <1>2, <1>3 DEF ShadowInv, TradesOK
<1>5. x.status = "none" /\ x.exit = NoExit
  BY <1>2 DEF OpenObservation, ShadowInv, TradesOK
<1>6. Cardinality(Opened) \in Nat
  <2>1. IsFiniteSet(Opened)
    BY ShadowAssumption, FS_Subset DEF Opened
  <2> QED BY <2>1, FS_CardinalityType
<1>7. b \in BarrierType /\ Len(market) \in Nat /\ basis \in 0 .. MaxActions
  BY ShadowAssumption DEF ShadowInv, MarketOK, BarrierType
<1>8. y \in ObsType /\ y.status = "open" /\ y.exit = x.exit
  <2>1. Cardinality(Opened) + 1 \in Nat
    BY <1>6
  <2> QED BY <1>3, <1>7, <2>1 DEF ObsType
<1>9. /\ obs' \in [Observations -> ObsType]
      /\ \A p \in Observations :
            /\ obs'[p].exit = NoExit <=> obs'[p].status # "closed"
            /\ WorstCase(obs'[p], market, Complete)
            /\ obs[p].status # "none" => obs'[p].status # "none"
  <2>1. obs' \in [Observations -> ObsType]
    BY <1>4, <1>8
  <2>2. WorstCase(y, market, Complete)
    BY <1>8 DEF WorstCase
  <2>3. obs'[o] = y /\ \A p \in Observations : p # o => obs'[p] = obs[p]
    BY <1>4
  <2>4. ASSUME NEW p \in Observations
        PROVE  /\ obs'[p].exit = NoExit <=> obs'[p].status # "closed"
               /\ WorstCase(obs'[p], market, Complete)
               /\ obs[p].status # "none" => obs'[p].status # "none"
    <3>1. CASE p = o
      BY <1>5, <1>8, <2>2, <2>3, <3>1
    <3>2. CASE p # o
      BY <2>3, <3>2 DEF ShadowInv, TradesOK
    <3> QED BY <3>1, <3>2
  <2> QED BY <2>1, <2>4
<1>10. MarketOK' /\ TradesOK' /\ Complete' = Complete /\ Opened \subseteq Opened'
  BY <1>9, TradesMove DEF OpenObservation
<1>11. CachesOK'
  BY <1>10 DEF OpenObservation, ShadowInv, CachesOK
<1>12. LoadedWereOpened'
  BY <1>10 DEF OpenObservation, ShadowInv, LoadedWereOpened
<1> QED BY <1>10, <1>11, <1>12 DEF ShadowInv

\* An exit the orders would have had in the frame is the one they would have
\* had in the market, if history was not rewritten since the opening.
LEMMA DeservedIsWorst ==
    ASSUME NEW x \in ObsType, NEW rows, NEW m, NEW n \in Nat, PrefixOf(rows, m, n),
           NEW e, Deserved(TermsOf(x), SubSeq(rows, x.at + 1, Len(rows)), e),
           NEW y, y.exit = e, y.at = x.at, y.basis = x.basis, y.barrier = x.barrier
    PROVE  WorstCase(y, m, n)
<1> DEFINE future == SubSeq(rows, x.at + 1, Len(rows))
           t == TermsOf(x)
<1> SUFFICES ASSUME e.basis = x.basis PROVE WorstCase(y, m, n)
  BY DEF WorstCase
<1>1. /\ rows \in Seq(Row) /\ Len(rows) \in Nat /\ Len(rows) <= n
      /\ \A i \in 1 .. Len(rows) : rows[i] \in Row /\ rows[i].bar = m[i]
      /\ \A i, j \in 1 .. Len(rows) : rows[i].basis = rows[j].basis
  BY DEF PrefixOf
<1>2. x.at \in Nat
  BY DEF ObsType
<1>3. /\ Len(future) = IF x.at + 1 <= Len(rows) THEN Len(rows) - x.at ELSE 0
      /\ \A k \in 1 .. Len(rows) - x.at : future[k] = rows[x.at + k]
  <2>1. \A i \in x.at + 1 .. Len(rows) : rows[i] \in Row
    BY <1>1, <1>2
  <2>2. x.at + 1 \in Int /\ Len(rows) \in Int
    BY <1>1, <1>2
  <2>3. /\ Len(future) = IF x.at + 1 <= Len(rows) THEN Len(rows) - (x.at + 1) + 1 ELSE 0
        /\ \A k \in 1 .. Len(rows) - (x.at + 1) + 1 : future[k] = rows[(x.at + 1) + k - 1]
    BY <2>1, <2>2, SubSeqProperties
  <2> HIDE DEF future
  <2>4. ASSUME NEW k \in 1 .. Len(rows) - x.at PROVE future[k] = rows[x.at + k]
    <3>1. k \in 1 .. Len(rows) - (x.at + 1) + 1 /\ (x.at + 1) + k - 1 = x.at + k
      <4>1. PICK at \in Nat : at = x.at
        BY <1>2
      <4>2. PICK len \in Nat : len = Len(rows)
        BY <1>1
      <4>3. k \in 1 .. len - at
        BY <4>1, <4>2
      <4>4. k \in 1 .. len - (at + 1) + 1 /\ (at + 1) + k - 1 = at + k
        BY <4>3
      <4> QED BY <4>1, <4>2, <4>4
    <3> QED BY <2>3, <3>1
  <2> QED BY <1>1, <1>2, <2>3, <2>4
<1> HIDE DEF future
<1>4. Deserved(t, future, e)
  BY DEF future
<1>5. /\ e.held \in 1 .. MaxHold /\ e.held <= Len(future) /\ MaxHold \in Nat
      /\ e.basis = future[e.held].basis
  BY <1>4, ShadowAssumption DEF Deserved
<1>6. /\ e.held <= Len(rows) - x.at
      /\ \A k \in 1 .. e.held : k \in 1 .. Len(rows) - x.at /\ x.at + k \in 1 .. Len(rows)
  <2>1. PICK h \in Nat : h = e.held /\ h >= 1
    BY <1>5
  <2>2. PICK at \in Nat : at = x.at
    BY <1>2
  <2>3. PICK len \in Nat : len = Len(rows)
    BY <1>1
  <2>4. h <= len - at
    BY <1>3, <1>5, <2>1, <2>2, <2>3
  <2>5. \A k \in 1 .. h : k \in 1 .. len - at /\ at + k \in 1 .. len
    BY <2>4
  <2> QED BY <2>1, <2>2, <2>3, <2>4, <2>5
<1>7. e.held \in 1 .. e.held /\ \A k \in 1 .. e.held - 1 : k \in 1 .. e.held
  BY <1>5
<1>8. \A k \in 1 .. e.held : rows[x.at + k].basis = x.basis
  <2>1. rows[x.at + e.held].basis = x.basis
    BY <1>3, <1>5, <1>6, <1>7
  <2> QED BY <1>1, <1>6, <1>7, <2>1
<1>9. \A k \in 1 .. e.held : future[k] = RowAt(y, m, x.at + k)
  <2> SUFFICES ASSUME NEW k \in 1 .. e.held PROVE future[k] = RowAt(y, m, x.at + k)
    OBVIOUS
  <2>1. PICK r \in Row : r = rows[x.at + k]
    BY <1>1, <1>6
  <2>2. r.bar = m[x.at + k] /\ r.basis = x.basis
    BY <1>1, <1>6, <1>8, <2>1
  <2>3. r = [bar |-> r.bar, basis |-> r.basis]
    BY DEF Row
  <2>4. future[k] = r
    BY <1>3, <1>6, <2>1
  <2> QED BY <2>2, <2>3, <2>4 DEF RowAt
<1>10. TermsOf(y) = t
  BY DEF TermsOf
<1> HIDE DEF t
<1>11. \A k \in 1 .. e.held - 1 : Fills(t, RowAt(y, m, x.at + k)) = {}
  BY <1>4, <1>7, <1>9 DEF Deserved
<1>12. PICK row : row = RowAt(y, m, x.at + e.held)
  OBVIOUS
<1>13. IF Fills(t, row) = {} THEN e.held = MaxHold /\ e.price = Price(row, "close")
       ELSE e.price \in Worst(t, Fills(t, row))
  BY <1>4, <1>7, <1>9, <1>12 DEF Deserved
<1>14. x.at + e.held <= n
  BY <1>1, <1>2, <1>5, <1>6
<1> QED BY <1>5, <1>10, <1>11, <1>12, <1>13, <1>14 DEF WorstCase

\* The prices a stored trade is judged by are numbers.
LEMMA TermsTyped ==
    ASSUME NEW x \in ObsType PROVE TermsOf(x) \in TermsType
<1>1. /\ x.barrier \in BarrierType /\ Factor[x.basis] \in Nat
  BY ShadowAssumption DEF ObsType
<1>2. PICK f \in Nat : f = Factor[x.basis]
  BY <1>1
<1>3. /\ x.barrier.side \in {1, -1} /\ x.barrier.entry \in Nat
      /\ x.barrier.stop \in Nat /\ x.barrier.target \in Nat
  BY <1>1 DEF BarrierType
<1>4. \A k \in Nat : k * f \in Nat
  OBVIOUS
<1> QED BY <1>2, <1>3, <1>4 DEF TermsOf, TermsType

\* A trade that a session settles keeps its opening, and its exit is deserved.
LEMMA SettledOK ==
    ASSUME ShadowInv, NEW s \in Sessions, NEW o \in ses[s].rows,
           NEW y, y = Settled(o, EvaluateTrade(o, ses[s].frame))
    PROVE  /\ y \in ObsType /\ y.status # "none"
           /\ y.exit = NoExit <=> y.status # "closed"
           /\ WorstCase(y, market, Complete)
<1>1. PICK x \in ObsType : x = obs[o]
  BY SessionHolds DEF ShadowInv, TradesOK, Opened
<1>2. /\ o \in Observations /\ x.status \in {"open", "closed"}
      /\ x.exit = NoExit <=> x.status # "closed"
      /\ WorstCase(x, market, Complete)
  BY <1>1, SessionHolds DEF ShadowInv, TradesOK, Opened, ObsType
<1>3. PICK rows : rows = ses[s].frame
  OBVIOUS
<1>4. Cached(rows) /\ rows \in Seq(Row) /\ Complete \in Nat /\ Len(rows) \in Nat
  BY <1>3, SessionHolds, CompleteBars DEF Cached, PrefixOf, ShadowInv
<1>5. PICK e : e = TripleBarrierOutcome(TermsOf(x), SubSeq(rows, x.at + 1, Len(rows)))
  OBVIOUS
<1>6. EvaluateTrade(o, ses[s].frame) = e
  BY <1>1, <1>3, <1>5 DEF EvaluateTrade, Future, Terms, TermsOf, Level
<1>7. y = IF e = NoExit THEN [x EXCEPT !.outcome = NoExit]
          ELSE [x EXCEPT !.status = "closed", !.exit = e, !.outcome = e]
  BY <1>1, <1>6 DEF Settled
<1>8. SubSeq(rows, x.at + 1, Len(rows)) \in Seq(Row)
  <2>1. x.at \in Nat
    BY DEF ObsType
  <2>2. \A i \in x.at + 1 .. Len(rows) : rows[i] \in Row
    BY <1>4, <2>1
  <2> QED BY <1>4, <2>1, <2>2, SubSeqProperties
<1>9. e \in Exit /\ (e = NoExit \/ Deserved(TermsOf(x), SubSeq(rows, x.at + 1, Len(rows)), e))
  BY <1>5, <1>8, TermsTyped, OutcomeDeserved DEF RightOutcome
<1>10. CASE e = NoExit
  <2>1. y = [x EXCEPT !.outcome = e]
    BY <1>7, <1>10
  <2>2. y \in ObsType
    BY <1>9, <2>1 DEF ObsType
  <2>3. /\ y.status = x.status /\ y.exit = x.exit /\ y.at = x.at /\ y.basis = x.basis
        /\ y.barrier = x.barrier
    BY <2>1 DEF ObsType
  <2>4. TermsOf(y) = TermsOf(x) /\ \A i : RowAt(y, market, i) = RowAt(x, market, i)
    BY <2>3 DEF TermsOf, RowAt
  <2>5. WorstCase(y, market, Complete)
    BY <1>2, <2>3, <2>4 DEF WorstCase
  <2> QED BY <1>2, <2>2, <2>3, <2>5
<1>11. CASE e # NoExit
  <2>1. y = [x EXCEPT !.status = "closed", !.exit = e, !.outcome = e]
    BY <1>7, <1>11
  <2>2. y \in ObsType
    BY <1>9, <2>1 DEF ObsType
  <2>3. /\ y.status = "closed" /\ y.exit = e /\ y.at = x.at /\ y.basis = x.basis
        /\ y.barrier = x.barrier
    BY <2>1 DEF ObsType
  <2>4. PICK m, n : m = market /\ n = Complete
    OBVIOUS
  <2>5. PrefixOf(rows, m, n) /\ n \in Nat
    BY <1>4, <2>4 DEF Cached
  <2>6. WorstCase(y, m, n)
    BY <1>9, <1>11, <2>3, <2>5, DeservedIsWorst
  <2> QED BY <1>11, <2>2, <2>3, <2>4, <2>6
<1> QED BY <1>10, <1>11

LEMMA CloseObservationsInv ==
    ASSUME ShadowInv, NEW s \in Sessions, CloseObservations(s)
    PROVE  ShadowInv'
<1> DEFINE settled(o) == Settled(o, EvaluateTrade(o, ses[s].frame))
<1>1. obs' = [o \in Observations |-> IF o \in ses[s].rows THEN settled(o) ELSE obs[o]]
  BY DEF CloseObservations
<1>2. \A o \in ses[s].rows :
         /\ settled(o) \in ObsType /\ settled(o).status # "none"
         /\ settled(o).exit = NoExit <=> settled(o).status # "closed"
         /\ WorstCase(settled(o), market, Complete)
  <2> SUFFICES ASSUME NEW o \in ses[s].rows
               PROVE  /\ settled(o) \in ObsType /\ settled(o).status # "none"
                      /\ settled(o).exit = NoExit <=> settled(o).status # "closed"
                      /\ WorstCase(settled(o), market, Complete)
    OBVIOUS
  <2>1. PICK y : y = settled(o)
    OBVIOUS
  <2> QED BY <2>1, SettledOK
<1> HIDE DEF settled
<1>3. ses[s].rows \subseteq Observations
  BY SessionHolds DEF SesType
<1>4. obs' \in [Observations -> ObsType]
  BY <1>1, <1>2 DEF ShadowInv, TradesOK
<1>5. \A o \in Observations :
         /\ obs'[o].exit = NoExit <=> obs'[o].status # "closed"
         /\ WorstCase(obs'[o], market, Complete)
         /\ obs[o].status # "none" => obs'[o].status # "none"
  BY <1>1, <1>2 DEF ShadowInv, TradesOK
<1>6. MarketOK' /\ TradesOK' /\ Complete' = Complete /\ Opened \subseteq Opened'
  BY <1>4, <1>5, TradesMove DEF CloseObservations
<1>7. PICK x : x = Idle
  OBVIOUS
<1>8. /\ x \in SesType /\ x.rows = {} /\ Cached(x.cached) /\ Cached(x.frame)
  BY <1>7, NothingCached DEF Idle, SesType
<1>9. /\ ses \in [Sessions -> SesType] /\ ses' = [ses EXCEPT ![s] = x]
  BY <1>7 DEF CloseObservations, ShadowInv, CachesOK
<1>10. CachesOK'
  <2>1. /\ ses' \in [Sessions -> SesType]
        /\ ses'[s] = x /\ \A r \in Sessions : r # s => ses'[r] = ses[r]
    BY <1>8, <1>9
  <2>2. ASSUME NEW r \in Sessions
        PROVE  /\ PrefixOf(ses'[r].cached, market, Complete)
               /\ PrefixOf(ses'[r].frame, market, Complete)
    BY <1>8, <2>1 DEF ShadowInv, CachesOK, Cached
  <2> QED BY <1>6, <2>1, <2>2 DEF CloseObservations, ShadowInv, CachesOK
<1>11. LoadedWereOpened'
  BY <1>6, <1>8, <1>9 DEF ShadowInv, LoadedWereOpened
<1> QED BY <1>6, <1>10, <1>11 DEF ShadowInv

LEMMA NextInv ==
    ASSUME ShadowInv, [Next]_vars PROVE ShadowInv'
<1>1. CASE Next
  <2>1. ASSUME NEW s \in Sessions, SessionStep(s) \/ Crash(s) PROVE ShadowInv'
    BY <2>1, BeginClosingInv, ReadCacheInv, FullRefetchInv, AppendTailInv, FeedFailsInv,
       CloseObservationsInv, CrashInv DEF SessionStep
  <2>2. ASSUME NEW o \in Observations, OpenObservation(o) PROVE ShadowInv'
    BY <2>2, OpenObservationInv
  <2>3. CASE BarStarts \/ BarEnds \/ CorporateAction
    BY <2>3, MarketSteps
  <2> QED BY <1>1, <2>1, <2>2, <2>3 DEF Next
<1>2. CASE UNCHANGED vars
  <2>1. MarketOK'
    BY <1>2, Zenon DEF vars, ShadowInv, MarketOK
  <2>2. Complete' = Complete /\ Opened' = Opened
    BY <1>2 DEF vars, Complete, Opened
  <2>3. TradesOK' /\ CachesOK' /\ LoadedWereOpened'
    BY <1>2, <2>2 DEF vars, ShadowInv, TradesOK, CachesOK, LoadedWereOpened
  <2> QED BY <2>1, <2>3 DEF ShadowInv
<1> QED BY <1>1, <1>2

-----------------------------------------------------------------------------
(***************************************************************************)
(* The theorems.                                                           *)
(***************************************************************************)
\* The copies of the cache, the loaded trades and the stored exits stay as
\* ShadowInv says, whatever order the market, the feed and the sessions move in.
THEOREM ShadowInvariant == Spec => []ShadowInv
BY InitInv, NextInv, PTL DEF Spec

\* The tables, the file and the sessions keep their shapes, and a trade has an
\* exit exactly when close_open_observations has closed it.
THEOREM ShadowTypeCorrect == Spec => []TypeOK
BY ShadowInvariant, InvType, PTL

\* CachedMarketDataProvider never serves or saves bars of two adjustments
\* together, with any number of processes that share the file.
THEOREM CacheNeverMixes == Spec => []OneBasis
BY ShadowInvariant, InvOneBasis, PTL

\* The exit triple_barrier_outcome computed is, bar and price, the worst one a
\* stop and a limit order left in the market could have had.
THEOREM ExitsAreWorstCase == Spec => []ExitIsWorstCase
BY ShadowInvariant, InvWorstCase, PTL

=============================================================================
