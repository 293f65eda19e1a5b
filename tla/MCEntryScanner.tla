--------------------------- MODULE MCEntryScanner ---------------------------
(* Small instances of EntryScanner for TLC. *)
EXTENDS EntryScanner, TLC

CONSTANTS p1, p2, k1, k2

OneScanner == {p1}
TwoScanners == {p1, p2}
OneKey == {k1}
TwoKeys == {k1, k2}
OneSymbol == [k \in Keys |-> "AAPL"]
EveryModule == {"laboratory", "daily", "fox_hunter"}
LabOnly == {"laboratory"}
KeySymmetry == Permutations(Keys)

=============================================================================
