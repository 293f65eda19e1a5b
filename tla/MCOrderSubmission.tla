------------------------- MODULE MCOrderSubmission -------------------------
(* Small instances of OrderSubmission for TLC. *)
EXTENDS OrderSubmission, TLC

CONSTANTS s1, s2, p1, p2

OneSignal == {s1}
TwoSignals == {s1, s2}
TwoSubmitters == {p1, p2}
OneSymbol == [s \in Signals |-> "AAPL"]
SubmitterSymmetry == Permutations(Submitters)

=============================================================================
