-------------------------- MODULE MCReconciliation --------------------------
(* Small instances of Reconciliation for TLC. *)
EXTENDS Reconciliation, TLC

CONSTANTS s1, p1, r1

OneSignal == {s1}
OneSubmitter == {p1}
OneReconciler == {r1}
OneSymbol == [s \in Signals |-> "AAPL"]

=============================================================================
