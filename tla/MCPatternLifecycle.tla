------------------------- MODULE MCPatternLifecycle -------------------------
(* Small instances of PatternLifecycle for TLC. *)
EXTENDS PatternLifecycle, TLC

CONSTANTS s1, s2

OneSession == {s1}
TwoSessions == {s1, s2}
SessionSymmetry == Permutations(Sessions)

=============================================================================
