------------------------ MODULE MCShadowObservations ------------------------
(* Small instances of ShadowObservations for TLC. *)
EXTENDS ShadowObservations, TLC

CONSTANTS o1, o2, s1, s2

OneObservation == {o1}
TwoObservations == {o1, o2}
OneSession == {s1}
TwoSessions == {s1, s2}

Doubling == [b \in 0 .. MaxActions |-> 2 ^ b]

\* A bar that touches nothing, the target of a long, both barriers, or opens
\* beyond one and goes to the other.
B(o, h, l, c) == [open |-> o, high |-> h, low |-> l, close |-> c]
FewBars == {B(3, 3, 3, 3), B(3, 4, 3, 3), B(3, 4, 2, 2), B(1, 4, 1, 4)}
ThreeBars == {B(3, 3, 3, 3), B(3, 4, 2, 2), B(1, 4, 1, 4)}

Long == [side |-> 1, entry |-> 3, stop |-> 2, target |-> 4]
Short == [side |-> -1, entry |-> 3, stop |-> 4, target |-> 2]
Beyond == [side |-> 1, entry |-> 3, stop |-> 2, target |-> 3]
LongShort == {Long, Short}
AllBarriers == {Long, Short, Beyond}

=============================================================================
