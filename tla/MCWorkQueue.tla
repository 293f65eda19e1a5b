---------------------------- MODULE MCWorkQueue ----------------------------
(* Small instances of WorkQueue for TLC. *)
EXTENDS WorkQueue, TLC

CONSTANTS w1, w2, p1, p2

OneItem == {1}
TwoWorkers == {w1, w2}
TwoProducers == {p1, p2}

=============================================================================
