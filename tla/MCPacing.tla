------------------------------ MODULE MCPacing ------------------------------
(* Small instances of Pacing for TLC. *)
EXTENDS Pacing, TLC

OneType == {"historical"}

\* Two overlapping windows for one type, with and without a reserve.
MCRules ==
    [t \in Types |-> <<[cap |-> 2, window |-> 1, reserved |-> 0],
                       [cap |-> 3, window |-> 3, reserved |-> 1]>>]

Ask(sym, scope, prio, open, upd) ==
    [sym |-> sym, type |-> "historical", scope |-> scope, prio |-> prio,
     open |-> open, upd |-> upd]

\* Two requests for one chart, one of them for an open position; a rival with
\* a higher priority; a daily request; a chart that is still fresh.
MCRequests ==
    {Ask("AAPL", "intraday", 0, TRUE, 1), Ask("AAPL", "intraday", 2, FALSE, 0),
     Ask("SOUN", "intraday", 1, FALSE, 0), Ask("RXRX", "daily", 0, FALSE, 1),
     Ask("MSFT", "intraday", 2, TRUE, 2)}

=============================================================================
