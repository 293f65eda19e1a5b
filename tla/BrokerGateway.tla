--------------------------- MODULE BrokerGateway ---------------------------
(***************************************************************************)
(* The IBKR gateway as Tradeo's code uses it.  It is EXTERNAL: no line of  *)
(* it lives in the repository, and what is written here is what           *)
(* services/ibkr_broker.py and services/reconciliation.py rely on or guard *)
(* against (acknowledgement, rejection, partial fills, OCA exits, DAY      *)
(* orders, executions reported for the current day only, cancellations     *)
(* that are requested and never awaited).                                  *)
(*                                                                         *)
(* A group is what one call places together: a bracket (entry, target,     *)
(* stop) or the pair of exits of a repair.  All positions are long; a      *)
(* short one is the mirror image.  Quantities are small multiples of one   *)
(* lot so that partial fills happen.                                       *)
(***************************************************************************)
EXTENDS Integers, FiniteSets, FiniteSetsExt

CONSTANTS
    Signals,      \* rows of the signals table
    SymbolOf,     \* the symbol of each signal
    Qty,          \* Signal.suggested_qty, in lots
    MaxGroups,    \* bound: groups of orders ever placed
    MaxDays       \* bound: session ends

ASSUME GatewayAssumption ==
    /\ Signals # {}
    /\ Qty \in Nat \ {0}
    /\ MaxGroups \in Nat
    /\ MaxDays \in Nat

VARIABLES
    ib,        \* [Groups -> what the broker knows of the group]
    aged,      \* executions too old for reqExecutions to report, per leg
    cancels,   \* groups with cancelOrder requests in flight, per leg
    days       \* session ends so far

brokerVars == <<ib, aged, cancels, days>>

Groups == 1..MaxGroups
Legs == {"entry", "target", "stop"}
ExitLegs == {"target", "stop"}
Kinds == {"none", "bracket", "oca"}
LegStates == {"none", "pending", "working", "filled", "cancelled"}
Live == {"pending", "working"}

NoGroup(s) == [kind |-> "none", sig |-> s, st |-> [l \in Legs |-> "none"],
               filled |-> [l \in Legs |-> 0]]

GroupType == [kind : Kinds, sig : Signals, st : [Legs -> LegStates],
              filled : [Legs -> 0..Qty]]

BrokerTypeOK ==
    /\ ib \in [Groups -> GroupType]
    /\ aged \in [Groups -> [Legs -> 0..Qty]]
    /\ cancels \subseteq (Groups \X Legs)
    /\ days \in 0..MaxDays

BrokerInit ==
    /\ ib = [g \in Groups |-> NoGroup(CHOOSE s \in Signals : TRUE)]
    /\ aged = [g \in Groups |-> [l \in Legs |-> 0]]
    /\ cancels = {}
    /\ days = 0

(***************************************************************************)
(* What the broker reports.                                                *)
(***************************************************************************)
Placed(g) == ib[g].kind # "none"
NextGroup(g) == ~Placed(g) /\ \A h \in Groups : h < g => Placed(h)
Symbol(g) == SymbolOf[ib[g].sig]
IsLive(g, l) == ib[g].st[l] \in Live
Exited(g) == ib[g].filled["target"] + ib[g].filled["stop"]

GroupsOf(sym) == {g \in Groups : Placed(g) /\ Symbol(g) = sym}
FilledLots(sym, legs) ==
    {e \in GroupsOf(sym) \X legs \X (1..Qty) : e[3] <= ib[e[1]].filled[e[2]]}
Position(sym) == Cardinality(FilledLots(sym, {"entry"}))
                 - Cardinality(FilledLots(sym, ExitLegs))
Symbols == {SymbolOf[s] : s \in Signals}

\* reqExecutions: one record per executed lot of the current day.
Executions == {e \in Groups \X Legs \X (1..Qty) :
                  aged[e[1]][e[2]] < e[3] /\ e[3] <= ib[e[1]].filled[e[2]]}

\* reqAllOpenOrders: the legs that are neither filled nor cancelled.
OpenOrders == {o \in Groups \X Legs : IsLive(o[1], o[2])}

(***************************************************************************)
(* What the broker does by itself.                                         *)
(***************************************************************************)
\* Cancelling an entry that never filled cancels its attached exits.
CancelLegs(r, ls) ==
    LET hit == IF "entry" \in ls /\ r.filled["entry"] = 0 /\ r.kind = "bracket"
               THEN Legs ELSE ls
    IN [r EXCEPT !.st = [l \in Legs |->
            IF l \in hit /\ r.st[l] \in Live THEN "cancelled" ELSE r.st[l]]]

Accept(g) ==
    /\ \E l \in Legs : ib[g].st[l] = "pending"
    /\ ib' = [ib EXCEPT ![g].st = [l \in Legs |->
                  IF @[l] = "pending" THEN "working" ELSE @[l]]]
    /\ UNCHANGED <<aged, cancels, days>>

\* A rejection, or a cancellation nobody in the program asked for.
RejectLeg(g, l) ==
    /\ IsLive(g, l)
    /\ ib' = [ib EXCEPT ![g] = CancelLegs(@, {l})]
    /\ UNCHANGED <<aged, cancels, days>>

\* Attached exits work for the part of the entry that has filled, an OCA pair
\* for its whole quantity.
ExitCapacity(r) == IF r.kind = "bracket" THEN r.filled["entry"] ELSE Qty

\* One more lot of a leg; the exit that completes cancels the other one.
AddFill(r, l, full) ==
    [kind |-> r.kind, sig |-> r.sig,
     filled |-> [r.filled EXCEPT ![l] = r.filled[l] + 1],
     st |-> [k \in Legs |->
                IF full /\ k = l THEN "filled"
                ELSE IF full /\ {k, l} \subseteq ExitLegs /\ r.st[k] \in Live
                     THEN "cancelled"
                ELSE r.st[k]]]

FillLeg(g, l) ==
    LET r    == ib[g]
        full == IF l = "entry" THEN r.filled["entry"] + 1 = Qty
                ELSE /\ Exited(g) + 1 = ExitCapacity(r)
                     /\ r.st["entry"] \notin Live
    IN  /\ r.st[l] = "working"
        /\ r.filled[l] < Qty
        /\ l \in ExitLegs => Exited(g) < ExitCapacity(r)
        /\ ib' = [ib EXCEPT ![g] = AddFill(r, l, full)]
        /\ UNCHANGED <<aged, cancels, days>>

RequestedLegs(g) == {l \in Legs : <<g, l>> \in cancels}

ProcessCancels(g) ==
    /\ RequestedLegs(g) # {}
    /\ ib' = [ib EXCEPT ![g] = CancelLegs(@, RequestedLegs(g))]
    /\ cancels' = {c \in cancels : c[1] # g}
    /\ UNCHANGED <<aged, days>>

\* cancelOrder is not awaited: the session is closed one second later, and a
\* gateway refuses to cancel what another client id placed.
LoseCancels(g) ==
    /\ RequestedLegs(g) # {}
    /\ cancels' = {c \in cancels : c[1] # g}
    /\ UNCHANGED <<ib, aged, days>>

\* tif = "DAY": what still works is cancelled, and yesterday's executions
\* are no longer reported.
SessionEnd ==
    /\ days < MaxDays
    /\ days' = days + 1
    /\ ib' = [g \in Groups |-> CancelLegs(ib[g], Legs)]
    /\ aged' = [g \in Groups |-> ib[g].filled]
    /\ cancels' = {}

BrokerNext ==
    \/ \E g \in Groups : Accept(g) \/ ProcessCancels(g) \/ LoseCancels(g)
    \/ \E g \in Groups, l \in Legs : RejectLeg(g, l) \/ FillLeg(g, l)
    \/ SessionEnd

\* Placing a group: the legs leave the program together, because the gateway
\* holds a bracket until its last leg, the one with transmit=True, arrives.
Place(g, kind, s) ==
    ib' = [ib EXCEPT ![g] =
        [kind |-> kind, sig |-> s,
         st |-> [l \in Legs |-> IF kind = "oca" /\ l = "entry" THEN "none"
                                ELSE "pending"],
         filled |-> [l \in Legs |-> 0]]]

=============================================================================
