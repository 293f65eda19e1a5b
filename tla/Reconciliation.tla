--------------------------- MODULE Reconciliation ---------------------------
(***************************************************************************)
(* ReconciliationService.reconcile and the exit repair it calls: what the  *)
(* database believes is open against what the gateway reports, the fills   *)
(* ingested on the way, the kill switch a divergence trips.                *)
(*                                                                         *)
(* A reconciliation reads the open trades, then the executions, then the   *)
(* positions, then the open orders, each in a connection of its own, while *)
(* submitters, the broker, a human and other reconciliations (the job and  *)
(* the API endpoint) go on.  Its session keeps the rows as it first loaded *)
(* them and writes nothing before its commit (autoflush is off), so its    *)
(* second query of open trades still returns the ones it has just closed   *)
(* in memory.                                                              *)
(***************************************************************************)
EXTENDS OrderSubmission

CONSTANTS
    Reconcilers,  \* concurrent callers of reconcile
    AutoRepair    \* settings.reconciliation_auto_repair_paper_exits

ASSUME ReconciliationAssumption ==
    /\ Reconcilers # {}
    /\ AutoRepair \in BOOLEAN

VARIABLE rec      \* each reconciler's program counter, session and snapshots

rvars == <<vars, rec>>

Lots == Groups \X Legs \X (1..Qty)

NoReconcile == [pc |-> "idle", view |-> [g \in Groups |-> NoTrade],
                fills |-> {}, pos |-> [y \in Symbols |-> 0], orders |-> {},
                dirty |-> {}, todo |-> {}, grp |-> 0, exits |-> {}]

RecType == [pc : {"idle", "fills", "positions", "orders", "compare", "repair",
                  "await", "record"},
            view : [Groups -> TradeType],
            fills : SUBSET Lots,
            pos : [Symbols -> Int],
            orders : SUBSET (Groups \X Legs \X (0..Qty)),
            dirty : SUBSET Groups,
            todo : SUBSET Groups,
            grp : 0..MaxGroups,
            exits : SUBSET (Groups \X ExitLegs)]

OpenTrades == {g \in Groups : trades[g].st = "open"}

(***************************************************************************)
(* The four reads.                                                         *)
(***************************************************************************)
\* Mutant: nothing to reconcile without an open trade.
BeginWithOpenTrades(r) ==
    /\ rec[r].pc = "idle" /\ OpenTrades # {}
    /\ rec' = [rec EXCEPT
                 ![r].pc = "fills",
                 ![r].view = [g \in Groups |-> IF g \in OpenTrades
                                               THEN trades[g] ELSE NoTrade]]
    /\ UNCHANGED vars

BeginReconcile(r) ==
    /\ rec[r].pc = "idle"
    /\ rec' = [rec EXCEPT
                 ![r].pc = "fills",
                 ![r].view = [g \in Groups |-> IF g \in OpenTrades
                                               THEN trades[g] ELSE NoTrade]]
    /\ UNCHANGED vars

FetchFills(r) ==
    /\ rec[r].pc = "fills"
    /\ rec' = [rec EXCEPT ![r].pc = "positions", ![r].fills = Executions]
    /\ UNCHANGED vars

\* A warning: the reconciliation goes on without fills.
FillsUnavailable(r) ==
    /\ rec[r].pc = "fills"
    /\ rec' = [rec EXCEPT ![r].pc = "positions"]
    /\ UNCHANGED vars

FetchPositions(r) ==
    /\ rec[r].pc = "positions"
    /\ rec' = [rec EXCEPT ![r].pc = "orders",
                          ![r].pos = [y \in Symbols |-> Position(y)]]
    /\ UNCHANGED vars

\* Mutant: the operands of the subtraction swapped.
RemainingSwapped(g, l) ==
    (IF l = "entry" THEN ib[g].filled["entry"] ELSE Exited(g)) - Qty

Remaining(g, l) ==
    Qty - (IF l = "entry" THEN ib[g].filled["entry"] ELSE Exited(g))

FetchOpenOrders(r) ==
    /\ rec[r].pc = "orders"
    /\ rec' = [rec EXCEPT
                 ![r].pc = "compare",
                 ![r].orders = {<<o[1], o[2], Remaining(o[1], o[2])>> :
                                   o \in OpenOrders}]
    /\ UNCHANGED vars

\* Positions or open orders cannot be read: nothing is concluded.
BrokerUnreachable(r) ==
    /\ rec[r].pc \in {"positions", "orders"}
    /\ rec' = [rec EXCEPT ![r] = NoReconcile]
    /\ UNCHANGED vars

(***************************************************************************)
(* _ingest_recent_fills.                                                   *)
(***************************************************************************)
\* The identity map: rows loaded earlier stay as they were, the others are
\* read now.
Session(r) == [g \in Groups |-> IF rec[r].view[g].st # "none"
                                THEN rec[r].view[g] ELSE trades[g]]

\* Mutant: a repair replaces order_ids instead of adding to them.
RepairReplacesIds(g, t) == IF t.repair = 0 THEN {g} ELSE {t.repair}

\* _metadata_order_ids: the bracket's own legs, which order_ids keeps for good,
\* and the exits of the last repair.
KnownGroups(g, t) == {g, t.repair}

\* Mutant: the fallback on the symbol applies to every fill.
FillMatchesBySymbol(e, g, t) == t.st # "none" /\ Symbol(e[1]) = Symbol(g)

\* _fill_matches_trade and a timestamp not before submitted_at.
FillMatches(e, g, t) ==
    /\ t.st # "none"
    /\ e[1] \in KnownGroups(g, t)
    /\ e[1] = g => e[3] > t.early[e[2]]

\* _match_fill_to_trade: a fill always carries an identity, so it belongs to
\* the one trade that knows its order, or to none.
MatchedFills(g, session, fills) ==
    {e \in fills : {h \in Groups : FillMatches(e, h, session[h])} = {g}}

EntryQty(fs) == Cardinality({e \in fs : e[2] = "entry"})
ExitQty(fs) == Cardinality({e \in fs : e[2] # "entry"})
MinQty(a, b) == IF a < b THEN a ELSE b
\* Mutant: only an exit of the full quantity closes a trade.
ClosesWhenFull(fs) == EntryQty(fs) > 0 /\ ExitQty(fs) >= Qty

Closes(fs) ==
    /\ EntryQty(fs) > 0 /\ ExitQty(fs) > 0
    /\ ExitQty(fs) >= MinQty(Qty, EntryQty(fs))

\* _apply_fill_records.
ApplyFillRecords(g, t, new) ==
    LET merged == {e \in t.fills : e[1] \in KnownGroups(g, t)} \union new
    IN  IF new = {} \/ merged = t.fills THEN t
        ELSE [t EXCEPT !.fills = merged,
                       !.st = IF Closes(merged) THEN "closed" ELSE @]

Ingested(r) ==
    LET session == Session(r)
    IN  [g \in Groups |-> ApplyFillRecords(g, session[g],
                              MatchedFills(g, session, rec[r].fills))]

(***************************************************************************)
(* The comparison.  OpenTrades is the second query: rows, not the session. *)
(***************************************************************************)
OpenOn(y) == {g \in OpenTrades : Symbol(g) = y}
OrdersOn(r, y) == {o \in rec[r].orders : Symbol(o[1]) = y}
ExpectedQty(y) == Qty * Cardinality(OpenOn(y))

MissingAtBroker(r) ==
    {g \in OpenTrades : rec[r].pos[Symbol(g)] = 0 /\ OrdersOn(r, Symbol(g)) = {}}

\* Bracket children point back to their parent; the exits of a repair do not.
OrderIdMissing(r) ==
    {g \in OpenTrades :
        /\ rec[r].pos[Symbol(g)] = 0
        /\ OrdersOn(r, Symbol(g)) # {}
        /\ \A o \in OrdersOn(r, Symbol(g)) : o[1] # g}

\* Mutant: a position is looked up among all trades of the symbol.
PositionNeverInDb(r) ==
    {y \in Symbols : /\ rec[r].pos[y] # 0
                     /\ \A g \in Groups : trades[g].st # "none" => Symbol(g) # y}

PositionNotInDb(r) == {y \in Symbols : rec[r].pos[y] # 0 /\ OpenOn(y) = {}}

QtyMismatch(r) ==
    {y \in Symbols :
        LET q == rec[r].pos[y] IN
        /\ q # 0 /\ OpenOn(y) # {} /\ q # ExpectedQty(y)
        /\ q < 0 \/ q > ExpectedQty(y) \/ OrdersOn(r, y) = {}}

Divergent(r) ==
    \/ MissingAtBroker(r) # {} \/ OrderIdMissing(r) # {}
    \/ PositionNotInDb(r) # {} \/ QtyMismatch(r) # {}

\* _has_complete_exit_protection: remaining exit quantity that refers to the
\* trade, on each side.
ExitsReferring(r, g, t, leg) ==
    {o \in rec[r].orders : o[1] \in KnownGroups(g, t) /\ o[2] = leg}
Protected(r, g, t) ==
    \A leg \in ExitLegs :
        MapThenSumSet(LAMBDA o : o[3], ExitsReferring(r, g, t, leg)) >= Qty

ToRepair(r, session) ==
    {g \in OpenTrades :
        /\ AutoRepair /\ Mode = "paper"
        /\ OpenOn(Symbol(g)) = {g}
        /\ rec[r].pos[Symbol(g)] = Qty
        /\ ~Protected(r, g, session[g])}

\* The commit writes the columns that changed: metadata_json as a whole, as
\* this session knows it, and the status if this session closed the trade.
Committed(view, dirty) ==
    [g \in Groups |->
        IF g \in dirty
        THEN [st |-> IF view[g].st = "closed" THEN "closed" ELSE trades[g].st,
              fills |-> view[g].fills, repair |-> view[g].repair,
              early |-> trades[g].early]
        ELSE trades[g]]

Compare(r) ==
    LET view  == Ingested(r)
        dirty == {g \in Groups : view[g] # Session(r)[g]}
        todo  == ToRepair(r, view)
    IN
    /\ rec[r].pc = "compare"
    /\ IF ~Divergent(r) /\ todo # {}
       THEN /\ rec' = [rec EXCEPT ![r] = [NoReconcile EXCEPT
                          !.pc = "repair", !.view = view, !.dirty = dirty,
                          !.todo = todo]]
            /\ UNCHANGED <<trades, killSwitch>>
       ELSE /\ rec' = [rec EXCEPT ![r] = NoReconcile]
            /\ trades' = Committed(view, dirty)
            /\ killSwitch' = (killSwitch \/ Divergent(r))
    /\ UNCHANGED <<brokerVars, sig, simulated, subVars>>

(***************************************************************************)
(* repair_trade_exit_protection, one trade at a time.                      *)
(***************************************************************************)
Repairing(r) == CHOOSE g \in rec[r].todo : \A h \in rec[r].todo : g <= h

\* The target and the stop are placed first; what protected the symbol before
\* is only remembered.
PlaceRepair(r) ==
    LET g == Repairing(r) IN
    /\ rec[r].pc = "repair"
    /\ rec[r].view[g].st = "open"
    /\ \E h \in Groups :
          /\ NextGroup(h)
          /\ Place(h, "oca", ib[g].sig)
          /\ rec' = [rec EXCEPT
                       ![r].pc = "await", ![r].grp = h,
                       ![r].exits = {o \in OpenOrders :
                           o[2] \in ExitLegs /\ Symbol(o[1]) = Symbol(g)}]
    /\ UNCHANGED <<aged, cancels, days, dbVars, subVars>>

RepairAcknowledged(h) == \A l \in ExitLegs : ib[h].st[l] \in {"working", "filled"}

\* Only now are the earlier exits cancelled.
CancelReplacedExits(r) ==
    /\ rec[r].pc = "await"
    /\ RepairAcknowledged(rec[r].grp)
    /\ cancels' = cancels \union rec[r].exits
    /\ rec' = [rec EXCEPT ![r].pc = "record"]
    /\ UNCHANGED <<ib, aged, days, dbVars, subVars>>

\* The next trade to repair, or the commit that ends the reconciliation.
NextRepair(r) ==
    LET todo == rec[r].todo \ {Repairing(r)} IN
    IF todo # {}
    THEN /\ rec' = [rec EXCEPT ![r].pc = "repair", ![r].todo = todo,
                               ![r].grp = 0, ![r].exits = {}]
         /\ UNCHANGED trades
    ELSE /\ rec' = [rec EXCEPT ![r] = NoReconcile]
         /\ trades' = Committed(rec[r].view, rec[r].dirty)

RepairNotAcknowledged(r) ==
    /\ rec[r].pc = "await"
    /\ ~RepairAcknowledged(rec[r].grp)
    /\ cancels' = cancels \union {<<rec[r].grp, l>> : l \in ExitLegs}
    /\ NextRepair(r)
    /\ UNCHANGED <<ib, aged, days, sig, simulated, killSwitch, subVars>>

\* The trade was closed in memory, there is no connection or no contract, or
\* the connection is lost between two of the calls.
RepairFails(r) ==
    /\ rec[r].pc \in {"repair", "await", "record"}
    /\ NextRepair(r)
    /\ UNCHANGED <<brokerVars, sig, simulated, killSwitch, subVars>>

\* One commit for the repair and whatever the session had pending; after it
\* the rows are loaded afresh.
RecordRepair(r) ==
    LET g     == Repairing(r)
        todo  == rec[r].todo \ {g}
        rows  == Committed([rec[r].view EXCEPT ![g].repair = rec[r].grp],
                           rec[r].dirty \union {g})
    IN
    /\ rec[r].pc = "record"
    /\ trades' = rows
    /\ rec' = [rec EXCEPT ![r] = IF todo = {} THEN NoReconcile
                  ELSE [NoReconcile EXCEPT !.pc = "repair", !.view = rows,
                                           !.todo = todo]]
    /\ UNCHANGED <<brokerVars, sig, simulated, killSwitch, subVars>>

ReconcilerCrash(r) ==
    /\ rec[r].pc # "idle"
    /\ crashes < MaxCrashes
    /\ crashes' = crashes + 1
    /\ rec' = [rec EXCEPT ![r] = NoReconcile]
    /\ UNCHANGED <<brokerVars, dbVars, human, sub, owner, abandoned, lost,
                   attempts>>

FetchStep(r) == FetchFills(r) \/ FetchPositions(r) \/ FetchOpenOrders(r)

ReconcilerStep(r) ==
    \/ BeginReconcile(r) \/ FetchStep(r) \/ FillsUnavailable(r)
    \/ BrokerUnreachable(r) \/ Compare(r) \/ PlaceRepair(r)
    \/ CancelReplacedExits(r) \/ RepairNotAcknowledged(r) \/ RepairFails(r)
    \/ RecordRepair(r)

\* The approval endpoint and PaperBroker touch nothing a reconciliation reads:
\* signals start approved, in live mode by a human, and the rest of
\* OrderSubmission goes on as it does.
ApprovedSignals ==
    {[status |-> IF Mode = "live" THEN "live_approved" ELSE "paper_approved",
      approved |-> TRUE, outcome |-> "none"]}

RInit ==
    /\ Quiet
    /\ sig \in [Signals -> ApprovedSignals]
    /\ rec = [r \in Reconcilers |-> NoReconcile]

OtherStep ==
    \/ \E p \in Submitters : SubmitterStep(p) \/ Disconnected(p) \/ Crash(p)
    \/ \E p \in Submitters, s \in Signals : LoadSignal(p, s, "loaded")
    \/ SetKillSwitch
    \/ BrokerStep

RNext ==
    \/ OtherStep /\ UNCHANGED rec
    \/ \E r \in Reconcilers : ReconcilerStep(r) \/ ReconcilerCrash(r)

RSpec == RInit /\ [][RNext]_rvars

\* The job runs on an interval and the endpoint on demand, so a reconciliation
\* that can move does; the gateway is assumed to answer again and again.
FairRSpec ==
    /\ RSpec
    /\ \A r \in Reconcilers :
          /\ WF_rvars(ReconcilerStep(r))
          /\ SF_rvars(FetchPositions(r))
          /\ SF_rvars(FetchOpenOrders(r))

\* Every wait of a submission has a deadline, too.
FairLSpec ==
    /\ FairRSpec
    /\ \A p \in Submitters : WF_rvars(SubmitterStep(p) /\ UNCHANGED rec)

-----------------------------------------------------------------------------
(***************************************************************************)
(* Properties.                                                             *)
(***************************************************************************)
\* The sessions and snapshots of reconcile keep their shapes.
ReconciliationTypeOK == TypeOK /\ rec \in [Reconcilers -> RecType]

\* _ingest_recent_fills credits an execution to one trade, whose own orders
\* executed it, however brackets, lost brackets and repairs on the same symbol
\* interleave.
FillsAttributedOnce ==
    \A g \in Groups : \A e \in trades[g].fills :
        /\ e[1] # g => ib[e[1]].kind = "oca" /\ ib[e[1]].sig = ib[g].sig
        /\ e[3] <= ib[e[1]].filled[e[2]]
        /\ \A h \in Groups \ {g} : e \notin trades[h].fills

\* A fill once ingested stays ingested, although _apply_fill_records prunes the
\* fills of orders a later repair made the trade forget: a repair needs the
\* whole position to be there, so no exit of the trade had executed.
NoFillForgotten ==
    [][\A g \in Groups : trades[g].fills \subseteq trades'[g].fills]_rvars

\* What the broker holds on y and the open trades do not explain.
Unexplained(y) ==
    LET q == Position(y) IN
    IF OpenOn(y) = {} THEN q # 0
    ELSE \/ q < 0 \/ q > ExpectedQty(y)
         \/ q < ExpectedQty(y) /\ \A o \in OpenOrders : Symbol(o[1]) # y

\* A wrong picture of the exposure that lasts is detected: the kill switch is
\* on again and again, whoever turns it off and whatever caused it (a lost
\* bracket, exits that filled twice, an expired entry, a missed fill).
DriftDetected == \A y \in Symbols : <>[]Unexplained(y) => []<>killSwitch

\* The entry is over, the bracket's own exits have sold all of it, and every
\* fill came after submitted_at and is still reported.
Completed(g) ==
    /\ ib[g].filled["entry"] > 0 /\ ~IsLive(g, "entry")
    /\ Exited(g) >= ib[g].filled["entry"]
    /\ days = MaxDays
    /\ \A l \in Legs : trades[g].early[l] = 0 /\ aged[g][l] = 0

\* The gateway stops failing: one outage that always hits the fills and the
\* next one the positions would keep the fills out for ever.
GatewayRecovers ==
    <>[][\A r \in Reconcilers :
            ~FillsUnavailable(r) /\ ~BrokerUnreachable(r)]_rvars

\* The exit fills of a completed trade reach its row.
CompletedTradeIsClosed ==
    GatewayRecovers =>
        \A g \in Groups :
            (trades[g].st = "open" /\ Completed(g)) ~> trades[g].st = "closed"

\* test_execution_state_transitions.py says that a reconciliation which ingests
\* the exit of a trade closes it "without missing broker false positive".
JustClosedNotDivergent ==
    [][\A r \in Reconcilers, g \in Groups :
          rec[r].pc = "compare" /\ g \in MissingAtBroker(r)
              => trades'[g].st # "closed"]_rvars

\* system_controls.py says of the runtime kill switch that "every order path
\* checks" it: no exits are placed while it is active.
RepairRespectsKillSwitch ==
    [][killSwitch => \A g \in Groups :
          ib'[g].kind = "oca" => ib[g].kind = "oca"]_rvars

\* The readiness audit says that "actual broker fills are ingested": a
\* reconciliation that commits has ingested every execution it fetched of a
\* trade's own bracket.
FetchedFillsIngested ==
    [][\A r \in Reconcilers, e \in Lots :
          (rec[r].pc = "compare" /\ rec'[r].pc = "idle"
              /\ e \in rec[r].fills /\ trades[e[1]].st # "none")
          => e \in trades'[e[1]].fills]_rvars

=============================================================================
