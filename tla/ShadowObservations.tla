------------------------- MODULE ShadowObservations -------------------------
(***************************************************************************)
(* The laboratory's shadow observations: trades without an order, opened   *)
(* by a scan at the signal's price and closed by a later scan from the     *)
(* bars of the market, and the cache of bars those scans read. A session   *)
(* is one run of close_open_observations in a process of its own (the      *)
(* scheduler's worker, the API), with a provider of its own; the sessions  *)
(* share the trades table and the cached file and take no common lock.     *)
(*                                                                         *)
(* Prices are small numbers. A corporate action rewrites the history of    *)
(* the adjusted feed: it multiplies every price so far and to come, so     *)
(* that a price of basis b is Factor[b] times its price before any action. *)
(* One symbol and one timeframe, daily: a bar is final before its date is  *)
(* over.                                                                   *)
(***************************************************************************)
EXTENDS Integers, Sequences, FiniteSets

CONSTANTS
    Observations,   \* trades with execution mode lab_shadow_observation
    Sessions,       \* processes that close observations
    Worker,         \* the scheduler's; the others run when someone asks
    Bars,           \* the bars the market can print
    Barriers,       \* side, entry, stop and target a signal can have
    MaxHold,        \* max(discovery_forward_bars)
    Limit,          \* trades one run loads
    MaxGap,         \* incremental_max_gap_days, in bars
    Overlap,        \* incremental_overlap_bars
    MaxBars, MaxActions, MaxCrashes,
    Factor          \* what the first b corporate actions multiply prices by

Bar == [open : Nat \ {0}, high : Nat, low : Nat, close : Nat]

ASSUME ShadowAssumption ==
    /\ IsFiniteSet(Observations)
    /\ Worker \in Sessions
    /\ Bars # {} /\ Bars \subseteq Bar
    /\ \A b \in Bars : /\ b.low <= b.open /\ b.open <= b.high
                       /\ b.low <= b.close /\ b.close <= b.high
    /\ Barriers \subseteq [side : {1, -1}, entry : Nat, stop : Nat, target : Nat]
    /\ {MaxHold, Limit, Overlap} \subseteq Nat \ {0}
    /\ {MaxGap, MaxActions, MaxCrashes} \subseteq Nat
    /\ MaxBars \in Nat \ {0}
    /\ Factor \in [0 .. MaxActions -> Nat \ {0}]
    /\ \A a, b \in 0 .. MaxActions : Factor[a] = Factor[b] => a = b

VARIABLES
    market,    \* the bars of the symbol, oldest first
    forming,   \* the last of them is today's, and still changes
    basis,     \* corporate actions so far
    file,      \* the cached CSV: its rows, or NoFile
    obs,       \* the trades table
    ses,       \* the sessions
    crashes

vars == <<market, forming, basis, file, obs, ses, crashes>>

NoFile == [exists |-> FALSE, rows |-> <<>>]
Csv(rows) == [exists |-> TRUE, rows |-> rows]
NoExit == [reason |-> "none", price |-> 0, held |-> 0, basis |-> 0]

Idle == [pc |-> "idle", rows |-> {}, cached |-> <<>>, frame |-> <<>>]
Unopened == [status |-> "none", nr |-> 0, at |-> 0, basis |-> 0,
             barrier |-> [side |-> 1, entry |-> 0, stop |-> 0, target |-> 0],
             exit |-> NoExit, outcome |-> NoExit]

Opened == {o \in Observations : obs[o].status # "none"}
Open == {o \in Observations : obs[o].status = "open"}
Complete == IF forming THEN Len(market) - 1 ELSE Len(market)

\* One finished bar stands for the history the pattern was matched on; no
\* observation is judged by it.
Init ==
    /\ market = <<CHOOSE b \in Bars : TRUE>>
    /\ forming = FALSE
    /\ basis = 0
    /\ file = NoFile
    /\ obs = [o \in Observations |-> Unopened]
    /\ ses = [s \in Sessions |-> Idle]
    /\ crashes = 0

-----------------------------------------------------------------------------
(***************************************************************************)
(* The market (external).                                                  *)
(***************************************************************************)
BarStarts ==
    /\ ~forming
    /\ Len(market) < MaxBars
    /\ \E b \in Bars : market' = Append(market, b)
    /\ forming' = TRUE
    /\ UNCHANGED <<basis, file, obs, ses, crashes>>

\* Until it ends, a bar's range can only widen.
BarEnds ==
    /\ forming
    /\ \E b \in Bars :
          LET now == market[Len(market)]
          IN /\ b.open = now.open /\ b.high >= now.high /\ b.low <= now.low
             /\ market' = [market EXCEPT ![Len(market)] = b]
    /\ forming' = FALSE
    /\ UNCHANGED <<basis, file, obs, ses, crashes>>

CorporateAction ==
    /\ basis < MaxActions
    /\ basis' = basis + 1
    /\ UNCHANGED <<market, forming, file, obs, ses, crashes>>

-----------------------------------------------------------------------------
(***************************************************************************)
(* triple_barrier_outcome, as _evaluate_trade calls it: two synthetic bars *)
(* at the entry price stand before the future bars, so the rules for the   *)
(* bars after the entry apply to every real one.                           *)
(***************************************************************************)
Price(row, field) == row.bar[field] * Factor[row.basis]
Level(o, field) == obs[o].barrier[field] * Factor[obs[o].basis]

\* Its arguments: the prices the signal was stored with.
Terms(o) == [side |-> obs[o].barrier.side, entry |-> Level(o, "entry"),
             stop |-> Level(o, "stop"), target |-> Level(o, "target")]

ReachesStop(t, price) == t.side * (price - t.stop) <= 0
ReachesTarget(t, price) == t.side * (price - t.target) >= 0

Adverse(t, row) == Price(row, IF t.side > 0 THEN "low" ELSE "high")
Favourable(t, row) == Price(row, IF t.side > 0 THEN "high" ELSE "low")

Malformed(t) == ReachesTarget(t, t.entry) \/ ReachesStop(t, t.entry)

Touches(t, row) == ReachesStop(t, Adverse(t, row)) \/ ReachesTarget(t, Favourable(t, row))

\* The exit in the first bar that touches a barrier.
BarrierExit(t, row, held) ==
    LET stopped == ReachesStop(t, Adverse(t, row))
        hit == ReachesTarget(t, Favourable(t, row))
        exit(reason, price) ==
            [reason |-> reason, price |-> price, held |-> held, basis |-> row.basis]
    IN CASE ReachesStop(t, Price(row, "open")) -> exit("stop_gap", Price(row, "open"))
         [] ReachesTarget(t, Price(row, "open")) /\ ~ReachesStop(t, Price(row, "open"))
                -> exit("target_gap", t.target)
         [] OTHER -> IF stopped
                     THEN exit(IF hit THEN "stop_and_target_conservative" ELSE "stop",
                               t.stop)
                     ELSE exit("target", t.target)

TripleBarrierOutcome(t, future) ==
    LET touched == {i \in 1 .. Len(future) : i <= MaxHold /\ Touches(t, future[i])}
        first == CHOOSE i \in touched : \A j \in touched : i <= j
    IN IF Malformed(t) THEN NoExit
       ELSE IF touched # {} THEN BarrierExit(t, future[first], first)
       ELSE IF Len(future) >= MaxHold
            THEN [reason |-> "time", price |-> Price(future[MaxHold], "close"),
                  held |-> MaxHold, basis |-> future[MaxHold].basis]
            ELSE NoExit

\* The bars after the one in which the observation was opened.
Future(o, frame) == SubSeq(frame, obs[o].at + 1, Len(frame))

\* NoExit: the observation stays open.
EvaluateTrade(o, frame) == TripleBarrierOutcome(Terms(o), Future(o, frame))

-----------------------------------------------------------------------------
(***************************************************************************)
(* CachedMarketDataProvider.                                               *)
(***************************************************************************)
\* What the feed returns now, and what of it _annotate marks as complete.
Upstream == [i \in 1 .. Len(market) |-> [bar |-> market[i], basis |-> basis]]
\* Mutant: today's bar is served with the others.
AllBars(rows) == rows
CompleteBarsOnly(rows) == SubSeq(rows, 1, Complete)

\* Mutant: the overlap must exist, its prices are not compared.
OverlapExists(cached, tail) == cached # <<>> /\ Len(tail) >= Len(cached)

\* Only the open and the close of the last Overlap common bars are compared.
OverlapMatches(cached, tail) ==
    \A i \in 1 .. Len(cached) :
        i > Len(cached) - Overlap =>
            \A field \in {"open", "close"} :
                Price(cached[i], field) = Price(tail[i], field)

\* Mutant: a gap too large for a tail is left alone.
RefreshTailOnly(cached) ==
    IF cached # <<>> /\ Complete - Len(cached) \in 1 .. MaxGap THEN "tail" ELSE "ready"

\* The gap since the last cached row decides between nothing, the missing tail
\* and everything; a cached file without rows is never refreshed.
RefreshMode(cached) ==
    LET gap == Complete - Len(cached)
    IN CASE cached = <<>> \/ gap < 1 -> "ready"
         [] cached # <<>> /\ gap > MaxGap -> "full"
         [] OTHER -> "tail"

Served(s, rows) == [ses[s] EXCEPT !.pc = "ready", !.cached = <<>>, !.frame = rows]

\* fetch_ohlcv up to the call of the feed.
ReadCache(s) ==
    /\ ses[s].pc = "loaded"
    /\ ses' = [ses EXCEPT ![s] =
                  IF file = NoFile THEN [@ EXCEPT !.pc = "first"]
                  ELSE IF RefreshMode(file.rows) = "ready"
                  THEN Served(s, file.rows)
                  ELSE [@ EXCEPT !.pc = RefreshMode(file.rows), !.cached = file.rows]]
    /\ UNCHANGED <<market, forming, basis, file, obs, crashes>>

\* The feed answers a request for the whole period, and the file is replaced.
FullRefetch(s) ==
    /\ ses[s].pc \in {"first", "full"}
    /\ LET rows == CompleteBarsOnly(Upstream)
       IN /\ file' = Csv(rows)
          /\ ses' = [ses EXCEPT ![s] = Served(s, rows)]
    /\ UNCHANGED <<market, forming, basis, obs, crashes>>

\* The feed answers a request for the tail: it is appended, unless the overlap
\* says that history was rewritten.
AppendTail(s) ==
    /\ ses[s].pc = "tail"
    /\ LET cached == ses[s].cached
           tail == CompleteBarsOnly(Upstream)
           merged == cached \o SubSeq(tail, Len(cached) + 1, Len(tail))
       IN IF OverlapMatches(cached, tail)
          THEN /\ file' = Csv(merged)
               /\ ses' = [ses EXCEPT ![s] = Served(s, merged)]
          ELSE /\ ses' = [ses EXCEPT ![s].pc = "full"]
               /\ UNCHANGED file
    /\ UNCHANGED <<market, forming, basis, obs, crashes>>

\* The feed fails. With a cached file its rows are served, and written back
\* over whatever the file has become; without one the fetch raises, and what is
\* left is a bar of the trade's own metadata, not later than its opening.
FeedFails(s) ==
    /\ ses[s].pc \in {"first", "tail", "full"}
    /\ IF ses[s].pc = "first"
       THEN /\ ses' = [ses EXCEPT ![s] = Served(s, <<>>)]
            /\ UNCHANGED file
       ELSE /\ file' = Csv(ses[s].cached)
            /\ ses' = [ses EXCEPT ![s] = Served(s, ses[s].cached)]
    /\ UNCHANGED <<market, forming, basis, obs, crashes>>

-----------------------------------------------------------------------------
(***************************************************************************)
(* LabPaperObservationService.                                             *)
(***************************************************************************)
\* open_observation: a scan stored the signal. The bar of the opening is not
\* one of its future bars.
OpenObservation(o) ==
    /\ obs[o].status = "none"
    /\ \E b \in Barriers :
          obs' = [obs EXCEPT ![o] =
                     [@ EXCEPT !.status = "open", !.nr = Cardinality(Opened) + 1,
                               !.at = Len(market), !.basis = basis, !.barrier = b]]
    /\ UNCHANGED <<market, forming, basis, file, ses, crashes>>

\* The oldest Limit trades that are open.
Oldest == {o \in Open : Cardinality({p \in Open : obs[p].nr < obs[o].nr}) < Limit}

BeginClosing(s) ==
    /\ ses[s].pc = "idle"
    /\ Open # {}
    /\ ses' = [ses EXCEPT ![s] = [Idle EXCEPT !.pc = "loaded", !.rows = Oldest]]
    /\ UNCHANGED <<market, forming, basis, file, obs, crashes>>

\* Mutant: the exit goes into the metadata only.
SettledInMetadata(o, exit) ==
    IF exit = NoExit
    THEN [obs[o] EXCEPT !.outcome = NoExit]
    ELSE [obs[o] EXCEPT !.status = "closed", !.outcome = exit]

\* The rows were loaded open; the commit writes the status and the exit columns
\* of those that close, and metadata_json as a whole of all of them.
Settled(o, exit) ==
    IF exit = NoExit
    THEN [obs[o] EXCEPT !.outcome = NoExit]
    ELSE [obs[o] EXCEPT !.status = "closed", !.exit = exit, !.outcome = exit]

CloseObservations(s) ==
    /\ ses[s].pc = "ready"
    /\ obs' = [o \in Observations |->
                  IF o \in ses[s].rows
                  THEN Settled(o, EvaluateTrade(o, ses[s].frame)) ELSE obs[o]]
    /\ ses' = [ses EXCEPT ![s] = Idle]
    /\ UNCHANGED <<market, forming, basis, file, crashes>>

\* The process dies before its commit.
Crash(s) ==
    /\ ses[s].pc # "idle"
    /\ crashes < MaxCrashes
    /\ crashes' = crashes + 1
    /\ ses' = [ses EXCEPT ![s] = Idle]
    /\ UNCHANGED <<market, forming, basis, file, obs>>

-----------------------------------------------------------------------------
SessionStep(s) ==
    BeginClosing(s) \/ ReadCache(s) \/ FullRefetch(s) \/ AppendTail(s)
        \/ FeedFails(s) \/ CloseObservations(s)

Next ==
    \/ \E s \in Sessions : SessionStep(s) \/ Crash(s)
    \/ \E o \in Observations : OpenObservation(o)
    \/ BarStarts \/ BarEnds \/ CorporateAction

Spec == Init /\ [][Next]_vars

\* The scheduler repeats its scan, every request to the feed has a timeout, and
\* the feed is assumed to answer the worker again and again.
FairSpec ==
    /\ Spec
    /\ WF_vars(SessionStep(Worker))
    /\ SF_vars(FullRefetch(Worker))
    /\ SF_vars(AppendTail(Worker))

-----------------------------------------------------------------------------
(***************************************************************************)
(* Properties.                                                             *)
(***************************************************************************)
Row == [bar : Bars, basis : 0 .. MaxActions]
Rows == UNION {[1 .. n -> Row] : n \in 0 .. MaxBars}
Exit == [reason : {"none", "stop_gap", "target_gap", "stop", "target", "time",
                   "stop_and_target_conservative"},
         price : Nat, held : 0 .. MaxHold, basis : 0 .. MaxActions]

\* Rows, sessions and the file keep their shapes, and a trade has an exit
\* exactly when it is closed.
TypeOK ==
    /\ Len(market) \in 1 .. MaxBars /\ \A i \in 1 .. Len(market) : market[i] \in Bars
    /\ forming \in BOOLEAN
    /\ basis \in 0 .. MaxActions
    /\ file \in [exists : BOOLEAN, rows : Rows]
    /\ \A o \in Observations :
          /\ obs[o].status \in {"none", "open", "closed"}
          /\ obs[o].exit \in Exit /\ obs[o].outcome \in Exit
          /\ obs[o].exit = NoExit <=> obs[o].status # "closed"
    /\ \A s \in Sessions :
          /\ ses[s].pc \in {"idle", "loaded", "first", "tail", "full", "ready"}
          /\ ses[s].rows \subseteq Observations
          /\ ses[s].cached \in Rows
          /\ ses[s].frame \in Rows
    /\ crashes \in 0 .. MaxCrashes

(***************************************************************************)
(* The reference for an exit: a stop and a limit order left alone in the   *)
(* market since the opening. Within a bar the price goes from the open to  *)
(* one extreme, to the other and to the close; nobody knows to which one   *)
(* first, and the exit must be the worse of the two. A stop the market     *)
(* opens beyond is filled at the open, a limit never better than its price.*)
(***************************************************************************)
Path(row, f, g) ==
    <<Price(row, "open"), Price(row, f), Price(row, g), Price(row, "close")>>
Paths(row) == {Path(row, "high", "low"), Path(row, "low", "high")}

OrderFills(t, path) ==
    LET reached == {k \in 1 .. 4 : ReachesStop(t, path[k]) \/ ReachesTarget(t, path[k])}
        first == CHOOSE k \in reached : \A j \in reached : k <= j
    IN IF reached = {} THEN {}
       ELSE IF ReachesTarget(t, path[first]) THEN {t.target}
       ELSE IF first = 1 THEN {path[1]} ELSE {t.stop}

Fills(t, row) == UNION {OrderFills(t, path) : path \in Paths(row)}
Worst(t, prices) == {p \in prices : \A q \in prices : t.side * (q - p) >= 0}

Bar0(o, i) == [bar |-> market[i], basis |-> obs[o].basis]
FillsIn(o, i) == Fills(Terms(o), Bar0(o, i))

\* The observation's orders are still working when bar i starts.
WorkingUntil(o, i) ==
    /\ i - obs[o].at \in 1 .. MaxHold
    /\ \A j \in obs[o].at + 1 .. i - 1 : FillsIn(o, j) = {}

WorstExit(o, i) ==
    IF FillsIn(o, i) = {}
    THEN {Price(Bar0(o, i), "close") : h \in {i - obs[o].at} \cap {MaxHold}}
    ELSE Worst(Terms(o), FillsIn(o, i))

(***************************************************************************)
(* A shadow exit is what the orders would have done in the worst case,     *)
(* whenever the scans ran, whatever of the market the cache had by then    *)
(* and whichever of two scans committed last: the bar and the price. An    *)
(* exit computed from a history that was rewritten after the opening is    *)
(* left out, because the stored barriers are not rewritten with it.        *)
(***************************************************************************)
ExitIsWorstCase ==
    \A o \in Observations :
        obs[o].status = "closed" /\ obs[o].exit.basis = obs[o].basis =>
            LET i == obs[o].at + obs[o].exit.held
            IN /\ i <= Complete
               /\ WorkingUntil(o, i)
               /\ obs[o].exit.price \in WorstExit(o, i)

(***************************************************************************)
(* The cache never stitches bars of two adjustments together: neither the  *)
(* file nor a frame that is served mixes them, although two processes      *)
(* append to and write back the same file.                                 *)
(***************************************************************************)
OneBasis ==
    \A rows \in {file.rows} \union {ses[s].frame : s \in Sessions} :
        \A i, j \in 1 .. Len(rows) : rows[i].basis = rows[j].basis

\* The market has decided the observation.
Decided(o) ==
    /\ ~Malformed(Terms(o))
    /\ \E i \in obs[o].at + 1 .. Complete : WorkingUntil(o, i) /\ WorstExit(o, i) # {}

(***************************************************************************)
(* An observation the market has decided is closed sooner or later, unless *)
(* Limit older ones are open before it or history is rewritten: outages,   *)
(* crashes and files written back by others only delay it.                 *)
(***************************************************************************)
DecidedIsClosed ==
    \A o \in Observations :
        (o \in Oldest /\ Decided(o) /\ obs[o].basis = basis)
            ~> (obs[o].status = "closed" \/ obs[o].basis # basis)

(***************************************************************************)
(* Closed trades keep their canonical_outcome, so that any gate decision   *)
(* can be reproduced from the stored rows.                                 *)
(***************************************************************************)
OutcomeReproducible ==
    \A o \in Observations : obs[o].status = "closed" => obs[o].outcome = obs[o].exit

=============================================================================
