---------------------------- MODULE EntryScanner ----------------------------
(***************************************************************************)
(* modules/shared/entry_scanner.py: PatternEntryScanner.scan, which turns  *)
(* the matches of the current bar into signals, shadow observations and    *)
(* bracket orders, for the Laboratory, the daily module and Fox Hunter.    *)
(* The scheduler runs one scan per module; the API can start another.      *)
(*                                                                         *)
(* A scan decides on what it READS, commits the signal, then talks to the  *)
(* broker and commits again.  Which matches the market offers, and how the *)
(* gates judge them, are choices; what the scanner does with them is not.  *)
(***************************************************************************)
EXTENDS Integers, FiniteSets, FiniteSetsExt

CONSTANTS
    Scanners,    \* sessions that scan
    Deployed,    \* the modules scanners are built for
    Keys,        \* (symbol, pattern) pairs
    SymbolOf,    \* the symbol of each pair
    MaxOpen,     \* settings.max_open_positions
    MaxSignals,  \* bound: signals stored
    MaxBars,     \* bound: bars
    MaxCrashes   \* bound: process deaths

ASSUME ScannerAssumption ==
    /\ IsFiniteSet(Scanners)
    /\ Deployed \subseteq {"laboratory", "daily", "fox_hunter"}
    /\ MaxOpen \in Nat /\ MaxSignals \in Nat /\ MaxBars \in Nat
    /\ MaxCrashes \in Nat

VARIABLES
    module,      \* the module each scanner was built for
    signals,     \* signals table
    real,        \* trades with broker orders, per signal: open, closed
    shadow,      \* the shadow observation of each signal
    killSwitch,  \* system_controls row "kill_switch"
    bar,         \* the current bar
    scan,        \* each scanner's program counter and loaded values
    brackets,    \* history: brackets placed and not cancelled, per signal
    crashes      \* process deaths so far

dbVars == <<signals, real, shadow>>
vars == <<module, signals, real, shadow, killSwitch, bar, scan, brackets,
          crashes>>

Ids == 1..MaxSignals
Modules == {"laboratory", "daily", "fox_hunter"}

Statuses == {"none", "watchlist", "paper_approved", "pending_human_approval",
             "rejected", "executed"}

\* metadata_json["execution_outcome"]: none; stored without an order; the two
\* failures worth a retry; a failure that is not; submitted.
RetryableOutcomes == {"bracket_not_accepted", "submission_failed"}
FinalOutcomes == {"no_order", "final_failure", "submitted"}
Outcomes == RetryableOutcomes \union FinalOutcomes \union {"none"}

\* Minutes since the outcome (or the creation): below 5, 10, 60, and more.
Ages == 0..3

NoKey == "-"

NoSignal == [st |-> "none", mod |-> "daily", key |-> NoKey, bar |-> 0,
             noOrder |-> FALSE, near |-> FALSE, out |-> "none", age |-> 0]

\* A scan: exec and req are resolved["execute_orders"] after and before it was
\* degraded; key, near, order and sig are the match under way.
Idle == [pc |-> "idle", exec |-> FALSE, req |-> FALSE, todo |-> {},
         blocked |-> {}, bar |-> 0, key |-> NoKey, near |-> FALSE,
         order |-> FALSE, sig |-> 0]

TypeOK ==
    /\ module \in [Scanners -> Deployed]
    /\ signals \in [Ids -> [st : Statuses, mod : Modules, key : Keys \union {NoKey},
                            bar : 0..MaxBars, noOrder : BOOLEAN,
                            near : BOOLEAN, out : Outcomes, age : Ages]]
    /\ real \in [Ids -> [open : Nat, closed : Nat]]
    /\ shadow \in [Ids -> {"none", "open", "closed", "cancelled"}]
    /\ killSwitch \in BOOLEAN
    /\ bar \in 0..MaxBars
    /\ DOMAIN scan = Scanners
    /\ \A p \in Scanners :
          /\ scan[p].pc \in {"idle", "loop", "store", "observe", "submit", "placed"}
          /\ scan[p].todo \subseteq Keys
          /\ scan[p].sig \in 0..MaxSignals
          /\ scan[p].pc \in {"submit", "placed"} =>
                /\ module[p] # "fox_hunter"
                /\ signals[scan[p].sig].st # "none"
    /\ brackets \in [Ids -> Nat]
    /\ crashes \in 0..MaxCrashes

Init ==
    /\ module \in [Scanners -> Deployed]
    /\ signals = [s \in Ids |-> NoSignal]
    /\ real = [s \in Ids |-> [open |-> 0, closed |-> 0]]
    /\ shadow = [s \in Ids |-> "none"]
    /\ killSwitch = FALSE
    /\ bar = 0
    /\ scan = [p \in Scanners |-> Idle]
    /\ brackets = [s \in Ids |-> 0]
    /\ crashes = 0

Stored == {s \in Ids : signals[s].st # "none"}
Untraded(s) == real[s].open = 0 /\ real[s].closed = 0 /\ shadow[s] = "none"

(***************************************************************************)
(* The start of a scan: orders are degraded to signals, lab observations   *)
(* that met an exit are closed, and outside the session nothing else       *)
(* happens.  The matches are those of the bar that is now complete.        *)
(***************************************************************************)
\* Mutant: Fox Hunter orders are not degraded to signals.
ExecutesAnyModule(p, req) == req /\ ~killSwitch

Executes(p, req) ==
    /\ req
    /\ module[p] # "fox_hunter"
    /\ ~killSwitch

BeginScan(p, req) ==
    /\ scan[p].pc = "idle"
    /\ \E closing \in SUBSET {s \in Ids : shadow[s] = "open"} :
          /\ module[p] # "laboratory" => closing = {}
          /\ shadow' = [s \in Ids |->
                          IF s \in closing THEN "closed" ELSE shadow[s]]
    /\ \E todo \in SUBSET Keys :   \* {}: no match, or the market is closed
          scan' = [scan EXCEPT ![p] =
                     IF todo = {} THEN Idle
                     ELSE [Idle EXCEPT !.pc = "loop", !.todo = todo,
                                       !.exec = Executes(p, req),
                                       !.req = req, !.bar = bar]]
    /\ UNCHANGED <<module, signals, real, killSwitch, bar, brackets, crashes>>

\* Mutant: only an unacknowledged bracket blocks its symbol.
RecentSymbolFailureBracketOnly(sym) ==
    \E s \in Stored : /\ SymbolOf[signals[s].key] = sym
                      /\ signals[s].mod = "laboratory"
                      /\ signals[s].st = "paper_approved"
                      /\ signals[s].out = "bracket_not_accepted"
                      /\ signals[s].age < 2

\* _has_recent_lab_symbol_order_failure: 10 minutes after an unacknowledged
\* bracket, 60 after any other failure worth a retry.
RecentSymbolFailure(sym) ==
    \E s \in Stored :
        /\ SymbolOf[signals[s].key] = sym
        /\ signals[s].mod = "laboratory"
        /\ signals[s].st = "paper_approved"
        /\ \/ signals[s].out = "bracket_not_accepted" /\ signals[s].age < 2
           \/ signals[s].out = "submission_failed" /\ signals[s].age < 3

\* Mutant: the bar is not compared.
DuplicatesAnyBar(mod, k, b) ==
    {s \in Stored : /\ signals[s].st # "rejected"
                    /\ signals[s].mod = mod
                    /\ signals[s].key = k
                    /\ signals[s].bar < b}

\* _duplicate_signal: same module, pair and bar, and not rejected or expired.
Duplicates(mod, k, b) ==
    {s \in Stored : /\ signals[s].st # "rejected"
                    /\ signals[s].mod = mod
                    /\ signals[s].key = k
                    /\ signals[s].bar = b}

\* _can_submit_duplicate_signal.
CanSubmitDuplicate(s, mod) ==
    /\ signals[s].st = "paper_approved"
    /\ ~signals[s].near
    /\ ~(mod = "daily" /\ signals[s].noOrder)
    /\ signals[s].out \notin FinalOutcomes
    /\ signals[s].out = "bracket_not_accepted" => signals[s].age >= 2
    /\ signals[s].out = "submission_failed" => signals[s].age >= 1
    /\ real[s].open = 0 /\ real[s].closed = 0

\* _signal_counts_as_active_exposure.
SignalIsExposure(s, mod, ignoreShadow) ==
    /\ signals[s].st \in {"watchlist", "paper_approved", "pending_human_approval"}
    /\ signals[s].mod = mod
    /\ ~(ignoreShadow /\ signals[s].noOrder)
    /\ ~(mod = "daily" /\ signals[s].noOrder)
    /\ \/ mod # "laboratory"
       \/ real[s].open > 0
       \/ signals[s].out = "none" /\ (Untraded(s) => signals[s].age < 3)
       \/ signals[s].out \in RetryableOutcomes /\ signals[s].age < 3

\* Mutant: a trade that is open at the broker does not count.
ActiveExposureOfSignalsOnly(mod, k, ignoreShadow, except) ==
    \E s \in Stored \ except :
        signals[s].key = k /\ SignalIsExposure(s, mod, ignoreShadow)

\* _has_active_exposure: an open signal or an open trade of the pair.
ActiveExposure(mod, k, ignoreShadow, except) ==
    \E s \in Stored \ except :
        /\ signals[s].key = k
        /\ \/ SignalIsExposure(s, mod, ignoreShadow)
           \/ signals[s].mod = mod /\ real[s].open > 0
           \/ signals[s].mod = mod /\ shadow[s] = "open" /\ ~ignoreShadow

\* account_state: the open trades, each a signal and a number, and their count.
OpenTrades(S) == UNION {{s} \X (1..real[s].open) : s \in S}
OpenPositions == Cardinality(OpenTrades(Ids))

\* Mutant: the cap on open positions is not enforced.
RiskApprovesAnyCount(mod, ok) == ok

\* validate_candidate: prices, sizes and liquidity are one choice; the cap on
\* open broker positions is not applied to the Laboratory.
RiskApproves(mod, ok) == ok /\ (mod # "laboratory" => OpenPositions < MaxOpen)

(***************************************************************************)
(* What the loop decides for one match.  gate: "passed", "near_miss" (soft *)
(* reasons only) or "failed"; ok: risk and data; allowed: the pattern's    *)
(* status lets it order; clear: quality and ambiguity; store: the setting. *)
(***************************************************************************)
NearMissVerdict(mod, k, b, ok, store) ==
    IF mod = "laboratory" /\ store /\ Duplicates(mod, k, b) = {}
       /\ RiskApproves(mod, ok)
    THEN "near_miss" ELSE "near_miss_refused"

DuplicateVerdict(p, dup, k, m) ==
    LET mod == module[p] IN
    IF mod = "fox_hunter" \/ ~scan[p].exec \/ ~CanSubmitDuplicate(dup, mod)
    THEN "duplicate_signal"
    ELSE IF ~m.allowed THEN "status_blocks"
    ELSE IF ~RiskApproves(mod, m.ok) THEN "risk"
    ELSE IF ActiveExposure(mod, k, mod = "laboratory", {dup})
    THEN "active_exposure"
    ELSE "retry"

Verdict(p, k, m) ==
    LET mod == module[p]
        lab == mod = "laboratory"
        dups == Duplicates(mod, k, scan[p].bar)
    IN IF /\ lab /\ scan[p].exec
          /\ SymbolOf[k] \in scan[p].blocked \/ RecentSymbolFailure(SymbolOf[k])
       THEN "symbol_cooldown"
       ELSE IF mod = "fox_hunter" /\ ~m.allowed THEN "production_manifest"
       ELSE IF m.gate = "failed" THEN "entry_gate"
       ELSE IF m.gate = "near_miss"
       THEN NearMissVerdict(mod, k, scan[p].bar, m.ok, m.store)
       ELSE IF dups # {} THEN DuplicateVerdict(p, Min(dups), k, m)
       ELSE IF ActiveExposure(mod, k, lab /\ scan[p].exec, {})
       THEN "active_exposure"
       ELSE IF /\ mod = "fox_hunter"   \* _has_recent_signal
               /\ \E s \in Stored : /\ signals[s].mod = mod
                                    /\ signals[s].key = k
                                    /\ signals[s].age < 3
       THEN "cooldown"
       ELSE IF ~RiskApproves(mod, m.ok) THEN "risk"
       ELSE IF ~m.clear
       THEN NearMissVerdict(mod, k, scan[p].bar, m.ok, m.store)
       ELSE IF ~m.store THEN "store_signals_disabled"
       ELSE "store"

\* What a gate that did not pass leaves unread is TRUE.
Matches ==
    {m \in [gate : {"passed", "near_miss", "failed"}, ok : BOOLEAN,
            allowed : BOOLEAN, clear : BOOLEAN, store : BOOLEAN] :
        /\ m.gate # "passed" => m.clear
        /\ m.gate = "failed" => m.ok /\ m.store}

NextMatch(r) ==
    IF r.todo = {} THEN Idle
    ELSE [r EXCEPT !.pc = "loop", !.key = NoKey, !.near = FALSE,
                   !.order = FALSE, !.sig = 0]

DecideMatch(p) ==
    /\ scan[p].pc = "loop"
    /\ \E k \in scan[p].todo, m \in Matches :
          LET v == Verdict(p, k, m)
              r == [scan[p] EXCEPT !.todo = @ \ {k}, !.key = k]
          IN scan' = [scan EXCEPT ![p] =
                CASE v = "store" -> [r EXCEPT !.pc = "store",
                                              !.order = r.exec /\ m.allowed]
                  [] v = "near_miss" -> [r EXCEPT !.pc = "store", !.near = TRUE]
                  [] v = "retry" ->
                       [r EXCEPT !.pc = "submit",
                                 !.sig = Min(Duplicates(module[p], k, r.bar))]
                  [] OTHER -> NextMatch(r)]
    /\ UNCHANGED <<module, dbVars, killSwitch, bar, brackets, crashes>>

(***************************************************************************)
(* _store_signal: a near miss is watched, a paper signal is approved, a    *)
(* Fox Hunter signal waits for a human; without an order the outcome says  *)
(* so, as one that is not worth a retry.                                   *)
(***************************************************************************)
StoreSignal(p) ==
    /\ scan[p].pc = "store"
    /\ \E s \in Ids :
          LET mod == module[p]
              r == [scan[p] EXCEPT !.sig = s]
          IN
          /\ s = Cardinality(Stored) + 1
          /\ signals' = [signals EXCEPT ![s] =
                [st |-> IF mod = "fox_hunter" THEN "pending_human_approval"
                        ELSE IF r.near THEN "watchlist" ELSE "paper_approved",
                 mod |-> mod, key |-> r.key, bar |-> r.bar,
                 noOrder |-> mod # "fox_hunter" /\ ~r.order,
                 near |-> r.near,
                 out |-> IF r.order \/ (mod = "fox_hunter" /\ ~r.req)
                         THEN "none" ELSE "no_order",
                 age |-> 0]]
          /\ scan' = [scan EXCEPT ![p] =
                IF r.order THEN [r EXCEPT !.pc = "submit"]
                ELSE IF mod = "laboratory" THEN [r EXCEPT !.pc = "observe"]
                ELSE NextMatch(r)]
    /\ UNCHANGED <<module, real, shadow, killSwitch, bar, brackets, crashes>>

\* open_observation, in a transaction of its own.
OpenObservation(p) ==
    /\ scan[p].pc = "observe"
    /\ shadow' = [shadow EXCEPT ![scan[p].sig] = "open"]
    /\ scan' = [scan EXCEPT ![p] = NextMatch(scan[p])]
    /\ UNCHANGED <<module, signals, real, killSwitch, bar, brackets, crashes>>

(***************************************************************************)
(* submit_signal_bracket (module OrderSubmission), seen from here.  A      *)
(* retry first prepares the signal and cancels its shadow observation; the *)
(* commit that ends the submission, either way, carries that along.        *)
(***************************************************************************)
PlaceBracket(p) ==
    /\ scan[p].pc = "submit"
    /\ ~killSwitch
    /\ brackets' = [brackets EXCEPT ![scan[p].sig] = @ + 1]
    /\ scan' = [scan EXCEPT ![p].pc = "placed"]
    /\ UNCHANGED <<module, dbVars, killSwitch, bar, crashes>>

Prepared(s) == [shadow EXCEPT ![s] = IF @ = "open" THEN "cancelled" ELSE @]

\* Mutant: the signal keeps the status a scan may order from.
OrderAcceptedStatusKept(p) ==
    LET s == scan[p].sig IN
    /\ scan[p].pc = "placed"
    /\ signals' = [signals EXCEPT ![s].noOrder = FALSE, ![s].age = 0]
    /\ real' = [real EXCEPT ![s].open = @ + 1]
    /\ shadow' = Prepared(s)
    /\ scan' = [scan EXCEPT ![p] = NextMatch(scan[p])]
    /\ UNCHANGED <<module, killSwitch, bar, brackets, crashes>>

OrderAccepted(p) ==
    LET s == scan[p].sig IN
    /\ scan[p].pc = "placed"
    /\ signals' = [signals EXCEPT ![s].st = "executed", ![s].out = "submitted",
                                  ![s].noOrder = FALSE, ![s].age = 0]
    /\ real' = [real EXCEPT ![s].open = @ + 1]
    /\ shadow' = Prepared(s)
    /\ scan' = [scan EXCEPT ![p] = NextMatch(scan[p])]
    /\ UNCHANGED <<module, killSwitch, bar, brackets, crashes>>

\* mark_signal_order_failure, and the symbol is left alone for this scan.
OrderFails(p, f) ==
    LET s == scan[p].sig
        r == scan[p] IN
    /\ \/ /\ scan[p].pc = "submit"
          /\ f \in {"submission_failed", "final_failure"}
          /\ UNCHANGED brackets
       \/ /\ scan[p].pc = "placed"   \* not acknowledged, cancelled
          /\ f = "bracket_not_accepted"
          /\ brackets' = [brackets EXCEPT ![s] = @ - 1]
    /\ signals' = [signals EXCEPT
                     ![s].out = f, ![s].age = 0, ![s].noOrder = FALSE,
                     ![s].st = IF f = "final_failure" THEN "rejected" ELSE @]
    /\ shadow' = Prepared(s)
    /\ scan' = [scan EXCEPT ![p] =
                  NextMatch(IF f \in RetryableOutcomes
                            THEN [r EXCEPT !.blocked = @ \union {SymbolOf[r.key]}]
                            ELSE r)]
    /\ UNCHANGED <<module, real, killSwitch, bar, crashes>>

\* The process dies; what is uncommitted is lost, what is placed is not.
Crash(p) ==
    /\ scan[p].pc # "idle"
    /\ crashes < MaxCrashes
    /\ crashes' = crashes + 1
    /\ scan' = [scan EXCEPT ![p] = Idle]
    /\ UNCHANGED <<module, dbVars, killSwitch, bar, brackets>>

\* Mutant: a trade that is already closed is closed again.
TradeClosesAgain(s) ==
    /\ real' = [real EXCEPT ![s].open = @ - 1, ![s].closed = @ + 1]
    /\ brackets' = [brackets EXCEPT ![s] = @ - 1]
    /\ UNCHANGED <<module, signals, shadow, killSwitch, bar, scan, crashes>>

\* A reconciliation closes a trade from its exit fill.
TradeCloses(s) ==
    /\ real[s].open > 0
    /\ real' = [real EXCEPT ![s].open = @ - 1, ![s].closed = @ + 1]
    /\ brackets' = [brackets EXCEPT ![s] = @ - 1]
    /\ UNCHANGED <<module, signals, shadow, killSwitch, bar, scan, crashes>>

\* A Fox Hunter signal is approved and submitted, or rejected, elsewhere.
HumanDecides(s) ==
    /\ signals[s].st = "pending_human_approval"
    /\ \/ /\ signals' = [signals EXCEPT ![s].st = "executed",
                                        ![s].out = "submitted", ![s].age = 0]
          /\ real' = [real EXCEPT ![s].open = @ + 1]
          /\ brackets' = [brackets EXCEPT ![s] = @ + 1]
       \/ /\ signals' = [signals EXCEPT ![s].st = "rejected"]
          /\ UNCHANGED <<real, brackets>>
    /\ UNCHANGED <<module, shadow, killSwitch, bar, scan, crashes>>

ToggleKillSwitch ==
    /\ killSwitch' = ~killSwitch
    /\ UNCHANGED <<module, dbVars, bar, scan, brackets, crashes>>

NewBar ==
    /\ bar < MaxBars
    /\ bar' = bar + 1
    /\ UNCHANGED <<module, dbVars, killSwitch, scan, brackets, crashes>>

\* The age of a settled outcome is read by nobody but _has_recent_signal.
AgeIsRead(s) ==
    \/ signals[s].mod = "fox_hunter"
    \/ signals[s].out \notin FinalOutcomes

Tick ==
    /\ signals' = [s \in Ids |->
                     [signals[s] EXCEPT
                        !.age = IF s \in Stored /\ AgeIsRead(s) /\ @ < 3
                                THEN @ + 1 ELSE @]]
    /\ UNCHANGED <<module, real, shadow, killSwitch, bar, scan, brackets,
                   crashes>>

Next ==
    \/ \E p \in Scanners :
          \/ \E req \in BOOLEAN : BeginScan(p, req)
          \/ DecideMatch(p)
          \/ StoreSignal(p)
          \/ OpenObservation(p)
          \/ PlaceBracket(p)
          \/ OrderAccepted(p)
          \/ \E f \in RetryableOutcomes \union {"final_failure"} : OrderFails(p, f)
          \/ Crash(p)
    \/ \E s \in Ids : TradeCloses(s) \/ HumanDecides(s)
    \/ ToggleKillSwitch
    \/ NewBar
    \/ Tick

Spec == Init /\ [][Next]_vars

-----------------------------------------------------------------------------
SameOpportunity(s, t) ==
    /\ signals[s].mod = signals[t].mod
    /\ signals[s].key = signals[t].key
    /\ signals[s].bar = signals[t].bar

(***************************************************************************)
(* One signal per opportunity: for a module, a pair and a bar there is at  *)
(* most one signal that was not rejected, through retries, near misses,    *)
(* shadow upgrades and restarts of the scanner.                            *)
(***************************************************************************)
OneSignalPerBar ==
    \A s, t \in Stored :
        /\ s # t
        /\ SameOpportunity(s, t)
        => "rejected" \in {signals[s].st, signals[t].st}

(***************************************************************************)
(* One open trade per pair and module, however many bars, retries and      *)
(* failures led to it.                                                     *)
(***************************************************************************)
OneOpenTradePerExposure ==
    \A s, t \in Stored :
        /\ signals[s].mod = signals[t].mod /\ signals[s].mod # "fox_hunter"
        /\ signals[s].key = signals[t].key
        /\ real[s].open > 0 /\ real[t].open > 0
        => s = t /\ real[s].open = 1

\* Signals of the daily module, whose open trades the cap is about.
DailySignals == {s \in Stored : signals[s].mod = "daily"}

(***************************************************************************)
(* The daily module never has more open trades than max_open_positions:    *)
(* the count is read when the match is decided, the trade exists after the *)
(* broker answered, and retries and other patterns come in between.        *)
(***************************************************************************)
DailyPositionsCapped == Cardinality(OpenTrades(DailySignals)) <= MaxOpen

(***************************************************************************)
(* After an order on a symbol failed in a way worth a retry, the           *)
(* Laboratory places no bracket on that symbol, of any pattern and in any  *)
(* later scan, for ten minutes at least.                                   *)
(***************************************************************************)
SymbolCooldownKept ==
    [][\A p \in Scanners :
          module[p] = "laboratory" /\ brackets' # brackets /\ PlaceBracket(p) =>
              \A s \in Stored :
                  /\ signals[s].mod = "laboratory"
                  /\ SymbolOf[signals[s].key] = SymbolOf[scan[p].key]
                  /\ signals[s].out \in RetryableOutcomes
                  => signals[s].age >= 2]_vars

(***************************************************************************)
(* A re-scan of an unchanged bar, after a restart too, is a no-op: one     *)
(* opportunity never has two brackets working at the broker.               *)
(***************************************************************************)
OneBracketPerBar ==
    \A s \in Stored :
        MapThenSumSet(LAMBDA t : brackets[t],
                      {t \in Stored : SameOpportunity(s, t)}) <= 1

(***************************************************************************)
(* An order that failed for good is not submitted again from the same bar. *)
(***************************************************************************)
FinalFailureNotResubmitted ==
    [][\A p \in Scanners :
          scan[p].pc = "store" /\ scan'[p].pc = "submit" =>
              \A s \in Stored : /\ signals[s].mod = module[p]
                                /\ signals[s].key = scan[p].key
                                /\ signals[s].bar = scan[p].bar
                                => signals[s].out # "final_failure"]_vars

(***************************************************************************)
(* A shadow signal of the Laboratory is upgraded to a paper order once     *)
(* orders are on: the scan does not skip it as a duplicate.                *)
(***************************************************************************)
ShadowUpgraded ==
    \A p \in Scanners :
        /\ module[p] = "laboratory"
        /\ scan[p].pc = "loop"
        /\ scan[p].exec
        => \A k \in scan[p].todo, m \in Matches :
              Verdict(p, k, m) = "duplicate_signal" =>
                 ~\E s \in Duplicates("laboratory", k, scan[p].bar) :
                     /\ signals[s].st = "paper_approved"
                     /\ signals[s].noOrder
                     /\ shadow[s] = "open"

=============================================================================
