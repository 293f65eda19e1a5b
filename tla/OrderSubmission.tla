-------------------------- MODULE OrderSubmission --------------------------
(***************************************************************************)
(* How an approved signal becomes orders at the broker and a Trade row:    *)
(* IBKRBroker.submit_signal_bracket as the API endpoint and the entry      *)
(* scanner call it, the failure bookkeeping of services/order_outcomes.py, *)
(* the legacy PaperBroker, the human approval and the runtime kill switch. *)
(*                                                                         *)
(* Each submitter (an API worker thread, the scanner job) works on its own *)
(* SQLAlchemy session: it decides on the signal as it LOADED it, talks to  *)
(* the gateway for seconds, and only its commit touches the shared rows.   *)
(* No row is locked or claimed in between, and the process may die at any  *)
(* point.                                                                  *)
(***************************************************************************)
EXTENDS BrokerGateway

CONSTANTS
    Submitters,   \* concurrent callers of the two brokers
    Mode,         \* settings.trading_mode: "paper" or "live"
    MaxCrashes,   \* bound: process deaths
    MaxAttempts   \* bound: submissions ever started

ASSUME SubmissionAssumption ==
    /\ Submitters # {}
    /\ Mode \in {"paper", "live"}
    /\ MaxCrashes \in Nat
    /\ MaxAttempts \in Nat

VARIABLES
    sig,        \* signals table: status, human approval, execution outcome
    trades,     \* trades placed at IBKR, named by the group they placed
    simulated,  \* PaperBroker trades: <<signal, submitter>>
    killSwitch, \* system_controls row "kill_switch"
    human,      \* the approval endpoint's session and its loaded values
    sub,        \* each submitter's program counter and loaded values
    owner,      \* history: who placed each group
    abandoned,  \* history: groups whose submitter asked for their cancellation
    lost,       \* history: groups whose submitter died or was cut off
    crashes,    \* process deaths so far
    attempts    \* submissions started so far

dbVars == <<sig, trades, simulated, killSwitch>>
subVars == <<human, sub, owner, abandoned, lost, crashes, attempts>>
vars == <<brokerVars, dbVars, subVars>>

Statuses == {"watchlist", "rejected", "paper_approved",
             "pending_human_approval", "live_approved", "executed", "expired"}
Executable == {"paper_approved", "live_approved"}

\* classify_order_failure: the reason codes and what each one advises.
Failures == {"bracket_not_accepted", "contract_not_qualified",
             "blocked_by_safety", "missing_human_approval",
             "invalid_order_parameters", "submission_failed"}
Retryable(f) == f \in {"bracket_not_accepted", "submission_failed"}
Outcomes == Failures \union {"none", "submitted"}

\* Only shadow observations, which never reach IBKR, are ever "cancelled".
TradeStates == {"none", "open", "closed"}
\* A Trade row: its status, the fills ingested into its metadata, the group of
\* exits a repair recorded, and the lots that had executed when submitted_at
\* was stamped.
NoTrade == [st |-> "none", fills |-> {}, repair |-> 0,
            early |-> [l \in Legs |-> 0]]
OpenTrade(g) == [st |-> "open", fills |-> {}, repair |-> 0,
                 early |-> ib[g].filled]
TradeType == [st : TradeStates,
              fills : SUBSET (Groups \X Legs \X (1..Qty)),
              repair : 0..MaxGroups,
              early : [Legs -> 0..Qty]]

PCs == {"idle", "loaded", "paper_loaded", "validated", "placed", "acked"}
Idle == [pc |-> "idle", sig |-> CHOOSE s \in Signals : TRUE,
         seen |-> "watchlist", approved |-> FALSE, grp |-> 0]
Nobody == "nobody"

NoApproval == [pc |-> "idle", sig |-> CHOOSE s \in Signals : TRUE,
               seen |-> "watchlist"]
HumanType == [pc : {"idle", "loaded"}, sig : Signals, seen : Statuses]

SignalType == [status : Statuses, approved : BOOLEAN, outcome : Outcomes]
SubType == [pc : PCs, sig : Signals, seen : Statuses, approved : BOOLEAN,
            grp : 0..MaxGroups]

Recorded(g) == trades[g].st # "none"

(***************************************************************************)
(* Signals enter this component as the scanner stores them: approved for   *)
(* paper by the lab, or waiting for a human.                               *)
(***************************************************************************)
StoredSignals == {[status |-> "paper_approved", approved |-> TRUE,
                   outcome |-> "none"],
                  [status |-> "pending_human_approval", approved |-> FALSE,
                   outcome |-> "none"]}

\* Nothing has been placed and nobody is at work.
Quiet ==
    /\ BrokerInit
    /\ trades = [g \in Groups |-> NoTrade]
    /\ simulated = {}
    /\ killSwitch = FALSE
    /\ human = NoApproval
    /\ sub = [p \in Submitters |-> Idle]
    /\ owner = [g \in Groups |-> Nobody]
    /\ abandoned = {}
    /\ lost = {}
    /\ crashes = 0
    /\ attempts = 0

Init == Quiet /\ sig \in [Signals -> StoredSignals]

(***************************************************************************)
(* db.get(Signal, id): the caller's session now holds these values, and    *)
(* keeps them until its commit whatever happens to the row.  The path is   *)
(* the broker the caller chose.                                            *)
(***************************************************************************)
LoadSignal(p, s, path) ==
    /\ sub[p].pc = "idle"
    /\ attempts < MaxAttempts
    /\ attempts' = attempts + 1
    /\ sub' = [sub EXCEPT ![p] = [pc |-> path, sig |-> s,
                                  seen |-> sig[s].status,
                                  approved |-> sig[s].approved, grp |-> 0]]
    /\ UNCHANGED <<brokerVars, dbVars, human, owner, abandoned, lost,
                   crashes>>

\* Mutants: a failure written as a status of its own; a failure that starts
\* over instead of raising.
FailAsStatus(p, f) ==
    /\ sig' = [sig EXCEPT ![sub[p].sig].outcome = f,
                          ![sub[p].sig].status = "failed"]
    /\ sub' = [sub EXCEPT ![p] = Idle]

FailAndRetryInPlace(p, f) ==
    /\ sig' = [sig EXCEPT ![sub[p].sig].outcome = f]
    /\ sub' = [sub EXCEPT ![p].pc = "loaded"]

(***************************************************************************)
(* mark_signal_order_failure + commit.  The status it compares is the one  *)
(* loaded by this session; the outcome column is overwritten either way.   *)
(***************************************************************************)
FailSubmission(p, f) ==
    LET s == sub[p].sig IN
    /\ sig' = [sig EXCEPT
                 ![s].outcome = f,
                 ![s].status =
                     IF ~Retryable(f) /\ sub[p].seen \in
                            Executable \union {"pending_human_approval"}
                     THEN "rejected" ELSE @]
    /\ sub' = [sub EXCEPT ![p] = Idle]

\* Mutant: the kill switch is not read.
ValidationIgnoringKillSwitch(p) ==
    IF ~sub[p].approved THEN "missing_human_approval"
    ELSE IF sub[p].seen \notin Executable THEN "submission_failed" ELSE "none"

\* Mutant: the approval is checked, the status is not.
ValidationOfAnyStatus(p) ==
    IF killSwitch THEN "blocked_by_safety"
    ELSE IF ~sub[p].approved THEN "missing_human_approval" ELSE "none"

\* The first check that fails, in the order of submit_signal_bracket.
ValidationFailure(p) ==
    IF killSwitch THEN "blocked_by_safety"
    ELSE IF ~sub[p].approved THEN "missing_human_approval"
    ELSE IF sub[p].seen \notin Executable THEN "submission_failed"
    ELSE IF Mode = "live" /\ sub[p].seen # "live_approved"
         THEN "submission_failed"
    ELSE "none"

ValidateOrder(p) ==
    /\ sub[p].pc = "loaded"
    /\ IF ValidationFailure(p) = "none"
       THEN /\ sub' = [sub EXCEPT ![p].pc = "validated"]
            /\ UNCHANGED sig
       ELSE FailSubmission(p, ValidationFailure(p))
    /\ UNCHANGED <<brokerVars, trades, simulated, killSwitch, human, owner,
                   abandoned, lost, crashes, attempts>>

\* A setting, a price or a quantity that _validate_signal_for_order refuses, no
\* connection, no paper account, an unqualified contract, a live gate or the
\* live preflight: the call raises before anything is placed.
FailBeforePlacement(p) ==
    /\ sub[p].pc = "validated"
    /\ \E f \in {"submission_failed", "contract_not_qualified",
                 "blocked_by_safety", "invalid_order_parameters"} :
          FailSubmission(p, f)
    /\ UNCHANGED <<brokerVars, trades, simulated, killSwitch, human, owner,
                   abandoned, lost, crashes, attempts>>

PlaceBracket(p) ==
    /\ sub[p].pc = "validated"
    /\ \E g \in Groups :
          /\ NextGroup(g)
          /\ Place(g, "bracket", sub[p].sig)
          /\ owner' = [owner EXCEPT ![g] = p]
          /\ sub' = [sub EXCEPT ![p].pc = "placed", ![p].grp = g]
    /\ UNCHANGED <<aged, cancels, days, dbVars, human, abandoned, lost,
                   crashes, attempts>>

\* _bracket_acknowledged: no leg in a terminal rejection; live also waits for
\* the permanent ids, which only an accepted order has.
Acknowledged(g) ==
    /\ \A l \in Legs : ib[g].st[l] # "cancelled"
    /\ Mode = "live" => \A l \in Legs : ib[g].st[l] # "pending"

\* An exit that completed cancels its sibling: not a rejection by itself, but
\* the status is the same, and the code cannot tell them apart.
AckBracket(p) ==
    /\ sub[p].pc = "placed"
    /\ Acknowledged(sub[p].grp)
    /\ sub' = [sub EXCEPT ![p].pc = "acked"]
    /\ UNCHANGED <<brokerVars, dbVars, human, owner, abandoned, lost, crashes,
                   attempts>>

\* cancelOrder for the three legs, then raise: the outcome of the
\* cancellation is never read.
Abandon(p, f) ==
    /\ cancels' = cancels \union {<<sub[p].grp, l>> : l \in Legs}
    /\ abandoned' = abandoned \union {sub[p].grp}
    /\ FailSubmission(p, f)
    /\ UNCHANGED <<ib, aged, days, trades, simulated, killSwitch, human,
                   owner, lost, crashes, attempts>>

\* Mutant: the call raises without cancelling what it placed.
RaiseWithoutCancelling(p) ==
    /\ sub[p].pc = "placed"
    /\ FailSubmission(p, "bracket_not_accepted")
    /\ UNCHANGED <<brokerVars, trades, simulated, killSwitch, human, owner,
                   abandoned, lost, crashes, attempts>>

\* The deadline passes unacknowledged.  Any error code IBKR logs against a leg
\* (other than 161 and 10147) counts as a rejection, so this may happen to a
\* bracket whose three legs are working.
NotAcknowledged(p) ==
    /\ sub[p].pc = "placed"
    /\ Abandon(p, "bracket_not_accepted")

\* _paper_order_visibility_snapshot: an open leg, an execution of the bracket
\* or a position on the symbol.
Visible(g) ==
    \/ \E l \in Legs : IsLive(g, l) \/ <<g, l, ib[g].filled[l]>> \in Executions
    \/ Position(Symbol(g)) # 0

\* A query that raises counts as having seen nothing, so this may happen to a
\* bracket that is working.
NotVisible(p) ==
    /\ sub[p].pc = "acked"
    /\ Mode = "paper"
    /\ Abandon(p, "submission_failed")

\* One transaction: the Trade row, the signal's status and its outcome.  Its
\* submitted_at is taken here, after the acknowledgement and visibility waits.
CommitTrade(p) ==
    LET s == sub[p].sig IN
    /\ sub[p].pc = "acked"
    /\ Mode = "paper" => Visible(sub[p].grp)
    /\ trades' = [trades EXCEPT ![sub[p].grp] = OpenTrade(sub[p].grp)]
    /\ sig' = [sig EXCEPT ![s].status = "executed", ![s].outcome = "submitted"]
    /\ sub' = [sub EXCEPT ![p] = Idle]
    /\ UNCHANGED <<brokerVars, simulated, killSwitch, human, owner, abandoned,
                   lost, crashes, attempts>>

(***************************************************************************)
(* PaperBroker.execute_signal: a simulated trade, no kill switch.          *)
(***************************************************************************)
PaperExecute(p) ==
    LET s == sub[p].sig IN
    /\ sub[p].pc = "paper_loaded"
    /\ IF sub[p].seen \in Executable
       THEN /\ simulated' = simulated \union {<<s, p>>}
            /\ sig' = [sig EXCEPT ![s].status = "executed"]
       ELSE UNCHANGED <<simulated, sig>>
    /\ sub' = [sub EXCEPT ![p] = Idle]
    /\ UNCHANGED <<brokerVars, trades, killSwitch, human, owner, abandoned,
                   lost, crashes, attempts>>

\* The orders p has placed and not accounted for yet.
Unsettled(p) == IF sub[p].pc \in {"placed", "acked"} THEN {sub[p].grp} ELSE {}

\* cancelOrder itself raises when the socket is gone: the caller marks the
\* signal for a retry and the orders stay where they are.
Disconnected(p) ==
    /\ sub[p].pc \in {"placed", "acked"}
    /\ lost' = lost \union Unsettled(p)
    /\ FailSubmission(p, "submission_failed")
    /\ UNCHANGED <<brokerVars, trades, simulated, killSwitch, human, owner,
                   abandoned, crashes, attempts>>

\* The process dies: its session is rolled back, its orders stay.
Crash(p) ==
    /\ sub[p].pc # "idle"
    /\ crashes < MaxCrashes
    /\ crashes' = crashes + 1
    /\ lost' = lost \union Unsettled(p)
    /\ sub' = [sub EXCEPT ![p] = Idle]
    /\ UNCHANGED <<brokerVars, dbVars, human, owner, abandoned, attempts>>

(***************************************************************************)
(* human_approve_signal: get, assign, commit, in a session of its own.     *)
(* One person approves, one signal at a time.                              *)
(***************************************************************************)
HumanLoad(s) ==
    /\ human.pc = "idle"
    /\ human' = [pc |-> "loaded", sig |-> s, seen |-> sig[s].status]
    /\ UNCHANGED <<brokerVars, dbVars, sub, owner, abandoned, lost, crashes,
                   attempts>>

\* Mutant: the endpoint approves whatever the status is.
ApproveAnything ==
    /\ human.pc = "loaded"
    /\ human' = NoApproval
    /\ sig' = [sig EXCEPT ![human.sig].approved = TRUE,
                          ![human.sig].status = "live_approved"]
    /\ UNCHANGED <<brokerVars, trades, simulated, killSwitch, sub, owner,
                   abandoned, lost, crashes, attempts>>

\* The status is written because it WAS pending, over whatever it is now.
HumanApprove ==
    /\ human.pc = "loaded"
    /\ human' = NoApproval
    /\ sig' = [sig EXCEPT ![human.sig].approved = TRUE,
                          ![human.sig].status =
                              IF human.seen = "pending_human_approval"
                              THEN "live_approved" ELSE @]
    /\ UNCHANGED <<brokerVars, trades, simulated, killSwitch, sub, owner,
                   abandoned, lost, crashes, attempts>>

SetKillSwitch ==
    /\ killSwitch' \in BOOLEAN
    /\ UNCHANGED <<brokerVars, sig, trades, simulated, subVars>>

SubmitterStep(p) ==
    \/ ValidateOrder(p) \/ FailBeforePlacement(p) \/ PlaceBracket(p)
    \/ AckBracket(p) \/ NotAcknowledged(p) \/ NotVisible(p) \/ CommitTrade(p)
    \/ PaperExecute(p)

BrokerStep == BrokerNext /\ UNCHANGED <<dbVars, subVars>>

Next ==
    \/ \E p \in Submitters : SubmitterStep(p) \/ Disconnected(p) \/ Crash(p)
    \/ \E p \in Submitters, s \in Signals, path \in {"loaded", "paper_loaded"} :
          LoadSignal(p, s, path)
    \/ \E s \in Signals : HumanLoad(s)
    \/ HumanApprove
    \/ SetKillSwitch
    \/ BrokerStep

Spec == Init /\ [][Next]_vars

-----------------------------------------------------------------------------
(***************************************************************************)
(* Properties.                                                             *)
(***************************************************************************)
\* The rows, the sessions and the broker's groups keep their shapes.
TypeOK ==
    /\ BrokerTypeOK
    /\ sig \in [Signals -> SignalType]
    /\ trades \in [Groups -> TradeType]
    /\ simulated \subseteq (Signals \X Submitters)
    /\ killSwitch \in BOOLEAN
    /\ human \in HumanType
    /\ sub \in [Submitters -> SubType]
    /\ owner \in [Groups -> Submitters \union {Nobody}]
    /\ abandoned \subseteq Groups
    /\ lost \subseteq Groups
    /\ crashes \in 0..MaxCrashes
    /\ attempts \in 0..MaxAttempts

Brackets == {g \in Groups : ib[g].kind = "bracket"}
RecordedGroups == {g \in Groups : Recorded(g)}
SubmittingGroups == UNION {Unsettled(p) : p \in Submitters}

\* submit_signal_bracket leaves no bracket behind without a trace: each one is
\* still being submitted, or has its Trade row, or had its cancellation
\* requested, or belongs to a submission that was cut off; never two of these.
EveryBracketAccountedFor ==
    /\ Brackets = UNION {SubmittingGroups, RecordedGroups, abandoned, lost}
    /\ SubmittingGroups \intersect UNION {RecordedGroups, abandoned, lost} = {}
    /\ RecordedGroups \intersect (abandoned \union lost) = {}
    /\ abandoned \intersect lost = {}

HasTrade(s) ==
    \/ \E g \in Groups : Recorded(g) /\ ib[g].sig = s
    \/ \E p \in Submitters : <<s, p>> \in simulated

\* Once a trade exists for a signal, no failure path, stale session or human
\* approval makes the signal executable again.
TradedSignalNotExecutable ==
    \A s \in Signals :
        HasTrade(s) => sig[s].status \in {"executed", "rejected"}

\* The bound on duplicate exposure.  Nothing claims a signal, so two sessions
\* that loaded it before either committed both trade it; but one submitter
\* never does so twice, through either broker, whatever crashes, retries and
\* stale reads happen.  With a single submitter a signal has one trade.
OneTradePerSubmitter ==
    \A g \in Groups : Recorded(g) =>
        /\ <<ib[g].sig, owner[g]>> \notin simulated
        /\ \A h \in Groups \ {g} :
              (Recorded(h) /\ ib[h].sig = ib[g].sig) => owner[h] # owner[g]

\* The kill switch read at the top of submit_signal_bracket: while it stays
\* active no submission passes validation, so the ones that may still place a
\* bracket are those that passed before, and they only become fewer.
MayPlace == {p \in Submitters : sub[p].pc = "validated"}
KillSwitchDrains ==
    [][killSwitch /\ killSwitch' => MayPlace' \subseteq MayPlace]_vars

\* Every submission ends: the caller gets a trade or an exception.
SubmissionEnds ==
    \A p \in Submitters : sub[p].pc # "idle" ~> sub[p].pc = "idle"

(***************************************************************************)
(* The inductive invariant behind the first three properties.              *)
(***************************************************************************)
\* A session that has placed its orders knows which ones they are.
SessionOwnsItsGroup ==
    \A p \in Submitters : sub[p].pc \in {"placed", "acked"} =>
        /\ sub[p].grp \in Brackets
        /\ ib[sub[p].grp].sig = sub[p].sig
        /\ owner[sub[p].grp] = p

\* Past validation, the loaded status was executable.
ValidatedWasExecutable ==
    \A p \in Submitters :
        sub[p].pc \in {"validated", "placed", "acked"} =>
            sub[p].seen \in Executable

\* Whoever traded a signal and looks at it again sees that it is not
\* executable.
TraderSeesIt ==
    \A p \in Submitters :
        LET s == sub[p].sig IN
        \/ sub[p].pc = "idle"
        \/ sub[p].seen \notin Executable
        \/ /\ <<s, p>> \notin simulated
           /\ \A g \in RecordedGroups : ib[g].sig = s => owner[g] # p

\* Only an approval takes a signal out of "pending", so nobody has traded, or
\* holds as executable, a signal whose approval is under way.
Holds(p, s) ==
    sub[p].pc # "idle" /\ sub[p].sig = s /\ sub[p].seen \in Executable

NobodyUses(s) == ~HasTrade(s) /\ \A p \in Submitters : ~Holds(p, s)

ApprovalComesFirst ==
    /\ \A s \in Signals :
          sig[s].status = "pending_human_approval" => NobodyUses(s)
    /\ human.pc = "loaded" /\ human.seen = "pending_human_approval" =>
          /\ NobodyUses(human.sig)
          /\ sig[human.sig].status \in {"pending_human_approval", "rejected"}

CoreInv ==
    /\ TypeOK
    /\ SessionOwnsItsGroup
    /\ ValidatedWasExecutable
    /\ EveryBracketAccountedFor
    /\ TradedSignalNotExecutable
    /\ TraderSeesIt
    /\ OneTradePerSubmitter

SubmissionInv == CoreInv /\ ApprovalComesFirst

\* system_controls.py says of the two kill switches that "either being active
\* blocks order submission".
KillSwitchBlocksPlacement ==
    [][killSwitch => \A g \in Groups :
          ib'[g].kind = "bracket" => ib[g].kind = "bracket"]_vars

\* order_outcomes.py answers a submission without approval with the next
\* action "approve_then_retry": once approved, the signal can be submitted.
ApproveThenRetry ==
    \A s \in Signals :
        sig[s].outcome = "missing_human_approval" /\ sig[s].approved
            => sig[s].status \in Executable

=============================================================================
