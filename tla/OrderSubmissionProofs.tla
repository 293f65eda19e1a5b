----------------------- MODULE OrderSubmissionProofs -----------------------
(***************************************************************************)
(* Theorems about OrderSubmission, for every set of signals, submitters    *)
(* and every bound.                                                        *)
(***************************************************************************)
EXTENDS OrderSubmission, TLAPS

\* Cancelling legs of a group leaves it a group.
LEMMA CancelLegsType ==
    ASSUME NEW r \in GroupType, NEW ls
    PROVE  /\ CancelLegs(r, ls) \in GroupType
           /\ CancelLegs(r, ls).kind = r.kind
           /\ CancelLegs(r, ls).sig = r.sig
           /\ CancelLegs(r, ls).filled = r.filled
BY DEF CancelLegs, GroupType, LegStates, Live, Legs

\* What the broker does by itself keeps the kinds and the signals of groups,
\* and the shapes of its state.
LEMMA BrokerStepType ==
    ASSUME BrokerTypeOK, BrokerNext
    PROVE  /\ BrokerTypeOK'
           /\ \A g \in Groups : ib'[g].kind = ib[g].kind /\ ib'[g].sig = ib[g].sig
<1> USE GatewayAssumption
<1>1. ASSUME NEW g \in Groups, Accept(g)
      PROVE  /\ BrokerTypeOK'
             /\ \A h \in Groups : ib'[h].kind = ib[h].kind /\ ib'[h].sig = ib[h].sig
  BY <1>1 DEF Accept, BrokerTypeOK, GroupType, LegStates, Legs
<1>2. ASSUME NEW g \in Groups, ProcessCancels(g) \/ LoseCancels(g)
      PROVE  /\ BrokerTypeOK'
             /\ \A h \in Groups : ib'[h].kind = ib[h].kind /\ ib'[h].sig = ib[h].sig
  BY <1>2, CancelLegsType DEF ProcessCancels, LoseCancels, BrokerTypeOK
<1>3. ASSUME NEW g \in Groups, NEW l \in Legs, RejectLeg(g, l)
      PROVE  /\ BrokerTypeOK'
             /\ \A h \in Groups : ib'[h].kind = ib[h].kind /\ ib'[h].sig = ib[h].sig
  BY <1>3, CancelLegsType DEF RejectLeg, BrokerTypeOK
<1>4. ASSUME NEW g \in Groups, NEW l \in Legs, FillLeg(g, l)
      PROVE  /\ BrokerTypeOK'
             /\ \A h \in Groups : ib'[h].kind = ib[h].kind /\ ib'[h].sig = ib[h].sig
  BY <1>4 DEF FillLeg, AddFill, BrokerTypeOK, GroupType, LegStates, Legs, Live
<1>5. ASSUME SessionEnd
      PROVE  /\ BrokerTypeOK'
             /\ \A h \in Groups : ib'[h].kind = ib[h].kind /\ ib'[h].sig = ib[h].sig
  <2>1. \A h \in Groups : ib[h] \in GroupType
    BY DEF BrokerTypeOK
  <2>2. ib' \in [Groups -> GroupType]
    BY <1>5, <2>1, CancelLegsType DEF SessionEnd
  <2>3. aged' \in [Groups -> [Legs -> 0..Qty]]
    BY <1>5, <2>1 DEF SessionEnd, GroupType
  <2>4. cancels' \subseteq (Groups \X Legs) /\ days' \in 0..MaxDays
    BY <1>5 DEF SessionEnd, BrokerTypeOK
  <2> QED
    BY <1>5, <2>1, <2>2, <2>3, <2>4, CancelLegsType DEF SessionEnd, BrokerTypeOK
<1> QED
  BY <1>1, <1>2, <1>3, <1>4, <1>5 DEF BrokerNext

\* Placing a group of orders fills in one group and leaves the others alone.
LEMMA PlaceType ==
    ASSUME BrokerTypeOK, NEW g \in Groups, NEW k \in Kinds, NEW s \in Signals,
           Place(g, k, s)
    PROVE  /\ ib' \in [Groups -> GroupType]
           /\ ib'[g].kind = k /\ ib'[g].sig = s
           /\ \A h \in Groups \ {g} : ib'[h] = ib[h]
<1> DEFINE legs == [l \in Legs |-> IF k = "oca" /\ l = "entry" THEN "none"
                                   ELSE "pending"]
           none == [l \in Legs |-> 0]
           new == [kind |-> k, sig |-> s, st |-> legs, filled |-> none]
<1> USE GatewayAssumption
<1>1. legs \in [Legs -> LegStates]
  BY DEF LegStates
<1>2. none \in [Legs -> 0..Qty]
  OBVIOUS
<1>3. new \in GroupType
  <2> HIDE DEF legs, none
  <2> QED
    BY <1>1, <1>2 DEF GroupType
<1>4. ib' = [ib EXCEPT ![g] = new]
  BY DEF Place
<1> QED
  BY <1>3, <1>4 DEF BrokerTypeOK

\* The initial state satisfies the invariant.
LEMMA InitInv == Init => SubmissionInv
<1> SUFFICES ASSUME Init PROVE SubmissionInv
  OBVIOUS
<1> USE GatewayAssumption, SubmissionAssumption
<1>1. (CHOOSE s \in Signals : TRUE) \in Signals
  OBVIOUS
<1>2. BrokerTypeOK
  BY <1>1 DEF Init, Quiet, BrokerInit, BrokerTypeOK, GroupType, NoGroup, Kinds, LegStates, Legs
<1>3. TypeOK
  <2>1. sig \in [Signals -> SignalType]
    <3>1. StoredSignals \subseteq SignalType
      BY DEF StoredSignals, SignalType, Statuses, Outcomes
    <3> QED
      BY <3>1 DEF Init, Quiet
  <2>2. trades \in [Groups -> TradeType]
    BY DEF Init, Quiet, NoTrade, TradeType, TradeStates
  <2>3. Idle \in SubType
    BY <1>1 DEF Idle, SubType, PCs, Statuses
  <2>4. killSwitch \in BOOLEAN
    BY Zenon DEF Init, Quiet
  <2>5. crashes \in 0..MaxCrashes /\ attempts \in 0..MaxAttempts
    BY DEF Init, Quiet
  <2>6. owner \in [Groups -> Submitters \union {Nobody}]
    BY DEF Init, Quiet
  <2>7. human \in HumanType
    BY <1>1 DEF Init, Quiet, NoApproval, HumanType, Statuses
  <2> QED
    BY <1>2, <2>1, <2>2, <2>3, <2>4, <2>5, <2>6, <2>7 DEF Init, Quiet, TypeOK
<1>4. SessionOwnsItsGroup /\ ValidatedWasExecutable /\ TraderSeesIt
  BY DEF Init, Quiet, SessionOwnsItsGroup, ValidatedWasExecutable, TraderSeesIt, Idle
<1>5. RecordedGroups = {} /\ SubmittingGroups = {} /\ Brackets = {}
  BY DEF Init, Quiet, BrokerInit, NoGroup, RecordedGroups, Recorded, NoTrade,
         SubmittingGroups, Unsettled, Idle, Brackets
<1>6. EveryBracketAccountedFor
  BY <1>5 DEF Init, Quiet, EveryBracketAccountedFor
<1>7. TradedSignalNotExecutable /\ OneTradePerSubmitter
  BY DEF Init, Quiet, TradedSignalNotExecutable, HasTrade, OneTradePerSubmitter,
         Recorded, NoTrade
<1>8. ApprovalComesFirst
  BY DEF Init, Quiet, ApprovalComesFirst, NobodyUses, Holds, HasTrade, Recorded, NoTrade,
         NoApproval, Idle
<1> QED
  BY <1>3, <1>4, <1>6, <1>7, <1>8 DEF CoreInv, SubmissionInv

\* A step that leaves sessions, trades, statuses and the identity of groups
\* alone preserves everything but the types.
LEMMA FramePreserves ==
    ASSUME CoreInv, TypeOK',
           \A g \in Groups : ib'[g].kind = ib[g].kind /\ ib'[g].sig = ib[g].sig,
           UNCHANGED <<trades, simulated, sub, owner, abandoned, lost>>,
           \A s \in Signals : HasTrade(s) =>
               (sig[s].status \in {"executed", "rejected"} =>
                   sig'[s].status \in {"executed", "rejected"})
    PROVE  CoreInv'
<1>1. Brackets' = Brackets /\ RecordedGroups' = RecordedGroups
      /\ SubmittingGroups' = SubmittingGroups
  BY DEF Brackets, RecordedGroups, Recorded, SubmittingGroups, Unsettled
<1>2. EveryBracketAccountedFor'
  BY <1>1 DEF CoreInv, EveryBracketAccountedFor
<1>3. SessionOwnsItsGroup'
  BY <1>1 DEF CoreInv, SessionOwnsItsGroup, Brackets
<1>4. ValidatedWasExecutable'
  BY DEF CoreInv, ValidatedWasExecutable
<1>5. TraderSeesIt'
  BY <1>1 DEF CoreInv, TraderSeesIt, RecordedGroups
<1>6. TradedSignalNotExecutable'
  BY DEF CoreInv, TradedSignalNotExecutable, HasTrade, Recorded
<1>7. OneTradePerSubmitter'
  BY DEF CoreInv, OneTradePerSubmitter, Recorded
<1> QED
  BY <1>2, <1>3, <1>4, <1>5, <1>6, <1>7 DEF CoreInv

\* What a failed submission writes has the right shape, and never takes a
\* traded signal back to an executable status.
LEMMA FailSubmissionType ==
    ASSUME TypeOK, NEW p \in Submitters, NEW f \in Failures, FailSubmission(p, f)
    PROVE  /\ sig' \in [Signals -> SignalType]
           /\ sub' \in [Submitters -> SubType]
           /\ \A s \in Signals : sig[s].status \in {"executed", "rejected"} =>
                                   sig'[s].status \in {"executed", "rejected"}
<1> USE GatewayAssumption, SubmissionAssumption
<1>1. Idle \in SubType
  BY DEF Idle, SubType, PCs, Statuses
<1>2. sub[p].sig \in Signals
  BY DEF TypeOK, SubType
<1>3. f \in Outcomes /\ "rejected" \in Statuses
  BY DEF Outcomes, Statuses
<1> QED
  BY <1>1, <1>2, <1>3 DEF TypeOK, FailSubmission, SignalType

\* The failures ValidateOrder reports are failures.
LEMMA ValidationFailureType ==
    ASSUME NEW p \in Submitters, ValidationFailure(p) # "none"
    PROVE  ValidationFailure(p) \in Failures
BY DEF ValidationFailure, Failures

\* Every step preserves the types.
LEMMA TypeStep == TypeOK /\ SessionOwnsItsGroup /\ [Next]_vars => TypeOK'
<1> SUFFICES ASSUME TypeOK, SessionOwnsItsGroup, [Next]_vars PROVE TypeOK'
  OBVIOUS
<1> USE GatewayAssumption, SubmissionAssumption
<1>0. Idle \in SubType
  BY DEF Idle, SubType, PCs, Statuses
<1>1. ASSUME NEW p \in Submitters, ValidateOrder(p) PROVE TypeOK'
  <2>1. CASE ValidationFailure(p) = "none"
    <3>1. sub' = [sub EXCEPT ![p].pc = "validated"] /\ sig' = sig
      BY <1>1, <2>1 DEF ValidateOrder
    <3>2. sub' \in [Submitters -> SubType]
      BY <3>1 DEF TypeOK, SubType, PCs
    <3> QED
      BY <1>1, <3>1, <3>2 DEF ValidateOrder, TypeOK, brokerVars, BrokerTypeOK
  <2>2. CASE ValidationFailure(p) # "none"
    BY <1>1, <2>2, FailSubmissionType, ValidationFailureType
       DEF ValidateOrder, TypeOK, brokerVars, BrokerTypeOK
  <2> QED
    BY <2>1, <2>2
<1>2. ASSUME NEW p \in Submitters, FailBeforePlacement(p) PROVE TypeOK'
  <2>1. PICK f \in Failures : FailSubmission(p, f)
    BY <1>2 DEF FailBeforePlacement, Failures
  <2> QED
    BY <1>2, <2>1, FailSubmissionType
       DEF FailBeforePlacement, TypeOK, brokerVars, BrokerTypeOK
<1>3. ASSUME NEW p \in Submitters, PlaceBracket(p) PROVE TypeOK'
  <2>1. PICK g \in Groups :
          /\ Place(g, "bracket", sub[p].sig)
          /\ owner' = [owner EXCEPT ![g] = p]
          /\ sub' = [sub EXCEPT ![p].pc = "placed", ![p].grp = g]
    BY <1>3 DEF PlaceBracket
  <2>2. ib' \in [Groups -> GroupType]
    <3>1. "bracket" \in Kinds /\ sub[p].sig \in Signals /\ BrokerTypeOK
      BY DEF TypeOK, SubType, Kinds
    <3> QED
      BY <2>1, <3>1, PlaceType
  <2>3. sub' \in [Submitters -> SubType]
    <3>1. sub[p] \in SubType /\ g \in 0..MaxGroups
      BY DEF TypeOK, Groups
    <3>2. [sub[p] EXCEPT !.pc = "placed", !.grp = g] \in SubType
      BY <3>1 DEF SubType, PCs
    <3>3. sub' = [sub EXCEPT ![p] = [sub[p] EXCEPT !.pc = "placed", !.grp = g]]
      BY <2>1 DEF TypeOK
    <3> QED
      BY <3>2, <3>3 DEF TypeOK
  <2> QED
    BY <1>3, <2>1, <2>2, <2>3 DEF PlaceBracket, TypeOK, BrokerTypeOK, dbVars
<1>4. ASSUME NEW p \in Submitters, AckBracket(p) PROVE TypeOK'
  BY <1>4 DEF AckBracket, TypeOK, SubType, PCs, brokerVars, dbVars, BrokerTypeOK
<1>5. ASSUME NEW p \in Submitters, NEW f \in Failures, Abandon(p, f),
             sub[p].grp \in Groups
      PROVE  TypeOK'
  BY <1>5, FailSubmissionType DEF Abandon, TypeOK, BrokerTypeOK
<1>6. ASSUME NEW p \in Submitters, CommitTrade(p) PROVE TypeOK'
  <2>1. sig' \in [Signals -> SignalType]
    BY <1>6 DEF CommitTrade, TypeOK, SubType, SignalType, Statuses, Outcomes
  <2>2. trades' \in [Groups -> TradeType]
    <3>1. sub[p].grp \in Groups
      BY <1>6 DEF CommitTrade, SessionOwnsItsGroup, Brackets
    <3>2. ib[sub[p].grp].filled \in [Legs -> 0..Qty]
      BY <3>1 DEF TypeOK, BrokerTypeOK, GroupType
    <3>3. 0 \in 0..MaxGroups
      BY GatewayAssumption
    <3>4. OpenTrade(sub[p].grp) \in TradeType
      BY <3>2, <3>3 DEF OpenTrade, TradeType, TradeStates
    <3> QED
      BY <1>6, <3>1, <3>4 DEF CommitTrade, TypeOK
  <2> QED
    BY <1>0, <1>6, <2>1, <2>2 DEF CommitTrade, TypeOK, brokerVars, BrokerTypeOK
<1>7. ASSUME NEW p \in Submitters, PaperExecute(p) PROVE TypeOK'
  <2>1. sig' \in [Signals -> SignalType]
    <3>1. sub[p].sig \in Signals
      BY DEF TypeOK, SubType
    <3>2. [sig[sub[p].sig] EXCEPT !.status = "executed"] \in SignalType
      BY <3>1 DEF TypeOK, SignalType, Statuses
    <3>3. \/ sig' = sig
          \/ sig' = [sig EXCEPT ![sub[p].sig] =
                              [sig[sub[p].sig] EXCEPT !.status = "executed"]]
      BY <1>7, <3>1 DEF PaperExecute, TypeOK
    <3> QED
      BY <3>1, <3>2, <3>3 DEF TypeOK
  <2>2. simulated' \subseteq (Signals \X Submitters)
    BY <1>7 DEF PaperExecute, TypeOK, SubType
  <2> QED
    BY <1>0, <1>7, <2>1, <2>2 DEF PaperExecute, TypeOK, brokerVars, BrokerTypeOK
<1>8. ASSUME NEW p \in Submitters, Disconnected(p) PROVE TypeOK'
  <2>1. "submission_failed" \in Failures
    BY DEF Failures
  <2>2. lost' \subseteq Groups
    BY <1>8 DEF Disconnected, Unsettled, SessionOwnsItsGroup, Brackets, TypeOK
  <2> QED
    BY <1>8, <2>1, <2>2, FailSubmissionType
       DEF Disconnected, TypeOK, brokerVars, BrokerTypeOK
<1>9. ASSUME NEW p \in Submitters, Crash(p) PROVE TypeOK'
  <2>1. lost' \subseteq Groups
    BY <1>9 DEF Crash, Unsettled, SessionOwnsItsGroup, Brackets, TypeOK
  <2> QED
    BY <1>0, <1>9, <2>1 DEF Crash, TypeOK, brokerVars, dbVars, BrokerTypeOK
<1>10. ASSUME NEW p \in Submitters, NEW s \in Signals,
             NEW path \in {"loaded", "paper_loaded"}, LoadSignal(p, s, path)
       PROVE  TypeOK'
  <2>1. sub' \in [Submitters -> SubType]
    BY <1>10 DEF LoadSignal, TypeOK, SubType, SignalType, PCs
  <2> QED
    BY <1>10, <2>1 DEF LoadSignal, TypeOK, brokerVars, dbVars, BrokerTypeOK
<1>11. CASE HumanApprove
  <2>1. sig' \in [Signals -> SignalType]
    <3> DEFINE approved ==
          [sig[human.sig] EXCEPT
             !.approved = TRUE,
             !.status = IF human.seen = "pending_human_approval"
                        THEN "live_approved" ELSE sig[human.sig].status]
    <3>1. human.sig \in Signals
      BY DEF TypeOK, HumanType
    <3>2. approved \in SignalType
      BY <3>1 DEF TypeOK, SignalType, Statuses
    <3>3. sig' = [sig EXCEPT ![human.sig] = approved]
      BY <1>11, <3>1 DEF HumanApprove, TypeOK
    <3> QED
      BY <3>1, <3>2, <3>3 DEF TypeOK
  <2>2. human' \in HumanType
    BY <1>11 DEF HumanApprove, NoApproval, HumanType, Statuses
  <2> QED
    BY <1>11, <2>1, <2>2 DEF HumanApprove, TypeOK, brokerVars, BrokerTypeOK
<1>16. ASSUME NEW s \in Signals, HumanLoad(s) PROVE TypeOK'
  <2>1. human' \in HumanType
    BY <1>16 DEF HumanLoad, TypeOK, HumanType, SignalType
  <2> QED
    BY <1>16, <2>1 DEF HumanLoad, TypeOK, brokerVars, dbVars, BrokerTypeOK
<1>12. CASE SetKillSwitch
  BY <1>12 DEF SetKillSwitch, TypeOK, brokerVars, subVars, BrokerTypeOK
<1>13. CASE BrokerStep
  BY <1>13, BrokerStepType DEF BrokerStep, TypeOK, dbVars, subVars
<1>14. CASE UNCHANGED vars
  BY <1>14 DEF vars, TypeOK, brokerVars, dbVars, subVars, BrokerTypeOK
<1>15. ASSUME NEW p \in Submitters, NotAcknowledged(p) \/ NotVisible(p)
       PROVE  TypeOK'
  <2>1. sub[p].grp \in Groups
    BY <1>15 DEF NotAcknowledged, NotVisible, SessionOwnsItsGroup, Brackets
  <2>2. PICK f \in Failures : Abandon(p, f)
    BY <1>15 DEF NotAcknowledged, NotVisible, Failures
  <2> QED
    BY <1>5, <2>1, <2>2
<1> QED
  BY <1>1, <1>2, <1>3, <1>4, <1>6, <1>7, <1>8, <1>9, <1>10, <1>11, <1>12,
     <1>13, <1>14, <1>15, <1>16 DEF Next, SubmitterStep

\* When a session ends, its group is no longer being submitted, and nobody
\* else was submitting it.
LEMMA EndSession ==
    ASSUME CoreInv, NEW p \in Submitters,
           sub' = [sub EXCEPT ![p] = Idle],
           UNCHANGED owner,
           \A g \in Groups : ib'[g].kind = ib[g].kind /\ ib'[g].sig = ib[g].sig
    PROVE  /\ Brackets' = Brackets
           /\ SubmittingGroups' = SubmittingGroups \ Unsettled(p)
           /\ Unsettled(p) \subseteq SubmittingGroups
           /\ SessionOwnsItsGroup'
           /\ ValidatedWasExecutable'
<1>1. Brackets' = Brackets
  BY DEF Brackets
<1>2. sub'[p].pc = "idle" /\ \A q \in Submitters \ {p} : sub'[q] = sub[q]
  BY DEF CoreInv, TypeOK, Idle
<1>3. SessionOwnsItsGroup'
  BY <1>1, <1>2 DEF CoreInv, SessionOwnsItsGroup, Brackets
<1>4. ValidatedWasExecutable'
  BY <1>2 DEF CoreInv, ValidatedWasExecutable
<1>5. Unsettled(p)' = {} /\ \A q \in Submitters \ {p} : Unsettled(q)' = Unsettled(q)
  BY <1>2 DEF Unsettled
<1>6. \A q \in Submitters \ {p} : Unsettled(q) \intersect Unsettled(p) = {}
  BY DEF CoreInv, SessionOwnsItsGroup, Unsettled
<1>7. SubmittingGroups' = SubmittingGroups \ Unsettled(p)
  BY <1>5, <1>6 DEF SubmittingGroups
<1>8. Unsettled(p) \subseteq SubmittingGroups
  BY DEF SubmittingGroups
<1> QED
  BY <1>1, <1>3, <1>4, <1>7, <1>8

\* A session that ends without a trade preserves the invariant, provided its
\* group, if it placed one, is written down as abandoned or lost.
LEMMA EndWithoutTrade ==
    ASSUME CoreInv, TypeOK', NEW p \in Submitters,
           sub' = [sub EXCEPT ![p] = Idle],
           UNCHANGED <<owner, trades, simulated>>,
           \A g \in Groups : ib'[g].kind = ib[g].kind /\ ib'[g].sig = ib[g].sig,
           \A s \in Signals : sig[s].status \in {"executed", "rejected"} =>
                                 sig'[s].status \in {"executed", "rejected"},
           \/ abandoned' = abandoned \union Unsettled(p) /\ lost' = lost
           \/ lost' = lost \union Unsettled(p) /\ abandoned' = abandoned
    PROVE  CoreInv'
<1>1. /\ Brackets' = Brackets
      /\ SubmittingGroups' = SubmittingGroups \ Unsettled(p)
      /\ Unsettled(p) \subseteq SubmittingGroups
      /\ SessionOwnsItsGroup'
      /\ ValidatedWasExecutable'
  BY EndSession
<1>2. RecordedGroups' = RecordedGroups
  BY DEF RecordedGroups, Recorded
<1>3. EveryBracketAccountedFor'
  BY <1>1, <1>2 DEF CoreInv, EveryBracketAccountedFor
<1>4. sub'[p].pc = "idle" /\ \A q \in Submitters \ {p} : sub'[q] = sub[q]
  BY DEF CoreInv, TypeOK, Idle
<1>5. TraderSeesIt'
  BY <1>2, <1>4 DEF CoreInv, TraderSeesIt, RecordedGroups
<1>6. TradedSignalNotExecutable'
  BY DEF CoreInv, TradedSignalNotExecutable, HasTrade, Recorded
<1>7. OneTradePerSubmitter'
  BY DEF CoreInv, OneTradePerSubmitter, Recorded
<1> QED
  BY <1>1, <1>3, <1>5, <1>6, <1>7 DEF CoreInv

\* A session that moves on without placing or recording anything.
LEMMA ContinueSession ==
    ASSUME CoreInv, TypeOK', NEW p \in Submitters,
           \A q \in Submitters \ {p} : sub'[q] = sub[q],
           UNCHANGED <<owner, trades, simulated, abandoned, lost, sig, ib>>,
           Unsettled(p)' = Unsettled(p),
           sub'[p].pc \in {"placed", "acked"} =>
               sub'[p].grp = sub[p].grp /\ sub'[p].sig = sub[p].sig
               /\ sub[p].pc \in {"placed", "acked"},
           sub'[p].pc \in {"validated", "placed", "acked"} =>
               sub'[p].seen \in Executable,
           \/ sub[p].pc # "idle" /\ sub'[p].sig = sub[p].sig
                                /\ sub'[p].seen = sub[p].seen
           \/ sub'[p].seen = sig[sub'[p].sig].status
    PROVE  CoreInv'
<1>1. Brackets' = Brackets /\ RecordedGroups' = RecordedGroups
  BY DEF Brackets, RecordedGroups, Recorded
<1>2. \A q \in Submitters : Unsettled(q)' = Unsettled(q)
  BY DEF Unsettled
<1>3. SubmittingGroups' = SubmittingGroups
  BY <1>2 DEF SubmittingGroups
<1>4. EveryBracketAccountedFor'
  BY <1>1, <1>3 DEF CoreInv, EveryBracketAccountedFor
<1>5. SessionOwnsItsGroup'
  BY <1>1 DEF CoreInv, SessionOwnsItsGroup
<1>6. ValidatedWasExecutable'
  BY DEF CoreInv, ValidatedWasExecutable
<1>7. TraderSeesIt'
  <2>1. CASE sub[p].pc # "idle" /\ sub'[p].sig = sub[p].sig
                              /\ sub'[p].seen = sub[p].seen
    BY <1>1, <2>1 DEF CoreInv, TraderSeesIt
  <2>2. CASE sub'[p].seen = sig[sub'[p].sig].status
    <3>1. sub'[p].sig \in Signals
      BY DEF TypeOK, SubType
    <3>2. HasTrade(sub'[p].sig) => sub'[p].seen \notin Executable
      BY <2>2, <3>1 DEF CoreInv, TradedSignalNotExecutable, Executable
    <3> QED
      BY <1>1, <3>2 DEF CoreInv, TraderSeesIt, HasTrade, RecordedGroups
  <2> QED
    BY <2>1, <2>2
<1>8. TradedSignalNotExecutable' /\ OneTradePerSubmitter'
  BY DEF CoreInv, TradedSignalNotExecutable, HasTrade, Recorded,
         OneTradePerSubmitter
<1> QED
  BY <1>4, <1>5, <1>6, <1>7, <1>8 DEF CoreInv

\* Placing a bracket: a fresh group, submitted by p and by nobody else.
LEMMA PlaceBracketInv ==
    ASSUME CoreInv, TypeOK', NEW p \in Submitters, PlaceBracket(p)
    PROVE  CoreInv'
<1>1. PICK g \in Groups :
        /\ NextGroup(g)
        /\ Place(g, "bracket", sub[p].sig)
        /\ owner' = [owner EXCEPT ![g] = p]
        /\ sub' = [sub EXCEPT ![p].pc = "placed", ![p].grp = g]
  BY DEF PlaceBracket
<1>2. sub[p].pc = "validated" /\ UNCHANGED <<sig, trades, simulated, abandoned, lost>>
  BY DEF PlaceBracket, dbVars
<1>3. /\ ib'[g].kind = "bracket" /\ ib'[g].sig = sub[p].sig
      /\ \A h \in Groups \ {g} : ib'[h] = ib[h]
  BY <1>1, PlaceType DEF CoreInv, TypeOK, SubType, Kinds
<1>4. g \notin Brackets
  BY <1>1 DEF NextGroup, Placed, Brackets
<1>5. Brackets' = Brackets \union {g}
  BY <1>3 DEF Brackets
<1>6. /\ sub'[p].pc = "placed" /\ sub'[p].grp = g
      /\ sub'[p].sig = sub[p].sig /\ sub'[p].seen = sub[p].seen
      /\ \A q \in Submitters \ {p} : sub'[q] = sub[q]
  BY <1>1 DEF CoreInv, TypeOK, SubType
<1>7. SubmittingGroups' = SubmittingGroups \union {g}
  <2>1. Unsettled(p) = {} /\ Unsettled(p)' = {g}
        /\ \A q \in Submitters \ {p} : Unsettled(q)' = Unsettled(q)
    BY <1>2, <1>6 DEF Unsettled
  <2> QED
    BY <2>1 DEF SubmittingGroups
<1>8. RecordedGroups' = RecordedGroups
  BY <1>2 DEF RecordedGroups, Recorded
<1>9. EveryBracketAccountedFor'
  BY <1>2, <1>4, <1>5, <1>7, <1>8 DEF CoreInv, EveryBracketAccountedFor
<1>10. SessionOwnsItsGroup'
  BY <1>1, <1>3, <1>4, <1>5, <1>6
     DEF CoreInv, SessionOwnsItsGroup, TypeOK, Brackets
<1>11. ValidatedWasExecutable'
  BY <1>2, <1>6 DEF CoreInv, ValidatedWasExecutable
<1>12. \A h \in RecordedGroups : h # g /\ ib'[h] = ib[h] /\ owner'[h] = owner[h]
  BY <1>1, <1>3, <1>4 DEF CoreInv, EveryBracketAccountedFor, RecordedGroups, TypeOK
<1>13. TraderSeesIt'
  BY <1>2, <1>6, <1>8, <1>12 DEF CoreInv, TraderSeesIt
<1>14. TradedSignalNotExecutable'
  BY <1>2, <1>12 DEF CoreInv, TradedSignalNotExecutable, HasTrade,
                     RecordedGroups, Recorded
<1>15. OneTradePerSubmitter'
  BY <1>2, <1>12 DEF CoreInv, OneTradePerSubmitter, RecordedGroups, Recorded
<1> QED
  BY <1>9, <1>10, <1>11, <1>13, <1>14, <1>15 DEF CoreInv

\* Recording a trade: what its session loaded was executable, so its submitter
\* had no trade of this signal yet.
LEMMA CommitTradeInv ==
    ASSUME CoreInv, TypeOK', NEW p \in Submitters, CommitTrade(p)
    PROVE  CoreInv'
<1> DEFINE g == sub[p].grp
           s == sub[p].sig
<1>1. /\ sub[p].pc = "acked"
      /\ trades' = [trades EXCEPT ![g] = OpenTrade(g)]
      /\ sig' = [sig EXCEPT ![s].status = "executed", ![s].outcome = "submitted"]
      /\ sub' = [sub EXCEPT ![p] = Idle]
      /\ UNCHANGED <<ib, simulated, owner, abandoned, lost>>
  BY DEF CommitTrade, brokerVars
<1>2. /\ g \in Brackets /\ g \in Groups /\ ib[g].sig = s /\ owner[g] = p
      /\ sub[p].seen \in Executable /\ s \in Signals
  BY <1>1 DEF CoreInv, SessionOwnsItsGroup, ValidatedWasExecutable, Brackets,
              TypeOK, SubType
<1>3. /\ Brackets' = Brackets
      /\ SubmittingGroups' = SubmittingGroups \ Unsettled(p)
      /\ Unsettled(p) \subseteq SubmittingGroups
      /\ SessionOwnsItsGroup'
      /\ ValidatedWasExecutable'
  BY <1>1, EndSession
<1>4. Unsettled(p) = {g}
  BY <1>1 DEF Unsettled
<1>5. RecordedGroups' = RecordedGroups \union {g}
  BY <1>1, <1>2 DEF RecordedGroups, Recorded, CoreInv, TypeOK, OpenTrade
<1>6. EveryBracketAccountedFor'
  BY <1>1, <1>3, <1>4, <1>5 DEF CoreInv, EveryBracketAccountedFor
<1>7. sub'[p].pc = "idle" /\ \A q \in Submitters \ {p} : sub'[q] = sub[q]
  BY <1>1 DEF CoreInv, TypeOK, Idle
<1>8. TraderSeesIt'
  BY <1>1, <1>2, <1>5, <1>7 DEF CoreInv, TraderSeesIt
<1>9. /\ sig'[s].status = "executed"
      /\ \A z \in Signals \ {s} : sig'[z] = sig[z]
  BY <1>1, <1>2 DEF CoreInv, TypeOK, SignalType
<1>10. TradedSignalNotExecutable'
  <2>1. \A z \in Signals \ {s} : HasTrade(z)' => HasTrade(z)
    BY <1>1, <1>2, <1>5 DEF HasTrade, RecordedGroups
  <2> QED
    BY <1>9, <2>1 DEF CoreInv, TradedSignalNotExecutable
<1>11. /\ <<s, p>> \notin simulated
       /\ \A h \in RecordedGroups : ib[h].sig = s => owner[h] # p
  BY <1>1, <1>2 DEF CoreInv, TraderSeesIt
<1>12. OneTradePerSubmitter'
  BY <1>1, <1>2, <1>5, <1>11 DEF CoreInv, OneTradePerSubmitter, RecordedGroups
<1> QED
  BY <1>3, <1>6, <1>8, <1>10, <1>12 DEF CoreInv

\* A simulated trade, by the same argument.
LEMMA PaperExecuteInv ==
    ASSUME CoreInv, TypeOK', NEW p \in Submitters, PaperExecute(p)
    PROVE  CoreInv'
<1> DEFINE s == sub[p].sig
<1>1. /\ sub[p].pc = "paper_loaded"
      /\ sub' = [sub EXCEPT ![p] = Idle]
      /\ UNCHANGED <<ib, trades, owner, abandoned, lost>>
  BY DEF PaperExecute, brokerVars
<1>2. CASE sub[p].seen \notin Executable
  BY <1>1, <1>2, EndWithoutTrade DEF PaperExecute, Unsettled
<1>3. CASE sub[p].seen \in Executable
  <2>1. /\ simulated' = simulated \union {<<s, p>>}
        /\ sig' = [sig EXCEPT ![s].status = "executed"]
    BY <1>3 DEF PaperExecute
  <2>2. s \in Signals
    BY DEF CoreInv, TypeOK, SubType
  <2>3. /\ Brackets' = Brackets
        /\ SubmittingGroups' = SubmittingGroups \ Unsettled(p)
        /\ SessionOwnsItsGroup'
        /\ ValidatedWasExecutable'
    BY <1>1, EndSession
  <2>4. Unsettled(p) = {} /\ RecordedGroups' = RecordedGroups
    BY <1>1 DEF Unsettled, RecordedGroups, Recorded
  <2>5. EveryBracketAccountedFor'
    BY <1>1, <2>3, <2>4 DEF CoreInv, EveryBracketAccountedFor
  <2>6. sub'[p].pc = "idle" /\ \A q \in Submitters \ {p} : sub'[q] = sub[q]
    BY <1>1 DEF CoreInv, TypeOK, Idle
  <2>7. TraderSeesIt'
    BY <1>1, <2>1, <2>4, <2>6 DEF CoreInv, TraderSeesIt
  <2>8. /\ sig'[s].status = "executed"
        /\ \A z \in Signals \ {s} : sig'[z] = sig[z]
    BY <2>1, <2>2 DEF CoreInv, TypeOK, SignalType
  <2>9. TradedSignalNotExecutable'
    BY <1>1, <2>1, <2>2, <2>8 DEF CoreInv, TradedSignalNotExecutable, HasTrade,
                                  Recorded
  <2>10. \A h \in RecordedGroups : ib[h].sig = s => owner[h] # p
    BY <1>1, <1>3 DEF CoreInv, TraderSeesIt
  <2>11. OneTradePerSubmitter'
    BY <1>1, <2>1, <2>10 DEF CoreInv, OneTradePerSubmitter, RecordedGroups,
                             Recorded
  <2> QED
    BY <2>3, <2>5, <2>7, <2>9, <2>11 DEF CoreInv
<1> QED
  BY <1>2, <1>3

\* Every step preserves the core of the invariant: one case per action.
LEMMA StepCore == SubmissionInv /\ [Next]_vars => CoreInv'
<1> SUFFICES ASSUME SubmissionInv, [Next]_vars PROVE CoreInv'
  OBVIOUS
<1>0. CoreInv /\ TypeOK /\ TypeOK'
  BY TypeStep DEF SubmissionInv, CoreInv
<1>1. ASSUME NEW p \in Submitters, ValidateOrder(p) PROVE CoreInv'
  <2>1. CASE ValidationFailure(p) = "none"
    <3>1. /\ sub' = [sub EXCEPT ![p].pc = "validated"]
          /\ UNCHANGED <<owner, trades, simulated, abandoned, lost, sig, ib>>
          /\ sub[p].pc = "loaded" /\ sub[p].seen \in Executable
      BY <1>1, <2>1 DEF ValidateOrder, brokerVars, ValidationFailure
    <3>2. /\ sub'[p].pc = "validated" /\ sub'[p].sig = sub[p].sig
          /\ sub'[p].seen = sub[p].seen
          /\ \A q \in Submitters \ {p} : sub'[q] = sub[q]
      BY <1>0, <3>1 DEF TypeOK, SubType
    <3>3. Unsettled(p)' = Unsettled(p)
      BY <3>1, <3>2 DEF Unsettled
    <3> QED
      BY <1>0, <3>1, <3>2, <3>3, ContinueSession
  <2>2. CASE ValidationFailure(p) # "none"
    <3>1. /\ FailSubmission(p, ValidationFailure(p))
          /\ UNCHANGED <<owner, trades, simulated, abandoned, lost, ib>>
          /\ Unsettled(p) = {}
      BY <1>1, <2>2 DEF ValidateOrder, brokerVars, Unsettled
    <3> QED
      BY <1>0, <2>2, <3>1, FailSubmissionType, ValidationFailureType, EndWithoutTrade
         DEF FailSubmission
  <2> QED
    BY <2>1, <2>2
<1>2. ASSUME NEW p \in Submitters, FailBeforePlacement(p) PROVE CoreInv'
  <2>1. PICK f \in Failures : FailSubmission(p, f)
    BY <1>2 DEF FailBeforePlacement, Failures
  <2>2. /\ UNCHANGED <<owner, trades, simulated, abandoned, lost, ib>>
        /\ Unsettled(p) = {}
    BY <1>2 DEF FailBeforePlacement, brokerVars, Unsettled
  <2> QED
    BY <1>0, <2>1, <2>2, FailSubmissionType, EndWithoutTrade DEF FailSubmission
<1>3. ASSUME NEW p \in Submitters, AckBracket(p) PROVE CoreInv'
  <2>1. /\ sub' = [sub EXCEPT ![p].pc = "acked"]
        /\ UNCHANGED <<owner, trades, simulated, abandoned, lost, sig, ib>>
        /\ sub[p].pc = "placed"
    BY <1>3 DEF AckBracket, brokerVars, dbVars
  <2>2. /\ sub'[p].pc = "acked" /\ sub'[p].sig = sub[p].sig
        /\ sub'[p].seen = sub[p].seen /\ sub'[p].grp = sub[p].grp
        /\ \A q \in Submitters \ {p} : sub'[q] = sub[q]
    BY <1>0, <2>1 DEF TypeOK, SubType
  <2>3. Unsettled(p)' = Unsettled(p) /\ sub[p].seen \in Executable
    BY <1>0, <2>1, <2>2 DEF Unsettled, CoreInv, ValidatedWasExecutable
  <2> QED
    BY <1>0, <2>1, <2>2, <2>3, ContinueSession
<1>4. ASSUME NEW p \in Submitters, NotAcknowledged(p) \/ NotVisible(p)
      PROVE  CoreInv'
  <2>1. PICK f \in Failures : Abandon(p, f)
    BY <1>4 DEF NotAcknowledged, NotVisible, Failures
  <2>2. Unsettled(p) = {sub[p].grp}
    BY <1>4 DEF NotAcknowledged, NotVisible, Unsettled
  <2>3. /\ FailSubmission(p, f)
        /\ UNCHANGED <<owner, trades, simulated, lost, ib>>
        /\ abandoned' = abandoned \union Unsettled(p)
    BY <2>1, <2>2 DEF Abandon
  <2> QED
    BY <1>0, <2>3, FailSubmissionType, EndWithoutTrade DEF FailSubmission
<1>5. ASSUME NEW p \in Submitters, Disconnected(p) PROVE CoreInv'
  <2>1. /\ FailSubmission(p, "submission_failed") /\ "submission_failed" \in Failures
        /\ UNCHANGED <<owner, trades, simulated, abandoned, ib>>
        /\ lost' = lost \union Unsettled(p)
    BY <1>5 DEF Disconnected, brokerVars, Failures
  <2> QED
    BY <1>0, <2>1, FailSubmissionType, EndWithoutTrade DEF FailSubmission
<1>6. ASSUME NEW p \in Submitters, Crash(p) PROVE CoreInv'
  <2>1. /\ sub' = [sub EXCEPT ![p] = Idle]
        /\ UNCHANGED <<owner, trades, simulated, abandoned, ib, sig>>
        /\ lost' = lost \union Unsettled(p)
    BY <1>6 DEF Crash, brokerVars, dbVars
  <2> QED
    BY <1>0, <2>1, EndWithoutTrade
<1>7. ASSUME NEW p \in Submitters, NEW s \in Signals,
             NEW path \in {"loaded", "paper_loaded"}, LoadSignal(p, s, path)
      PROVE  CoreInv'
  <2>1. /\ sub[p].pc = "idle"
        /\ UNCHANGED <<owner, trades, simulated, abandoned, lost, sig, ib>>
        /\ sub' = [sub EXCEPT ![p] = [pc |-> path, sig |-> s,
                                      seen |-> sig[s].status,
                                      approved |-> sig[s].approved, grp |-> 0]]
    BY <1>7 DEF LoadSignal, brokerVars, dbVars
  <2>2. /\ sub'[p].pc \in {"loaded", "paper_loaded"} /\ sub'[p].sig = s
        /\ sub'[p].seen = sig[s].status
        /\ \A q \in Submitters \ {p} : sub'[q] = sub[q]
    BY <1>0, <2>1 DEF TypeOK
  <2>3. Unsettled(p)' = Unsettled(p)
    BY <2>1, <2>2 DEF Unsettled
  <2> QED
    BY <1>0, <2>1, <2>2, <2>3, ContinueSession
<1>8. CASE HumanApprove
  <2>1. /\ human.pc = "loaded"
        /\ human.sig \in Signals
        /\ human.seen = "pending_human_approval" => ~HasTrade(human.sig)
    BY <1>0, <1>8 DEF HumanApprove, TypeOK, HumanType, SubmissionInv,
                      ApprovalComesFirst, NobodyUses
  <2>2. \A z \in Signals : HasTrade(z) =>
           (sig[z].status \in {"executed", "rejected"} =>
               sig'[z].status \in {"executed", "rejected"})
    BY <1>0, <1>8, <2>1 DEF HumanApprove, TypeOK, SignalType
  <2>3. UNCHANGED <<trades, simulated, sub, owner, abandoned, lost, ib>>
    BY <1>8 DEF HumanApprove, brokerVars
  <2> QED
    BY <1>0, <2>2, <2>3, FramePreserves
<1>12. ASSUME NEW s \in Signals, HumanLoad(s) PROVE CoreInv'
  <2>1. UNCHANGED <<trades, simulated, sub, owner, abandoned, lost, ib, sig>>
    BY <1>12 DEF HumanLoad, brokerVars, dbVars
  <2> QED
    BY <1>0, <2>1, FramePreserves
<1>9. CASE SetKillSwitch
  <2>1. UNCHANGED <<trades, simulated, sub, owner, abandoned, lost, ib, sig>>
    BY <1>9 DEF SetKillSwitch, subVars, brokerVars
  <2> QED
    BY <1>0, <2>1, FramePreserves
<1>10. CASE BrokerStep
  <2>1. UNCHANGED <<trades, simulated, sub, owner, abandoned, lost, sig>>
    BY <1>10 DEF BrokerStep, dbVars, subVars
  <2>2. \A g \in Groups : ib'[g].kind = ib[g].kind /\ ib'[g].sig = ib[g].sig
    BY <1>0, <1>10, BrokerStepType DEF BrokerStep, TypeOK
  <2> QED
    BY <1>0, <2>1, <2>2, FramePreserves
<1>11. CASE UNCHANGED vars
  <2>1. UNCHANGED <<trades, simulated, sub, owner, abandoned, lost, ib, sig>>
    BY <1>11 DEF vars, subVars, dbVars, brokerVars
  <2> QED
    BY <1>0, <2>1, FramePreserves
<1> QED
  BY <1>0, <1>1, <1>2, <1>3, <1>4, <1>5, <1>6, <1>7, <1>8, <1>9, <1>10, <1>11,
     <1>12, PlaceBracketInv, CommitTradeInv, PaperExecuteInv DEF Next, SubmitterStep

\* What a step other than the approval's commit does to a signal that nobody
\* has traded or holds as executable: it may be rejected, and nothing else.
LEMMA UnusedStaysUnused ==
    ASSUME CoreInv, TypeOK', [Next]_vars, ~HumanApprove, NEW s \in Signals,
           NobodyUses(s), sig[s].status \notin Executable
    PROVE  NobodyUses(s)' /\ sig'[s].status \in {sig[s].status, "rejected"}
<1>0. TypeOK
  BY DEF CoreInv
<1>1. ASSUME NEW p \in Submitters, NEW f, FailSubmission(p, f),
             UNCHANGED <<trades, simulated>>,
             \A g \in Groups : ib'[g].sig = ib[g].sig
      PROVE  NobodyUses(s)' /\ sig'[s].status \in {sig[s].status, "rejected"}
  <2>1. sub'[p].pc = "idle" /\ \A q \in Submitters \ {p} : sub'[q] = sub[q]
    BY <1>0, <1>1 DEF FailSubmission, TypeOK, Idle
  <2>2. NobodyUses(s)'
    BY <1>1, <2>1 DEF NobodyUses, Holds, HasTrade, Recorded
  <2> QED
    BY <1>0, <1>1, <2>2 DEF FailSubmission, TypeOK, SignalType, SubType
<1>2. ASSUME UNCHANGED <<trades, simulated, sub, sig>>,
             \A g \in Groups : ib'[g].sig = ib[g].sig
      PROVE  NobodyUses(s)' /\ sig'[s].status \in {sig[s].status, "rejected"}
  BY <1>2 DEF NobodyUses, Holds, HasTrade, Recorded
<1>3. ASSUME NEW p \in Submitters, ValidateOrder(p)
      PROVE  NobodyUses(s)' /\ sig'[s].status \in {sig[s].status, "rejected"}
  <2>1. CASE ValidationFailure(p) = "none"
    <3>1. sub' = [sub EXCEPT ![p].pc = "validated"] /\ sub[p].pc = "loaded"
          /\ UNCHANGED <<sig, trades, simulated, ib>>
      BY <1>3, <2>1 DEF ValidateOrder, brokerVars
    <3>2. \A q \in Submitters : Holds(q, s)' => Holds(q, s)
      BY <1>0, <3>1 DEF Holds, TypeOK, SubType
    <3> QED
      BY <3>1, <3>2 DEF NobodyUses, HasTrade, Recorded
  <2>2. CASE ValidationFailure(p) # "none"
    BY <1>1, <1>3, <2>2 DEF ValidateOrder, brokerVars
  <2> QED
    BY <2>1, <2>2
<1>4. ASSUME NEW p \in Submitters, FailBeforePlacement(p) \/ Disconnected(p)
      PROVE  NobodyUses(s)' /\ sig'[s].status \in {sig[s].status, "rejected"}
  BY <1>1, <1>4 DEF FailBeforePlacement, Disconnected, brokerVars
<1>5. ASSUME NEW p \in Submitters, NotAcknowledged(p) \/ NotVisible(p)
      PROVE  NobodyUses(s)' /\ sig'[s].status \in {sig[s].status, "rejected"}
  BY <1>1, <1>5 DEF NotAcknowledged, NotVisible, Abandon
<1>6. ASSUME NEW p \in Submitters, PlaceBracket(p)
      PROVE  NobodyUses(s)' /\ sig'[s].status \in {sig[s].status, "rejected"}
  <2>1. PICK g \in Groups :
          /\ NextGroup(g)
          /\ Place(g, "bracket", sub[p].sig)
          /\ sub' = [sub EXCEPT ![p].pc = "placed", ![p].grp = g]
    BY <1>6 DEF PlaceBracket
  <2>2. sub[p].pc = "validated" /\ UNCHANGED <<sig, trades, simulated>>
    BY <1>6 DEF PlaceBracket, dbVars
  <2>3. \A h \in Groups \ {g} : ib'[h] = ib[h]
    BY <1>0, <2>1, PlaceType DEF TypeOK, SubType, Kinds
  <2>4. ~Recorded(g)
    BY <2>1 DEF CoreInv, EveryBracketAccountedFor, NextGroup, Placed, Brackets,
                RecordedGroups
  <2>5. \A q \in Submitters : Holds(q, s)' => Holds(q, s)
    BY <1>0, <2>1, <2>2 DEF Holds, TypeOK, SubType
  <2> QED
    BY <2>2, <2>3, <2>4, <2>5 DEF NobodyUses, HasTrade, Recorded
<1>7. ASSUME NEW p \in Submitters, AckBracket(p)
      PROVE  NobodyUses(s)' /\ sig'[s].status \in {sig[s].status, "rejected"}
  <2>1. sub' = [sub EXCEPT ![p].pc = "acked"] /\ sub[p].pc = "placed"
        /\ UNCHANGED <<sig, trades, simulated, ib>>
    BY <1>7 DEF AckBracket, dbVars, brokerVars
  <2>2. \A q \in Submitters : Holds(q, s)' => Holds(q, s)
    BY <1>0, <2>1 DEF Holds, TypeOK, SubType
  <2> QED
    BY <2>1, <2>2 DEF NobodyUses, HasTrade, Recorded
<1>8. ASSUME NEW p \in Submitters, CommitTrade(p)
      PROVE  NobodyUses(s)' /\ sig'[s].status \in {sig[s].status, "rejected"}
  <2>1. sub[p].pc = "acked" /\ Holds(p, sub[p].sig) /\ sub[p].grp \in Groups
        /\ ib[sub[p].grp].sig = sub[p].sig
    BY <1>8 DEF CommitTrade, Holds, CoreInv, ValidatedWasExecutable,
                SessionOwnsItsGroup, Brackets
  <2>2. sub[p].sig # s
    BY <2>1 DEF NobodyUses
  <2>3. /\ sig'[s] = sig[s]
        /\ \A g \in Groups \ {sub[p].grp} : trades'[g] = trades[g]
        /\ UNCHANGED <<ib, simulated>>
    BY <1>0, <1>8, <2>1, <2>2 DEF CommitTrade, TypeOK, brokerVars
  <2>4. sub'[p].pc = "idle" /\ \A q \in Submitters \ {p} : sub'[q] = sub[q]
    BY <1>0, <1>8 DEF CommitTrade, TypeOK, Idle
  <2> QED
    BY <2>1, <2>2, <2>3, <2>4 DEF NobodyUses, Holds, HasTrade, Recorded
<1>9. ASSUME NEW p \in Submitters, PaperExecute(p)
      PROVE  NobodyUses(s)' /\ sig'[s].status \in {sig[s].status, "rejected"}
  <2>1. sub'[p].pc = "idle" /\ (\A q \in Submitters \ {p} : sub'[q] = sub[q])
        /\ sub[p].pc # "idle" /\ UNCHANGED <<ib, trades>>
    BY <1>0, <1>9 DEF PaperExecute, TypeOK, Idle, brokerVars
  <2>2. \/ UNCHANGED <<simulated, sig>>
        \/ /\ sub[p].sig # s
           /\ simulated' = simulated \union {<<sub[p].sig, p>>}
           /\ sig'[s] = sig[s]
    BY <1>0, <1>9, <2>1 DEF PaperExecute, NobodyUses, Holds, TypeOK, SubType
  <2> QED
    BY <2>1, <2>2 DEF NobodyUses, Holds, HasTrade, Recorded
<1>10. ASSUME NEW p \in Submitters, Crash(p)
       PROVE  NobodyUses(s)' /\ sig'[s].status \in {sig[s].status, "rejected"}
  <2>1. sub'[p].pc = "idle" /\ (\A q \in Submitters \ {p} : sub'[q] = sub[q])
        /\ UNCHANGED <<sig, trades, simulated, ib>>
    BY <1>0, <1>10 DEF Crash, TypeOK, Idle, dbVars, brokerVars
  <2> QED
    BY <2>1 DEF NobodyUses, Holds, HasTrade, Recorded
<1>11. ASSUME NEW p \in Submitters, NEW z \in Signals,
              NEW path \in {"loaded", "paper_loaded"}, LoadSignal(p, z, path)
       PROVE  NobodyUses(s)' /\ sig'[s].status \in {sig[s].status, "rejected"}
  <2>1. /\ sub'[p].sig = z /\ sub'[p].seen = sig[z].status
        /\ \A q \in Submitters \ {p} : sub'[q] = sub[q]
        /\ UNCHANGED <<sig, trades, simulated, ib>>
    BY <1>0, <1>11 DEF LoadSignal, TypeOK, dbVars, brokerVars
  <2> QED
    BY <2>1 DEF NobodyUses, Holds, HasTrade, Recorded
<1>12. ASSUME (\E z \in Signals : HumanLoad(z)) \/ SetKillSwitch \/ BrokerStep
                  \/ UNCHANGED vars
       PROVE  /\ UNCHANGED <<trades, simulated, sub, sig>>
              /\ \A g \in Groups : ib'[g].sig = ib[g].sig
  BY <1>0, <1>12, BrokerStepType
     DEF HumanLoad, SetKillSwitch, BrokerStep, vars, dbVars, subVars, brokerVars,
         TypeOK
<1> QED
  BY <1>2, <1>3, <1>4, <1>5, <1>6, <1>7, <1>8, <1>9, <1>10, <1>11, <1>12
     DEF Next, SubmitterStep

\* Nothing takes a signal back to "pending".
LEMMA NothingBecomesPending ==
    ASSUME TypeOK, [Next]_vars, NEW s \in Signals,
           sig'[s].status = "pending_human_approval"
    PROVE  sig[s].status = "pending_human_approval"
<1>1. ASSUME NEW p \in Submitters, NEW f, FailSubmission(p, f)
      PROVE  sig[s].status = "pending_human_approval"
  BY <1>1 DEF FailSubmission, TypeOK, SignalType, SubType
<1>2. ASSUME NEW p \in Submitters, SubmitterStep(p) \/ Disconnected(p)
      PROVE  sig[s].status = "pending_human_approval"
  <2>1. CASE ValidateOrder(p)
    BY <1>1, <2>1 DEF ValidateOrder
  <2>2. CASE FailBeforePlacement(p) \/ Disconnected(p)
    BY <1>1, <2>2 DEF FailBeforePlacement, Disconnected
  <2>3. CASE PlaceBracket(p) \/ AckBracket(p)
    BY <2>3 DEF PlaceBracket, AckBracket, dbVars
  <2>4. CASE NotAcknowledged(p) \/ NotVisible(p)
    BY <1>1, <2>4 DEF NotAcknowledged, NotVisible, Abandon
  <2>5. CASE CommitTrade(p) \/ PaperExecute(p)
    <3>1. sub[p].sig \in Signals
      BY DEF TypeOK, SubType
    <3>2. CASE CommitTrade(p)
      BY <3>1, <3>2 DEF CommitTrade, TypeOK, SignalType
    <3>3. CASE PaperExecute(p)
      <4>1. sig' = sig \/ sig' = [sig EXCEPT ![sub[p].sig].status = "executed"]
        BY <3>3 DEF PaperExecute
      <4> QED
        BY <3>1, <4>1 DEF TypeOK, SignalType
    <3> QED
      BY <2>5, <3>2, <3>3
  <2> QED
    BY <1>2, <2>1, <2>2, <2>3, <2>4, <2>5 DEF SubmitterStep
<1>3. CASE HumanApprove
  BY <1>3 DEF HumanApprove, TypeOK, SignalType, HumanType
<1>4. (\E p \in Submitters : Crash(p)) \/ SetKillSwitch \/ BrokerStep
         \/ (\E p \in Submitters, z \in Signals, path \in {"loaded", "paper_loaded"} :
                LoadSignal(p, z, path))
         \/ (\E z \in Signals : HumanLoad(z)) \/ UNCHANGED vars => sig' = sig
  BY DEF Crash, SetKillSwitch, BrokerStep, LoadSignal, HumanLoad, vars, dbVars
<1> QED
  BY <1>2, <1>3, <1>4 DEF Next

\* An approval under way is about a signal nobody uses.
LEMMA ApprovalStep ==
    ASSUME SubmissionInv, TypeOK', [Next]_vars
    PROVE  ApprovalComesFirst'
<1>1. CoreInv /\ TypeOK /\ ApprovalComesFirst
  BY DEF SubmissionInv, CoreInv
<1>2. CASE ~HumanApprove
  <2>1. \A s \in Signals : sig'[s].status = "pending_human_approval" =>
           NobodyUses(s)'
    BY <1>1, <1>2, NothingBecomesPending, UnusedStaysUnused
       DEF ApprovalComesFirst, Executable
  <2>2. \/ human' = human
        \/ \E s \in Signals : HumanLoad(s)
    BY <1>2 DEF Next, SubmitterStep, ValidateOrder, FailBeforePlacement,
         PlaceBracket, AckBracket, NotAcknowledged, NotVisible, Abandon,
         CommitTrade, PaperExecute, Disconnected, Crash, LoadSignal,
         SetKillSwitch, BrokerStep, vars, subVars
  <2>3. CASE human' = human
    <3>1. human.sig \in Signals
      BY <1>1 DEF TypeOK, HumanType
    <3> QED
      BY <1>1, <1>2, <2>1, <2>3, <3>1, UnusedStaysUnused
         DEF ApprovalComesFirst, Executable
  <2>4. ASSUME NEW s \in Signals, HumanLoad(s) PROVE ApprovalComesFirst'
    <3>1. human'.sig = s /\ human'.seen = sig[s].status /\ sig' = sig
      BY <2>4 DEF HumanLoad, dbVars
    <3> QED
      BY <1>1, <2>1, <3>1 DEF ApprovalComesFirst
  <2> QED
    BY <2>2, <2>3, <2>4
<1>3. CASE HumanApprove
  <2>1. human'.pc = "idle" /\ UNCHANGED <<trades, simulated, sub, ib>>
    BY <1>3 DEF HumanApprove, NoApproval, brokerVars
  <2>2. \A s \in Signals : NobodyUses(s) => NobodyUses(s)'
    BY <2>1 DEF NobodyUses, Holds, HasTrade, Recorded
  <2> QED
    BY <1>1, <2>1, <2>2, NothingBecomesPending DEF ApprovalComesFirst
<1> QED
  BY <1>2, <1>3

\* Every step preserves the invariant.
LEMMA StepInv == SubmissionInv /\ [Next]_vars => SubmissionInv'
<1> SUFFICES ASSUME SubmissionInv, [Next]_vars PROVE SubmissionInv'
  OBVIOUS
<1>1. CoreInv'
  BY StepCore
<1>2. ApprovalComesFirst'
  BY <1>1, ApprovalStep DEF CoreInv
<1> QED
  BY <1>1, <1>2 DEF SubmissionInv

\* The inductive invariant of submit_signal_bracket and its callers holds in
\* every behaviour, for any number of signals, submitters and attempts.
THEOREM SubmissionInvariant == Spec => []SubmissionInv
<1>1. Init => SubmissionInv
  BY InitInv
<1>2. SubmissionInv /\ [Next]_vars => SubmissionInv'
  BY StepInv
<1> QED
  BY <1>1, <1>2, PTL DEF Spec

\* The rows, sessions and groups always have their shapes.
THEOREM TypeCorrect == Spec => []TypeOK
<1>1. SubmissionInv => TypeOK
  BY DEF SubmissionInv, CoreInv
<1> QED
  BY <1>1, SubmissionInvariant, PTL

\* No bracket is ever dropped without a trace, whatever fails and whenever.
THEOREM BracketsAccountedFor == Spec => []EveryBracketAccountedFor
<1>1. SubmissionInv => EveryBracketAccountedFor
  BY DEF SubmissionInv, CoreInv
<1> QED
  BY <1>1, SubmissionInvariant, PTL

\* Duplicate exposure is bounded by the number of concurrent submitters: each
\* of them trades a signal at most once.
THEOREM DuplicatesBounded == Spec => []OneTradePerSubmitter
<1>1. SubmissionInv => OneTradePerSubmitter
  BY DEF SubmissionInv, CoreInv
<1> QED
  BY <1>1, SubmissionInvariant, PTL

\* A signal with a stored trade is never executable again, although submitters
\* write its status back from rows they read long before.
THEOREM TradedSignalsStayTraded == Spec => []TradedSignalNotExecutable
<1>1. SubmissionInv => TradedSignalNotExecutable
  BY DEF SubmissionInv, CoreInv
<1> QED
  BY <1>1, SubmissionInvariant, PTL

\* One step under an active kill switch validates nobody: the only way into
\* "validated" is ValidateOrder, which reads the switch.
LEMMA KillStep ==
    ASSUME TypeOK, [Next]_vars, killSwitch, killSwitch'
    PROVE  MayPlace' \subseteq MayPlace
<1>1. ASSUME NEW p \in Submitters, sub'[p].pc = "validated", sub[p].pc # "validated"
      PROVE  FALSE
  <2>1. sub[p] \in SubType /\ sub \in [Submitters -> SubType]
    BY DEF TypeOK
  <2>2. ASSUME NEW q \in Submitters, SubmitterStep(q) PROVE FALSE
    <3>1. CASE ValidateOrder(q)
      <4>1. ValidationFailure(q) = "blocked_by_safety"
        BY DEF ValidationFailure
      <4> QED
        BY <1>1, <2>1, <3>1, <4>1 DEF ValidateOrder, FailSubmission, Idle
    <3>2. CASE FailBeforePlacement(q)
      BY <1>1, <2>1, <3>2 DEF FailBeforePlacement, FailSubmission, Idle
    <3>3. CASE PlaceBracket(q) \/ AckBracket(q)
      BY <1>1, <2>1, <3>3 DEF PlaceBracket, AckBracket, SubType
    <3>4. CASE NotAcknowledged(q) \/ NotVisible(q)
      BY <1>1, <2>1, <3>4 DEF NotAcknowledged, NotVisible, Abandon,
                              FailSubmission, Idle
    <3>5. CASE CommitTrade(q) \/ PaperExecute(q)
      BY <1>1, <2>1, <3>5 DEF CommitTrade, PaperExecute, Idle
    <3> QED
      BY <2>2, <3>1, <3>2, <3>3, <3>4, <3>5 DEF SubmitterStep
  <2>3. ASSUME NEW q \in Submitters, Disconnected(q) \/ Crash(q) PROVE FALSE
    BY <1>1, <2>1, <2>3 DEF Disconnected, Crash, FailSubmission, Idle
  <2>4. ASSUME NEW q \in Submitters, NEW s \in Signals,
             NEW path \in {"loaded", "paper_loaded"}, LoadSignal(q, s, path)
        PROVE  FALSE
    BY <1>1, <2>1, <2>4 DEF LoadSignal
  <2>5. (\E s \in Signals : HumanLoad(s)) \/ HumanApprove \/ SetKillSwitch \/ BrokerStep
           \/ UNCHANGED vars => sub' = sub
    BY DEF HumanLoad, HumanApprove, SetKillSwitch, BrokerStep, vars, subVars
  <2> QED
    BY <1>1, <2>2, <2>3, <2>4, <2>5 DEF Next
<1> QED
  BY <1>1 DEF MayPlace

\* While the kill switch stays active, the submissions that may still place a
\* bracket only become fewer, however many there are.
THEOREM KillDrains == Spec => KillSwitchDrains
<1>1. TypeOK /\ [Next]_vars =>
          [killSwitch /\ killSwitch' => MayPlace' \subseteq MayPlace]_vars
  BY KillStep
<1> QED
  BY <1>1, TypeCorrect, PTL DEF Spec, KillSwitchDrains

=============================================================================
