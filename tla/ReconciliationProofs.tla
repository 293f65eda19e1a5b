------------------------ MODULE ReconciliationProofs ------------------------
(***************************************************************************)
(* Theorems about Reconciliation, for every set of signals, submitters,    *)
(* reconcilers and every bound: the sessions keep their shapes, what the   *)
(* submission guarantees survives the reconciliations, and no execution is *)
(* credited to two trades.                                                 *)
(***************************************************************************)
EXTENDS Reconciliation, OrderSubmissionProofs, FiniteSetTheorems,
        WellFoundedInduction

-----------------------------------------------------------------------------
(***************************************************************************)
(* The inductive invariant.                                                *)
(***************************************************************************)
\* A group number nobody has used has no orders and no executions; the exits
\* of a group never sell more than the quantity.
GroupsConsistent ==
    \A k \in Groups :
        /\ ib[k].kind = "none" =>
              \A l \in Legs : ib[k].st[l] = "none" /\ ib[k].filled[l] = 0
        /\ Exited(k) <= Qty

\* Whatever a row, a session or a snapshot says was executed was executed.
Executed(fs) == \A e \in fs : e[3] <= ib[e[1]].filled[e[2]]
RowOK(t) == (t.st = "none" => t = NoTrade) /\ Executed(t.fills)

\* repair_trade_exit_protection takes the trades in the order of their ids.
First(T) == CHOOSE g \in T : \A h \in T : g <= h

\* A session holds rows that exist, writes only those, and knows what it
\* repairs.
SessionOK(x) ==
    /\ x.dirty \subseteq RecordedGroups
    /\ x.todo \subseteq RecordedGroups
    /\ Executed(x.fills)
    /\ \A g \in Groups : RowOK(x.view[g]) /\ (x.view[g].st # "none" => Recorded(g))
    /\ x.pc \in {"repair", "await", "record"} => x.todo # {}
    /\ x.pc \in {"await", "record"} =>
          x.grp \in Groups /\ x.view[First(x.todo)].st # "none"

\* The groups other than its bracket that a row of trade g refers to, and the
\* one that a repair of g has placed and not recorded yet.
Refers(g, t) == ({t.repair} \union {e[1] : e \in t.fills}) \ {0, g}
Claims(x, g) ==
    Refers(g, x.view[g]) \union
        {k \in {x.grp} : x.pc \in {"await", "record"} /\ First(x.todo) = g}

\* k is claimed for g: by its row, or by a session.
Claimed(k, g) ==
    k \in Refers(g, trades[g]) \/ \E r \in Reconcilers : k \in Claims(rec[r], g)

\* What is claimed for a trade are exits of its signal, and of no other trade.
ClaimsAreRepairs ==
    \A g \in Groups, k \in Groups :
        Claimed(k, g) => /\ ib[k].kind = "oca"
                         /\ ib[k].sig = ib[g].sig
                         /\ Recorded(g)
ClaimsDisjoint ==
    \A g, h, k \in Groups : Claimed(k, g) /\ Claimed(k, h) => g = h

Frame ==
    /\ SubmissionInv
    /\ rec \in [Reconcilers -> RecType]
    /\ GroupsConsistent
    /\ \A g \in Groups : RowOK(trades[g])
    /\ \A r \in Reconcilers : SessionOK(rec[r])

ReconciliationInv == Frame /\ ClaimsAreRepairs /\ ClaimsDisjoint

-----------------------------------------------------------------------------
(***************************************************************************)
(* What the broker and the submitters do to it.                            *)
(***************************************************************************)
\* Executions are never taken back.
FilledGrows ==
    \A k \in Groups, l \in Legs : ib[k].filled[l] <= ib'[k].filled[l]

\* A group that has been placed keeps its kind and its signal.
IdentityKept ==
    \A k \in Groups : ib[k].kind # "none" =>
        ib'[k].kind = ib[k].kind /\ ib'[k].sig = ib[k].sig

LEMMA CancelLegsSteady ==
    ASSUME NEW r \in GroupType, NEW ls, NEW l \in Legs, r.st[l] = "none"
    PROVE  CancelLegs(r, ls).st[l] = "none"
BY DEF CancelLegs, GroupType, Legs, Live

\* The broker alone: fills grow within the capacity of the exits.
LEMMA BrokerGrows ==
    ASSUME BrokerTypeOK, GroupsConsistent, BrokerNext
    PROVE  GroupsConsistent' /\ FilledGrows /\ IdentityKept
<1> USE GatewayAssumption
<1>0. \A k \in Groups : ib[k] \in GroupType
  BY DEF BrokerTypeOK
<1>1. IdentityKept
  BY BrokerStepType DEF IdentityKept
<1>2. ASSUME NEW k \in Groups, NEW x \in GroupType,
             ib' = [ib EXCEPT ![k] = x],
             x.kind = ib[k].kind, x.filled = ib[k].filled,
             \A l \in Legs : ib[k].st[l] = "none" => x.st[l] = "none"
      PROVE  GroupsConsistent' /\ FilledGrows
  <2>1. \A h \in Groups : /\ ib'[h].kind = ib[h].kind /\ ib'[h].filled = ib[h].filled
                          /\ \A l \in Legs : ib[h].st[l] = "none" => ib'[h].st[l] = "none"
    BY <1>2 DEF BrokerTypeOK
  <2>2. \A h \in Groups : Exited(h)' = Exited(h)
    BY <2>1 DEF Exited
  <2>3. GroupsConsistent'
    BY <2>1, <2>2 DEF GroupsConsistent
  <2>4. FilledGrows
    BY <1>0, <2>1 DEF FilledGrows, GroupType
  <2> QED BY <2>3, <2>4
<1>3. ASSUME NEW k \in Groups, Accept(k) PROVE GroupsConsistent' /\ FilledGrows
  <2> DEFINE st == [l \in Legs |-> IF ib[k].st[l] = "pending" THEN "working"
                                   ELSE ib[k].st[l]]
             x == [ib[k] EXCEPT !.st = st]
  <2>1. st \in [Legs -> LegStates]
    BY <1>0 DEF GroupType, LegStates
  <2>2. ib' = [ib EXCEPT ![k] = x]
    BY <1>3, <1>0 DEF Accept, BrokerTypeOK
  <2>3. \A l \in Legs : ib[k].st[l] = "none" => st[l] = "none"
    OBVIOUS
  <2>4. /\ x \in GroupType /\ x.kind = ib[k].kind /\ x.filled = ib[k].filled
        /\ x.st = st
    <3> HIDE DEF st
    <3> QED BY <1>0, <2>1 DEF GroupType
  <2> HIDE DEF x
  <2> QED BY <1>2, <2>2, <2>3, <2>4
<1>4. ASSUME NEW k \in Groups, NEW ls, ib' = [ib EXCEPT ![k] = CancelLegs(@, ls)]
      PROVE  GroupsConsistent' /\ FilledGrows
  <2>1. ib' = [ib EXCEPT ![k] = CancelLegs(ib[k], ls)]
    BY <1>4 DEF BrokerTypeOK
  <2>2. /\ CancelLegs(ib[k], ls) \in GroupType
        /\ CancelLegs(ib[k], ls).kind = ib[k].kind
        /\ CancelLegs(ib[k], ls).filled = ib[k].filled
    BY <1>0, CancelLegsType
  <2>3. \A l \in Legs : ib[k].st[l] = "none" => CancelLegs(ib[k], ls).st[l] = "none"
    BY <1>0, CancelLegsSteady
  <2> QED BY <1>2, <2>1, <2>2, <2>3
<1>5. ASSUME NEW k \in Groups, ProcessCancels(k) \/ LoseCancels(k)
      PROVE  GroupsConsistent' /\ FilledGrows
  <2>1. CASE ProcessCancels(k)
    BY <1>4, <2>1 DEF ProcessCancels
  <2>2. CASE LoseCancels(k)
    <3>1. ib' = ib
      BY <2>2 DEF LoseCancels
    <3>2. \A h \in Groups : Exited(h)' = Exited(h)
      BY <3>1 DEF Exited
    <3>3. GroupsConsistent'
      BY <3>1, <3>2 DEF GroupsConsistent
    <3> QED BY <1>0, <3>1, <3>3 DEF FilledGrows, GroupType
  <2> QED BY <1>5, <2>1, <2>2
<1>6. ASSUME NEW k \in Groups, NEW l \in Legs, RejectLeg(k, l)
      PROVE  GroupsConsistent' /\ FilledGrows
  BY <1>4, <1>6 DEF RejectLeg
<1>7. ASSUME NEW k \in Groups, NEW l \in Legs, FillLeg(k, l)
      PROVE  GroupsConsistent' /\ FilledGrows
  <2>1. PICK full \in BOOLEAN : ib' = [ib EXCEPT ![k] = AddFill(ib[k], l, full)]
    BY <1>7 DEF FillLeg
  <2>2. ib[k].st[l] = "working" /\ ib[k].filled[l] < Qty
    BY <1>7 DEF FillLeg
  <2>3. ib[k].kind # "none"
    BY <2>2 DEF GroupsConsistent
  <2>4. /\ ib'[k].filled = [ib[k].filled EXCEPT ![l] = ib[k].filled[l] + 1]
        /\ ib'[k].kind = ib[k].kind
        /\ \A h \in Groups \ {k} : ib'[h] = ib[h]
    BY <2>1 DEF AddFill, BrokerTypeOK
  <2>5. ib[k].filled \in [Legs -> 0..Qty]
    BY <1>0 DEF GroupType
  <2>6. FilledGrows
    BY <1>0, <2>4, <2>5 DEF FilledGrows, GroupType
  <2>7. Exited(k)' <= Qty
    <3>1. CASE l = "entry"
      BY <2>4, <2>5, <3>1 DEF Exited, GroupsConsistent, Legs
    <3>2. CASE l \in ExitLegs
      <4>1. ExitCapacity(ib[k]) <= Qty
        BY <2>5 DEF ExitCapacity, Legs
      <4>2. Exited(k) < ExitCapacity(ib[k])
        BY <1>7, <3>2 DEF FillLeg
      <4>3. ExitCapacity(ib[k]) \in Nat /\ Exited(k) \in Nat
        BY <2>5 DEF ExitCapacity, Exited, Legs
      <4>4. Exited(k)' = Exited(k) + 1
        BY <2>4, <2>5, <3>2 DEF Exited, Legs, ExitLegs
      <4> QED BY <4>1, <4>2, <4>3, <4>4
    <3> QED BY <3>1, <3>2 DEF Legs, ExitLegs
  <2>8. \A h \in Groups \ {k} : Exited(h)' = Exited(h)
    BY <2>4 DEF Exited
  <2>9. GroupsConsistent'
    BY <2>3, <2>4, <2>7, <2>8 DEF GroupsConsistent
  <2> QED BY <2>6, <2>9
<1>8. ASSUME SessionEnd PROVE GroupsConsistent' /\ FilledGrows
  <2>1. \A h \in Groups : ib'[h] = CancelLegs(ib[h], Legs)
    BY <1>8 DEF SessionEnd
  <2>2. \A h \in Groups : /\ ib'[h].kind = ib[h].kind /\ ib'[h].filled = ib[h].filled
                          /\ \A l \in Legs : ib[h].st[l] = "none" => ib'[h].st[l] = "none"
    BY <1>0, <2>1, CancelLegsType, CancelLegsSteady
  <2>3. \A h \in Groups : Exited(h)' = Exited(h)
    BY <2>2 DEF Exited
  <2>4. GroupsConsistent'
    BY <2>2, <2>3 DEF GroupsConsistent
  <2> QED BY <1>0, <2>2, <2>4 DEF FilledGrows, GroupType
<1> QED
  BY <1>1, <1>3, <1>5, <1>6, <1>7, <1>8 DEF BrokerNext

\* Placing fills in a free group and nothing else.
LEMMA PlaceGrows ==
    ASSUME BrokerTypeOK, GroupsConsistent, NEW k \in Groups, ~Placed(k),
           NEW kind \in {"bracket", "oca"}, NEW s \in Signals,
           Place(k, kind, s)
    PROVE  /\ GroupsConsistent' /\ FilledGrows /\ IdentityKept
           /\ ib'[k].kind = kind /\ ib'[k].sig = s
           /\ \A h \in Groups \ {k} : ib'[h] = ib[h]
<1> USE GatewayAssumption
<1>0. kind \in Kinds
  BY DEF Kinds
<1>1. /\ ib' \in [Groups -> GroupType]
      /\ ib'[k].kind = kind /\ ib'[k].sig = s
      /\ \A h \in Groups \ {k} : ib'[h] = ib[h]
  BY <1>0, PlaceType
<1>2. ib'[k].filled = [l \in Legs |-> 0]
  BY DEF Place, BrokerTypeOK
<1>3. ib[k].kind = "none"
  BY DEF Placed
<1>4. IdentityKept
  BY <1>1, <1>3 DEF IdentityKept
<1>5. FilledGrows
  <2>1. ASSUME NEW h \in Groups, NEW l \in Legs
        PROVE  ib[h].filled[l] <= ib'[h].filled[l]
    <3>1. CASE h = k
      <4>1. ib[h].filled[l] = 0 /\ ib'[h].filled[l] = 0
        BY <1>2, <1>3, <3>1 DEF GroupsConsistent
      <4> QED BY <4>1
    <3>2. CASE h # k
      <4>1. ib'[h] = ib[h] /\ ib[h].filled[l] \in 0..Qty
        BY <1>1, <3>2 DEF BrokerTypeOK, GroupType
      <4> QED BY <4>1
    <3> QED BY <3>1, <3>2
  <2> QED BY <2>1 DEF FilledGrows
<1>6. GroupsConsistent'
  <2>1. Exited(k)' <= Qty
    BY <1>2 DEF Exited, Legs
  <2>2. \A h \in Groups \ {k} : Exited(h)' = Exited(h)
    BY <1>1 DEF Exited
  <2>3. ib'[k].kind # "none"
    BY <1>1
  <2> QED BY <1>1, <2>1, <2>2, <2>3 DEF GroupsConsistent
<1> QED BY <1>1, <1>4, <1>5, <1>6

\* A submission or the broker writes no row but the one of a new trade, and
\* nothing is placed but a bracket.
LEMMA OtherStepFacts ==
    ASSUME SubmissionInv, GroupsConsistent, OtherStep
    PROVE  /\ GroupsConsistent' /\ FilledGrows /\ IdentityKept
           /\ \A g \in Groups : \/ trades'[g] = trades[g]
                                \/ trades'[g] = OpenTrade(g)
<1>1. TypeOK /\ BrokerTypeOK
  BY DEF SubmissionInv, CoreInv, TypeOK
<1>2. \A k \in Groups : ib[k] \in GroupType
  BY <1>1 DEF BrokerTypeOK
<1>3. ASSUME ib' = ib PROVE GroupsConsistent' /\ FilledGrows /\ IdentityKept
  <2>1. \A h \in Groups : Exited(h)' = Exited(h)
    BY <1>3 DEF Exited
  <2>2. GroupsConsistent'
    BY <1>3, <2>1 DEF GroupsConsistent
  <2>3. FilledGrows
    BY <1>2, <1>3, GatewayAssumption DEF FilledGrows, GroupType
  <2> QED BY <1>3, <2>2, <2>3 DEF IdentityKept
<1>4. ASSUME NEW p \in Submitters, PlaceBracket(p)
      PROVE  GroupsConsistent' /\ FilledGrows /\ IdentityKept
  <2>1. PICK g \in Groups : NextGroup(g) /\ Place(g, "bracket", sub[p].sig)
    BY <1>4 DEF PlaceBracket
  <2>2. sub[p].sig \in Signals
    BY <1>1 DEF TypeOK, SubType
  <2> QED BY <1>1, <2>1, <2>2, PlaceGrows DEF NextGroup
<1>5. ASSUME NEW p \in Submitters, SubmitterStep(p), ~PlaceBracket(p) PROVE ib' = ib
  BY <1>5 DEF SubmitterStep, ValidateOrder, FailBeforePlacement, AckBracket, NotAcknowledged,
         NotVisible, Abandon, CommitTrade, PaperExecute, brokerVars
<1>6. ASSUME NEW p \in Submitters, SubmitterStep(p), ~CommitTrade(p)
      PROVE  trades' = trades
  BY <1>6 DEF SubmitterStep, ValidateOrder, FailBeforePlacement, PlaceBracket, AckBracket,
         NotAcknowledged, NotVisible, Abandon, PaperExecute, dbVars
<1>7. ASSUME NEW p \in Submitters, CommitTrade(p)
      PROVE  \A g \in Groups : trades'[g] = trades[g] \/ trades'[g] = OpenTrade(g)
  BY <1>1, <1>7 DEF CommitTrade, TypeOK
<1>8. CASE \E p \in Submitters : SubmitterStep(p)
  BY <1>3, <1>4, <1>5, <1>6, <1>7, <1>8
<1>9. CASE \E p \in Submitters : Disconnected(p) \/ Crash(p)
  <2>1. ib' = ib /\ trades' = trades
    BY <1>9 DEF Disconnected, Crash, brokerVars, dbVars
  <2> QED BY <1>3, <2>1
<1>10. CASE \E p \in Submitters, s \in Signals : LoadSignal(p, s, "loaded")
  <2>1. ib' = ib /\ trades' = trades
    BY <1>10 DEF LoadSignal, brokerVars, dbVars
  <2> QED BY <1>3, <2>1
<1>11. CASE SetKillSwitch
  <2>1. ib' = ib /\ trades' = trades
    BY <1>11 DEF SetKillSwitch, brokerVars
  <2> QED BY <1>3, <2>1
<1>12. CASE BrokerStep
  BY <1>1, <1>12, BrokerGrows DEF BrokerStep, dbVars
<1> QED
  BY <1>8, <1>9, <1>10, <1>11, <1>12 DEF OtherStep

\* OtherStep is made of steps of OrderSubmission.
LEMMA OtherStepIsNext == OtherStep => Next
BY DEF OtherStep, Next

-----------------------------------------------------------------------------
(***************************************************************************)
(* Frames: what a step keeps when it leaves the rest alone.                *)
(***************************************************************************)
\* What SubmissionInv says survives a step that starts, ends and records no
\* submission and changes no signal.
LEMMA SubmissionFrame ==
    ASSUME SubmissionInv, TypeOK', IdentityKept,
           Brackets' = Brackets, RecordedGroups' = RecordedGroups,
           UNCHANGED <<sig, simulated, human, sub, owner, abandoned, lost>>
    PROVE  SubmissionInv'
<1>1. \A g \in Brackets : ib'[g].sig = ib[g].sig
  BY DEF IdentityKept, Brackets
<1>2. RecordedGroups \subseteq Brackets
  BY DEF SubmissionInv, CoreInv, EveryBracketAccountedFor
<1>3. \A g \in Groups : Recorded(g)' <=> Recorded(g)
  BY DEF RecordedGroups
<1>4. \A g \in Groups : Recorded(g) => ib'[g].sig = ib[g].sig
  BY <1>1, <1>2 DEF RecordedGroups
<1>5. \A s \in Signals : HasTrade(s)' <=> HasTrade(s)
  BY <1>3, <1>4 DEF HasTrade
<1>6. SubmittingGroups' = SubmittingGroups
  BY DEF SubmittingGroups, Unsettled
<1>7. EveryBracketAccountedFor'
  BY <1>6 DEF SubmissionInv, CoreInv, EveryBracketAccountedFor
<1>8. SessionOwnsItsGroup'
  BY <1>1 DEF SubmissionInv, CoreInv, SessionOwnsItsGroup
<1>9. ValidatedWasExecutable'
  BY DEF SubmissionInv, CoreInv, ValidatedWasExecutable
<1>10. TraderSeesIt'
  BY <1>1, <1>2 DEF SubmissionInv, CoreInv, TraderSeesIt
<1>11. TradedSignalNotExecutable'
  BY <1>5 DEF SubmissionInv, CoreInv, TradedSignalNotExecutable
<1>12. OneTradePerSubmitter'
  BY <1>3, <1>4 DEF SubmissionInv, CoreInv, OneTradePerSubmitter
<1>13. \A s \in Signals : NobodyUses(s)' <=> NobodyUses(s)
  BY <1>5 DEF NobodyUses, Holds
<1>14. ApprovalComesFirst'
  <2>1. human.sig \in Signals
    BY DEF SubmissionInv, CoreInv, TypeOK, HumanType
  <2>2. NobodyUses(human.sig)' <=> NobodyUses(human.sig)
    <3>1. PICK s \in Signals : s = human.sig /\ s = human'.sig
      BY <2>1
    <3>2. NobodyUses(s)' <=> NobodyUses(s)
      BY <1>13
    <3> QED BY <3>1, <3>2 DEF NobodyUses, HasTrade, Holds, Recorded
  <2>3. \A s \in Signals : sig'[s].status = "pending_human_approval" => NobodyUses(s)'
    BY <1>13 DEF SubmissionInv, ApprovalComesFirst
  <2> QED BY <2>2, <2>3 DEF SubmissionInv, ApprovalComesFirst
<1> QED
  BY <1>7, <1>8, <1>9, <1>10, <1>11, <1>12, <1>14 DEF SubmissionInv, CoreInv

\* What a row says was executed stays executed.
LEMMA ExecutedKept ==
    ASSUME BrokerTypeOK, BrokerTypeOK', FilledGrows, NEW fs \in SUBSET Lots,
           Executed(fs)
    PROVE  \A e \in fs : e[3] <= ib'[e[1]].filled[e[2]]
<1> USE GatewayAssumption
<1>1. ASSUME NEW e \in fs PROVE e[3] <= ib'[e[1]].filled[e[2]]
  <2>1. e[1] \in Groups /\ e[2] \in Legs /\ e[3] \in 1..Qty
    BY DEF Lots
  <2>2. ib[e[1]].filled[e[2]] \in 0..Qty /\ ib'[e[1]].filled[e[2]] \in 0..Qty
    BY <2>1 DEF BrokerTypeOK, GroupType
  <2>3. ib[e[1]].filled[e[2]] <= ib'[e[1]].filled[e[2]]
    BY <2>1 DEF FilledGrows
  <2>4. e[3] <= ib[e[1]].filled[e[2]]
    BY DEF Executed
  <2> QED BY <2>1, <2>2, <2>3, <2>4
<1> QED BY <1>1

\* A session that keeps its rows is as good after the step.
LEMMA RowsKept ==
    ASSUME BrokerTypeOK, BrokerTypeOK', FilledGrows,
           \A g \in Groups : Recorded(g) => Recorded(g)',
           NEW r \in Reconcilers, rec[r] \in RecType, SessionOK(rec[r]),
           rec'[r].view = rec[r].view, rec'[r].fills = rec[r].fills,
           rec'[r].dirty = rec[r].dirty, rec'[r].todo = rec[r].todo,
           rec'[r].pc \in {"repair", "await", "record"} => rec[r].todo # {},
           rec'[r].pc \in {"await", "record"} =>
               rec'[r].grp \in Groups /\ rec[r].view[First(rec[r].todo)].st # "none"
    PROVE  SessionOK(rec[r])'
<1>1. RecordedGroups \subseteq RecordedGroups'
  BY DEF RecordedGroups
<1>2. /\ rec[r].fills \in SUBSET Lots
      /\ \A g \in Groups : rec[r].view[g].fills \in SUBSET Lots
  BY DEF RecType, TradeType, Lots
<1>3. \A e \in rec[r].fills : e[3] <= ib'[e[1]].filled[e[2]]
  BY <1>2, ExecutedKept DEF SessionOK
<1>4. \A g \in Groups : \A e \in rec[r].view[g].fills : e[3] <= ib'[e[1]].filled[e[2]]
  BY <1>2, ExecutedKept DEF SessionOK, RowOK
<1>5. Executed(rec[r].fills)'
  BY <1>3 DEF Executed
<1>6. \A g \in Groups : RowOK(rec[r].view[g])'
  BY <1>4 DEF RowOK, SessionOK, Executed
<1> QED BY <1>1, <1>5, <1>6 DEF SessionOK

LEMMA SessionKept ==
    ASSUME BrokerTypeOK, BrokerTypeOK', FilledGrows,
           \A g \in Groups : Recorded(g) => Recorded(g)',
           NEW r \in Reconcilers, rec[r] \in RecType, rec'[r] = rec[r],
           SessionOK(rec[r])
    PROVE  SessionOK(rec[r])'
<1>1. rec[r].pc \in {"repair", "await", "record"} => rec[r].todo # {}
  BY DEF SessionOK
<1>2. rec[r].pc \in {"await", "record"} =>
         rec[r].grp \in Groups /\ rec[r].view[First(rec[r].todo)].st # "none"
  BY DEF SessionOK
<1> QED BY <1>1, <1>2, RowsKept

\* Claims that only go away stay claims of exits, and disjoint.
LEMMA ClaimsKept ==
    ASSUME SubmissionInv, ClaimsAreRepairs, ClaimsDisjoint, IdentityKept,
           \A g \in Groups : Recorded(g) => Recorded(g)',
           \A g \in Groups, k \in Groups : Claimed(k, g)' => Claimed(k, g)
    PROVE  ClaimsAreRepairs' /\ ClaimsDisjoint'
<1>1. \A g \in Groups : Recorded(g) => ib[g].kind = "bracket"
  BY DEF SubmissionInv, CoreInv, EveryBracketAccountedFor, RecordedGroups, Brackets
<1>2. ClaimsAreRepairs'
  BY <1>1 DEF ClaimsAreRepairs, IdentityKept
<1>3. ClaimsDisjoint'
  BY DEF ClaimsDisjoint
<1> QED BY <1>2, <1>3

\* Submissions, the broker and the kill switch.
LEMMA OtherStepInv ==
    ASSUME ReconciliationInv, OtherStep, rec' = rec
    PROVE  ReconciliationInv'
<1>1. /\ SubmissionInv /\ GroupsConsistent /\ ClaimsAreRepairs /\ ClaimsDisjoint
      /\ rec \in [Reconcilers -> RecType]
      /\ \A g \in Groups : RowOK(trades[g])
      /\ \A r \in Reconcilers : SessionOK(rec[r])
  BY DEF ReconciliationInv, Frame
<1>2. SubmissionInv'
  BY <1>1, OtherStepIsNext, StepInv
<1>3. TypeOK /\ BrokerTypeOK /\ TypeOK' /\ BrokerTypeOK'
  BY <1>1, <1>2 DEF SubmissionInv, CoreInv, TypeOK
<1>4. /\ GroupsConsistent' /\ FilledGrows /\ IdentityKept
      /\ \A g \in Groups : trades'[g] = trades[g] \/ trades'[g] = OpenTrade(g)
  BY <1>1, OtherStepFacts
<1>5. \A g \in Groups : Recorded(g) => Recorded(g)'
  <2>1. \A g \in Groups : OpenTrade(g).st = "open"
    BY DEF OpenTrade
  <2>2. \A g \in Groups : trades'[g].st = trades[g].st \/ trades'[g].st = "open"
    BY <1>4, <2>1
  <2> QED BY <2>2 DEF Recorded
<1>6. \A r \in Reconcilers : SessionOK(rec[r])'
  BY <1>1, <1>3, <1>4, <1>5, SessionKept
<1>7. ASSUME NEW g \in Groups PROVE RowOK(trades[g])'
  <2>1. CASE trades'[g] = trades[g]
    <3>1. trades[g].fills \in SUBSET Lots
      BY <1>3 DEF TypeOK, TradeType, Lots
    <3>2. \A e \in trades[g].fills : e[3] <= ib'[e[1]].filled[e[2]]
      BY <1>1, <1>3, <1>4, <3>1, ExecutedKept DEF RowOK
    <3> QED BY <1>1, <2>1, <3>2 DEF RowOK, Executed
  <2>2. CASE trades'[g] = OpenTrade(g)
    BY <2>2 DEF OpenTrade, RowOK, Executed
  <2> QED BY <1>4, <2>1, <2>2
<1>8. \A g \in Groups, k \in Groups : Claimed(k, g)' => Claimed(k, g)
  <2>1. ASSUME NEW g \in Groups PROVE Refers(g, trades'[g]) \subseteq Refers(g, trades[g])
    <3>1. Refers(g, OpenTrade(g)) = {}
      BY DEF Refers, OpenTrade
    <3> QED BY <1>4, <3>1
  <2> QED BY <2>1 DEF Claimed, Refers, Claims
<1>9. ClaimsAreRepairs' /\ ClaimsDisjoint'
  BY <1>1, <1>4, <1>5, <1>8, ClaimsKept
<1> QED BY <1>1, <1>2, <1>4, <1>6, <1>7, <1>9 DEF ReconciliationInv, Frame

\* A step of a reconciliation that places nothing.
LEMMA QuietStep ==
    ASSUME ReconciliationInv, NEW r \in Reconcilers, NEW x \in RecType,
           rec' = [rec EXCEPT ![r] = x], SessionOK(x),
           UNCHANGED <<ib, aged, days, sig, simulated, human, sub, owner,
                       abandoned, lost, attempts>>,
           cancels' \subseteq Groups \X Legs, killSwitch' \in BOOLEAN,
           crashes' \in 0..MaxCrashes,
           trades' \in [Groups -> TradeType],
           \A g \in Groups : /\ trades'[g].st # "none" <=> Recorded(g)
                             /\ RowOK(trades'[g]),
           \A g \in Groups, k \in Groups :
               k \in Refers(g, trades'[g]) \/ k \in Claims(x, g) => Claimed(k, g)
    PROVE  ReconciliationInv'
<1>1. /\ SubmissionInv /\ GroupsConsistent /\ ClaimsAreRepairs /\ ClaimsDisjoint
      /\ rec \in [Reconcilers -> RecType]
      /\ \A q \in Reconcilers : SessionOK(rec[q])
  BY DEF ReconciliationInv, Frame
<1>2. TypeOK /\ BrokerTypeOK
  BY <1>1 DEF SubmissionInv, CoreInv, TypeOK
<1>3. BrokerTypeOK'
  BY <1>2 DEF BrokerTypeOK
<1>4. TypeOK'
  BY <1>2, <1>3 DEF TypeOK
<1>5. IdentityKept /\ FilledGrows
  BY <1>2, GatewayAssumption DEF IdentityKept, FilledGrows, BrokerTypeOK, GroupType
<1>6. \A g \in Groups : Recorded(g)' <=> Recorded(g)
  BY DEF Recorded
<1>7. RecordedGroups' = RecordedGroups /\ Brackets' = Brackets
  BY <1>6 DEF RecordedGroups, Brackets
<1>8. SubmissionInv'
  BY <1>1, <1>4, <1>5, <1>7, SubmissionFrame
<1>9. GroupsConsistent'
  <2>1. \A h \in Groups : Exited(h)' = Exited(h)
    BY DEF Exited
  <2> QED BY <1>1, <2>1 DEF GroupsConsistent
<1>10. rec' \in [Reconcilers -> RecType] /\ rec'[r] = x
       /\ \A q \in Reconcilers \ {r} : rec'[q] = rec[q]
  BY <1>1
<1>11. \A q \in Reconcilers : SessionOK(rec[q])'
  <2>1. ASSUME NEW q \in Reconcilers, q # r PROVE SessionOK(rec[q])'
    BY <1>1, <1>2, <1>3, <1>5, <1>6, <1>10, <2>1, SessionKept
  <2>2. SessionOK(rec[r])'
    BY <1>6, <1>7, <1>10 DEF SessionOK, RowOK, Executed
  <2> QED BY <2>1, <2>2
<1>12. \A g \in Groups : RowOK(trades[g])'
  BY DEF RowOK, Executed
<1>13. ASSUME NEW g \in Groups, NEW k \in Groups, Claimed(k, g)'
       PROVE  Claimed(k, g)
  <2>1. CASE k \in Refers(g, trades'[g])
    BY <2>1
  <2>2. CASE \E q \in Reconcilers : k \in Claims(rec'[q], g)
    <3>1. PICK q \in Reconcilers : k \in Claims(rec'[q], g)
      BY <2>2
    <3>2. CASE q = r
      BY <1>10, <3>1, <3>2
    <3>3. CASE q # r
      BY <1>10, <3>1, <3>3 DEF Claimed
    <3> QED BY <3>2, <3>3
  <2> QED BY <1>13, <2>1, <2>2 DEF Claimed, Claims, Refers
<1>14. ClaimsAreRepairs' /\ ClaimsDisjoint'
  BY <1>1, <1>5, <1>6, <1>13, ClaimsKept
<1> QED BY <1>8, <1>9, <1>10, <1>11, <1>12, <1>14 DEF ReconciliationInv, Frame

-----------------------------------------------------------------------------
(***************************************************************************)
(* The reads.                                                              *)
(***************************************************************************)
\* The trade being repaired is one of those still to repair.
LEMMA LessThan ==
    \E R : IsWellFoundedOn(R, Nat) /\ \A x, y \in Nat : y < x => <<y, x>> \in R
<1>1. \A x, y \in Nat : y < x => <<y, x>> \in OpToRel(<, Nat)
  BY DEF OpToRel
<1> QED BY <1>1, NatLessThanWellFounded, Zenon

LEMMA FirstChosen ==
    ASSUME NEW T \in SUBSET Nat, T # {}
    PROVE  First(T) \in T
<1>1. PICK R : IsWellFoundedOn(R, Nat) /\ \A x, y \in Nat : y < x => <<y, x>> \in R
  BY LessThan
<1>2. PICK x \in T : \A y \in T : ~ (<<y, x>> \in R)
  BY <1>1, WFMin
<1>3. T \subseteq Nat
  OBVIOUS
<1>4. ASSUME NEW y \in T PROVE x <= y
  <2>1. x \in Nat /\ y \in Nat
    BY <1>3
  <2>2. ~(y < x)
    BY <1>1, <1>2, <2>1
  <2> QED BY <2>1, <2>2
<1> QED BY <1>4 DEF First

LEMMA RepairingChosen ==
    ASSUME NEW r \in Reconcilers, rec[r] \in RecType, SessionOK(rec[r]),
           rec[r].pc \in {"repair", "await", "record"}
    PROVE  /\ Repairing(r) = First(rec[r].todo)
           /\ Repairing(r) \in rec[r].todo
           /\ Repairing(r) \in Groups /\ Recorded(Repairing(r))
<1>1. rec[r].todo \in SUBSET Nat /\ rec[r].todo # {}
  BY GatewayAssumption DEF SessionOK, RecordedGroups, Groups
<1>2. Repairing(r) = First(rec[r].todo)
  BY DEF Repairing, First
<1>3. First(rec[r].todo) \in rec[r].todo
  BY <1>1, FirstChosen
<1> QED BY <1>2, <1>3 DEF SessionOK, RecordedGroups

\* What Frame says of the state, one fact at a time.
LEMMA FrameParts ==
    ASSUME ReconciliationInv
    PROVE  /\ SubmissionInv /\ CoreInv /\ TypeOK /\ BrokerTypeOK /\ GroupsConsistent
           /\ ib \in [Groups -> GroupType]
           /\ trades \in [Groups -> TradeType]
           /\ rec \in [Reconcilers -> RecType]
           /\ killSwitch \in BOOLEAN /\ crashes \in 0..MaxCrashes
           /\ cancels \subseteq Groups \X Legs
           /\ ClaimsAreRepairs /\ ClaimsDisjoint
           /\ \A g \in Groups : RowOK(trades[g])
           /\ \A r \in Reconcilers : SessionOK(rec[r])
<1>1. SubmissionInv /\ CoreInv /\ TypeOK /\ BrokerTypeOK
  BY DEF ReconciliationInv, Frame, SubmissionInv, CoreInv, TypeOK
<1>2. killSwitch \in BOOLEAN
  BY <1>1 DEF TypeOK
<1> QED BY <1>1, <1>2 DEF ReconciliationInv, Frame, TypeOK, BrokerTypeOK

\* Before it begins, a session knows nothing.
LEMMA NothingKnown ==
    ASSUME BrokerTypeOK
    PROVE  /\ NoTrade \in TradeType /\ RowOK(NoTrade)
           /\ NoReconcile \in RecType /\ SessionOK(NoReconcile)
           /\ \A g \in Groups : Claims(NoReconcile, g) = {} /\ Refers(g, NoTrade) = {}
<1> USE GatewayAssumption
<1>1. NoTrade \in TradeType
  BY DEF NoTrade, TradeType, TradeStates
<1>2. RowOK(NoTrade)
  BY DEF RowOK, NoTrade, Executed
<1>3. NoReconcile \in RecType
  <2>1. [g \in Groups |-> NoTrade] \in [Groups -> TradeType]
    BY <1>1
  <2>2. [y \in Symbols |-> 0] \in [Symbols -> Int]
    OBVIOUS
  <2> DEFINE v == [g \in Groups |-> NoTrade]
             q == [y \in Symbols |-> 0]
  <2>3. NoReconcile = [pc |-> "idle", view |-> v, fills |-> {}, pos |-> q, orders |-> {},
                       dirty |-> {}, todo |-> {}, grp |-> 0, exits |-> {}]
    BY DEF NoReconcile
  <2> HIDE DEF v, q
  <2>4. v \in [Groups -> TradeType] /\ q \in [Symbols -> Int]
    BY <2>1, <2>2 DEF v, q
  <2>5. 0 \in 0..MaxGroups
    OBVIOUS
  <2> QED BY <2>3, <2>4, <2>5 DEF RecType
<1>4. SessionOK(NoReconcile)
  BY <1>2 DEF SessionOK, NoReconcile, Executed, NoTrade
<1>5. \A g \in Groups : Refers(g, NoTrade) = {}
  BY DEF Refers, NoTrade
<1>6. \A g \in Groups : Claims(NoReconcile, g) = {}
  BY <1>5 DEF Claims, NoReconcile
<1> QED BY <1>1, <1>2, <1>3, <1>4, <1>5, <1>6

\* A step that changes nothing but the session of r.
LEMMA SessionStep ==
    ASSUME ReconciliationInv, NEW r \in Reconcilers, NEW x \in RecType,
           rec' = [rec EXCEPT ![r] = x], SessionOK(x),
           UNCHANGED <<ib, aged, days, dbVars, human, sub, owner, abandoned, lost,
                       attempts>>,
           cancels' \subseteq Groups \X Legs, crashes' \in 0..MaxCrashes,
           \A g \in Groups, k \in Groups : k \in Claims(x, g) => Claimed(k, g)
    PROVE  ReconciliationInv'
<1>1. UNCHANGED <<sig, trades, simulated, killSwitch>>
  BY DEF dbVars
<1>2. killSwitch' \in BOOLEAN
  BY <1>1, FrameParts
<1>3. trades' \in [Groups -> TradeType]
  BY <1>1, FrameParts
<1>4. \A g \in Groups : /\ trades'[g].st # "none" <=> Recorded(g)
                        /\ RowOK(trades'[g])
  BY <1>1, FrameParts DEF Recorded
<1>5. \A g \in Groups, k \in Groups :
         k \in Refers(g, trades'[g]) \/ k \in Claims(x, g) => Claimed(k, g)
  BY <1>1 DEF Claimed
<1> QED BY <1>1, <1>2, <1>3, <1>4, <1>5, QuietStep

LEMMA BeginInv ==
    ASSUME ReconciliationInv, NEW r \in Reconcilers, BeginReconcile(r)
    PROVE  ReconciliationInv'
<1> DEFINE v == [g \in Groups |-> IF g \in OpenTrades THEN trades[g] ELSE NoTrade]
<1>1. v \in [Groups -> TradeType]
  BY FrameParts, NothingKnown
<1>2. \A g \in Groups : v[g] = trades[g] \/ v[g] = NoTrade
  OBVIOUS
<1>3. /\ rec[r].pc = "idle"
      /\ rec' = [rec EXCEPT ![r].pc = "fills", ![r].view = v]
      /\ UNCHANGED vars
  BY DEF BeginReconcile
<1> HIDE DEF v
<1>4. rec[r] \in RecType /\ SessionOK(rec[r])
  BY FrameParts
<1>5. PICK x : x = [rec[r] EXCEPT !.pc = "fills", !.view = v]
  OBVIOUS
<1>6. rec' = [rec EXCEPT ![r] = x]
  BY <1>3, <1>5, FrameParts
<1>7. /\ x \in RecType /\ x.pc = "fills" /\ x.view = v /\ x.fills = rec[r].fills
      /\ x.dirty = rec[r].dirty /\ x.todo = rec[r].todo
  BY <1>1, <1>4, <1>5 DEF RecType
<1>8. \A g \in Groups : RowOK(v[g]) /\ (v[g].st # "none" => Recorded(g))
  BY <1>2, FrameParts, NothingKnown DEF Recorded, NoTrade
<1>9. SessionOK(x)
  BY <1>4, <1>7, <1>8 DEF SessionOK
<1>10. \A g \in Groups, k \in Groups : k \in Claims(x, g) => Claimed(k, g)
  <2>1. \A g \in Groups : Claims(x, g) = Refers(g, v[g])
    BY <1>7 DEF Claims
  <2> QED BY <1>2, <2>1, FrameParts, NothingKnown DEF Claimed
<1> QED BY <1>3, <1>6, <1>7, <1>9, <1>10, FrameParts, SessionStep
        DEF vars, brokerVars, subVars

\* A session that keeps its rows and repairs nothing claims what it claimed.
LEMMA SameRowsSameClaims ==
    ASSUME NEW r \in Reconcilers, NEW x, x.view = rec[r].view,
           x.pc \notin {"await", "record"}
    PROVE  \A g \in Groups, k \in Groups : k \in Claims(x, g) => Claimed(k, g)
<1>1. \A g \in Groups : Claims(x, g) = Refers(g, rec[r].view[g])
  BY DEF Claims
<1> QED BY <1>1 DEF Claimed, Claims

\* The broker only reports what it executed.
LEMMA ExecutionsExecuted == Executions \in SUBSET Lots /\ Executed(Executions)
BY DEF Executions, Lots, Executed

LEMMA FetchFillsInv ==
    ASSUME ReconciliationInv, NEW r \in Reconcilers,
           FetchFills(r) \/ FillsUnavailable(r)
    PROVE  ReconciliationInv'
<1>1. PICK fs : /\ fs = Executions \/ fs = rec[r].fills
                /\ rec' = [rec EXCEPT ![r].pc = "positions", ![r].fills = fs]
  <2>1. CASE FetchFills(r)
    BY <2>1 DEF FetchFills
  <2>2. CASE FillsUnavailable(r)
    <3>1. rec' = [rec EXCEPT ![r].pc = "positions"]
      BY <2>2 DEF FillsUnavailable
    <3>2. [rec[r] EXCEPT !.pc = "positions"]
            = [rec[r] EXCEPT !.pc = "positions", !.fills = rec[r].fills]
      BY FrameParts DEF RecType
    <3>3. rec' = [rec EXCEPT ![r].pc = "positions", ![r].fills = rec[r].fills]
      BY <3>1, <3>2, FrameParts
    <3> QED BY <3>3
  <2> QED BY <2>1, <2>2
<1>2. UNCHANGED vars
  BY DEF FetchFills, FillsUnavailable
<1>3. rec[r] \in RecType /\ SessionOK(rec[r])
  BY FrameParts
<1>4. fs \in SUBSET Lots /\ Executed(fs)
  BY <1>1, <1>3, ExecutionsExecuted DEF SessionOK, RecType
<1>5. PICK x : x = [rec[r] EXCEPT !.pc = "positions", !.fills = fs]
  OBVIOUS
<1>6. rec' = [rec EXCEPT ![r] = x]
  BY <1>1, <1>5, FrameParts
<1>7. /\ x \in RecType /\ x.pc = "positions" /\ x.view = rec[r].view /\ x.fills = fs
      /\ x.dirty = rec[r].dirty /\ x.todo = rec[r].todo
  BY <1>3, <1>4, <1>5 DEF RecType
<1>8. SessionOK(x)
  BY <1>3, <1>4, <1>7 DEF SessionOK
<1>9. \A g \in Groups, k \in Groups : k \in Claims(x, g) => Claimed(k, g)
  BY <1>7, SameRowsSameClaims
<1> QED BY <1>2, <1>6, <1>7, <1>8, <1>9, FrameParts, SessionStep
        DEF vars, brokerVars, subVars

\* Triples over finite sets are finitely many.
LEMMA TriplesFinite ==
    ASSUME NEW A, NEW B, NEW C, IsFiniteSet(A), IsFiniteSet(B), IsFiniteSet(C)
    PROVE  IsFiniteSet(A \X B \X C)
<1> DEFINE S == (A \X B) \X C
           T == A \X B \X C
           f == [p \in S |-> <<p[1][1], p[1][2], p[2]>>]
<1>1. IsFiniteSet(S)
  <2>1. IsFiniteSet(A \X B)
    BY FS_Product
  <2> QED BY <2>1, FS_Product
<1>2. f \in [S -> T]
  OBVIOUS
<1>3. ASSUME NEW t \in T PROVE \E p \in S : f[p] = t
  <2>1. PICK a \in A, b \in B, c \in C : t = <<a, b, c>>
    OBVIOUS
  <2>2. <<<<a, b>>, c>> \in S /\ f[<<<<a, b>>, c>>] = <<a, b, c>>
    OBVIOUS
  <2> QED BY <2>1, <2>2
<1>4. f \in Surjection(S, T)
  <2> HIDE DEF f, S, T
  <2> QED BY <1>2, <1>3 DEF Surjection
<1> QED
  <2> HIDE DEF f, S
  <2> QED BY <1>1, <1>4, FS_Surjection

\* A position is a number of lots.
LEMMA PositionType == \A y \in Symbols : Position(y) \in Int
<1> USE GatewayAssumption
<1>1. ASSUME NEW y, NEW legs \in SUBSET Legs
      PROVE  Cardinality(FilledLots(y, legs)) \in Nat
  <2>1. IsFiniteSet(Groups) /\ IsFiniteSet(1..Qty)
    BY FS_Interval DEF Groups
  <2>2. IsFiniteSet(GroupsOf(y))
    BY <2>1, FS_Subset DEF GroupsOf
  <2>3. IsFiniteSet(Legs)
    <3>1. IsFiniteSet({}) /\ IsFiniteSet({} \union {"entry"})
      BY FS_EmptySet, FS_AddElement
    <3>2. IsFiniteSet(({} \union {"entry"}) \union {"target"})
      BY <3>1, FS_AddElement
    <3>3. IsFiniteSet((({} \union {"entry"}) \union {"target"}) \union {"stop"})
      BY <3>2, FS_AddElement
    <3>4. Legs = (({} \union {"entry"}) \union {"target"}) \union {"stop"}
      BY DEF Legs
    <3> QED BY <3>3, <3>4
  <2>4. IsFiniteSet(legs)
    BY <2>3, FS_Subset
  <2> DEFINE P == GroupsOf(y) \X legs \X (1..Qty)
  <2>8. IsFiniteSet(P)
    BY <2>1, <2>2, <2>4, TriplesFinite
  <2>9. FilledLots(y, legs) \subseteq P
    BY DEF FilledLots
  <2>10. IsFiniteSet(FilledLots(y, legs))
    BY <2>8, <2>9, FS_Subset
  <2> QED BY <2>10, FS_CardinalityType
<1> QED BY <1>1 DEF Position, Legs, ExitLegs

LEMMA FetchPositionsInv ==
    ASSUME ReconciliationInv, NEW r \in Reconcilers, FetchPositions(r)
    PROVE  ReconciliationInv'
<1> DEFINE q == [y \in Symbols |-> Position(y)]
<1>1. rec' = [rec EXCEPT ![r].pc = "orders", ![r].pos = q] /\ UNCHANGED vars
  BY DEF FetchPositions
<1>2. q \in [Symbols -> Int]
  BY PositionType
<1> HIDE DEF q
<1>3. rec[r] \in RecType /\ SessionOK(rec[r])
  BY FrameParts
<1>5. PICK x : x = [rec[r] EXCEPT !.pc = "orders", !.pos = q]
  OBVIOUS
<1>6. rec' = [rec EXCEPT ![r] = x]
  BY <1>1, <1>5, FrameParts
<1>7. /\ x \in RecType /\ x.pc = "orders" /\ x.view = rec[r].view
      /\ x.fills = rec[r].fills /\ x.dirty = rec[r].dirty /\ x.todo = rec[r].todo
  BY <1>2, <1>3, <1>5 DEF RecType
<1>8. SessionOK(x)
  BY <1>3, <1>7 DEF SessionOK
<1>9. \A g \in Groups, k \in Groups : k \in Claims(x, g) => Claimed(k, g)
  BY <1>7, SameRowsSameClaims
<1> QED BY <1>1, <1>6, <1>7, <1>8, <1>9, FrameParts, SessionStep
        DEF vars, brokerVars, subVars

\* Neither a leg nor the two exits together execute more than the quantity.
LEMMA RemainingType ==
    ASSUME BrokerTypeOK, GroupsConsistent, NEW g \in Groups, NEW l \in Legs
    PROVE  Remaining(g, l) \in 0..Qty
<1> USE GatewayAssumption
<1>1. \A k \in Legs : ib[g].filled[k] \in 0..Qty
  BY DEF BrokerTypeOK, GroupType
<1>2. Exited(g) \in 0..Qty
  BY <1>1 DEF GroupsConsistent, Exited, Legs
<1> QED BY <1>1, <1>2 DEF Remaining, Legs

LEMMA FetchOrdersInv ==
    ASSUME ReconciliationInv, NEW r \in Reconcilers, FetchOpenOrders(r)
    PROVE  ReconciliationInv'
<1> DEFINE os == {<<o[1], o[2], Remaining(o[1], o[2])>> : o \in OpenOrders}
<1>1. rec' = [rec EXCEPT ![r].pc = "compare", ![r].orders = os] /\ UNCHANGED vars
  BY DEF FetchOpenOrders
<1>2. os \in SUBSET (Groups \X Legs \X (0..Qty))
  BY FrameParts, RemainingType DEF OpenOrders
<1> HIDE DEF os
<1>3. rec[r] \in RecType /\ SessionOK(rec[r])
  BY FrameParts
<1>5. PICK x : x = [rec[r] EXCEPT !.pc = "compare", !.orders = os]
  OBVIOUS
<1>6. rec' = [rec EXCEPT ![r] = x]
  BY <1>1, <1>5, FrameParts
<1>7. /\ x \in RecType /\ x.pc = "compare" /\ x.view = rec[r].view
      /\ x.fills = rec[r].fills /\ x.dirty = rec[r].dirty /\ x.todo = rec[r].todo
  BY <1>2, <1>3, <1>5 DEF RecType
<1>8. SessionOK(x)
  BY <1>3, <1>7 DEF SessionOK
<1>9. \A g \in Groups, k \in Groups : k \in Claims(x, g) => Claimed(k, g)
  BY <1>7, SameRowsSameClaims
<1> QED BY <1>1, <1>6, <1>7, <1>8, <1>9, FrameParts, SessionStep
        DEF vars, brokerVars, subVars

\* The session is dropped: its transaction is rolled back.
LEMMA DropInv ==
    ASSUME ReconciliationInv, NEW r \in Reconcilers,
           rec' = [rec EXCEPT ![r] = NoReconcile],
           UNCHANGED <<brokerVars, dbVars, human, sub, owner, abandoned, lost,
                       attempts>>,
           crashes' \in 0..MaxCrashes
    PROVE  ReconciliationInv'
<1>1. /\ NoReconcile \in RecType /\ SessionOK(NoReconcile)
      /\ \A g \in Groups, k \in Groups : k \in Claims(NoReconcile, g) => Claimed(k, g)
  BY FrameParts, NothingKnown
<1>2. cancels' \subseteq Groups \X Legs /\ UNCHANGED <<ib, aged, days>>
  BY FrameParts DEF brokerVars
<1> QED BY <1>1, <1>2, SessionStep

LEMMA CrashInv ==
    ASSUME ReconciliationInv, NEW r \in Reconcilers,
           BrokerUnreachable(r) \/ ReconcilerCrash(r)
    PROVE  ReconciliationInv'
<1>1. CASE BrokerUnreachable(r)
  BY <1>1, FrameParts, DropInv DEF BrokerUnreachable, vars, subVars
<1>2. CASE ReconcilerCrash(r)
  <2>1. crashes' \in 0..MaxCrashes
    BY <1>2, FrameParts, SubmissionAssumption DEF ReconcilerCrash
  <2> QED BY <1>2, <2>1, DropInv DEF ReconcilerCrash
<1> QED BY <1>1, <1>2

-----------------------------------------------------------------------------
(***************************************************************************)
(* The comparison: what it ingests and what it commits.                    *)
(***************************************************************************)
\* A row with the fills a session found for it: only of groups it refers to.
LEMMA AppliedRow ==
    ASSUME BrokerTypeOK, NEW g \in Groups, NEW t \in TradeType, RowOK(t),
           NEW new \in SUBSET Lots, Executed(new),
           \A e \in new : t.st # "none" /\ e[1] \in KnownGroups(g, t)
    PROVE  /\ ApplyFillRecords(g, t, new) \in TradeType
           /\ RowOK(ApplyFillRecords(g, t, new))
           /\ ApplyFillRecords(g, t, new).st # "none" <=> t.st # "none"
           /\ t.st = "none" => ApplyFillRecords(g, t, new) = t
           /\ Refers(g, ApplyFillRecords(g, t, new)) \subseteq Refers(g, t)
<1> DEFINE merged == {e \in t.fills : e[1] \in KnownGroups(g, t)} \union new
           st == IF Closes(merged) THEN "closed" ELSE t.st
           x == [t EXCEPT !.fills = merged, !.st = st]
<1>1. ApplyFillRecords(g, t, new) = IF new = {} \/ merged = t.fills THEN t ELSE x
  BY DEF ApplyFillRecords, TradeType
<1>2. merged \in SUBSET Lots /\ st \in TradeStates
  BY DEF TradeType, TradeStates, Lots
<1>3. \A e \in merged : e \in t.fills \/ e \in new
  OBVIOUS
<1>4. t.st # "none" => st # "none"
  OBVIOUS
<1> HIDE DEF merged, st
<1>5. /\ x \in TradeType /\ x.fills = merged /\ x.st = st /\ x.repair = t.repair
  BY <1>2 DEF TradeType, Lots
<1> HIDE DEF x
<1>6. CASE new = {} \/ merged = t.fills
  BY <1>1, <1>6
<1>7. CASE ~(new = {} \/ merged = t.fills)
  <2>1. ApplyFillRecords(g, t, new) = x
    BY <1>1, <1>7
  <2>2. t.st # "none"
    BY <1>7
  <2>3. RowOK(x)
    BY <1>3, <1>4, <1>5, <2>2 DEF RowOK, Executed
  <2>4. Refers(g, x) \subseteq Refers(g, t)
    BY <1>3, <1>5 DEF Refers, KnownGroups
  <2> QED BY <1>4, <1>5, <2>1, <2>2, <2>3, <2>4
<1> QED BY <1>6, <1>7

\* The rows a session works with, before and after the fills.
LEMMA SessionRow ==
    ASSUME ReconciliationInv, NEW r \in Reconcilers, NEW g \in Groups
    PROVE  /\ Session(r)[g] \in TradeType /\ RowOK(Session(r)[g])
           /\ Session(r)[g].st # "none" <=> Recorded(g)
           /\ \A k \in Refers(g, Session(r)[g]) : Claimed(k, g)
<1>1. rec[r].view[g] \in TradeType /\ trades[g] \in TradeType
      /\ RowOK(rec[r].view[g]) /\ RowOK(trades[g])
      /\ (rec[r].view[g].st # "none" => Recorded(g))
  BY FrameParts DEF RecType, SessionOK
<1>2. CASE rec[r].view[g].st # "none"
  <2>1. Session(r)[g] = rec[r].view[g]
    BY <1>2 DEF Session
  <2> QED BY <1>1, <1>2, <2>1 DEF Claimed, Claims
<1>3. CASE rec[r].view[g].st = "none"
  <2>1. Session(r)[g] = trades[g]
    BY <1>3 DEF Session
  <2> QED BY <1>1, <2>1 DEF Claimed, Recorded
<1> QED BY <1>2, <1>3

LEMMA IngestedRow ==
    ASSUME ReconciliationInv, NEW r \in Reconcilers, NEW g \in Groups
    PROVE  /\ Ingested(r)[g] \in TradeType /\ RowOK(Ingested(r)[g])
           /\ Ingested(r)[g].st # "none" <=> Recorded(g)
           /\ ~Recorded(g) => Ingested(r)[g] = Session(r)[g]
           /\ \A k \in Refers(g, Ingested(r)[g]) : Claimed(k, g)
<1> DEFINE s == Session(r)
           new == MatchedFills(g, s, rec[r].fills)
<1>1. Ingested(r)[g] = ApplyFillRecords(g, s[g], new)
  BY DEF Ingested
<1>2. new \in SUBSET Lots /\ Executed(new)
  <2>1. rec[r].fills \in SUBSET Lots /\ Executed(rec[r].fills)
    BY FrameParts DEF RecType, SessionOK
  <2>2. new \subseteq rec[r].fills
    BY DEF MatchedFills
  <2> QED BY <2>1, <2>2 DEF Executed
<1>3. \A e \in new : s[g].st # "none" /\ e[1] \in KnownGroups(g, s[g])
  <2>1. \A e \in new : FillMatches(e, g, s[g])
    BY DEF MatchedFills
  <2> QED BY <2>1 DEF FillMatches
<1>4. s[g] \in TradeType /\ RowOK(s[g]) /\ (s[g].st # "none" <=> Recorded(g))
      /\ \A k \in Refers(g, s[g]) : Claimed(k, g)
  BY SessionRow
<1> HIDE DEF s, new
<1>5. /\ ApplyFillRecords(g, s[g], new) \in TradeType
      /\ RowOK(ApplyFillRecords(g, s[g], new))
      /\ ApplyFillRecords(g, s[g], new).st # "none" <=> s[g].st # "none"
      /\ s[g].st = "none" => ApplyFillRecords(g, s[g], new) = s[g]
      /\ Refers(g, ApplyFillRecords(g, s[g], new)) \subseteq Refers(g, s[g])
  BY <1>2, <1>3, <1>4, FrameParts, AppliedRow
<1> QED BY <1>1, <1>4, <1>5 DEF s

\* What a commit writes: rows that exist, with what the session knows of them.
LEMMA CommittedRows ==
    ASSUME ReconciliationInv, NEW view \in [Groups -> TradeType],
           NEW dirty \in SUBSET RecordedGroups,
           \A g \in Groups : RowOK(view[g])
    PROVE  /\ Committed(view, dirty) \in [Groups -> TradeType]
           /\ \A g \in Groups :
                 /\ Committed(view, dirty)[g].st # "none" <=> Recorded(g)
                 /\ RowOK(Committed(view, dirty)[g])
                 /\ Refers(g, Committed(view, dirty)[g]) \subseteq
                        Refers(g, trades[g]) \union Refers(g, view[g])
<1> DEFINE w(g) == [st |-> IF view[g].st = "closed" THEN "closed" ELSE trades[g].st,
                    fills |-> view[g].fills, repair |-> view[g].repair,
                    early |-> trades[g].early]
<1>1. Committed(view, dirty) = [g \in Groups |-> IF g \in dirty THEN w(g) ELSE trades[g]]
  BY DEF Committed
<1>2. ASSUME NEW g \in Groups, g \in dirty
      PROVE  /\ w(g) \in TradeType /\ w(g).st # "none" /\ RowOK(w(g))
             /\ Refers(g, w(g)) = Refers(g, view[g])
  <2>1. view[g] \in TradeType /\ trades[g] \in TradeType /\ trades[g].st # "none"
    BY <1>2, FrameParts DEF RecordedGroups, Recorded
  <2>2. PICK st \in TradeStates : /\ st # "none"
                                  /\ st = IF view[g].st = "closed" THEN "closed"
                                          ELSE trades[g].st
    BY <2>1 DEF TradeType, TradeStates
  <2>3. w(g) = [st |-> st, fills |-> view[g].fills, repair |-> view[g].repair,
                early |-> trades[g].early]
    BY <2>2
  <2> HIDE DEF w
  <2>4. w(g) \in TradeType /\ w(g).st # "none" /\ w(g).fills = view[g].fills
        /\ w(g).repair = view[g].repair
    BY <2>1, <2>2, <2>3 DEF TradeType
  <2> QED BY <2>4 DEF RowOK, Refers
<1>3. ASSUME NEW g \in Groups
      PROVE  trades[g] \in TradeType /\ RowOK(trades[g])
  BY FrameParts
<1> HIDE DEF w
<1>4. \A g \in Groups : g \in dirty => Recorded(g)
  BY DEF RecordedGroups
<1> QED BY <1>1, <1>2, <1>3, <1>4 DEF Recorded

LEMMA CompareInv ==
    ASSUME ReconciliationInv, NEW r \in Reconcilers, Compare(r)
    PROVE  ReconciliationInv'
<1> DEFINE view == Ingested(r)
           dirty == {g \in Groups : view[g] # Session(r)[g]}
           todo == ToRepair(r, view)
<1>1. /\ rec[r].pc = "compare"
      /\ IF ~Divergent(r) /\ todo # {}
         THEN /\ rec' = [rec EXCEPT ![r] = [NoReconcile EXCEPT
                          !.pc = "repair", !.view = view, !.dirty = dirty,
                          !.todo = todo]]
              /\ UNCHANGED <<trades, killSwitch>>
         ELSE /\ rec' = [rec EXCEPT ![r] = NoReconcile]
              /\ trades' = Committed(view, dirty)
              /\ killSwitch' = (killSwitch \/ Divergent(r))
      /\ UNCHANGED <<brokerVars, sig, simulated, subVars>>
  BY DEF Compare
<1>2. view \in [Groups -> TradeType]
  <2>1. view = [g \in Groups |-> view[g]]
    BY DEF Ingested
  <2> QED BY <2>1, IngestedRow
<1>3. \A g \in Groups : RowOK(view[g]) /\ (view[g].st # "none" <=> Recorded(g))
                        /\ \A k \in Refers(g, view[g]) : Claimed(k, g)
  BY IngestedRow
<1>4. dirty \in SUBSET RecordedGroups
  BY IngestedRow DEF RecordedGroups
<1>5. todo \in SUBSET RecordedGroups
  BY DEF ToRepair, OpenTrades, RecordedGroups, Recorded
<1> HIDE DEF view, dirty, todo
<1>6. CASE ~Divergent(r) /\ todo # {}
  <2>1. PICK x : x = [NoReconcile EXCEPT !.pc = "repair", !.view = view,
                                         !.dirty = dirty, !.todo = todo]
    OBVIOUS
  <2>2. rec' = [rec EXCEPT ![r] = x] /\ UNCHANGED <<trades, killSwitch>>
    BY <1>1, <1>6, <2>1
  <2>3. dirty \in SUBSET Groups /\ todo \in SUBSET Groups
    BY <1>4, <1>5 DEF RecordedGroups
  <2>4. NoReconcile \in RecType /\ NoReconcile.fills = {}
    BY FrameParts, NothingKnown DEF NoReconcile
  <2>5. /\ x \in RecType /\ x.pc = "repair" /\ x.view = view /\ x.fills = {}
        /\ x.dirty = dirty /\ x.todo = todo
    BY <1>2, <2>1, <2>3, <2>4 DEF RecType
  <2>6. SessionOK(x)
    BY <1>3, <1>4, <1>5, <1>6, <2>5 DEF SessionOK, Executed
  <2>7. \A g \in Groups, k \in Groups : k \in Claims(x, g) => Claimed(k, g)
    BY <1>3, <2>5 DEF Claims
  <2> QED BY <1>1, <2>2, <2>5, <2>6, <2>7, FrameParts, SessionStep
          DEF brokerVars, subVars, dbVars
<1>7. CASE ~(~Divergent(r) /\ todo # {})
  <2>1. /\ rec' = [rec EXCEPT ![r] = NoReconcile]
        /\ trades' = Committed(view, dirty)
        /\ killSwitch' = (killSwitch \/ Divergent(r))
    BY <1>1, <1>7
  <2>2. killSwitch' \in BOOLEAN
    BY <2>1, Zenon
  <2>3. /\ trades' \in [Groups -> TradeType]
        /\ \A g \in Groups : /\ trades'[g].st # "none" <=> Recorded(g)
                             /\ RowOK(trades'[g])
                             /\ Refers(g, trades'[g]) \subseteq
                                   Refers(g, trades[g]) \union Refers(g, view[g])
    BY <1>2, <1>3, <1>4, <2>1, CommittedRows
  <2>4. /\ NoReconcile \in RecType /\ SessionOK(NoReconcile)
        /\ \A g \in Groups : Claims(NoReconcile, g) = {}
    BY FrameParts, NothingKnown
  <2>5. \A g \in Groups, k \in Groups :
           k \in Refers(g, trades'[g]) \/ k \in Claims(NoReconcile, g) => Claimed(k, g)
    BY <1>3, <2>3, <2>4 DEF Claimed
  <2>6. cancels' \subseteq Groups \X Legs /\ crashes' \in 0..MaxCrashes
        /\ UNCHANGED <<ib, aged, days, sig, simulated, human, sub, owner,
                       abandoned, lost, attempts>>
    BY <1>1, FrameParts DEF brokerVars, subVars
  <2> QED BY <2>1, <2>2, <2>3, <2>4, <2>5, <2>6, QuietStep
<1> QED BY <1>6, <1>7

-----------------------------------------------------------------------------
(***************************************************************************)
(* The repair.                                                             *)
(***************************************************************************)
\* New exits: the one step that adds a claim, of a group nobody claimed.
LEMMA PlaceRepairInv ==
    ASSUME ReconciliationInv, NEW r \in Reconcilers, PlaceRepair(r)
    PROVE  ReconciliationInv'
<1> DEFINE g == Repairing(r)
           exits == {o \in OpenOrders : o[2] \in ExitLegs /\ Symbol(o[1]) = Symbol(g)}
<1>1. PICK h \in Groups :
        /\ NextGroup(h)
        /\ Place(h, "oca", ib[g].sig)
        /\ rec' = [rec EXCEPT ![r].pc = "await", ![r].grp = h, ![r].exits = exits]
  BY DEF PlaceRepair
<1>2. /\ rec[r].pc = "repair" /\ rec[r].view[g].st = "open"
      /\ UNCHANGED <<aged, cancels, days, dbVars, subVars>>
  BY DEF PlaceRepair
<1>3. rec[r] \in RecType /\ SessionOK(rec[r]) /\ BrokerTypeOK /\ TypeOK
  BY FrameParts
<1>4. /\ g = First(rec[r].todo) /\ g \in rec[r].todo /\ g \in Groups /\ Recorded(g)
  BY <1>2, <1>3, RepairingChosen
<1>5. exits \in SUBSET (Groups \X ExitLegs)
  BY DEF OpenOrders
<1> HIDE DEF g, exits
<1>6. ~Placed(h) /\ ib[h].kind = "none"
  BY <1>1 DEF NextGroup, Placed
<1>7. ib[g].sig \in Signals
  BY <1>3, <1>4 DEF BrokerTypeOK, GroupType
<1>8. /\ GroupsConsistent' /\ FilledGrows /\ IdentityKept
      /\ ib'[h].kind = "oca" /\ ib'[h].sig = ib[g].sig
      /\ \A k \in Groups \ {h} : ib'[k] = ib[k]
  BY <1>1, <1>6, <1>7, FrameParts, PlaceGrows
<1>9. BrokerTypeOK'
  <2>1. ib' \in [Groups -> GroupType]
    BY <1>1, <1>3, <1>7, PlaceType DEF Kinds
  <2> QED BY <1>2, <1>3, <2>1 DEF BrokerTypeOK
<1>10. TypeOK'
  BY <1>2, <1>3, <1>9 DEF TypeOK, dbVars, subVars
<1>11. \A k \in Groups : Recorded(k)' <=> Recorded(k)
  BY <1>2 DEF dbVars, Recorded
<1>12. Brackets' = Brackets /\ RecordedGroups' = RecordedGroups
  BY <1>6, <1>8, <1>11 DEF Brackets, RecordedGroups
<1>13. SubmissionInv'
  BY <1>2, <1>8, <1>10, <1>12, FrameParts, SubmissionFrame DEF dbVars, subVars
<1>14. PICK x : x = [rec[r] EXCEPT !.pc = "await", !.grp = h, !.exits = exits]
  OBVIOUS
<1>15. rec' = [rec EXCEPT ![r] = x]
  BY <1>1, <1>14, FrameParts
<1>16. /\ x \in RecType /\ x.pc = "await" /\ x.view = rec[r].view
       /\ x.fills = rec[r].fills /\ x.dirty = rec[r].dirty /\ x.todo = rec[r].todo
       /\ x.grp = h
  <2>1. h \in 0..MaxGroups
    BY GatewayAssumption DEF Groups
  <2> QED BY <1>3, <1>5, <1>14, <2>1 DEF RecType
<1>17. /\ rec' \in [Reconcilers -> RecType] /\ rec'[r] = x
       /\ \A q \in Reconcilers \ {r} : rec'[q] = rec[q]
  BY <1>15, <1>16, FrameParts
<1>18. ASSUME NEW q \in Reconcilers PROVE SessionOK(rec[q])'
  <2>1. CASE q = r
    <3>1. rec[r].todo # {} /\ rec[r].view[First(rec[r].todo)].st # "none"
      BY <1>2, <1>4
    <3> QED BY <1>3, <1>8, <1>9, <1>11, <1>16, <1>17, <2>1, <3>1, RowsKept
  <2>2. CASE q # r
    BY <1>3, <1>8, <1>9, <1>11, <1>17, <2>2, FrameParts, SessionKept
  <2> QED BY <2>1, <2>2
<1>19. ASSUME NEW k \in Groups PROVE RowOK(trades[k])'
  <2>1. trades' = trades /\ RowOK(trades[k]) /\ trades[k].fills \in SUBSET Lots
    BY <1>2, FrameParts DEF dbVars, TradeType, Lots
  <2>2. \A e \in trades[k].fills : e[3] <= ib'[e[1]].filled[e[2]]
    BY <1>3, <1>8, <1>9, <2>1, ExecutedKept DEF RowOK
  <2> QED BY <2>1, <2>2 DEF RowOK, Executed
<1>20. ASSUME NEW j \in Groups, NEW k \in Groups, Claimed(k, j)'
       PROVE  Claimed(k, j) \/ (k = h /\ j = g)
  <2>1. CASE k \in Refers(j, trades'[j])
    BY <1>2, <2>1 DEF Claimed, dbVars
  <2>2. CASE \E q \in Reconcilers : k \in Claims(rec'[q], j)
    <3>1. PICK q \in Reconcilers : k \in Claims(rec'[q], j)
      BY <2>2
    <3>2. CASE q = r
      <4>1. Claims(x, j) \subseteq Refers(j, rec[r].view[j])
                \union {i \in {h} : First(rec[r].todo) = j}
        BY <1>16 DEF Claims
      <4> QED BY <1>4, <1>17, <3>1, <3>2, <4>1 DEF Claimed, Claims
    <3>3. CASE q # r
      BY <1>17, <3>1, <3>3 DEF Claimed
    <3> QED BY <3>2, <3>3
  <2> QED BY <1>20, <2>1, <2>2 DEF Claimed, Claims, Refers
<1>21. \A j \in Groups : ~Claimed(h, j)
  BY <1>6, FrameParts DEF ClaimsAreRepairs
<1>22. \A k \in Groups : Recorded(k) => ib[k].kind = "bracket"
  BY FrameParts DEF CoreInv, EveryBracketAccountedFor, RecordedGroups, Brackets
<1>23. \A k \in Groups : Recorded(k) => k # h /\ ib'[k] = ib[k]
  BY <1>6, <1>8, <1>22
<1>24. ClaimsAreRepairs'
  <2>1. ASSUME NEW j \in Groups, NEW k \in Groups, Claimed(k, j)'
        PROVE  ib'[k].kind = "oca" /\ ib'[k].sig = ib'[j].sig /\ Recorded(j)'
    <3>1. CASE Claimed(k, j)
      <4>1. ib[k].kind = "oca" /\ ib[k].sig = ib[j].sig /\ Recorded(j)
        BY <3>1, FrameParts DEF ClaimsAreRepairs
      <4>2. k # h
        BY <1>6, <4>1
      <4> QED BY <1>8, <1>11, <1>23, <4>1, <4>2
    <3>2. CASE k = h /\ j = g
      BY <1>4, <1>8, <1>11, <1>23, <3>2
    <3> QED BY <1>20, <2>1, <3>1, <3>2
  <2> QED BY <2>1 DEF ClaimsAreRepairs
<1>25. ClaimsDisjoint'
  <2>1. ASSUME NEW i \in Groups, NEW j \in Groups, NEW k \in Groups,
               Claimed(k, i)', Claimed(k, j)'
        PROVE  i = j
    <3>1. CASE k = h
      BY <1>20, <1>21, <2>1, <3>1
    <3>2. CASE k # h
      <4>1. Claimed(k, i) /\ Claimed(k, j)
        BY <1>20, <2>1, <3>2
      <4> QED BY <4>1, FrameParts DEF ClaimsDisjoint
    <3> QED BY <3>1, <3>2
  <2> QED BY <2>1 DEF ClaimsDisjoint
<1> QED BY <1>8, <1>13, <1>17, <1>18, <1>19, <1>24, <1>25 DEF ReconciliationInv, Frame

LEMMA CancelReplacedInv ==
    ASSUME ReconciliationInv, NEW r \in Reconcilers, CancelReplacedExits(r)
    PROVE  ReconciliationInv'
<1>1. /\ rec[r].pc = "await"
      /\ cancels' = cancels \union rec[r].exits
      /\ rec' = [rec EXCEPT ![r].pc = "record"]
      /\ UNCHANGED <<ib, aged, days, dbVars, subVars>>
  BY DEF CancelReplacedExits
<1>2. rec[r] \in RecType /\ SessionOK(rec[r])
  BY FrameParts
<1>3. cancels' \subseteq Groups \X Legs
  BY <1>1, <1>2, FrameParts DEF RecType, Legs, ExitLegs
<1>4. PICK x : x = [rec[r] EXCEPT !.pc = "record"]
  OBVIOUS
<1>5. rec' = [rec EXCEPT ![r] = x]
  BY <1>1, <1>4, FrameParts
<1>6. /\ x \in RecType /\ x.pc = "record" /\ x.view = rec[r].view
      /\ x.fills = rec[r].fills /\ x.dirty = rec[r].dirty /\ x.todo = rec[r].todo
      /\ x.grp = rec[r].grp
  BY <1>2, <1>4 DEF RecType
<1>7. SessionOK(x)
  BY <1>1, <1>2, <1>6 DEF SessionOK
<1>8. \A g \in Groups, k \in Groups : k \in Claims(x, g) => Claimed(k, g)
  BY <1>1, <1>6 DEF Claims, Claimed
<1> QED BY <1>1, <1>3, <1>5, <1>6, <1>7, <1>8, FrameParts, SessionStep DEF subVars

\* The next trade, or the commit.
LEMMA NextRepairInv ==
    ASSUME ReconciliationInv, NEW r \in Reconcilers, NextRepair(r),
           rec[r].pc \in {"repair", "await", "record"},
           cancels' \subseteq Groups \X Legs,
           UNCHANGED <<ib, aged, days, sig, simulated, killSwitch, subVars>>
    PROVE  ReconciliationInv'
<1> DEFINE todo == rec[r].todo \ {Repairing(r)}
<1>1. rec[r] \in RecType /\ SessionOK(rec[r])
  BY FrameParts
<1>2. killSwitch' \in BOOLEAN /\ crashes' \in 0..MaxCrashes
  BY FrameParts DEF subVars
<1>3. CASE todo # {}
  <2>1. /\ rec' = [rec EXCEPT ![r].pc = "repair", ![r].todo = todo,
                              ![r].grp = 0, ![r].exits = {}]
        /\ trades' = trades
    BY <1>3 DEF NextRepair
  <2>2. todo \in SUBSET Groups /\ todo \subseteq RecordedGroups
    BY <1>1 DEF RecType, SessionOK
  <2>3. PICK x : x = [rec[r] EXCEPT !.pc = "repair", !.todo = todo,
                                    !.grp = 0, !.exits = {}]
    OBVIOUS
  <2> HIDE DEF todo
  <2>4. rec' = [rec EXCEPT ![r] = x]
    BY <2>1, <2>3, FrameParts
  <2>5. /\ x \in RecType /\ x.pc = "repair" /\ x.view = rec[r].view
        /\ x.fills = rec[r].fills /\ x.dirty = rec[r].dirty /\ x.todo = todo
    <3>1. 0 \in 0..MaxGroups
      BY GatewayAssumption
    <3> QED BY <1>1, <2>2, <2>3, <3>1 DEF RecType
  <2>6. SessionOK(x)
    BY <1>1, <1>3, <2>2, <2>5 DEF SessionOK
  <2>7. \A g \in Groups, k \in Groups : k \in Claims(x, g) => Claimed(k, g)
    BY <2>5, SameRowsSameClaims
  <2> QED BY <1>2, <2>1, <2>4, <2>5, <2>6, <2>7, FrameParts, SessionStep
          DEF subVars, dbVars
<1>4. CASE todo = {}
  <2>1. /\ rec' = [rec EXCEPT ![r] = NoReconcile]
        /\ trades' = Committed(rec[r].view, rec[r].dirty)
    BY <1>4 DEF NextRepair
  <2>2. /\ rec[r].view \in [Groups -> TradeType]
        /\ rec[r].dirty \in SUBSET RecordedGroups
        /\ \A g \in Groups : RowOK(rec[r].view[g])
    BY <1>1 DEF RecType, SessionOK
  <2>3. /\ trades' \in [Groups -> TradeType]
        /\ \A g \in Groups : /\ trades'[g].st # "none" <=> Recorded(g)
                             /\ RowOK(trades'[g])
                             /\ Refers(g, trades'[g]) \subseteq
                                   Refers(g, trades[g]) \union Refers(g, rec[r].view[g])
    BY <2>1, <2>2, CommittedRows
  <2>4. /\ NoReconcile \in RecType /\ SessionOK(NoReconcile)
        /\ \A g \in Groups : Claims(NoReconcile, g) = {}
    BY FrameParts, NothingKnown
  <2>5. \A g \in Groups, k \in Groups :
           k \in Refers(g, trades'[g]) \/ k \in Claims(NoReconcile, g) => Claimed(k, g)
    BY <2>3, <2>4 DEF Claimed, Claims
  <2>6. UNCHANGED <<ib, aged, days, sig, simulated, human, sub, owner,
                    abandoned, lost, attempts>>
    BY DEF subVars
  <2> QED BY <1>2, <2>1, <2>3, <2>4, <2>5, <2>6, QuietStep
<1> QED BY <1>3, <1>4

LEMMA RepairEndsInv ==
    ASSUME ReconciliationInv, NEW r \in Reconcilers,
           RepairNotAcknowledged(r) \/ RepairFails(r)
    PROVE  ReconciliationInv'
<1>1. CASE RepairNotAcknowledged(r)
  <2>1. rec[r].grp \in Groups
    BY <1>1, FrameParts DEF RepairNotAcknowledged, SessionOK
  <2>2. cancels' \subseteq Groups \X Legs
    BY <1>1, <2>1, FrameParts DEF RepairNotAcknowledged, Legs, ExitLegs
  <2> QED BY <1>1, <2>2, NextRepairInv DEF RepairNotAcknowledged
<1>2. CASE RepairFails(r)
  <2>1. cancels' \subseteq Groups \X Legs
    BY <1>2, FrameParts DEF RepairFails, brokerVars
  <2> QED BY <1>2, <2>1, NextRepairInv DEF RepairFails, brokerVars
<1> QED BY <1>1, <1>2

\* The repair moves from the session to the row: the same claim.
LEMMA RecordRepairInv ==
    ASSUME ReconciliationInv, NEW r \in Reconcilers, RecordRepair(r)
    PROVE  ReconciliationInv'
<1> DEFINE g == Repairing(r)
           view == [rec[r].view EXCEPT ![g].repair = rec[r].grp]
           dirty == rec[r].dirty \union {g}
           todo == rec[r].todo \ {g}
           rows == Committed(view, dirty)
<1>1. /\ rec[r].pc = "record"
      /\ trades' = rows
      /\ rec' = [rec EXCEPT ![r] = IF todo = {} THEN NoReconcile
                    ELSE [NoReconcile EXCEPT !.pc = "repair", !.view = rows,
                                             !.todo = todo]]
      /\ UNCHANGED <<brokerVars, sig, simulated, killSwitch, subVars>>
  BY DEF RecordRepair
<1>2. rec[r] \in RecType /\ SessionOK(rec[r]) /\ rec[r].grp \in Groups
  BY <1>1, FrameParts DEF SessionOK
<1>3. /\ g = First(rec[r].todo) /\ g \in rec[r].todo /\ g \in Groups /\ Recorded(g)
  BY <1>1, <1>2, RepairingChosen
<1>4. /\ view \in [Groups -> TradeType]
      /\ \A k \in Groups : RowOK(view[k])
      /\ \A k \in Groups : \A j \in Refers(k, view[k]) : j \in Groups => Claimed(j, k)
  <2>1. rec[r].view[g] \in TradeType /\ rec[r].grp \in 0..MaxGroups
    BY <1>2, <1>3 DEF RecType
  <2>2. PICK t : t = [rec[r].view[g] EXCEPT !.repair = rec[r].grp]
    OBVIOUS
  <2>3. view = [rec[r].view EXCEPT ![g] = t]
    BY <1>2, <2>2 DEF RecType
  <2>4. /\ t \in TradeType /\ t.st = rec[r].view[g].st
        /\ t.fills = rec[r].view[g].fills /\ t.repair = rec[r].grp
    BY <2>1, <2>2 DEF TradeType
  <2>5. /\ view \in [Groups -> TradeType] /\ view[g] = t
        /\ \A k \in Groups \ {g} : view[k] = rec[r].view[k]
    BY <1>2, <1>3, <2>3, <2>4 DEF RecType
  <2> HIDE DEF view
  <2>6. RowOK(t)
    <3>1. RowOK(rec[r].view[g]) /\ rec[r].view[g].st # "none"
      BY <1>1, <1>2, <1>3 DEF SessionOK
    <3> QED BY <2>4, <3>1 DEF RowOK
  <2>7. \A k \in Groups : RowOK(view[k])
    BY <1>2, <2>5, <2>6 DEF SessionOK
  <2>8. Refers(g, t) \subseteq Refers(g, rec[r].view[g]) \union {rec[r].grp}
    BY <2>4 DEF Refers
  <2>9. Claimed(rec[r].grp, g)
    BY <1>1, <1>3 DEF Claimed, Claims
  <2>10. \A k \in Groups : \A j \in Refers(k, view[k]) : Claimed(j, k)
    BY <2>5, <2>8, <2>9 DEF Claimed, Claims
  <2> QED BY <2>5, <2>7, <2>10
<1>5. dirty \in SUBSET RecordedGroups
  BY <1>2, <1>3 DEF SessionOK, RecordedGroups
<1>6. todo \in SUBSET Groups /\ todo \subseteq RecordedGroups
  BY <1>2 DEF RecType, SessionOK
<1> HIDE DEF g, view, dirty, todo
<1>7. /\ rows \in [Groups -> TradeType]
      /\ \A k \in Groups : /\ rows[k].st # "none" <=> Recorded(k)
                           /\ RowOK(rows[k])
                           /\ Refers(k, rows[k]) \subseteq
                                 Refers(k, trades[k]) \union Refers(k, view[k])
  BY <1>4, <1>5, CommittedRows
<1>8. \A k \in Groups, j \in Groups : j \in Refers(k, rows[k]) => Claimed(j, k)
  BY <1>4, <1>7 DEF Claimed
<1> HIDE DEF rows
<1>9. /\ NoReconcile \in RecType /\ SessionOK(NoReconcile)
      /\ NoReconcile.fills = {} /\ NoReconcile.dirty = {}
      /\ \A k \in Groups : Claims(NoReconcile, k) = {}
  BY FrameParts, NothingKnown DEF NoReconcile
<1>10. PICK x : /\ rec' = [rec EXCEPT ![r] = x] /\ x \in RecType /\ SessionOK(x)
                /\ \A k \in Groups, j \in Groups : j \in Claims(x, k) => Claimed(j, k)
  <2>1. CASE todo = {}
    BY <1>1, <1>9, <2>1
  <2>2. CASE todo # {}
    <3>1. PICK x : x = [NoReconcile EXCEPT !.pc = "repair", !.view = rows,
                                           !.todo = todo]
      OBVIOUS
    <3>2. rec' = [rec EXCEPT ![r] = x]
      BY <1>1, <2>2, <3>1
    <3>3. /\ x \in RecType /\ x.pc = "repair" /\ x.view = rows
          /\ x.fills = {} /\ x.dirty = {} /\ x.todo = todo
      BY <1>6, <1>7, <1>9, <3>1 DEF RecType
    <3>4. SessionOK(x)
      BY <1>6, <1>7, <2>2, <3>3 DEF SessionOK, Executed
    <3>5. \A k \in Groups, j \in Groups : j \in Claims(x, k) => Claimed(j, k)
      BY <1>8, <3>3 DEF Claims
    <3> QED BY <3>2, <3>3, <3>4, <3>5
  <2> QED BY <2>1, <2>2
<1>11. killSwitch' \in BOOLEAN /\ crashes' \in 0..MaxCrashes
       /\ cancels' \subseteq Groups \X Legs
  BY <1>1, FrameParts DEF subVars, brokerVars
<1>12. UNCHANGED <<ib, aged, days, sig, simulated, human, sub, owner,
                   abandoned, lost, attempts>>
  BY <1>1 DEF subVars, brokerVars
<1> QED BY <1>1, <1>7, <1>8, <1>10, <1>11, <1>12, QuietStep

-----------------------------------------------------------------------------
(***************************************************************************)
(* The theorems.                                                           *)
(***************************************************************************)
\* A step that changes no variable changes nothing the invariant speaks of.
LEMMA StutterReconciliation ==
    ASSUME ReconciliationInv, UNCHANGED rvars
    PROVE  ReconciliationInv'
<1>1. PICK r \in Reconcilers : TRUE
  BY ReconciliationAssumption
<1>2. PICK x : x = rec[r]
  OBVIOUS
<1>3. rec' = [rec EXCEPT ![r] = x] /\ x \in RecType /\ SessionOK(x)
  BY <1>2, FrameParts DEF rvars
<1>4. \A g \in Groups, k \in Groups : k \in Claims(x, g) => Claimed(k, g)
  BY <1>2 DEF Claimed
<1> QED BY <1>3, <1>4, FrameParts, SessionStep
        DEF rvars, vars, brokerVars, dbVars, subVars

\* Every step of every actor preserves the invariant.
LEMMA ReconciliationStep == ReconciliationInv /\ [RNext]_rvars => ReconciliationInv'
<1> SUFFICES ASSUME ReconciliationInv, [RNext]_rvars PROVE ReconciliationInv'
  OBVIOUS
<1>1. CASE OtherStep /\ UNCHANGED rec
  BY <1>1, OtherStepInv
<1>2. ASSUME NEW r \in Reconcilers, ReconcilerStep(r) \/ ReconcilerCrash(r)
      PROVE  ReconciliationInv'
  <2>1. CASE BeginReconcile(r)
    BY <2>1, BeginInv
  <2>2. CASE FetchFills(r) \/ FillsUnavailable(r)
    BY <2>2, FetchFillsInv
  <2>3. CASE FetchPositions(r)
    BY <2>3, FetchPositionsInv
  <2>4. CASE FetchOpenOrders(r)
    BY <2>4, FetchOrdersInv
  <2>5. CASE BrokerUnreachable(r) \/ ReconcilerCrash(r)
    BY <2>5, CrashInv
  <2>6. CASE Compare(r)
    BY <2>6, CompareInv
  <2>7. CASE PlaceRepair(r)
    BY <2>7, PlaceRepairInv
  <2>8. CASE CancelReplacedExits(r)
    BY <2>8, CancelReplacedInv
  <2>9. CASE RepairNotAcknowledged(r) \/ RepairFails(r)
    BY <2>9, RepairEndsInv
  <2>10. CASE RecordRepair(r)
    BY <2>10, RecordRepairInv
  <2> QED BY <1>2, <2>1, <2>2, <2>3, <2>4, <2>5, <2>6, <2>7, <2>8, <2>9, <2>10
          DEF ReconcilerStep, FetchStep
<1>3. CASE UNCHANGED rvars
  BY <1>3, StutterReconciliation
<1> QED BY <1>1, <1>2, <1>3 DEF RNext

\* It holds when nothing has been placed and the signals are approved.
LEMMA ReconciliationInit == RInit => ReconciliationInv
<1> SUFFICES ASSUME RInit PROVE ReconciliationInv
  OBVIOUS
<1> USE GatewayAssumption, SubmissionAssumption
<1>1. Quiet /\ sig \in [Signals -> ApprovedSignals]
      /\ rec = [r \in Reconcilers |-> NoReconcile]
  BY DEF RInit
<1>2. SubmissionInv
  <2>1. (CHOOSE s \in Signals : TRUE) \in Signals
    OBVIOUS
  <2>2. BrokerTypeOK
    BY <1>1, <2>1 DEF Quiet, BrokerInit, BrokerTypeOK, GroupType, NoGroup, Kinds,
           LegStates, Legs
  <2>3. sig \in [Signals -> SignalType]
    <3>1. ApprovedSignals \subseteq SignalType
      BY DEF ApprovedSignals, SignalType, Statuses, Outcomes
    <3> QED BY <1>1, <3>1
  <2>4. trades \in [Groups -> TradeType]
    BY <1>1 DEF Quiet, NoTrade, TradeType, TradeStates
  <2>5. Idle \in SubType
    BY <2>1 DEF Idle, SubType, PCs, Statuses
  <2>6. killSwitch \in BOOLEAN
    BY <1>1, Zenon DEF Quiet
  <2>7. human \in HumanType
    BY <1>1, <2>1 DEF Quiet, NoApproval, HumanType, Statuses
  <2>8. TypeOK
    BY <1>1, <2>2, <2>3, <2>4, <2>5, <2>6, <2>7 DEF Quiet, TypeOK
  <2>9. SessionOwnsItsGroup /\ ValidatedWasExecutable /\ TraderSeesIt
    BY <1>1 DEF Quiet, SessionOwnsItsGroup, ValidatedWasExecutable, TraderSeesIt, Idle
  <2>10. RecordedGroups = {} /\ SubmittingGroups = {} /\ Brackets = {}
    BY <1>1 DEF Quiet, BrokerInit, NoGroup, RecordedGroups, Recorded, NoTrade,
           SubmittingGroups, Unsettled, Idle, Brackets
  <2>11. EveryBracketAccountedFor
    BY <1>1, <2>10 DEF Quiet, EveryBracketAccountedFor
  <2>12. TradedSignalNotExecutable /\ OneTradePerSubmitter
    BY <1>1 DEF Quiet, TradedSignalNotExecutable, HasTrade, OneTradePerSubmitter,
           Recorded, NoTrade
  <2>13. ApprovalComesFirst
    <3>1. \A s \in Signals : sig[s].status # "pending_human_approval"
      BY <1>1 DEF ApprovedSignals
    <3>2. human.pc = "idle"
      BY <1>1 DEF Quiet, NoApproval
    <3> QED BY <3>1, <3>2 DEF ApprovalComesFirst
  <2> QED BY <2>8, <2>9, <2>11, <2>12, <2>13 DEF CoreInv, SubmissionInv
<1>3. BrokerTypeOK
  BY <1>2 DEF SubmissionInv, CoreInv, TypeOK
<1>4. rec \in [Reconcilers -> RecType] /\ \A r \in Reconcilers : SessionOK(rec[r])
  BY <1>1, <1>3, NothingKnown
<1>5. \A g \in Groups : trades[g] = NoTrade /\ RowOK(trades[g])
  BY <1>1, <1>3, NothingKnown DEF Quiet
<1>6. GroupsConsistent
  BY <1>1 DEF Quiet, BrokerInit, NoGroup, GroupsConsistent, Exited, Legs
<1>7. \A g \in Groups, k \in Groups : ~Claimed(k, g)
  BY <1>1, <1>3, <1>5, NothingKnown DEF Claimed
<1> QED BY <1>2, <1>4, <1>5, <1>6, <1>7
        DEF ReconciliationInv, Frame, ClaimsAreRepairs, ClaimsDisjoint

\* The invariant, whatever submitters, reconciliations and the broker do.
THEOREM ReconciliationInvariant == RSpec => []ReconciliationInv
<1>1. RInit => ReconciliationInv
  BY ReconciliationInit
<1>2. ReconciliationInv /\ [RNext]_rvars => ReconciliationInv'
  BY ReconciliationStep
<1> QED BY <1>1, <1>2, PTL DEF RSpec

\* The sessions and snapshots of reconcile keep their shapes: in particular the
\* remaining quantity it computes for an open order is never negative.
THEOREM ReconciliationTypeCorrect == RSpec => []ReconciliationTypeOK
<1>1. ReconciliationInv => ReconciliationTypeOK
  BY FrameParts DEF ReconciliationTypeOK
<1> QED BY <1>1, ReconciliationInvariant, PTL

\* _ingest_recent_fills never credits one execution to two trades, nor one that
\* the orders of the trade did not execute.
THEOREM FillsCreditedOnce == RSpec => []FillsAttributedOnce
<1>1. ReconciliationInv => FillsAttributedOnce
  <2> SUFFICES ASSUME ReconciliationInv, NEW g \in Groups, NEW e \in trades[g].fills
               PROVE  /\ e[1] # g => ib[e[1]].kind = "oca" /\ ib[e[1]].sig = ib[g].sig
                      /\ e[3] <= ib[e[1]].filled[e[2]]
                      /\ \A h \in Groups \ {g} : e \notin trades[h].fills
    BY DEF FillsAttributedOnce
  <2>1. \A h \in Groups : trades[h] \in TradeType /\ RowOK(trades[h])
    BY FrameParts
  <2>2. e[1] \in Groups /\ e[1] # 0
    BY <2>1, GatewayAssumption DEF TradeType, Groups
  <2>3. \A h \in Groups : e \in trades[h].fills => e[1] = h \/ Claimed(e[1], h)
    BY <2>2 DEF Claimed, Refers
  <2>4. \A h \in Groups : e \in trades[h].fills => Recorded(h)
    BY <2>1 DEF RowOK, NoTrade, Recorded
  <2>5. \A h \in Groups : Recorded(h) => ib[h].kind = "bracket"
    BY FrameParts DEF CoreInv, EveryBracketAccountedFor, RecordedGroups, Brackets
  <2>6. \A h \in Groups : Claimed(e[1], h) => ib[e[1]].kind = "oca" /\ ib[e[1]].sig = ib[h].sig
    BY <2>2, FrameParts DEF ClaimsAreRepairs
  <2>7. e[3] <= ib[e[1]].filled[e[2]]
    BY <2>1 DEF RowOK, Executed
  <2>8. ASSUME NEW h \in Groups \ {g}, e \in trades[h].fills PROVE FALSE
    <3>1. CASE e[1] = g
      BY <2>3, <2>4, <2>5, <2>6, <2>8, <3>1
    <3>2. CASE e[1] = h
      BY <2>3, <2>4, <2>5, <2>6, <2>8, <3>2
    <3>3. CASE e[1] # g /\ e[1] # h
      <4>1. Claimed(e[1], g) /\ Claimed(e[1], h)
        BY <2>3, <2>8, <3>3
      <4> QED BY <2>2, <2>8, <4>1, FrameParts DEF ClaimsDisjoint
    <3> QED BY <3>1, <3>2, <3>3
  <2> QED BY <2>3, <2>6, <2>7, <2>8
<1> QED BY <1>1, ReconciliationInvariant, PTL

\* What submit_signal_bracket guarantees does not depend on being alone: no
\* bracket is lost without a trace, and no traded signal becomes executable
\* again, while reconciliations write the same rows and place orders.
THEOREM SubmissionsUndisturbed ==
    RSpec => [](EveryBracketAccountedFor /\ TradedSignalNotExecutable)
<1>1. ReconciliationInv => EveryBracketAccountedFor /\ TradedSignalNotExecutable
  BY FrameParts DEF CoreInv
<1> QED BY <1>1, ReconciliationInvariant, PTL

=============================================================================
