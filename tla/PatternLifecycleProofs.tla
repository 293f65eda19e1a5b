----------------------- MODULE PatternLifecycleProofs -----------------------
(***************************************************************************)
(* What is proved of the life of a pattern, for every set of sessions and  *)
(* every bound.                                                            *)
(*                                                                         *)
(* Any number of overlapping jobs: the type invariant, with the fact that  *)
(* a pattern under review has its paper fills, and ProductionOnlyByGate.   *)
(* Both need to know of the jobs under way what they will write: JobsType. *)
(*                                                                         *)
(* Jobs one after the other: the promotion ladder is implemented and the   *)
(* manifest is that of the current version.  Both need that a job which    *)
(* runs alone still finds the row it loaded, and that what it writes is    *)
(* one rung away from it: LoadedIsCurrent and OneRung.                     *)
(***************************************************************************)
EXTENDS PatternLifecycle, TLAPS

USE LifecycleAssumption

Jobs == [op : Ops, old : Rows, new : Rows]

Busy(s) == job[s].op # "idle"

\* Only the gate writes production over another status, and only a job that
\* has seen the fills writes director_review.
JobsType ==
    \A s \in Sessions :
        /\ job[s].new.status = "director_review" => fills >= 2
        /\ job[s].new.status = "production" =>
              job[s].op = "approve" \/ job[s].old.status = "production"

LifecycleInv == TypeOK /\ JobsType

-----------------------------------------------------------------------------
\* A missing row and an idle job have the shape of the others.
LEMMA NoRowType == NoRow \in Rows /\ NoJob \in Jobs
BY DEF NoRow, NoJob, NoMetrics, NoManifest, Rows, Jobs, Ops, Statuses, Drifts,
       Manifests

(***************************************************************************)
(* Commit, column by column: a column is written when the job changed it,  *)
(* and metrics_json always is.                                             *)
(***************************************************************************)
LEMMA CommitWrites ==
    ASSUME NEW s \in Sessions, Commit(s),
           row \in Rows, job[s].new \in Rows, job[s].old \in Rows
    PROVE  /\ row' \in Rows
           /\ row'.status = IF job[s].new.status # job[s].old.status
                            THEN job[s].new.status ELSE row.status
           /\ row'.valid = IF job[s].new.valid # job[s].old.valid
                           THEN job[s].new.valid ELSE row.valid
           /\ row'.drift = IF job[s].new.drift # job[s].old.drift
                           THEN job[s].new.drift ELSE row.drift
           /\ row'.version = IF job[s].new.version # job[s].old.version
                             THEN job[s].new.version ELSE row.version
           /\ row'.metrics = job[s].new.metrics
<1>1. row' = [c \in Columns |->
                 IF c \in Changed(job[s]) THEN job[s].new[c] ELSE row[c]]
  BY DEF Commit
<1>2. row'.status = IF job[s].new.status # job[s].old.status
                    THEN job[s].new.status ELSE row.status
  BY <1>1 DEF Columns, Changed
<1>3. row'.metrics = job[s].new.metrics
  BY <1>1 DEF Columns, Changed
<1>4. row' \in Rows
  BY <1>1, <1>2, <1>3 DEF Rows, Columns
<1> QED BY <1>1, <1>2, <1>3, <1>4 DEF Columns, Changed

(***************************************************************************)
(* A job that starts changes nothing but its own entry.                    *)
(***************************************************************************)
LEMMA StartKeepsInv ==
    ASSUME LifecycleInv, NEW s \in Sessions, NEW op \in Ops, NEW new \in Rows,
           Start(s, op, new),
           new.status = "director_review" => fills >= 2,
           new.status = "production" =>
              op = "approve" \/ row.status = "production"
    PROVE  LifecycleInv'
<1> DEFINE j == [op |-> op, old |-> row, new |-> new]
<1>1. job' = [job EXCEPT ![s] = j] /\ UNCHANGED <<row, fills, now>>
  BY DEF Start
<1>2. j \in Jobs
  BY DEF Jobs, LifecycleInv, TypeOK
<1> HIDE DEF j
<1>3. job' \in [Sessions -> Jobs]
  BY <1>1, <1>2 DEF LifecycleInv, TypeOK, Jobs
<1>4. TypeOK'
  BY <1>1, <1>3 DEF LifecycleInv, TypeOK, Jobs
<1>5. \A t \in Sessions : job'[t] = IF t = s THEN j ELSE job[t]
  BY <1>1 DEF LifecycleInv, TypeOK
<1>6. JobsType'
  BY <1>1, <1>5 DEF LifecycleInv, JobsType, j
<1> QED BY <1>4, <1>6 DEF LifecycleInv

-----------------------------------------------------------------------------
\* _canonical_promotion_status: Research may ask for production, it gets a
\* Laboratory status or a refusal.
LEMMA DiscoveredType ==
    ASSUME LifecycleInv, row.version < MaxVersions,
           NEW raw \in RawStatuses, NEW confirm \in BOOLEAN,
           NEW valid \in BOOLEAN, NEW drift \in Drifts
    PROVE  /\ Discovered(raw, valid, confirm, drift) \in Rows
           /\ Discovered(raw, valid, confirm, drift).status \notin
                 {"director_review", "production"}
<1>1. CanonicalStatus(raw, valid, confirm) \in
         Statuses \ {"director_review", "production"}
  BY DEF CanonicalStatus, RawStatuses, Statuses, LabStates
<1>2. row.version + 1 \in 0..MaxVersions
  BY DEF LifecycleInv, TypeOK, Rows
<1>3. NoManifest \in Manifests
  BY DEF NoManifest, Manifests
<1>4. [NoMetrics EXCEPT !.drift = drift] \in
         [drift : Drifts, audit : BOOLEAN, lab : {"none", "blocked", "clear"},
          manifest : Manifests]
  BY <1>3 DEF NoMetrics
<1> QED BY <1>1, <1>2, <1>4 DEF Discovered, Rows

\* The invariant when a discovery run loads the row.
LEMMA DiscoverKeepsInv ==
    ASSUME LifecycleInv, NEW s \in Sessions, Discover(s)
    PROVE  LifecycleInv'
<1>1. PICK raw \in RawStatuses, confirm \in BOOLEAN,
           drift \in {"stable", "improving", "degrading"} :
              Start(s, "discover",
                    Discovered(raw, raw \notin {"rejected", "needs_confirmation"},
                               confirm, drift))
  BY DEF Discover
<1> DEFINE new == Discovered(raw, raw \notin {"rejected", "needs_confirmation"},
                             confirm, drift)
<1>2. /\ new \in Rows
      /\ new.status \notin {"director_review", "production"}
  BY DiscoveredType DEF Discover, Drifts
<1> HIDE DEF new
<1> QED BY <1>1, <1>2, StartKeepsInv DEF new, Ops

\* The invariant when the director of research does.
LEMMA ResearchReviewKeepsInv ==
    ASSUME LifecycleInv, NEW s \in Sessions, ResearchReview(s)
    PROVE  LifecycleInv'
<1>1. PICK st \in {"rejected", "lab_watchlist"} :
         Start(s, "research",
               IF row.status = "needs_confirmation" /\ ~row.valid
               THEN [row EXCEPT !.status = st] ELSE row)
  BY DEF ResearchReview
<1> DEFINE new == IF row.status = "needs_confirmation" /\ ~row.valid
                  THEN [row EXCEPT !.status = st] ELSE row
<1>2. new \in Rows
  BY DEF LifecycleInv, TypeOK, Rows, Statuses, LabStates
<1>3. /\ new.status = "director_review" => fills >= 2
      /\ new.status = "production" => row.status = "production"
  BY DEF LifecycleInv, TypeOK, Rows
<1> HIDE DEF new
<1> QED BY <1>1, <1>2, <1>3, StartKeepsInv DEF new, Ops

\* The invariant when the review gate does.
LEMMA RefreshKeepsInv ==
    ASSUME LifecycleInv, NEW s \in Sessions, Refresh(s)
    PROVE  LifecycleInv'
<1>1. PICK clear \in BOOLEAN :
         Start(s, "review",
               IF clear /\ fills >= 2
               THEN [row EXCEPT !.metrics.lab = "clear",
                                !.status = "director_review"]
               ELSE [row EXCEPT !.metrics.lab = "blocked"])
  BY DEF Refresh
<1> DEFINE new == IF clear /\ fills >= 2
                  THEN [row EXCEPT !.metrics.lab = "clear",
                                   !.status = "director_review"]
                  ELSE [row EXCEPT !.metrics.lab = "blocked"]
<1>2. new \in Rows
  BY DEF LifecycleInv, TypeOK, Rows, Statuses, LabStates
<1>3. /\ new.status = "director_review" => fills >= 2
      /\ new.status # "production"
  BY DEF LifecycleInv, TypeOK, Rows, Refresh, LabStates
<1> HIDE DEF new
<1> QED BY <1>1, <1>2, <1>3, StartKeepsInv DEF new, Ops

\* The invariant when the health monitor does.
LEMMA HealthCheckKeepsInv ==
    ASSUME LifecycleInv, NEW s \in Sessions, HealthCheck(s)
    PROVE  LifecycleInv'
<1>1. PICK decays \in BOOLEAN :
         Start(s, "health",
               IF decays THEN [row EXCEPT !.drift = "decaying"] ELSE row)
  BY DEF HealthCheck
<1> DEFINE new == IF decays THEN [row EXCEPT !.drift = "decaying"] ELSE row
<1>2. new \in Rows /\ new.status = row.status
  BY DEF LifecycleInv, TypeOK, Rows, Drifts
<1> HIDE DEF new
<1> QED BY <1>1, <1>2, StartKeepsInv DEF new, Ops, LifecycleInv, TypeOK

\* The invariant when the production gate does.
LEMMA ApprovePatternKeepsInv ==
    ASSUME LifecycleInv, NEW s \in Sessions, ApprovePattern(s)
    PROVE  LifecycleInv'
<1> DEFINE manifest == [version |-> row.version, until |-> now + Horizon]
           signed == [row EXCEPT !.status = "production",
                                 !.metrics.manifest = manifest]
<1>1. Start(s, "approve", row) \/ Start(s, "approve", signed)
  BY DEF ApprovePattern
<1>2. manifest \in Manifests
  BY DEF LifecycleInv, TypeOK, Rows, Manifests
<1> HIDE DEF manifest
<1>3. signed \in Rows /\ signed.status = "production"
  BY <1>2 DEF LifecycleInv, TypeOK, Rows, Statuses
<1> HIDE DEF signed
<1> QED BY <1>1, <1>3, StartKeepsInv DEF Ops, LifecycleInv, TypeOK

(***************************************************************************)
(* The end of a job: what the row becomes was bounded when it was loaded.  *)
(***************************************************************************)
LEMMA EndOfJobKeepsInv ==
    ASSUME LifecycleInv, NEW s \in Sessions, Commit(s) \/ InsertConflict(s)
    PROVE  LifecycleInv'
<1>1. job' = [job EXCEPT ![s] = NoJob] /\ UNCHANGED <<fills, now>>
  BY DEF Commit, InsertConflict
<1>2. row' \in Rows
  BY CommitWrites DEF Commit, InsertConflict, LifecycleInv, TypeOK
<1>3. row'.status = "director_review" => fills >= 2
  BY CommitWrites DEF InsertConflict, LifecycleInv, TypeOK, JobsType
<1>4. \A t \in Sessions : job'[t] = IF t = s THEN NoJob ELSE job[t]
  BY <1>1 DEF LifecycleInv, TypeOK
<1>5. job' \in [Sessions -> Jobs]
  BY <1>1, NoRowType DEF LifecycleInv, TypeOK, Jobs
<1>6. JobsType'
  BY <1>1, <1>4 DEF LifecycleInv, JobsType, NoJob, NoRow
<1> QED BY <1>1, <1>2, <1>3, <1>5, <1>6 DEF LifecycleInv, TypeOK, Jobs

\* Steps of no job: the audit, the fills and the clock.
LEMMA OutsideKeepsInv ==
    ASSUME LifecycleInv, ImportAudit \/ MoreFills \/ Tick
    PROVE  LifecycleInv'
<1>1. CASE ImportAudit
  <2>1. row' \in Rows /\ row'.status = row.status
    BY <1>1 DEF ImportAudit, LifecycleInv, TypeOK, Rows
  <2> QED BY <1>1, <2>1 DEF ImportAudit, LifecycleInv, TypeOK, JobsType
<1>2. CASE MoreFills
  BY <1>2 DEF MoreFills, LifecycleInv, TypeOK, JobsType
<1>3. CASE Tick
  BY <1>3 DEF Tick, LifecycleInv, TypeOK, JobsType
<1> QED BY <1>1, <1>2, <1>3

\* No row and no job.
LEMMA InvInit == Init => LifecycleInv
<1> SUFFICES ASSUME Init PROVE LifecycleInv
  OBVIOUS
<1>1. job \in [Sessions -> Jobs] /\ row \in Rows
  BY NoRowType DEF Init
<1>2. TypeOK
  BY <1>1 DEF Init, TypeOK, Jobs, NoRow
<1>3. JobsType
  BY DEF Init, JobsType, NoJob, NoRow
<1> QED BY <1>2, <1>3 DEF LifecycleInv

\* The invariant is inductive.
LEMMA InvNext == LifecycleInv /\ [Next]_vars => LifecycleInv'
<1> SUFFICES ASSUME LifecycleInv, [Next]_vars PROVE LifecycleInv'
  OBVIOUS
<1>1. ASSUME NEW s \in Sessions,
             \/ Discover(s) \/ ResearchReview(s) \/ Refresh(s)
             \/ HealthCheck(s) \/ ApprovePattern(s)
             \/ Commit(s) \/ InsertConflict(s)
      PROVE  LifecycleInv'
  BY <1>1, DiscoverKeepsInv, ResearchReviewKeepsInv, RefreshKeepsInv,
     HealthCheckKeepsInv, ApprovePatternKeepsInv, EndOfJobKeepsInv
<1>2. CASE ImportAudit \/ MoreFills \/ Tick
  BY <1>2, OutsideKeepsInv
<1>3. CASE UNCHANGED vars
  BY <1>3 DEF vars, LifecycleInv, TypeOK, JobsType
<1> QED BY <1>1, <1>2, <1>3 DEF Next

(***************************************************************************)
(* Whatever jobs overlap, what each of them will write was justified when  *)
(* it was computed.                                                        *)
(***************************************************************************)
THEOREM LifecycleInvariant == Spec => []LifecycleInv
BY InvInit, InvNext, PTL DEF Spec

(***************************************************************************)
(* The row and the jobs keep their shapes, and a pattern under review has  *)
(* the paper fills the review gate asks for, however the commits of other  *)
(* jobs fall in between.                                                   *)
(***************************************************************************)
THEOREM LifecycleTypeCorrect == Spec => []TypeOK
<1>1. LifecycleInv => TypeOK
  BY DEF LifecycleInv
<1> QED BY <1>1, LifecycleInvariant, PTL

(***************************************************************************)
(* The status column becomes production only in a commit of the gate: any  *)
(* other job writes production only over a row it loaded as production,    *)
(* and then the column is not among those it changed.                      *)
(***************************************************************************)
THEOREM OnlyTheGatePromotes == Spec => ProductionOnlyByGate
<1> DEFINE Promoted == row.status # "production" /\ row'.status = "production"
           ByGate == \E s \in Sessions :
                        job[s].op = "approve" /\ job'[s].op = "idle"
<1>1. LifecycleInv /\ [Next]_vars => [Promoted => ByGate]_vars
  <2> SUFFICES ASSUME LifecycleInv, Next, Promoted
               PROVE  ByGate
    OBVIOUS
  <2>1. PICK s \in Sessions : Commit(s)
    <3>1. \A s \in Sessions : ~InsertConflict(s)
      BY DEF InsertConflict
    <3>2. \A s \in Sessions :
             ~(\/ Discover(s) \/ ResearchReview(s) \/ Refresh(s)
               \/ HealthCheck(s) \/ ApprovePattern(s))
      BY DEF Discover, ResearchReview, Refresh, HealthCheck, ApprovePattern, Start
    <3>3. ~ImportAudit /\ ~MoreFills /\ ~Tick
      BY DEF ImportAudit, MoreFills, Tick, LifecycleInv, TypeOK, Rows
    <3> QED BY <3>1, <3>2, <3>3 DEF Next
  <2>2. row \in Rows /\ job[s].new \in Rows /\ job[s].old \in Rows
    BY DEF LifecycleInv, TypeOK
  <2>3. job[s].new.status = "production" /\ job[s].old.status # "production"
    BY <2>1, <2>2, CommitWrites
  <2>4. job[s].op = "approve"
    BY <2>3 DEF LifecycleInv, JobsType
  <2>5. job'[s].op = "idle"
    BY <2>1 DEF Commit, NoJob, LifecycleInv, TypeOK
  <2> QED BY <2>4, <2>5
<1> QED BY <1>1, LifecycleInvariant, PTL DEF Spec, ProductionOnlyByGate

-----------------------------------------------------------------------------
(***************************************************************************)
(* Jobs that do not overlap.  The worker runs them on one scheduler, and   *)
(* nothing else keeps them apart: this is an assumption about a behaviour, *)
(* not about the code.                                                     *)
(***************************************************************************)
OneJobAtATime == \A s, t \in Sessions : Busy(s) /\ Busy(t) => s = t

StageOf(r) ==
    IF ~r.valid \/ r.status \in {"none", "rejected", "needs_confirmation"}
    THEN "research"
    ELSE IF r.status \in LabStates THEN "lab"
    ELSE IF r.status = "director_review" THEN "review"
    ELSE "production"

Signed(r) == r.status = "production" => r.metrics.manifest.version = r.version

\* What one job may make of the row it loaded.
OneRung(o, n) ==
    \/ /\ StageOf(n) \in {"research", "lab"}
       /\ n.version = o.version + 1
       /\ n.metrics.manifest.version = 0
    \/ /\ \/ StageOf(n) = StageOf(o)
          \/ StageOf(o) = "lab" /\ StageOf(n) = "review"
       /\ n.version = o.version
       /\ n.metrics.manifest.version = o.metrics.manifest.version
    \/ /\ StageOf(o) \in {"review", "production"}
       /\ StageOf(n) = "production"
       /\ n.version = o.version
       /\ n.metrics.manifest.version = o.version

\* The audit may have been imported since: everything else is as loaded.
LoadedIsCurrent(o) ==
    /\ o.status = row.status /\ o.valid = row.valid
    /\ o.drift = row.drift /\ o.version = row.version
    /\ o.metrics.manifest = row.metrics.manifest

SerialInv ==
    /\ Signed(row)
    /\ \A s \in Sessions : Busy(s) =>
          /\ LoadedIsCurrent(job[s].old)
          /\ OneRung(job[s].old, job[s].new)
          /\ Signed(job[s].new)

\* A job that loads the row has loaded the current one.
LEMMA StartKeepsSerial ==
    ASSUME LifecycleInv, SerialInv, NEW s \in Sessions, NEW op, NEW new,
           Start(s, op, new), OneRung(row, new), Signed(new)
    PROVE  SerialInv'
<1> DEFINE j == [op |-> op, old |-> row, new |-> new]
<1>1. \A t \in Sessions : job'[t] = IF t = s THEN j ELSE job[t]
  BY DEF Start, LifecycleInv, TypeOK
<1>2. row' = row
  BY DEF Start
<1>3. Signed(row)'
  BY <1>2 DEF SerialInv, Signed
<1>4. ASSUME NEW t \in Sessions, Busy(t)'
      PROVE  (/\ LoadedIsCurrent(job[t].old)
              /\ OneRung(job[t].old, job[t].new)
              /\ Signed(job[t].new))'
  <2>1. CASE t = s
    <3>1. job'[t].old = row /\ job'[t].new = new
      BY <1>1, <2>1
    <3> QED BY <1>2, <3>1 DEF LoadedIsCurrent, OneRung, StageOf, Signed
  <2>2. CASE t # s
    <3>1. job'[t] = job[t]
      BY <1>1, <2>2
    <3> QED BY <1>2, <1>4, <3>1 DEF SerialInv, Busy, LoadedIsCurrent, OneRung,
                                    StageOf, Signed
  <2> QED BY <2>1, <2>2
<1> QED BY <1>3, <1>4 DEF SerialInv

\* What the job will write is one rung away when a discovery run loads the row.
LEMMA DiscoverKeepsSerial ==
    ASSUME LifecycleInv, SerialInv, NEW s \in Sessions, Discover(s)
    PROVE  SerialInv'
<1>1. PICK raw \in RawStatuses, confirm \in BOOLEAN,
           drift \in {"stable", "improving", "degrading"} :
              Start(s, "discover",
                    Discovered(raw, raw \notin {"rejected", "needs_confirmation"},
                               confirm, drift))
  BY DEF Discover
<1> DEFINE valid == raw \notin {"rejected", "needs_confirmation"}
           new == Discovered(raw, valid, confirm, drift)
<1>2. /\ new.version = row.version + 1
      /\ new.valid = valid
      /\ new.metrics.manifest.version = 0
      /\ new.status = CanonicalStatus(raw, valid, confirm)
  BY DEF Discovered, NoMetrics, NoManifest
<1>3. new.status \in LabStates \union {"rejected", "needs_confirmation"}
  BY <1>2 DEF CanonicalStatus, RawStatuses, LabStates
<1>4. StageOf(new) \in {"research", "lab"} /\ Signed(new)
  BY <1>3 DEF StageOf, Signed, LabStates
<1> HIDE DEF new
<1> QED BY <1>1, <1>2, <1>4, StartKeepsSerial DEF new, OneRung

\* What the job will write is one rung away when the director of research does.
LEMMA ResearchReviewKeepsSerial ==
    ASSUME LifecycleInv, SerialInv, NEW s \in Sessions, ResearchReview(s)
    PROVE  SerialInv'
<1>1. PICK st \in {"rejected", "lab_watchlist"} :
         Start(s, "research",
               IF row.status = "needs_confirmation" /\ ~row.valid
               THEN [row EXCEPT !.status = st] ELSE row)
  BY DEF ResearchReview
<1> DEFINE new == IF row.status = "needs_confirmation" /\ ~row.valid
                  THEN [row EXCEPT !.status = st] ELSE row
<1>2. /\ new.version = row.version
      /\ new.valid = row.valid
      /\ new.metrics = row.metrics
      /\ new.status = row.status \/ (~row.valid /\ new.status # "production")
  BY DEF LifecycleInv, TypeOK, Rows
<1>3. StageOf(new) = StageOf(row) /\ Signed(new)
  BY <1>2 DEF StageOf, Signed, SerialInv
<1> HIDE DEF new
<1> QED BY <1>1, <1>2, <1>3, StartKeepsSerial DEF new, OneRung

\* What the job will write is one rung away when the review gate does.
LEMMA RefreshKeepsSerial ==
    ASSUME LifecycleInv, SerialInv, NEW s \in Sessions, Refresh(s)
    PROVE  SerialInv'
<1>1. PICK clear \in BOOLEAN :
         Start(s, "review",
               IF clear /\ fills >= 2
               THEN [row EXCEPT !.metrics.lab = "clear",
                                !.status = "director_review"]
               ELSE [row EXCEPT !.metrics.lab = "blocked"])
  BY DEF Refresh
<1> DEFINE new == IF clear /\ fills >= 2
                  THEN [row EXCEPT !.metrics.lab = "clear",
                                   !.status = "director_review"]
                  ELSE [row EXCEPT !.metrics.lab = "blocked"]
<1>2. /\ new.version = row.version
      /\ new.valid = row.valid
      /\ new.metrics.manifest = row.metrics.manifest
      /\ new.status \in {row.status, "director_review"}
  BY DEF LifecycleInv, TypeOK, Rows
<1>3. row.valid /\ row.status \in LabStates
  BY DEF Refresh
<1>4. /\ StageOf(row) = "lab"
      /\ StageOf(new) \in {"lab", "review"}
      /\ Signed(new)
  BY <1>2, <1>3 DEF StageOf, Signed, LabStates
<1> HIDE DEF new
<1> QED BY <1>1, <1>2, <1>4, StartKeepsSerial DEF new, OneRung

\* What the job will write is one rung away when the health monitor does.
LEMMA HealthCheckKeepsSerial ==
    ASSUME LifecycleInv, SerialInv, NEW s \in Sessions, HealthCheck(s)
    PROVE  SerialInv'
<1>1. PICK decays \in BOOLEAN :
         Start(s, "health",
               IF decays THEN [row EXCEPT !.drift = "decaying"] ELSE row)
  BY DEF HealthCheck
<1> DEFINE new == IF decays THEN [row EXCEPT !.drift = "decaying"] ELSE row
<1>2. /\ new.status = row.status
      /\ new.version = row.version
      /\ new.valid = row.valid
      /\ new.metrics = row.metrics
  BY DEF LifecycleInv, TypeOK, Rows
<1>3. StageOf(new) = StageOf(row) /\ Signed(new)
  BY <1>2 DEF StageOf, Signed, SerialInv
<1> HIDE DEF new
<1> QED BY <1>1, <1>2, <1>3, StartKeepsSerial DEF new, OneRung

\* What the job will write is one rung away when the production gate does.
LEMMA ApprovePatternKeepsSerial ==
    ASSUME LifecycleInv, SerialInv, NEW s \in Sessions, ApprovePattern(s)
    PROVE  SerialInv'
<1> DEFINE manifest == [version |-> row.version, until |-> now + Horizon]
           signed == [row EXCEPT !.status = "production",
                                 !.metrics.manifest = manifest]
<1>1. CASE Start(s, "approve", row)
  BY <1>1, StartKeepsSerial DEF SerialInv, OneRung
<1>2. CASE ProductionGate(TRUE) /\ Start(s, "approve", signed)
  <2>1. row.valid /\ row.status \in {"director_review", "production"}
    BY <1>2 DEF ProductionGate
  <2>2. /\ signed.status = "production"
        /\ signed.version = row.version
        /\ signed.valid = row.valid
        /\ signed.metrics.manifest.version = row.version
    BY DEF LifecycleInv, TypeOK, Rows
  <2>3. /\ StageOf(row) \in {"review", "production"}
        /\ StageOf(signed) = "production"
        /\ Signed(signed)
    BY <2>1, <2>2 DEF StageOf, Signed, LabStates
  <2> HIDE DEF signed
  <2> QED BY <1>2, <2>2, <2>3, StartKeepsSerial DEF OneRung
<1>3. \/ Start(s, "approve", row)
      \/ ProductionGate(TRUE) /\ Start(s, "approve", signed)
  BY DEF ApprovePattern, ProductionGate
<1> QED BY <1>1, <1>2, <1>3

(***************************************************************************)
(* A job that ran alone commits exactly what it computed: the row is still *)
(* the one it loaded, up to the imported audit.                            *)
(***************************************************************************)
LEMMA CommitClimbs ==
    ASSUME LifecycleInv, SerialInv, OneJobAtATime,
           NEW s \in Sessions, Commit(s)
    PROVE  SerialInv' /\ OneRung(row, row')
<1> DEFINE o == job[s].old
           n == job[s].new
<1>1. row \in Rows /\ n \in Rows /\ o \in Rows
  BY DEF LifecycleInv, TypeOK
<1>2. LoadedIsCurrent(o) /\ OneRung(o, n) /\ Signed(n)
  BY DEF Commit, SerialInv, Busy
<1>3. /\ row'.status = n.status
      /\ row'.valid = n.valid
      /\ row'.version = n.version
      /\ row'.metrics = n.metrics
  BY <1>1, <1>2, CommitWrites DEF LoadedIsCurrent
<1>4. StageOf(row) = StageOf(o) /\ StageOf(row') = StageOf(n)
  BY <1>2, <1>3 DEF StageOf, LoadedIsCurrent
<1>5. OneRung(row, row')
  BY <1>2, <1>3, <1>4 DEF OneRung, LoadedIsCurrent
<1>6. Signed(row')
  BY <1>2, <1>3 DEF Signed
<1>7. \A t \in Sessions : ~Busy(t)'
  <2> SUFFICES ASSUME NEW t \in Sessions PROVE ~Busy(t)'
    OBVIOUS
  <2>1. job'[t] = IF t = s THEN NoJob ELSE job[t]
    BY DEF Commit, LifecycleInv, TypeOK
  <2>2. t # s => ~Busy(t)
    BY DEF OneJobAtATime, Commit, Busy
  <2> QED BY <2>1, <2>2 DEF Busy, NoJob
<1>8. SerialInv'
  BY <1>6, <1>7 DEF SerialInv, Signed
<1> QED BY <1>5, <1>8

\* Where the row and its jobs are left alone, but for the audit's mark.
LEMMA AuditKeepsSerial ==
    ASSUME LifecycleInv, SerialInv, UNCHANGED job,
           row' \in {row, [row EXCEPT !.metrics.audit = TRUE]}
    PROVE  SerialInv' /\ OneRung(row, row')
<1>1. /\ row'.status = row.status
      /\ row'.valid = row.valid
      /\ row'.drift = row.drift
      /\ row'.version = row.version
      /\ row'.metrics.manifest = row.metrics.manifest
  BY DEF LifecycleInv, TypeOK, Rows
<1>2. StageOf(row') = StageOf(row)
  BY <1>1 DEF StageOf
<1>3. OneRung(row, row')
  BY <1>1, <1>2 DEF OneRung
<1>4. Signed(row)'
  BY <1>1 DEF Signed, SerialInv
<1>5. ASSUME NEW t \in Sessions, Busy(t)'
      PROVE  (/\ LoadedIsCurrent(job[t].old)
              /\ OneRung(job[t].old, job[t].new)
              /\ Signed(job[t].new))'
  <2>1. /\ LoadedIsCurrent(job[t].old)
        /\ OneRung(job[t].old, job[t].new)
        /\ Signed(job[t].new)
    BY <1>5 DEF SerialInv, Busy
  <2> QED BY <1>1, <2>1 DEF LoadedIsCurrent, OneRung, StageOf, Signed
<1> QED BY <1>3, <1>4, <1>5 DEF SerialInv

\* A failed insert leaves the row alone.
LEMMA ConflictKeepsSerial ==
    ASSUME LifecycleInv, SerialInv, NEW s \in Sessions, InsertConflict(s)
    PROVE  SerialInv'
<1>1. row' = row
  BY DEF InsertConflict
<1>2. ASSUME NEW t \in Sessions, Busy(t)'
      PROVE  (/\ LoadedIsCurrent(job[t].old)
              /\ OneRung(job[t].old, job[t].new)
              /\ Signed(job[t].new))'
  <2>1. job'[t] = job[t]
    BY <1>2 DEF InsertConflict, LifecycleInv, TypeOK, Busy, NoJob
  <2>2. /\ LoadedIsCurrent(job[t].old)
        /\ OneRung(job[t].old, job[t].new)
        /\ Signed(job[t].new)
    BY <1>2, <2>1 DEF SerialInv, Busy
  <2> QED BY <1>1, <2>1, <2>2 DEF LoadedIsCurrent, OneRung, StageOf, Signed
<1> QED BY <1>1, <1>2 DEF SerialInv, Signed

\* While jobs do not overlap, each step is a rung or leaves the row alone.
LEMMA SerialNext ==
    LifecycleInv /\ SerialInv /\ OneJobAtATime /\ [Next]_vars =>
        SerialInv' /\ (OneRung(row, row') \/ row' = row)
<1> SUFFICES ASSUME LifecycleInv, SerialInv, OneJobAtATime, [Next]_vars
             PROVE  SerialInv' /\ (OneRung(row, row') \/ row' = row)
  OBVIOUS
<1>1. ASSUME NEW s \in Sessions,
             \/ Discover(s) \/ ResearchReview(s) \/ Refresh(s)
             \/ HealthCheck(s) \/ ApprovePattern(s)
      PROVE  SerialInv' /\ row' = row
  <2>1. SerialInv'
    BY <1>1, DiscoverKeepsSerial, ResearchReviewKeepsSerial,
       RefreshKeepsSerial, HealthCheckKeepsSerial, ApprovePatternKeepsSerial
  <2>2. row' = row
    BY <1>1 DEF Discover, ResearchReview, Refresh, HealthCheck,
                ApprovePattern, Start
  <2> QED BY <2>1, <2>2
<1>2. ASSUME NEW s \in Sessions, Commit(s) \/ InsertConflict(s)
      PROVE  SerialInv' /\ (OneRung(row, row') \/ row' = row)
  <2>1. CASE Commit(s)
    BY <2>1, CommitClimbs
  <2>2. CASE InsertConflict(s)
    BY <2>2, ConflictKeepsSerial DEF InsertConflict
  <2> QED BY <1>2, <2>1, <2>2
<1>3. CASE ImportAudit \/ MoreFills \/ Tick
  BY <1>3, AuditKeepsSerial DEF ImportAudit, MoreFills, Tick
<1>4. CASE UNCHANGED vars
  BY <1>4, AuditKeepsSerial DEF vars
<1> QED BY <1>1, <1>2, <1>3, <1>4 DEF Next

\* No row is signed, no job is under way.
LEMMA SerialInit == Init => SerialInv
BY DEF Init, SerialInv, Signed, NoRow, NoJob, Busy

\* The two steps as one temporal fact.
LEMMA SerialInvariant == Spec /\ []OneJobAtATime => []SerialInv
BY SerialInit, SerialNext, LifecycleInvariant, PTL DEF Spec

-----------------------------------------------------------------------------
(***************************************************************************)
(* While jobs do not overlap, what Fox Hunter matches carries a manifest   *)
(* for the version of the pattern that Research stored last.               *)
(***************************************************************************)
THEOREM ManifestIsCurrent ==
    Spec /\ []OneJobAtATime => []ManifestOfCurrentVersion
<1>1. SerialInv => ManifestOfCurrentVersion
  BY DEF SerialInv, Signed, ManifestOfCurrentVersion, Matched, ManifestValid
<1> QED BY <1>1, SerialInvariant, PTL

(***************************************************************************)
(* While jobs do not overlap, every commit is a rung of the ladder or      *)
(* leaves the stage, the version and the approval as they were.            *)
(***************************************************************************)
THEOREM LadderImplemented == Spec /\ []OneJobAtATime => ClimbsTheLadder
<1>1. Init => Ladder!Init
  BY DEF Init, Ladder!Init, stageBar, NoRow, NoMetrics, NoManifest
<1>2. OneRung(row, row') \/ row' = row => [Ladder!Next]_Ladder!ladderVars
  <2>1. stageBar = StageOf(row) /\ stageBar' = StageOf(row')
    BY DEF stageBar, StageOf
  <2>2. ASSUME OneRung(row, row')
        PROVE  Ladder!Next \/ UNCHANGED Ladder!ladderVars
    BY <2>1, <2>2 DEF OneRung, Ladder!Next, Ladder!ladderVars,
                      Ladder!Discover, Ladder!SendToReview, Ladder!Approve
  <2>3. ASSUME row' = row
        PROVE  UNCHANGED Ladder!ladderVars
    BY <2>1, <2>3 DEF Ladder!ladderVars
  <2> QED BY <2>2, <2>3
<1>3. LifecycleInv /\ SerialInv /\ OneJobAtATime /\ [Next]_vars =>
         [Ladder!Next]_Ladder!ladderVars
  BY <1>2, SerialNext
<1> QED BY <1>1, <1>3, LifecycleInvariant, SerialInvariant, PTL
        DEF Spec, ClimbsTheLadder, Ladder!Spec

(***************************************************************************)
(* One session has no one to overlap with.                                 *)
(***************************************************************************)
COROLLARY OneSessionClimbs ==
    ASSUME NEW s0, Sessions = {s0}
    PROVE  Spec => ClimbsTheLadder /\ []ManifestOfCurrentVersion
<1>1. OneJobAtATime
  BY DEF OneJobAtATime
<1> QED BY <1>1, ManifestIsCurrent, LadderImplemented, PTL

=============================================================================
