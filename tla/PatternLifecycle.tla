-------------------------- MODULE PatternLifecycle --------------------------
(***************************************************************************)
(* The row of one discovered pattern and the jobs that write it: the       *)
(* registry of a discovery run (novel_pattern_registry.py), the research   *)
(* director (autonomous_research_director.py), the review and production   *)
(* gates (director_review_gate.py) and the health monitor                  *)
(* (pattern_health_monitor.py); and the readers that decide from it, the   *)
(* matcher and the production manifest.                                    *)
(*                                                                         *)
(* A job loads the row, computes, and commits later.  The ORM writes the   *)
(* columns whose value changed since the load, so another job's commit in  *)
(* between survives in the other columns; metrics_json is one column, read *)
(* and written whole.                                                      *)
(***************************************************************************)
EXTENDS Integers, FiniteSets

CONSTANTS
    Sessions,     \* database sessions of the worker's threads and of the API
    MaxVersions,  \* bound: discovery runs that store the pattern
    MaxTime,      \* bound: manifest lifetimes (90 days) that pass
    Horizon       \* expires_at - approved_at, in those units

ASSUME LifecycleAssumption ==
    /\ MaxVersions \in Nat /\ MaxTime \in Nat
    /\ Horizon \in Nat \ {0}

VARIABLES
    row,     \* the row of discovered_patterns
    job,     \* what each session has loaded, and will write
    fills,   \* closed IBKR paper fills: below 8, below 10, below 30, more
    now      \* time

vars == <<row, job, fills, now>>

LabStates == {"lab", "lab_watchlist", "lab_candidate"}
Statuses == LabStates \union {"none", "needs_confirmation", "director_review",
                              "production", "rejected"}

\* What discovery may ask for, in metrics["promotion_status"].
RawStatuses == LabStates \union {"rejected", "needs_confirmation", "production"}

Drifts == {"stable", "improving", "degrading", "decaying"}
BlockedDrifts == {"degrading", "decaying"}

NoManifest == [version |-> 0, until |-> 0]

\* metrics_json: the version it describes, drift_status, the audit's contracts,
\* lab_execution's promotion_blockers, and the production manifest.
NoMetrics == [drift |-> "stable", audit |-> FALSE, lab |-> "none",
              manifest |-> NoManifest]

NoRow == [status |-> "none", valid |-> FALSE, drift |-> "stable",
          version |-> 0, metrics |-> NoMetrics]

Columns == {"status", "valid", "drift", "version", "metrics"}

Manifests == [version : 0..MaxVersions, until : 0..(MaxTime + Horizon)]
Rows == [status : Statuses, valid : BOOLEAN, drift : Drifts,
         version : 0..MaxVersions,
         metrics : [drift : Drifts, audit : BOOLEAN,
                    lab : {"none", "blocked", "clear"}, manifest : Manifests]]

NoJob == [op |-> "idle", old |-> NoRow, new |-> NoRow]
Ops == {"idle", "discover", "research", "review", "health", "approve"}

TypeOK ==
    /\ row \in Rows
    /\ job \in [Sessions -> [op : Ops, old : Rows, new : Rows]]
    /\ fills \in 0..3
    /\ now \in 0..MaxTime
    /\ row.status = "director_review" => fills >= 2

Init ==
    /\ row = NoRow
    /\ job = [s \in Sessions |-> NoJob]
    /\ fills = 0
    /\ now = 0

Start(s, op, new) ==
    /\ job[s].op = "idle"
    /\ job' = [job EXCEPT ![s] = [op |-> op, old |-> row, new |-> new]]
    /\ UNCHANGED <<row, fills, now>>

Changed(j) == {c \in Columns : j.new[c] # j.old[c]} \union {"metrics"}

Commit(s) ==
    /\ job[s].op # "idle"
    /\ job[s].old.status = "none" => row.status = "none"
    /\ row' = [c \in Columns |->
                 IF c \in Changed(job[s]) THEN job[s].new[c] ELSE row[c]]
    /\ job' = [job EXCEPT ![s] = NoJob]
    /\ UNCHANGED <<fills, now>>

\* The unique pattern_key: the later of two inserts fails, and its run with it.
InsertConflict(s) ==
    /\ job[s].op # "idle"
    /\ job[s].old.status = "none" /\ row.status # "none"
    /\ job' = [job EXCEPT ![s] = NoJob]
    /\ UNCHANGED <<row, fills, now>>

-----------------------------------------------------------------------------
\* Mutant: a production status asked for by Research is taken over.
CanonicalStatusAsAsked(raw, valid, confirm) == raw

\* _canonical_promotion_status.
CanonicalStatus(raw, valid, confirm) ==
    IF raw = "production" THEN IF valid THEN "lab_candidate" ELSE "rejected"
    ELSE IF confirm /\ raw = "rejected" THEN "needs_confirmation"
    ELSE raw

\* Mutant: a production pattern keeps its status and its old metrics.
DiscoveredKeepsProduction(raw, valid, confirm, drift) ==
    [row EXCEPT !.version = @ + 1, !.drift = drift,
                !.valid = valid \/ row.status = "production",
                !.status = IF row.status = "production" THEN @
                           ELSE CanonicalStatus(raw, valid, confirm)]

\* _prepare_candidate: every column is assigned from the candidate, the
\* metrics too; the drift compares its expectancy with the row's.
Discovered(raw, valid, confirm, drift) ==
    [status |-> CanonicalStatus(raw, valid, confirm),
     valid |-> valid,
     drift |-> drift,
     version |-> row.version + 1,
     metrics |-> [NoMetrics EXCEPT !.drift = drift]]

Discover(s) ==
    /\ row.version < MaxVersions
    /\ \E raw \in RawStatuses, confirm \in BOOLEAN,
          drift \in {"stable", "improving", "degrading"} :
          LET valid == raw \notin {"rejected", "needs_confirmation"} IN
          /\ row.status = "none" => drift = "stable"
          /\ Start(s, "discover", Discovered(raw, valid, confirm, drift))

\* ResearchDirector.run: the metrics are written back; a pattern that waits
\* for confirmation is resolved.
ResearchReview(s) ==
    /\ row.status # "none"
    /\ \E st \in {"rejected", "lab_watchlist"} :
          Start(s, "research",
                IF row.status = "needs_confirmation" /\ ~row.valid
                THEN [row EXCEPT !.status = st] ELSE row)

\* Mutant: the number of fills is not compared.
RefreshAnyFills(s) ==
    /\ row.valid
    /\ row.status \in LabStates
    /\ Start(s, "review", [row EXCEPT !.metrics.lab = "clear",
                                     !.status = "director_review"])

\* DirectorReviewGate.refresh; clear: what the statistics of the fills say.
Refresh(s) ==
    /\ row.valid
    /\ row.status \in LabStates
    /\ \E clear \in BOOLEAN :
          Start(s, "review",
                IF clear /\ fills >= 2
                THEN [row EXCEPT !.metrics.lab = "clear",
                                 !.status = "director_review"]
                ELSE [row EXCEPT !.metrics.lab = "blocked"])

\* PatternHealthMonitor.run; decays: the CUSUM of the fills triggered.
HealthCheck(s) ==
    /\ row.status \in {"production", "director_review"}
    /\ fills >= 1
    /\ \E decays \in BOOLEAN :
          Start(s, "health",
                IF decays THEN [row EXCEPT !.drift = "decaying"] ELSE row)

\* Mutant: a pattern that is not under review passes the gate.
ProductionGateAnyStatus(clear) ==
    /\ row.valid
    /\ fills >= 3 /\ clear
    /\ row.metrics.audit
    /\ row.metrics.lab # "blocked"
    /\ row.metrics.drift # "degrading"

\* evaluate_pattern and _scientific_contracts: no blockers.  The drift of the
\* metrics comes before the column's.
ProductionGate(clear) ==
    /\ row.valid
    /\ row.status \in {"director_review", "production"}
    /\ fills >= 3 /\ clear
    /\ row.metrics.audit
    /\ row.metrics.lab # "blocked"
    /\ row.metrics.drift # "degrading"

\* approve_pattern; build_production_manifest raises on a blocked drift, and
\* then nothing is written.
ApprovePattern(s) ==
    /\ row.status # "none"
    /\ \E clear \in BOOLEAN :
          IF ~ProductionGate(clear) THEN Start(s, "approve", row)
          ELSE /\ row.drift \notin BlockedDrifts
               /\ Start(s, "approve",
                        [row EXCEPT !.status = "production",
                                    !.metrics.manifest =
                                       [version |-> row.version,
                                        until |-> now + Horizon]])

\* The audit's result is imported into the metrics (external).
ImportAudit ==
    /\ row.status # "none"
    /\ row' = [row EXCEPT !.metrics.audit = TRUE]
    /\ UNCHANGED <<job, fills, now>>

\* More paper fills of the pattern close.
MoreFills ==
    /\ row.status # "none"
    /\ fills < 3
    /\ fills' = fills + 1
    /\ UNCHANGED <<row, job, now>>

Tick ==
    /\ now < MaxTime
    /\ now' = now + 1
    /\ UNCHANGED <<row, job, fills>>

Next ==
    \/ \E s \in Sessions :
          \/ Discover(s) \/ ResearchReview(s) \/ Refresh(s)
          \/ HealthCheck(s) \/ ApprovePattern(s)
          \/ Commit(s) \/ InsertConflict(s)
    \/ ImportAudit \/ MoreFills \/ Tick

Spec == Init /\ [][Next]_vars

-----------------------------------------------------------------------------
\* production_manifest_status.
ManifestValid ==
    /\ row.status = "production"
    /\ row.drift \notin BlockedDrifts
    /\ row.metrics.manifest.until > now

\* match_current: the patterns a module's scan matches.
Matched(module) ==
    /\ row.valid
    /\ IF module = "fox_hunter" THEN ManifestValid
       ELSE row.status \in LabStates \union {"director_review"}

(***************************************************************************)
(* Research cannot mark anything as production: the status becomes         *)
(* production in a commit of the production gate only, whatever a          *)
(* candidate's metrics ask for and whatever other jobs commit in between.  *)
(***************************************************************************)
ProductionOnlyByGate ==
    [][row.status # "production" /\ row'.status = "production" =>
          \E s \in Sessions : job[s].op = "approve" /\ job'[s].op = "idle"]_vars

(***************************************************************************)
(* What Fox Hunter trades is what the Director approved: a pattern that is *)
(* matched for production carries a manifest for the version of it that    *)
(* Research stored last, not for an earlier one with another shape.        *)
(***************************************************************************)
ManifestOfCurrentVersion ==
    Matched("fox_hunter") => row.metrics.manifest.version = row.version

(***************************************************************************)
(* Decay is one-way: the mark leaves the row only with the Director's      *)
(* decision, never with a scheduled discovery run.                         *)
(***************************************************************************)
DecayOneWay ==
    [][row.drift = "decaying" /\ row'.drift # "decaying" =>
          \E s \in Sessions : job[s].op = "approve" /\ job'[s].op = "idle"]_vars

(***************************************************************************)
(* The matcher generates no signal for a decaying pattern, in any module.  *)
(***************************************************************************)
DecayingNotMatched ==
    row.drift = "decaying" => ~Matched("laboratory") /\ ~Matched("fox_hunter")

-----------------------------------------------------------------------------
stageBar ==
    IF ~row.valid \/ row.status \in {"none", "rejected", "needs_confirmation"}
    THEN "research"
    ELSE IF row.status \in LabStates THEN "lab"
    ELSE IF row.status = "director_review" THEN "review"
    ELSE "production"

Ladder == INSTANCE PromotionLadder
            WITH stage <- stageBar, version <- row.version,
                 approved <- row.metrics.manifest.version

(***************************************************************************)
(* The jobs implement the ladder of promotions when each commits before    *)
(* the next one loads the row.                                             *)
(***************************************************************************)
ClimbsTheLadder == Ladder!Spec

=============================================================================
