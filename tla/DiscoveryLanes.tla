--------------------------- MODULE DiscoveryLanes ---------------------------
(***************************************************************************)
(* services/daily_discovery_orchestrator.py: one discovery run at a time   *)
(* per lane (a cap segment of the daily universe), whoever starts it: the  *)
(* scheduler's job or the API, in processes of their own.  A lane is       *)
(* guarded three times: a threading.Lock of the process, an advisory lock  *)
(* of Postgres, and a look at the rows of discovery_runs.  The agent's run *)
(* (agents/pattern_discovery_lab_agent.py) writes its row as running,      *)
(* commits many times, and ends it; services/watchdog.py closes the rows   *)
(* that a dead process left running.                                       *)
(*                                                                         *)
(* pg_try_advisory_lock belongs to a CONNECTION, and a SQLAlchemy session  *)
(* gives its connection back to the pool at every commit and takes one     *)
(* again, first in first out, at its next statement.  Pools, connections   *)
(* and what they hold are therefore part of the state.                     *)
(***************************************************************************)
EXTENDS Integers, Sequences, FiniteSets

CONSTANTS
    Procs,       \* processes, each with a pool of connections
    Runners,     \* threads that run segments
    ProcOf,      \* the process of each runner
    Pool,        \* Pool[p]: the connections of a process, in their order
    Lanes,       \* daily cap segments
    MaxRuns,     \* bound: rows of discovery_runs
    MaxCrashes,  \* bound: process deaths
    MaxDrops     \* bound: connections replaced while idle

ConnsOf(p) == {Pool[p][i] : i \in DOMAIN Pool[p]}
Conns == UNION {ConnsOf(p) : p \in Procs}
RunIds == 1..MaxRuns
None == "none"

\* Every connection has one place in one pool.
ASSUME LaneAssumption ==
    /\ ProcOf \in [Runners -> Procs]
    /\ Pool \in [Procs -> Seq(Conns)]
    /\ \A p, q \in Procs : \A i \in DOMAIN Pool[p], j \in DOMAIN Pool[q] :
          Pool[p][i] = Pool[q][j] => p = q /\ i = j
    /\ None \notin Conns
    /\ MaxRuns \in Nat /\ MaxCrashes \in Nat /\ MaxDrops \in Nat

VARIABLES
    laneLock,   \* _LANE_LOCKS: the <<process, lane>> that are locked
    pool,       \* idle connections of each process, the next one first
    adv,        \* adv[c][l]: how often connection c holds l's advisory lock
    runs,       \* discovery_runs
    rn,         \* each runner's program counter and session
    watch,      \* the rows the watchdog has read and will close
    crashes,
    drops

vars == <<laneLock, pool, adv, runs, rn, watch, crashes, drops>>

NoRun == [st |-> None, lane |-> None, old |-> FALSE]

\* conn: the connection of the open transaction; guarded: the rows were
\* looked at; lanes: the run came through the orchestrator.
Idle == [pc |-> "idle", lane |-> None, conn |-> None, run |-> 0,
         guarded |-> FALSE, lanes |-> FALSE]

\* Rows, sessions and pools keep their shapes, and a connection is idle in its
\* pool or serves one session, never both and never two.
TypeOK ==
    /\ laneLock \subseteq Procs \X Lanes
    /\ adv \in [Conns -> [Lanes -> Nat]]
    /\ runs \in [RunIds -> [st : {None, "running", "completed", "failed"},
                            lane : Lanes \union {None}, old : BOOLEAN]]
    /\ rn \in [Runners -> [pc : {"idle", "lane", "held", "looked", "live",
                                 "ended"},
                           lane : Lanes \union {None},
                           conn : Conns \union {None}, run : 0..MaxRuns,
                           guarded : BOOLEAN, lanes : BOOLEAN]]
    /\ watch \subseteq RunIds
    /\ \A p \in Procs : \A c \in ConnsOf(p) :
          Cardinality({i \in DOMAIN pool[p] : pool[p][i] = c})
             + Cardinality({r \in Runners : rn[r].conn = c}) = 1

Init ==
    /\ laneLock = {}
    /\ pool = Pool
    /\ adv = [c \in Conns |-> [l \in Lanes |-> 0]]
    /\ runs = [i \in RunIds |-> NoRun]
    /\ rn = [r \in Runners |-> Idle]
    /\ watch = {}
    /\ crashes = 0 /\ drops = 0

Proc(r) == ProcOf[r]

\* A commit returns c to the pool of p; the next statement takes the first.
Returned(p, c) == Append(pool[p], c)

(***************************************************************************)
(* _run_segment: the process's lock without waiting (a busy lane is        *)
(* skipped), then the advisory lock on the connection a new session gets.  *)
(***************************************************************************)
RunSegment(r, l) ==
    /\ rn[r].pc = "idle"
    /\ <<Proc(r), l>> \notin laneLock
    /\ laneLock' = laneLock \union {<<Proc(r), l>>}
    /\ rn' = [rn EXCEPT ![r] = [Idle EXCEPT !.pc = "lane", !.lane = l,
                                            !.lanes = TRUE]]
    /\ UNCHANGED <<pool, adv, runs, watch, crashes, drops>>

\* Granted unless another connection holds it; a connection may take it again.
Granted(c, l) == \A d \in Conns \ {c} : adv[d][l] = 0

\* The segment ends: the session is closed and the process's lock released.
Leave(r) ==
    /\ laneLock' = laneLock \ {<<Proc(r), rn[r].lane>>}
    /\ rn' = [rn EXCEPT ![r] = Idle]

TryAdvisoryLock(r) ==
    LET p == Proc(r)
        l == rn[r].lane
        c == Head(pool[p])
    IN
    /\ rn[r].pc = "lane"
    /\ pool[p] # <<>>
    /\ IF Granted(c, l)
       THEN /\ adv' = [adv EXCEPT ![c][l] = @ + 1]
            /\ pool' = [pool EXCEPT ![p] = Tail(@)]
            /\ rn' = [rn EXCEPT ![r].pc = "held", ![r].conn = c]
            /\ UNCHANGED laneLock
       ELSE /\ pool' = [pool EXCEPT ![p] = Append(Tail(@), c)]
            /\ Leave(r)
            /\ UNCHANGED adv
    /\ UNCHANGED <<runs, watch, crashes, drops>>

RowsOf(l, st) == {i \in RunIds : runs[i].lane = l /\ runs[i].st = st}

Unlocked(c, l) ==
    [adv EXCEPT ![c][l] = IF @ > 0 THEN @ - 1 ELSE @]

(***************************************************************************)
(* _existing_run_skip looks for rows of the lane, in the first transaction *)
(* of the session; the row of the new run is inserted later in it.         *)
(***************************************************************************)
ExistingRunSkip(r) ==
    /\ rn[r].pc = "held"
    /\ RowsOf(rn[r].lane, "running") \union RowsOf(rn[r].lane, "completed") # {}
    /\ adv' = Unlocked(rn[r].conn, rn[r].lane)
    /\ pool' = [pool EXCEPT ![Proc(r)] = Returned(Proc(r), rn[r].conn)]
    /\ Leave(r)
    /\ UNCHANGED <<runs, watch, crashes, drops>>

\* force: the request said skip_running = false.
Look(r, force) ==
    /\ rn[r].pc = "held"
    /\ force \/ RowsOf(rn[r].lane, "running") = {}
    /\ rn' = [rn EXCEPT ![r].pc = "looked", ![r].guarded = ~force]
    /\ UNCHANGED <<laneLock, pool, adv, runs, watch, crashes, drops>>

\* Mutant: the session goes on with another connection.
LoseConnectionUnnoticed(r) ==
    /\ rn[r].pc \in {"held", "looked"}
    /\ drops < MaxDrops
    /\ drops' = drops + 1
    /\ adv' = [adv EXCEPT ![rn[r].conn] = [l \in Lanes |-> 0]]
    /\ UNCHANGED <<laneLock, pool, runs, rn, watch, crashes>>

\* The connection breaks before the row is committed: the exception ends the
\* segment, the server drops the locks, the pool replaces the connection.
LoseConnection(r) ==
    /\ rn[r].pc \in {"held", "looked"}
    /\ drops < MaxDrops
    /\ drops' = drops + 1
    /\ adv' = [adv EXCEPT ![rn[r].conn] = [l \in Lanes |-> 0]]
    /\ pool' = [pool EXCEPT ![Proc(r)] = Returned(Proc(r), rn[r].conn)]
    /\ Leave(r)
    /\ UNCHANGED <<runs, watch, crashes>>

(***************************************************************************)
(* The agent's run: the row is inserted and committed, read back on the    *)
(* next connection, and the session goes on committing as it works.        *)
(***************************************************************************)
NextRunId == Cardinality({i \in RunIds : runs[i].st # None}) + 1

Inserted(l) == [runs EXCEPT ![NextRunId] = [st |-> "running", lane |-> l,
                                            old |-> FALSE]]

\* Mutant: the session keeps the connection it returned.
RecycledKept(r, c) ==
    /\ pool' = [pool EXCEPT ![Proc(r)] = Returned(Proc(r), c)]
    /\ UNCHANGED rn

\* The session's connection after it returned c.
Recycled(r, c) ==
    /\ pool' = [pool EXCEPT ![Proc(r)] = Tail(Returned(Proc(r), c))]
    /\ rn' = [rn EXCEPT ![r].conn = Head(Returned(Proc(r), c))]

StartedRun(r) ==
    /\ runs' = Inserted(rn[r].lane)
    /\ LET q == Returned(Proc(r), rn[r].conn) IN
       /\ pool' = [pool EXCEPT ![Proc(r)] = Tail(q)]
       /\ rn' = [rn EXCEPT ![r].pc = "live", ![r].run = NextRunId,
                           ![r].conn = Head(q)]

\* Mutant: a lock of the transaction, which the first commit releases.
StartRunXactLock(r) ==
    /\ rn[r].pc = "looked"
    /\ NextRunId \in RunIds
    /\ StartedRun(r)
    /\ adv' = Unlocked(rn[r].conn, rn[r].lane)
    /\ UNCHANGED <<laneLock, watch, crashes, drops>>

StartRun(r) ==
    /\ rn[r].pc = "looked"
    /\ NextRunId \in RunIds
    /\ StartedRun(r)
    /\ UNCHANGED <<laneLock, adv, watch, crashes, drops>>

\* POST /research/run-discovery starts the agent with neither lock nor look.
DirectRun(r, l) ==
    /\ rn[r].pc = "idle"
    /\ NextRunId \in RunIds
    /\ pool[Proc(r)] # <<>>
    /\ runs' = Inserted(l)
    /\ LET q == Append(Tail(pool[Proc(r)]), Head(pool[Proc(r)])) IN
       /\ pool' = [pool EXCEPT ![Proc(r)] = Tail(q)]
       /\ rn' = [rn EXCEPT ![r] = [Idle EXCEPT !.pc = "live", !.lane = l,
                                               !.run = NextRunId,
                                               !.conn = Head(q)]]
    /\ UNCHANGED <<laneLock, adv, watch, crashes, drops>>

\* A commit in the middle of the run: audits, candidates, director.
Checkpoint(r) ==
    /\ rn[r].pc = "live"
    /\ Len(pool[Proc(r)]) > 0
    /\ Recycled(r, rn[r].conn)
    /\ UNCHANGED <<laneLock, adv, runs, watch, crashes, drops>>

\* The last commit writes the status whatever the row has become.
EndRun(r, st) ==
    /\ rn[r].pc = "live"
    /\ runs' = [runs EXCEPT ![rn[r].run].st = st]
    /\ LET q == Returned(Proc(r), rn[r].conn) IN
       IF rn[r].lanes
       THEN /\ pool' = [pool EXCEPT ![Proc(r)] = Tail(q)]
            /\ rn' = [rn EXCEPT ![r].pc = "ended", ![r].conn = Head(q)]
       ELSE /\ pool' = [pool EXCEPT ![Proc(r)] = q]
            /\ rn' = [rn EXCEPT ![r] = Idle]
    /\ UNCHANGED <<laneLock, adv, watch, crashes, drops>>

\* The session is broken: the handler's own commit fails, and so does the
\* unlock; the row stays running.
EndRunUnrecorded(r) ==
    /\ rn[r].pc = "live"
    /\ pool' = [pool EXCEPT ![Proc(r)] = Returned(Proc(r), rn[r].conn)]
    /\ IF rn[r].lanes THEN Leave(r)
       ELSE rn' = [rn EXCEPT ![r] = Idle] /\ UNCHANGED laneLock
    /\ UNCHANGED <<adv, runs, watch, crashes, drops>>

\* _release_pg_advisory_lock, on whatever connection the session now has; a
\* connection that does not hold the lock answers false.
ReleaseAdvisoryLock(r) ==
    /\ rn[r].pc = "ended"
    /\ adv' = Unlocked(rn[r].conn, rn[r].lane)
    /\ pool' = [pool EXCEPT ![Proc(r)] = Returned(Proc(r), rn[r].conn)]
    /\ Leave(r)
    /\ UNCHANGED <<runs, watch, crashes, drops>>

(***************************************************************************)
(* SystemWatchdog.repair: the running rows that are too old are read, and  *)
(* closed in a later commit.                                               *)
(***************************************************************************)
\* Mutant: the rows that are young enough are taken for stale.
FreshRuns == {i \in RunIds : runs[i].st = "running" /\ ~runs[i].old}

StaleRuns == {i \in RunIds : runs[i].st = "running" /\ runs[i].old}

WatchdogInspect ==
    /\ watch = {}
    /\ StaleRuns # {}
    /\ watch' = StaleRuns
    /\ UNCHANGED <<laneLock, pool, adv, runs, rn, crashes, drops>>

WatchdogRepair ==
    /\ watch # {}
    /\ runs' = [i \in RunIds |-> IF i \in watch
                                 THEN [runs[i] EXCEPT !.st = "failed"]
                                 ELSE runs[i]]
    /\ watch' = {}
    /\ UNCHANGED <<laneLock, pool, adv, rn, crashes, drops>>

\* watchdog_stale_discovery_minutes pass, whether or not the run still lives.
RunAges(i) ==
    /\ runs[i].st = "running" /\ ~runs[i].old
    /\ runs' = [runs EXCEPT ![i].old = TRUE]
    /\ UNCHANGED <<laneLock, pool, adv, rn, watch, crashes, drops>>

(***************************************************************************)
(* The rest of the process: other sessions take and return connections,    *)
(* idle ones are replaced (pool_pre_ping, overflow), processes die.        *)
(***************************************************************************)
OtherSession(p) ==
    /\ Len(pool[p]) > 1
    /\ pool' = [pool EXCEPT ![p] = Append(Tail(@), Head(@))]
    /\ UNCHANGED <<laneLock, adv, runs, rn, watch, crashes, drops>>

DropConnection(p) ==
    /\ drops < MaxDrops
    /\ pool[p] # <<>>
    /\ adv' = [adv EXCEPT ![Head(pool[p])] = [l \in Lanes |-> 0]]
    /\ drops' = drops + 1
    /\ UNCHANGED <<laneLock, pool, runs, rn, watch, crashes>>

Crash(p) ==
    /\ crashes < MaxCrashes
    /\ crashes' = crashes + 1
    /\ laneLock' = {k \in laneLock : k[1] # p}
    /\ pool' = [pool EXCEPT ![p] = Pool[p]]
    /\ adv' = [c \in Conns |-> IF c \in ConnsOf(p) THEN [l \in Lanes |-> 0]
                               ELSE adv[c]]
    /\ rn' = [r \in Runners |-> IF Proc(r) = p THEN Idle ELSE rn[r]]
    /\ UNCHANGED <<runs, watch, drops>>

RunnerStep(r) ==
    \/ TryAdvisoryLock(r)
    \/ ExistingRunSkip(r)
    \/ \E force \in BOOLEAN : Look(r, force)
    \/ LoseConnection(r)
    \/ StartRun(r)
    \/ \E st \in {"completed", "failed"} : EndRun(r, st)
    \/ EndRunUnrecorded(r)
    \/ ReleaseAdvisoryLock(r)

Next ==
    \/ \E r \in Runners :
          \/ RunnerStep(r)
          \/ Checkpoint(r)
          \/ \E l \in Lanes : RunSegment(r, l) \/ DirectRun(r, l)
    \/ WatchdogInspect
    \/ WatchdogRepair
    \/ \E i \in RunIds : RunAges(i)
    \/ \E p \in Procs : OtherSession(p) \/ DropConnection(p) \/ Crash(p)

Spec == Init /\ [][Next]_vars

\* The watchdog is a job on an interval and rows grow old.  Nothing is assumed
\* of the runs: one may hang for ever.
FairSpec ==
    /\ Spec
    /\ WF_vars(WatchdogInspect)
    /\ WF_vars(WatchdogRepair)
    /\ \A i \in RunIds : WF_vars(RunAges(i))

-----------------------------------------------------------------------------
Live(r) == rn[r].pc = "live"

(***************************************************************************)
(* Two runs of one lane never both look alive: of two live runs that came  *)
(* through the orchestrator and looked for a running row, at most one has  *)
(* its row still running, in any processes, with connections (and their    *)
(* locks) lost in between.  A second run needs the watchdog to have closed *)
(* the row of the first.                                                   *)
(***************************************************************************)
LaneExclusive ==
    \A r, s \in Runners :
        /\ r # s
        /\ Live(r) /\ Live(s)
        /\ rn[r].guarded /\ rn[s].guarded
        /\ rn[r].lane = rn[s].lane
        => \E q \in {r, s} : runs[rn[q].run].st # "running"

(***************************************************************************)
(* The advisory lock lasts as long as the run, through all the commits     *)
(* that hand its connection to others: while no connection was lost, some  *)
(* connection of the process holds the lane of its live run, and none of   *)
(* another process does.                                                   *)
(***************************************************************************)
LockCoversRun ==
    \A r \in Runners :
        drops = 0 /\ Live(r) /\ rn[r].lanes =>
            /\ \E c \in ConnsOf(Proc(r)) : adv[c][rn[r].lane] > 0
            /\ \A p \in Procs \ {Proc(r)} : \A c \in ConnsOf(p) :
                  adv[c][rn[r].lane] = 0

(***************************************************************************)
(* No row stays running for ever: whatever hung, died or failed to record  *)
(* its end, the watchdog closes it, so that the lane is not refused for    *)
(* ever by _existing_run_skip.                                             *)
(***************************************************************************)
RunsEnd == \A i \in RunIds : runs[i].st = "running" ~> runs[i].st # "running"

(***************************************************************************)
(* A lane that nobody works on is free: its lock does not outlive the run. *)
(* test_daily_discovery_orchestrator.py runs the same lanes twice in a row *)
(* and expects "completed" both times.                                     *)
(***************************************************************************)
LaneFreedAfterRun ==
    \A l \in Lanes :
        (\A r \in Runners : rn[r].lane # l) => \A c \in Conns : adv[c][l] = 0

=============================================================================
