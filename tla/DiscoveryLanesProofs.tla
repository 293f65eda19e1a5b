------------------------ MODULE DiscoveryLanesProofs ------------------------
(***************************************************************************)
(* Theorems about DiscoveryLanes, for every number of processes, threads   *)
(* and lanes, pools of any size and any number of deaths and of lost       *)
(* connections: the shapes, at most one run of a lane that looks alive, and *)
(* the lane's lock held for as long as the run.                            *)
(***************************************************************************)
EXTENDS DiscoveryLanes, FiniteSetTheorems, TLAPS

-----------------------------------------------------------------------------
\* A connection is put back at the end of the queue.
LEMMA PutBack ==
    ASSUME NEW S, NEW q \in Seq(S), NEW x \in S
    PROVE  /\ Append(q, x) \in Seq(S)
           /\ Append(q, x) # <<>>
           /\ Range(Append(q, x)) = Range(q) \union {x}
           /\ IsInjective(q) /\ x \notin Range(q) => IsInjective(Append(q, x))
<1>1. /\ Append(q, x) \in Seq(S)
      /\ Len(Append(q, x)) = Len(q) + 1
      /\ DOMAIN Append(q, x) = 1..(Len(q) + 1) /\ DOMAIN q = 1..Len(q)
      /\ \A i \in 1..Len(q) : Append(q, x)[i] = q[i]
      /\ Append(q, x)[Len(q) + 1] = x
      /\ Len(q) \in Nat
  OBVIOUS
<1> HIDE DEF Range
<1>2. Range(Append(q, x)) = Range(q) \union {x}
  BY <1>1 DEF Range
<1>3. IsInjective(q) /\ x \notin Range(q) => IsInjective(Append(q, x))
  BY <1>1 DEF Range, IsInjective
<1>4. Append(q, x) # <<>>
  BY <1>1
<1> QED BY <1>1, <1>2, <1>3, <1>4

\* The next connection is taken from the front.
LEMMA TakeFirst ==
    ASSUME NEW S, NEW q \in Seq(S), q # <<>>
    PROVE  /\ Tail(q) \in Seq(S)
           /\ Head(q) \in S /\ Head(q) \in Range(q)
           /\ Range(q) = Range(Tail(q)) \union {Head(q)}
           /\ IsInjective(q) => IsInjective(Tail(q)) /\ Head(q) \notin Range(Tail(q))
<1>1. /\ Tail(q) \in Seq(S)
      /\ DOMAIN Tail(q) = 1..(Len(q) - 1) /\ DOMAIN q = 1..Len(q)
      /\ \A i \in 1..(Len(q) - 1) : Tail(q)[i] = q[i + 1]
      /\ Head(q) = q[1] /\ Len(q) \in Nat /\ Len(q) >= 1
  OBVIOUS
<1>2. Head(q) \in S /\ Head(q) \in Range(q)
  BY <1>1 DEF Range
<1>3. Range(q) = Range(Tail(q)) \union {Head(q)}
  <2>1. ASSUME NEW i \in 1..Len(q)
        PROVE  q[i] \in Range(Tail(q)) \union {Head(q)}
    <3>1. CASE i = 1
      BY <1>1, <3>1
    <3>2. CASE i # 1
      <4>1. i - 1 \in 1..(Len(q) - 1) /\ Tail(q)[i - 1] = q[i]
        BY <1>1, <3>2
      <4> QED BY <1>1, <4>1 DEF Range
    <3> QED BY <3>1, <3>2
  <2>2. ASSUME NEW i \in 1..(Len(q) - 1)
        PROVE  Tail(q)[i] \in Range(q)
    BY <1>1 DEF Range
  <2> QED BY <1>1, <1>2, <2>1, <2>2 DEF Range
<1>4. IsInjective(q) => IsInjective(Tail(q)) /\ Head(q) \notin Range(Tail(q))
  BY <1>1 DEF Range, IsInjective
<1> QED BY <1>1, <1>2, <1>3, <1>4

-----------------------------------------------------------------------------
RunnerType == [pc : {"idle", "lane", "held", "looked", "live", "ended"},
               lane : Lanes \union {None}, conn : Conns \union {None},
               run : 0..MaxRuns, guarded : BOOLEAN, lanes : BOOLEAN]
RunType == [st : {None, "running", "completed", "failed"},
            lane : Lanes \union {None}, old : BOOLEAN]

Shapes ==
    /\ laneLock \subseteq Procs \X Lanes
    /\ adv \in [Conns -> [Lanes -> Nat]]
    /\ runs \in [RunIds -> RunType]
    /\ rn \in [Runners -> RunnerType]
    /\ watch \subseteq RunIds
    /\ drops \in Nat

\* Each connection of a process is idle in its pool, once, or serves one of its
\* sessions.
Partition ==
    /\ pool \in [Procs -> Seq(Conns)]
    /\ \A p \in Procs : IsInjective(pool[p]) /\ Range(pool[p]) \subseteq ConnsOf(p)
    /\ \A r \in Runners : rn[r].conn # None =>
          /\ rn[r].conn \in ConnsOf(Proc(r))
          /\ rn[r].conn \notin Range(pool[Proc(r)])
    /\ \A r, s \in Runners :
          r # s /\ rn[r].conn # None => rn[r].conn # rn[s].conn
    /\ \A p \in Procs : \A c \in ConnsOf(p) :
          c \in Range(pool[p]) \/ \E r \in Runners : rn[r].conn = c

InTransaction == {"held", "looked", "live", "ended"}

\* lanes: the runner holds its process's lock of its lane.
SessionOK(r) ==
    /\ rn[r].pc \in InTransaction <=> rn[r].conn # None
    /\ rn[r].pc \in {"lane", "held", "looked", "ended"} => rn[r].lanes
    /\ rn[r].pc # "idle" => rn[r].lane \in Lanes
    /\ rn[r].pc = "idle" => ~rn[r].lanes
    /\ rn[r].lanes => <<Proc(r), rn[r].lane>> \in laneLock

LaneLockHeldOnce ==
    \A r, s \in Runners :
        r # s /\ Proc(r) = Proc(s) /\ rn[r].lanes /\ rn[s].lanes =>
            rn[r].lane # rn[s].lane

Base ==
    /\ Shapes
    /\ Partition
    /\ \A r \in Runners : SessionOK(r)
    /\ LaneLockHeldOnce

-----------------------------------------------------------------------------
\* What the constants say of pools and processes.
LEMMA Pools ==
    /\ MaxRuns \in Nat /\ 0 \in 0..MaxRuns
    /\ None \notin Conns
    /\ \A r \in Runners : Proc(r) \in Procs
    /\ \A p \in Procs : /\ Pool[p] \in Seq(Conns)
                       /\ IsInjective(Pool[p])
                       /\ Range(Pool[p]) = ConnsOf(p)
                       /\ ConnsOf(p) \subseteq Conns
    /\ \A p, q \in Procs : p # q => ConnsOf(p) \intersect ConnsOf(q) = {}
<1>1. MaxRuns \in Nat /\ 0 \in 0..MaxRuns /\ None \notin Conns
  BY LaneAssumption
<1>2. \A r \in Runners : Proc(r) \in Procs
  BY LaneAssumption DEF Proc
<1>3. \A p \in Procs : ConnsOf(p) \subseteq Conns
  BY DEF Conns
<1>4. \A p \in Procs : Range(Pool[p]) = ConnsOf(p)
  BY DEF Range, ConnsOf
<1>5. \A p \in Procs : IsInjective(Pool[p])
  BY LaneAssumption DEF IsInjective
<1>6. ASSUME NEW p \in Procs PROVE Pool[p] \in Seq(Conns)
  BY LaneAssumption
<1>7. \A p, q \in Procs : p # q => ConnsOf(p) \intersect ConnsOf(q) = {}
  BY LaneAssumption DEF ConnsOf
<1> QED BY <1>1, <1>2, <1>3, <1>4, <1>5, <1>6, <1>7

(***************************************************************************)
(* A session and the pool of its process exchange connections: what they   *)
(* have together stays the same, and they have nothing in common.          *)
(***************************************************************************)
LEMMA Exchange ==
    ASSUME Shapes, Partition, NEW r \in Runners, NEW q \in Seq(Conns),
           NEW c \in Conns \union {None},
           pool' = [pool EXCEPT ![Proc(r)] = q],
           rn'[r].conn = c,
           \A s \in Runners \ {r} : rn'[s].conn = rn[s].conn,
           IsInjective(q), c \notin Range(q),
           \A x \in Conns : x \in Range(q) \/ x = c <=>
                           x \in Range(pool[Proc(r)]) \/ x = rn[r].conn
    PROVE  Partition'
<1> DEFINE p == Proc(r)
<1>1. p \in Procs
  BY Pools
<1>2. /\ pool' \in [Procs -> Seq(Conns)]
      /\ pool'[p] = q
      /\ \A u \in Procs \ {p} : pool'[u] = pool[u]
  BY <1>1 DEF Partition
<1>3. ASSUME NEW x \in Range(q) PROVE x \in ConnsOf(p)
  <2>1. x \in Conns
    BY DEF Range
  <2> QED BY <1>1, <2>1, Pools DEF Partition
<1>4. c # None => c \in ConnsOf(p)
  BY <1>1, Pools DEF Partition
<1>5. \A u \in Procs : IsInjective(pool'[u]) /\ Range(pool'[u]) \subseteq ConnsOf(u)
  BY <1>2, <1>3 DEF Partition
<1>6. ASSUME NEW s \in Runners, rn'[s].conn # None
      PROVE  /\ rn'[s].conn \in ConnsOf(Proc(s))
             /\ rn'[s].conn \notin Range(pool'[Proc(s)])
  <2>1. CASE s = r
    BY <1>2, <1>4, <1>6, <2>1
  <2>2. CASE s # r /\ Proc(s) # p
    BY <1>2, <1>6, <2>2, Pools DEF Partition
  <2>3. CASE s # r /\ Proc(s) = p
    <3>1. rn[s].conn # None /\ rn'[s].conn = rn[s].conn
      BY <1>6, <2>3
    <3>2. /\ rn[s].conn \in ConnsOf(p)
          /\ rn[s].conn \notin Range(pool[p])
          /\ rn[s].conn # rn[r].conn
      BY <2>3, <3>1 DEF Partition
    <3>3. rn[s].conn \in Conns
      BY <1>1, <3>2, Pools
    <3> QED BY <1>2, <2>3, <3>1, <3>2, <3>3
  <2> QED BY <2>1, <2>2, <2>3
<1>7. ASSUME NEW s \in Runners \ {r}, c # None
      PROVE  rn'[s].conn # c
  <2>1. c \in Range(pool[p]) \/ c = rn[r].conn
    BY <1>7
  <2>2. CASE c = rn[r].conn
    BY <1>7, <2>2 DEF Partition
  <2>3. CASE c \in Range(pool[p])
    <3> SUFFICES ASSUME rn[s].conn = c PROVE FALSE
      OBVIOUS
    <3>1. c \in ConnsOf(Proc(s)) /\ c \notin Range(pool[Proc(s)])
      BY <1>7 DEF Partition
    <3>2. Proc(s) # p /\ c \in ConnsOf(p)
      BY <1>1, <2>3, <3>1 DEF Partition
    <3> QED BY <1>1, <3>1, <3>2, Pools
  <2> QED BY <2>1, <2>2, <2>3
<1>8. \A s, u \in Runners :
         s # u /\ rn'[s].conn # None => rn'[s].conn # rn'[u].conn
  BY <1>7 DEF Partition
<1>9. ASSUME NEW u \in Procs, NEW x \in ConnsOf(u)
      PROVE  x \in Range(pool'[u]) \/ \E s \in Runners : rn'[s].conn = x
  <2>1. x \in Conns /\ x # None
    BY Pools
  <2>2. x \in Range(pool[u]) \/ \E s \in Runners : rn[s].conn = x
    BY DEF Partition
  <2>3. CASE u # p /\ x \in Range(pool[u])
    BY <1>2, <2>3
  <2>4. CASE u = p /\ x \in Range(pool[u])
    BY <1>2, <2>1, <2>4
  <2>5. ASSUME NEW s \in Runners, rn[s].conn = x
        PROVE  x \in Range(pool'[u]) \/ \E v \in Runners : rn'[v].conn = x
    <3>1. CASE s # r
      BY <2>5, <3>1
    <3>2. CASE s = r
      <4>1. u = p
        BY <1>1, <2>1, <2>5, <3>2, Pools DEF Partition
      <4>2. x \in Range(q) \/ x = c
        BY <2>1, <2>5, <3>2
      <4> QED BY <1>2, <4>1, <4>2
    <3> QED BY <3>1, <3>2
  <2> QED BY <2>2, <2>3, <2>4, <2>5
<1> QED BY <1>2, <1>5, <1>6, <1>8, <1>9 DEF Partition

\* The connections a session and its pool have together.
SameConnections(r, q, c) ==
    /\ q \in Seq(Conns)
    /\ IsInjective(q)
    /\ c \in Conns \union {None}
    /\ c \notin Range(q)
    /\ \A x \in Conns : x \in Range(q) \/ x = c <=>
                      x \in Range(pool[Proc(r)]) \/ x = rn[r].conn

\* Locks may be taken by the runner for its lane and given back for it.
LaneLockMoves(r, n) ==
    /\ laneLock' \subseteq Procs \X Lanes
    /\ n.lanes => /\ <<Proc(r), n.lane>> \in laneLock'
                  /\ \/ rn[r].lanes /\ rn[r].lane = n.lane
                     \/ <<Proc(r), n.lane>> \notin laneLock
    /\ \A k \in laneLock :
          k \in laneLock' \/ (rn[r].lanes /\ k = <<Proc(r), rn[r].lane>>)

(***************************************************************************)
(* One runner goes on to its next state n, with its pool and its lock.     *)
(***************************************************************************)
LEMMA Moves ==
    ASSUME Base, NEW r \in Runners, NEW n \in RunnerType, NEW q,
           rn' = [rn EXCEPT ![r] = n],
           pool' = [pool EXCEPT ![Proc(r)] = q],
           SameConnections(r, q, n.conn),
           n.pc \in InTransaction <=> n.conn # None,
           n.pc \in {"lane", "held", "looked", "ended"} => n.lanes,
           n.pc # "idle" => n.lane \in Lanes,
           n.pc = "idle" => ~n.lanes,
           LaneLockMoves(r, n),
           adv' \in [Conns -> [Lanes -> Nat]],
           runs' \in [RunIds -> RunType],
           watch' \subseteq RunIds,
           drops' \in Nat
    PROVE  Base'
<1>1. rn' \in [Runners -> RunnerType]
  BY DEF Base, Shapes
<1>2. rn'[r] = n /\ \A s \in Runners \ {r} : rn'[s] = rn[s]
  BY DEF Base, Shapes
<1>3. Shapes'
  BY <1>1 DEF Shapes, LaneLockMoves
<1>4. Partition'
  BY <1>2, Exchange DEF Base, SameConnections
<1>5. ASSUME NEW s \in Runners \ {r}, rn[s].lanes
      PROVE  <<Proc(s), rn[s].lane>> \in laneLock'
  <2>1. <<Proc(s), rn[s].lane>> \in laneLock
    BY <1>5 DEF Base, SessionOK
  <2>2. rn[r].lanes => <<Proc(s), rn[s].lane>> # <<Proc(r), rn[r].lane>>
    BY <1>5 DEF Base, LaneLockHeldOnce
  <2> QED BY <2>1, <2>2 DEF LaneLockMoves
<1>6. \A s \in Runners : SessionOK(s)'
  <2>1. SessionOK(r)'
    BY <1>2 DEF SessionOK, LaneLockMoves, Proc
  <2>2. ASSUME NEW s \in Runners \ {r} PROVE SessionOK(s)'
    BY <1>2, <1>5 DEF SessionOK, Base, Proc
  <2> QED BY <2>1, <2>2
<1>7. LaneLockHeldOnce'
  <2>1. ASSUME NEW s \in Runners \ {r}, Proc(s) = Proc(r), n.lanes, rn[s].lanes
        PROVE  n.lane # rn[s].lane
    <3>1. CASE rn[r].lanes /\ rn[r].lane = n.lane
      BY <2>1, <3>1 DEF Base, LaneLockHeldOnce
    <3>2. CASE <<Proc(r), n.lane>> \notin laneLock
      BY <2>1, <3>2 DEF Base, SessionOK
    <3> QED BY <2>1, <3>1, <3>2 DEF LaneLockMoves
  <2> QED BY <1>2, <2>1 DEF Base, LaneLockHeldOnce, Proc
<1> QED BY <1>3, <1>4, <1>6, <1>7 DEF Base

-----------------------------------------------------------------------------
\* The four ways in which a session and its pool exchange connections.
LEMMA KeepsConnection ==
    ASSUME Base, NEW r \in Runners
    PROVE  SameConnections(r, pool[Proc(r)], rn[r].conn)
BY Pools DEF SameConnections, Base, Shapes, Partition, RunnerType, Range

LEMMA TakesConnection ==
    ASSUME Base, NEW r \in Runners, rn[r].conn = None, pool[Proc(r)] # <<>>
    PROVE  /\ SameConnections(r, Tail(pool[Proc(r)]), Head(pool[Proc(r)]))
           /\ Head(pool[Proc(r)]) \in Conns
<1> DEFINE q == pool[Proc(r)]
<1>1. q \in Seq(Conns) /\ IsInjective(q) /\ None \notin Range(q) /\ None \notin Conns
  BY Pools DEF Base, Partition, Range
<1>2. /\ Tail(q) \in Seq(Conns)
      /\ Head(q) \in Conns
      /\ Range(q) = Range(Tail(q)) \union {Head(q)}
      /\ IsInjective(Tail(q)) /\ Head(q) \notin Range(Tail(q))
  BY <1>1, TakeFirst
<1> QED BY <1>1, <1>2 DEF SameConnections

LEMMA ReturnsConnection ==
    ASSUME Base, NEW r \in Runners, rn[r].conn # None
    PROVE  /\ SameConnections(r, Returned(Proc(r), rn[r].conn), None)
           /\ rn[r].conn \in Conns
<1> DEFINE q == pool[Proc(r)]
           c == rn[r].conn
<1>1. q \in Seq(Conns) /\ IsInjective(q) /\ None \notin Range(q)
  BY Pools DEF Base, Partition, Range
<1>2. c \in Conns /\ c \notin Range(q)
  BY DEF Base, Shapes, RunnerType, Partition
<1>3. /\ Append(q, c) \in Seq(Conns)
      /\ Range(Append(q, c)) = Range(q) \union {c}
      /\ IsInjective(Append(q, c))
  BY <1>1, <1>2, PutBack
<1>4. None \notin Range(Append(q, c))
  BY <1>1, <1>3
<1> QED BY <1>2, <1>3, <1>4, Pools DEF SameConnections, Returned

LEMMA RecyclesConnection ==
    ASSUME Base, NEW r \in Runners, rn[r].conn # None
    PROVE  LET q == Returned(Proc(r), rn[r].conn)
           IN  SameConnections(r, Tail(q), Head(q)) /\ Head(q) \in Conns
<1> DEFINE q == Returned(Proc(r), rn[r].conn)
<1>1. /\ q \in Seq(Conns) /\ IsInjective(q)
      /\ \A x \in Conns : x \in Range(q) <=>
                        x \in Range(pool[Proc(r)]) \/ x = rn[r].conn
  BY ReturnsConnection, Pools DEF SameConnections
<1>2. q # <<>>
  <2>1. pool[Proc(r)] \in Seq(Conns)
    BY Pools DEF Base, Partition
  <2> QED BY <2>1, ReturnsConnection, PutBack DEF Returned
<1> HIDE DEF q
<1>3. /\ Tail(q) \in Seq(Conns)
      /\ Head(q) \in Conns
      /\ Range(q) = Range(Tail(q)) \union {Head(q)}
      /\ IsInjective(Tail(q)) /\ Head(q) \notin Range(Tail(q))
  BY <1>1, <1>2, TakeFirst
<1>4. SameConnections(r, Tail(q), Head(q)) /\ Head(q) \in Conns
  BY <1>1, <1>3 DEF SameConnections
<1> QED BY <1>4 DEF q

\* A connection that is taken and put back before any other statement.
LEMMA PassesConnection ==
    ASSUME Base, NEW r \in Runners, rn[r].conn = None, pool[Proc(r)] # <<>>
    PROVE  LET q == Append(Tail(pool[Proc(r)]), Head(pool[Proc(r)]))
           IN  /\ SameConnections(r, q, None)
               /\ SameConnections(r, Tail(q), Head(q)) /\ Head(q) \in Conns
<1> DEFINE f == Tail(pool[Proc(r)])
           h == Head(pool[Proc(r)])
           q == Append(f, h)
<1>1. /\ f \in Seq(Conns) /\ IsInjective(f) /\ h \in Conns /\ h \notin Range(f)
      /\ \A x \in Conns : x \in Range(f) \/ x = h <=>
                        x \in Range(pool[Proc(r)]) \/ x = rn[r].conn
  BY TakesConnection DEF SameConnections
<1> HIDE DEF f, h
<1>2. /\ q \in Seq(Conns) /\ q # <<>>
      /\ Range(q) = Range(f) \union {h}
      /\ IsInjective(q)
  BY <1>1, PutBack
<1>3. None \notin Range(q) /\ None \notin Conns
  <2>1. None \notin Conns /\ Range(q) \subseteq Conns
    BY <1>2, Pools DEF Range
  <2> QED BY <2>1
<1> HIDE DEF q
<1>4. SameConnections(r, q, None)
  BY <1>1, <1>2, <1>3 DEF SameConnections
<1>5. /\ Tail(q) \in Seq(Conns)
      /\ Head(q) \in Conns
      /\ Range(q) = Range(Tail(q)) \union {Head(q)}
      /\ IsInjective(Tail(q)) /\ Head(q) \notin Range(Tail(q))
  BY <1>2, TakeFirst
<1>6. SameConnections(r, Tail(q), Head(q)) /\ Head(q) \in Conns
  BY <1>1, <1>2, <1>5 DEF SameConnections
<1> QED BY <1>4, <1>6 DEF q, f, h

-----------------------------------------------------------------------------
\* pg_advisory_unlock takes one hold of one connection on one lane.
LEMMA UnlockedHolds ==
    ASSUME Shapes, NEW c \in Conns, NEW l \in Lanes
    PROVE  /\ Unlocked(c, l) \in [Conns -> [Lanes -> Nat]]
           /\ \A d \in Conns, k \in Lanes :
                 /\ d # c \/ k # l => Unlocked(c, l)[d][k] = adv[d][k]
                 /\ Unlocked(c, l)[d][k] <= adv[d][k]
<1> DEFINE n == IF adv[c][l] > 0 THEN adv[c][l] - 1 ELSE adv[c][l]
<1>1. n \in Nat /\ n <= adv[c][l]
  BY DEF Shapes
<1>2. Unlocked(c, l) = [adv EXCEPT ![c] = [adv[c] EXCEPT ![l] = n]]
  BY DEF Unlocked, Shapes
<1> HIDE DEF n
<1>3. [adv[c] EXCEPT ![l] = n] \in [Lanes -> Nat]
  BY <1>1 DEF Shapes
<1>4. Unlocked(c, l) \in [Conns -> [Lanes -> Nat]]
  BY <1>2, <1>3 DEF Shapes
<1>5. ASSUME NEW d \in Conns, NEW k \in Lanes
      PROVE  /\ d # c \/ k # l => Unlocked(c, l)[d][k] = adv[d][k]
             /\ Unlocked(c, l)[d][k] <= adv[d][k]
  <2>1. Unlocked(c, l)[d][k] = IF d = c /\ k = l THEN n ELSE adv[d][k]
    BY <1>2 DEF Shapes
  <2>2. adv[d][k] \in Nat
    BY DEF Shapes
  <2> QED BY <1>1, <2>1, <2>2
<1> QED BY <1>4, <1>5

LEMMA IdleType == Idle \in RunnerType
BY Pools DEF Idle, RunnerType

\* A session ends: the connection goes back, the lane's lock is released.
LEMMA LeavesBase ==
    ASSUME Base, NEW r \in Runners, NEW q,
           pool' = [pool EXCEPT ![Proc(r)] = q], SameConnections(r, q, None),
           Leave(r), rn[r].lanes,
           adv' \in [Conns -> [Lanes -> Nat]],
           runs' \in [RunIds -> RunType],
           watch' \subseteq RunIds,
           drops' \in Nat
    PROVE  Base'
<1>1. rn' = [rn EXCEPT ![r] = Idle]
  BY DEF Leave
<1>2. Idle.pc = "idle" /\ Idle.conn = None /\ Idle.lanes = FALSE
  BY DEF Idle
<1>3. LaneLockMoves(r, Idle)
  BY <1>2 DEF LaneLockMoves, Leave, Base, Shapes
<1> QED BY <1>1, <1>2, <1>3, IdleType, Moves DEF InTransaction

LEMMA RunSegmentBase ==
    ASSUME Base, NEW r \in Runners, NEW l \in Lanes, RunSegment(r, l)
    PROVE  Base'
<1> DEFINE n == [Idle EXCEPT !.pc = "lane", !.lane = l, !.lanes = TRUE]
<1>1. n \in RunnerType
  BY IdleType DEF Idle, RunnerType
<1>2. n.pc = "lane" /\ n.lane = l /\ n.lanes /\ n.conn = None
  BY DEF Idle
<1>3. rn[r].conn = None
  BY DEF RunSegment, Base, SessionOK, InTransaction
<1>4. rn' = [rn EXCEPT ![r] = n]
  BY DEF RunSegment
<1>5. pool' = [pool EXCEPT ![Proc(r)] = pool[Proc(r)]]
  BY DEF RunSegment, Base, Partition
<1>6. SameConnections(r, pool[Proc(r)], n.conn)
  BY <1>2, <1>3, KeepsConnection
<1>7. Proc(r) \in Procs /\ laneLock' = laneLock \union {<<Proc(r), l>>}
  BY Pools DEF RunSegment
<1> HIDE DEF n
<1>8. LaneLockMoves(r, n)
  BY <1>2, <1>7 DEF LaneLockMoves, RunSegment, Base, Shapes
<1>9. UNCHANGED <<adv, runs, watch, drops>>
  BY DEF RunSegment
<1> QED BY <1>1, <1>2, <1>4, <1>5, <1>6, <1>8, <1>9, Moves DEF InTransaction, Base, Shapes

LEMMA TryAdvisoryLockBase ==
    ASSUME Base, NEW r \in Runners, TryAdvisoryLock(r)
    PROVE  Base'
<1> DEFINE p == Proc(r)
           l == rn[r].lane
           c == Head(pool[p])
<1>1. rn[r].pc = "lane" /\ pool[p] # <<>> /\ UNCHANGED <<runs, watch, crashes, drops>>
  BY DEF TryAdvisoryLock
<1>2. rn[r].conn = None /\ rn[r].lanes /\ l \in Lanes
  BY <1>1 DEF Base, SessionOK, InTransaction
<1>3. /\ runs' \in [RunIds -> RunType]
      /\ watch' \subseteq RunIds
      /\ drops' \in Nat
  BY <1>1 DEF Base, Shapes
<1>4. CASE Granted(c, l)
  <2>1. /\ adv' = [adv EXCEPT ![c][l] = @ + 1]
        /\ pool' = [pool EXCEPT ![p] = Tail(pool[p])]
        /\ rn' = [rn EXCEPT ![r].pc = "held", ![r].conn = c]
        /\ UNCHANGED laneLock
    BY <1>4, Pools DEF TryAdvisoryLock, Base, Partition
  <2> DEFINE n == [rn[r] EXCEPT !.pc = "held", !.conn = c]
  <2>2. SameConnections(r, Tail(pool[p]), c) /\ c \in Conns
    BY <1>1, <1>2, TakesConnection
  <2>3. adv' \in [Conns -> [Lanes -> Nat]]
    <3>1. adv' = [adv EXCEPT ![c] = [adv[c] EXCEPT ![l] = adv[c][l] + 1]]
      BY <1>2, <2>1, <2>2 DEF Base, Shapes
    <3>2. [adv[c] EXCEPT ![l] = adv[c][l] + 1] \in [Lanes -> Nat]
      BY <1>2, <2>2 DEF Base, Shapes
    <3> QED BY <3>1, <3>2, <2>2 DEF Base, Shapes
  <2> HIDE DEF c, l
  <2>4. rn[r] \in RunnerType
    BY DEF Base, Shapes
  <2>5. n \in RunnerType
    BY <2>2, <2>4 DEF RunnerType
  <2>6. n.pc = "held" /\ n.conn = c /\ n.lane = rn[r].lane /\ n.lanes = rn[r].lanes
    BY <2>4 DEF RunnerType
  <2>7. rn' = [rn EXCEPT ![r] = n]
    BY <2>1 DEF Base, Shapes
  <2> HIDE DEF n
  <2>8. c # None
    BY <2>2, Pools
  <2>9. LaneLockMoves(r, n)
    BY <1>2, <2>1, <2>6 DEF LaneLockMoves, Base, Shapes, SessionOK
  <2> QED BY <1>2, <1>3, <2>1, <2>2, <2>3, <2>5, <2>6, <2>7, <2>8, <2>9, Moves
          DEF InTransaction, l
<1>5. CASE ~Granted(c, l)
  <2>1. /\ pool' = [pool EXCEPT ![p] = Append(Tail(pool[p]), c)]
        /\ Leave(r)
        /\ UNCHANGED adv
    BY <1>5, Pools DEF TryAdvisoryLock, Base, Partition
  <2>2. SameConnections(r, Append(Tail(pool[p]), c), None)
    BY <1>1, <1>2, PassesConnection
  <2>3. adv' \in [Conns -> [Lanes -> Nat]]
    BY <2>1 DEF Base, Shapes
  <2> QED BY <1>2, <1>3, <2>1, <2>2, <2>3, LeavesBase
<1> QED BY <1>4, <1>5

LEMMA ExistingRunSkipBase ==
    ASSUME Base, NEW r \in Runners, ExistingRunSkip(r) \/ ReleaseAdvisoryLock(r)
    PROVE  Base'
<1>1. /\ rn[r].pc \in {"held", "ended"}
      /\ adv' = Unlocked(rn[r].conn, rn[r].lane)
      /\ pool' = [pool EXCEPT ![Proc(r)] = Returned(Proc(r), rn[r].conn)]
      /\ Leave(r)
      /\ UNCHANGED <<runs, watch, crashes, drops>>
  BY DEF ExistingRunSkip, ReleaseAdvisoryLock
<1>2. rn[r].conn # None /\ rn[r].lanes /\ rn[r].lane \in Lanes
  BY <1>1 DEF Base, SessionOK, InTransaction
<1>3. SameConnections(r, Returned(Proc(r), rn[r].conn), None) /\ rn[r].conn \in Conns
  BY <1>2, ReturnsConnection
<1>4. adv' \in [Conns -> [Lanes -> Nat]]
  BY <1>1, <1>2, <1>3, UnlockedHolds DEF Base
<1>5. runs' \in [RunIds -> RunType] /\ watch' \subseteq RunIds /\ drops' \in Nat
  BY <1>1 DEF Base, Shapes
<1> QED BY <1>1, <1>2, <1>3, <1>4, <1>5, LeavesBase

LEMMA LoseConnectionBase ==
    ASSUME Base, NEW r \in Runners, LoseConnection(r)
    PROVE  Base'
<1>1. /\ rn[r].pc \in {"held", "looked"}
      /\ adv' = [adv EXCEPT ![rn[r].conn] = [l \in Lanes |-> 0]]
      /\ pool' = [pool EXCEPT ![Proc(r)] = Returned(Proc(r), rn[r].conn)]
      /\ Leave(r)
      /\ drops' = drops + 1
      /\ UNCHANGED <<runs, watch, crashes>>
  BY DEF LoseConnection
<1>2. rn[r].conn # None /\ rn[r].lanes
  BY <1>1 DEF Base, SessionOK, InTransaction
<1>3. SameConnections(r, Returned(Proc(r), rn[r].conn), None)
  BY <1>2, ReturnsConnection
<1>4. adv' \in [Conns -> [Lanes -> Nat]]
  BY <1>1 DEF Base, Shapes
<1>5. runs' \in [RunIds -> RunType] /\ watch' \subseteq RunIds /\ drops' \in Nat
  BY <1>1 DEF Base, Shapes
<1> QED BY <1>1, <1>2, <1>3, <1>4, <1>5, LeavesBase

LEMMA LookBase ==
    ASSUME Base, NEW r \in Runners, NEW force \in BOOLEAN, Look(r, force)
    PROVE  Base'
<1> DEFINE n == [rn[r] EXCEPT !.pc = "looked", !.guarded = ~force]
<1>1. rn[r] \in RunnerType
  BY DEF Base, Shapes
<1>2. n \in RunnerType
  BY <1>1 DEF RunnerType
<1>3. /\ n.pc = "looked"
      /\ n.conn = rn[r].conn /\ n.lane = rn[r].lane /\ n.lanes = rn[r].lanes
  BY <1>1 DEF RunnerType
<1>4. rn' = [rn EXCEPT ![r] = n]
  BY DEF Look, Base, Shapes
<1>5. pool' = [pool EXCEPT ![Proc(r)] = pool[Proc(r)]]
  BY DEF Look, Base, Partition
<1>6. /\ rn[r].pc = "held"
      /\ UNCHANGED <<laneLock, adv, runs, watch, drops>>
  BY DEF Look
<1>7. rn[r].conn # None /\ rn[r].lanes /\ rn[r].lane \in Lanes
  BY <1>6 DEF Base, SessionOK, InTransaction
<1>8. SameConnections(r, pool[Proc(r)], n.conn)
  BY <1>3, KeepsConnection
<1> HIDE DEF n
<1>9. LaneLockMoves(r, n)
  BY <1>3, <1>6, <1>7 DEF LaneLockMoves, Base, Shapes, SessionOK
<1> QED BY <1>2, <1>3, <1>4, <1>5, <1>6, <1>7, <1>8, <1>9, Moves
        DEF InTransaction, Base, Shapes

\* The table gets a row of a known shape.
LEMMA InsertedType ==
    ASSUME Base, NEW l \in Lanes, NextRunId \in RunIds
    PROVE  Inserted(l) \in [RunIds -> RunType]
<1>1. [st |-> "running", lane |-> l, old |-> FALSE] \in RunType
  BY DEF RunType
<1> QED BY <1>1 DEF Inserted, Base, Shapes

LEMMA StartRunBase ==
    ASSUME Base, NEW r \in Runners, StartRun(r)
    PROVE  Base'
<1> DEFINE q == Returned(Proc(r), rn[r].conn)
           id == NextRunId
           n == [rn[r] EXCEPT !.pc = "live", !.run = id, !.conn = Head(q)]
<1>1. rn[r] \in RunnerType
  BY DEF Base, Shapes
<1>2. /\ rn[r].pc = "looked" /\ id \in RunIds
      /\ runs' = Inserted(rn[r].lane)
      /\ pool' = [pool EXCEPT ![Proc(r)] = Tail(q)]
      /\ rn' = [rn EXCEPT ![r].pc = "live", ![r].run = id, ![r].conn = Head(q)]
      /\ UNCHANGED <<laneLock, adv, watch, crashes, drops>>
  BY DEF StartRun, StartedRun
<1>3. rn[r].conn # None /\ rn[r].lanes /\ rn[r].lane \in Lanes
  BY <1>2 DEF Base, SessionOK, InTransaction
<1>4. SameConnections(r, Tail(q), Head(q)) /\ Head(q) \in Conns
  BY <1>3, RecyclesConnection
<1>5. id \in 0..MaxRuns /\ runs' \in [RunIds -> RunType]
  BY <1>2, <1>3, InsertedType, Pools DEF RunIds
<1> HIDE DEF q, id
<1>6. n \in RunnerType
  BY <1>1, <1>4, <1>5 DEF RunnerType
<1>7. /\ n.pc = "live" /\ n.conn = Head(q)
      /\ n.lane = rn[r].lane /\ n.lanes = rn[r].lanes
  BY <1>1 DEF RunnerType
<1>8. rn' = [rn EXCEPT ![r] = n]
  BY <1>2 DEF Base, Shapes
<1> HIDE DEF n
<1>9. Head(q) # None
  BY <1>4, Pools
<1>10. LaneLockMoves(r, n)
  BY <1>2, <1>3, <1>7 DEF LaneLockMoves, Base, Shapes, SessionOK
<1>11. /\ adv' \in [Conns -> [Lanes -> Nat]]
       /\ watch' \subseteq RunIds /\ drops' \in Nat
  BY <1>2 DEF Base, Shapes
<1>12. n.conn # None /\ n.conn = Head(q) /\ n.lanes /\ n.lane \in Lanes
  BY <1>3, <1>7, <1>9
<1>13. SameConnections(r, Tail(q), n.conn)
  BY <1>4, <1>12
<1> QED BY <1>2, <1>5, <1>6, <1>7, <1>8, <1>10, <1>11, <1>12, <1>13, Moves
        DEF InTransaction

LEMMA DirectRunBase ==
    ASSUME Base, NEW r \in Runners, NEW l \in Lanes, DirectRun(r, l)
    PROVE  Base'
<1> DEFINE q == Append(Tail(pool[Proc(r)]), Head(pool[Proc(r)]))
           id == NextRunId
           n == [Idle EXCEPT !.pc = "live", !.lane = l, !.run = id, !.conn = Head(q)]
<1>1. /\ rn[r].pc = "idle" /\ id \in RunIds /\ pool[Proc(r)] # <<>>
      /\ runs' = Inserted(l)
      /\ pool' = [pool EXCEPT ![Proc(r)] = Tail(q)]
      /\ rn' = [rn EXCEPT ![r] = n]
      /\ UNCHANGED <<laneLock, adv, watch, crashes, drops>>
  BY DEF DirectRun
<1>2. rn[r].conn = None /\ ~rn[r].lanes
  BY <1>1 DEF Base, SessionOK, InTransaction
<1>3. SameConnections(r, Tail(q), Head(q)) /\ Head(q) \in Conns
  BY <1>1, <1>2, PassesConnection
<1>4. id \in 0..MaxRuns /\ runs' \in [RunIds -> RunType]
  BY <1>1, InsertedType, Pools DEF RunIds
<1> HIDE DEF q, id
<1>5. n \in RunnerType
  BY <1>3, <1>4, IdleType DEF Idle, RunnerType
<1>6. n.pc = "live" /\ n.conn = Head(q) /\ n.lane = l /\ n.lanes = FALSE
  BY DEF Idle
<1> HIDE DEF n
<1>7. Head(q) # None
  BY <1>3, Pools
<1>8. LaneLockMoves(r, n)
  BY <1>1, <1>2, <1>6 DEF LaneLockMoves, Base, Shapes
<1> QED BY <1>1, <1>3, <1>4, <1>5, <1>6, <1>7, <1>8, Moves
        DEF InTransaction, Base, Shapes

LEMMA CheckpointBase ==
    ASSUME Base, NEW r \in Runners, Checkpoint(r)
    PROVE  Base'
<1> DEFINE q == Returned(Proc(r), rn[r].conn)
           n == [rn[r] EXCEPT !.conn = Head(q)]
<1>1. rn[r] \in RunnerType
  BY DEF Base, Shapes
<1>2. /\ rn[r].pc = "live"
      /\ pool' = [pool EXCEPT ![Proc(r)] = Tail(q)]
      /\ rn' = [rn EXCEPT ![r].conn = Head(q)]
      /\ UNCHANGED <<laneLock, adv, runs, watch, crashes, drops>>
  BY DEF Checkpoint, Recycled
<1>3. rn[r].conn # None /\ rn[r].lane \in Lanes
  BY <1>2 DEF Base, SessionOK, InTransaction
<1>4. SameConnections(r, Tail(q), Head(q)) /\ Head(q) \in Conns
  BY <1>3, RecyclesConnection
<1> HIDE DEF q
<1>5. n \in RunnerType
  BY <1>1, <1>4 DEF RunnerType
<1>6. /\ n.pc = "live" /\ n.conn = Head(q)
      /\ n.lane = rn[r].lane /\ n.lanes = rn[r].lanes
  BY <1>1, <1>2 DEF RunnerType
<1>7. rn' = [rn EXCEPT ![r] = n]
  BY <1>2 DEF Base, Shapes
<1> HIDE DEF n
<1>8. Head(q) # None
  BY <1>4, Pools
<1>9. LaneLockMoves(r, n)
  BY <1>2, <1>3, <1>6 DEF LaneLockMoves, Base, Shapes, SessionOK
<1> QED BY <1>2, <1>3, <1>4, <1>5, <1>6, <1>7, <1>8, <1>9, Moves
        DEF InTransaction, Base, Shapes

\* A run through the orchestrator goes on to its unlock; another one is over.
LEMMA EndRunBase ==
    ASSUME Base, NEW r \in Runners, NEW st \in {"completed", "failed"}, EndRun(r, st)
    PROVE  Base'
<1> DEFINE q == Returned(Proc(r), rn[r].conn)
           n == [rn[r] EXCEPT !.pc = "ended", !.conn = Head(q)]
<1>1. rn[r] \in RunnerType
  BY DEF Base, Shapes
<1>2. /\ rn[r].pc = "live"
      /\ runs' = [runs EXCEPT ![rn[r].run].st = st]
      /\ UNCHANGED <<laneLock, adv, watch, crashes, drops>>
  BY DEF EndRun
<1>3. rn[r].conn # None /\ rn[r].lane \in Lanes
  BY <1>2 DEF Base, SessionOK, InTransaction
<1>4. runs' \in [RunIds -> RunType]
  <2>1. ASSUME NEW i \in RunIds PROVE [runs[i] EXCEPT !.st = st] \in RunType
    BY DEF Base, Shapes, RunType
  <2> QED BY <1>2, <2>1 DEF Base, Shapes
<1>5. adv' \in [Conns -> [Lanes -> Nat]] /\ watch' \subseteq RunIds /\ drops' \in Nat
  BY <1>2 DEF Base, Shapes
<1>6. CASE rn[r].lanes
  <2>1. /\ pool' = [pool EXCEPT ![Proc(r)] = Tail(q)]
        /\ rn' = [rn EXCEPT ![r].pc = "ended", ![r].conn = Head(q)]
    BY <1>6 DEF EndRun
  <2>2. SameConnections(r, Tail(q), Head(q)) /\ Head(q) \in Conns
    BY <1>3, RecyclesConnection
  <2> HIDE DEF q
  <2>3. n \in RunnerType
    BY <1>1, <2>2 DEF RunnerType
  <2>4. /\ n.pc = "ended" /\ n.conn = Head(q)
        /\ n.lane = rn[r].lane /\ n.lanes = rn[r].lanes
    BY <1>1 DEF RunnerType
  <2>5. rn' = [rn EXCEPT ![r] = n]
    BY <2>1 DEF Base, Shapes
  <2> HIDE DEF n
  <2>6. n.conn # None
    BY <2>2, <2>4, Pools
  <2>7. LaneLockMoves(r, n)
    BY <1>2, <1>3, <1>6, <2>4 DEF LaneLockMoves, Base, Shapes, SessionOK
  <2>8. SameConnections(r, Tail(q), n.conn)
    BY <2>2, <2>4
  <2> QED BY <1>3, <1>4, <1>5, <1>6, <2>1, <2>3, <2>4, <2>5, <2>6, <2>7, <2>8, Moves
          DEF InTransaction
<1>7. CASE ~rn[r].lanes
  <2>1. pool' = [pool EXCEPT ![Proc(r)] = q] /\ rn' = [rn EXCEPT ![r] = Idle]
    BY <1>7 DEF EndRun
  <2>2. SameConnections(r, q, None)
    BY <1>3, ReturnsConnection
  <2>3. Idle.pc = "idle" /\ Idle.conn = None /\ Idle.lanes = FALSE
    BY DEF Idle
  <2>4. LaneLockMoves(r, Idle)
    BY <1>2, <2>3 DEF LaneLockMoves, Base, Shapes
  <2> HIDE DEF q
  <2> QED BY <1>4, <1>5, <2>1, <2>2, <2>3, <2>4, IdleType, Moves DEF InTransaction
<1> QED BY <1>6, <1>7

LEMMA EndRunUnrecordedBase ==
    ASSUME Base, NEW r \in Runners, EndRunUnrecorded(r)
    PROVE  Base'
<1> DEFINE q == Returned(Proc(r), rn[r].conn)
<1>1. /\ rn[r].pc = "live"
      /\ pool' = [pool EXCEPT ![Proc(r)] = q]
      /\ UNCHANGED <<adv, runs, watch, crashes, drops>>
  BY DEF EndRunUnrecorded
<1>2. rn[r].conn # None
  BY <1>1 DEF Base, SessionOK, InTransaction
<1>3. SameConnections(r, q, None)
  BY <1>2, ReturnsConnection
<1>4. /\ adv' \in [Conns -> [Lanes -> Nat]] /\ runs' \in [RunIds -> RunType]
      /\ watch' \subseteq RunIds /\ drops' \in Nat
  BY <1>1 DEF Base, Shapes
<1>5. CASE rn[r].lanes
  <2>1. Leave(r)
    BY <1>5 DEF EndRunUnrecorded
  <2> HIDE DEF q
  <2> QED BY <1>1, <1>3, <1>4, <1>5, <2>1, LeavesBase
<1>6. CASE ~rn[r].lanes
  <2>1. rn' = [rn EXCEPT ![r] = Idle] /\ UNCHANGED laneLock
    BY <1>6 DEF EndRunUnrecorded
  <2>2. Idle.pc = "idle" /\ Idle.conn = None /\ Idle.lanes = FALSE
    BY DEF Idle
  <2>3. LaneLockMoves(r, Idle)
    BY <2>1, <2>2 DEF LaneLockMoves, Base, Shapes
  <2> HIDE DEF q
  <2> QED BY <1>1, <1>3, <1>4, <2>1, <2>2, <2>3, IdleType, Moves DEF InTransaction
<1> QED BY <1>5, <1>6

-----------------------------------------------------------------------------
\* Steps that leave every session as it is and at most reorder a pool.
LEMMA SessionsStay ==
    ASSUME Base, UNCHANGED <<laneLock, rn>>,
           pool' \in [Procs -> Seq(Conns)],
           \A p \in Procs : IsInjective(pool'[p]) /\ Range(pool'[p]) = Range(pool[p]),
           adv' \in [Conns -> [Lanes -> Nat]],
           runs' \in [RunIds -> RunType],
           watch' \subseteq RunIds,
           drops' \in Nat
    PROVE  Base'
<1>1. Shapes'
  BY DEF Base, Shapes
<1>2. Partition'
  BY Pools DEF Base, Partition, Proc
<1>3. \A r \in Runners : SessionOK(r)'
  BY DEF Base, SessionOK, Proc
<1>4. LaneLockHeldOnce'
  BY DEF Base, LaneLockHeldOnce, Proc
<1> QED BY <1>1, <1>2, <1>3, <1>4 DEF Base

LEMMA WatchdogBase ==
    ASSUME Base,
           WatchdogInspect \/ WatchdogRepair \/ (\E i \in RunIds : RunAges(i))
              \/ UNCHANGED vars
    PROVE  Base'
<1>1. UNCHANGED <<laneLock, pool, adv, rn, drops>>
  BY DEF WatchdogInspect, WatchdogRepair, RunAges, vars
<1>2. watch' \subseteq RunIds
  BY DEF WatchdogInspect, WatchdogRepair, RunAges, vars, Base, Shapes, StaleRuns
<1>3. runs' \in [RunIds -> RunType]
  <2>1. ASSUME NEW i \in RunIds
        PROVE  /\ runs[i] \in RunType
               /\ [runs[i] EXCEPT !.st = "failed"] \in RunType
               /\ [runs[i] EXCEPT !.old = TRUE] \in RunType
    BY DEF Base, Shapes, RunType
  <2>2. CASE WatchdogRepair
    BY <2>1, <2>2 DEF WatchdogRepair
  <2>3. ASSUME NEW i \in RunIds, RunAges(i) PROVE runs' \in [RunIds -> RunType]
    <3>1. runs' = [runs EXCEPT ![i] = [runs[i] EXCEPT !.old = TRUE]]
      BY <2>3 DEF RunAges
    <3> QED BY <2>1, <3>1 DEF Base, Shapes
  <2> QED BY <2>2, <2>3 DEF WatchdogInspect, vars, Base, Shapes
<1> QED BY <1>1, <1>2, <1>3, SessionsStay DEF Base, Shapes, Partition

LEMMA OtherSessionBase ==
    ASSUME Base, NEW p \in Procs, OtherSession(p)
    PROVE  Base'
<1> DEFINE f == Tail(pool[p])
           h == Head(pool[p])
           q == Append(f, h)
<1>1. /\ pool[p] # <<>>
      /\ pool' = [pool EXCEPT ![p] = q]
      /\ UNCHANGED <<laneLock, adv, runs, rn, watch, crashes, drops>>
  BY DEF OtherSession, Base, Partition
<1>2. pool[p] \in Seq(Conns) /\ IsInjective(pool[p])
  BY DEF Base, Partition
<1>3. /\ f \in Seq(Conns) /\ h \in Conns
      /\ Range(pool[p]) = Range(f) \union {h}
      /\ IsInjective(f) /\ h \notin Range(f)
  BY <1>1, <1>2, TakeFirst
<1> HIDE DEF f, h
<1>4. q \in Seq(Conns) /\ IsInjective(q) /\ Range(q) = Range(f) \union {h}
  BY <1>3, PutBack
<1> HIDE DEF q
<1>5. /\ pool' \in [Procs -> Seq(Conns)]
      /\ \A u \in Procs : IsInjective(pool'[u]) /\ Range(pool'[u]) = Range(pool[u])
  BY <1>1, <1>3, <1>4 DEF Base, Partition
<1> QED BY <1>1, <1>5, SessionsStay DEF Base, Shapes

LEMMA DropConnectionBase ==
    ASSUME Base, NEW p \in Procs, DropConnection(p)
    PROVE  Base'
<1> DEFINE none == [l \in Lanes |-> 0]
<1>1. adv' = [adv EXCEPT ![Head(pool[p])] = none] /\ drops' = drops + 1
  BY DEF DropConnection
<1>2. none \in [Lanes -> Nat]
  OBVIOUS
<1> HIDE DEF none
<1>3. adv' \in [Conns -> [Lanes -> Nat]]
  BY <1>1, <1>2 DEF Base, Shapes
<1>4. drops' \in Nat
  BY <1>1 DEF Base, Shapes
<1> QED BY <1>3, <1>4, SessionsStay DEF DropConnection, Base, Shapes, Partition

\* A process that dies leaves a full pool, no session and no lock.
LEMMA CrashBase ==
    ASSUME Base, NEW p \in Procs, Crash(p)
    PROVE  Base'
<1>1. /\ laneLock' = {k \in laneLock : k[1] # p}
      /\ pool' = [pool EXCEPT ![p] = Pool[p]]
      /\ rn' = [r \in Runners |-> IF Proc(r) = p THEN Idle ELSE rn[r]]
      /\ UNCHANGED <<runs, watch, drops>>
  BY DEF Crash
<1>2. adv' \in [Conns -> [Lanes -> Nat]]
  BY DEF Crash, Base, Shapes
<1>3. \A r \in Runners : rn'[r] = IF Proc(r) = p THEN Idle ELSE rn[r]
  BY <1>1
<1>4. /\ pool' \in [Procs -> Seq(Conns)] /\ pool'[p] = Pool[p]
      /\ \A u \in Procs \ {p} : pool'[u] = pool[u]
  BY <1>1, Pools DEF Base, Partition
<1>5. Idle.pc = "idle" /\ Idle.conn = None /\ Idle.lanes = FALSE
  BY DEF Idle
<1>6. Shapes'
  <2>1. rn' \in [Runners -> RunnerType]
    BY <1>1, IdleType DEF Base, Shapes
  <2>2. laneLock' \subseteq Procs \X Lanes
    BY <1>1 DEF Base, Shapes
  <2> QED BY <1>1, <1>2, <2>1, <2>2 DEF Base, Shapes
<1>7. Partition'
  <2>1. \A u \in Procs : IsInjective(pool'[u]) /\ Range(pool'[u]) \subseteq ConnsOf(u)
    BY <1>4, Pools DEF Base, Partition
  <2>2. \A r \in Runners : rn'[r].conn # None =>
           /\ rn'[r].conn \in ConnsOf(Proc(r))
           /\ rn'[r].conn \notin Range(pool'[Proc(r)])
    BY <1>3, <1>4, <1>5, Pools DEF Base, Partition
  <2>3. \A r, s \in Runners :
           r # s /\ rn'[r].conn # None => rn'[r].conn # rn'[s].conn
    BY <1>3, <1>5 DEF Base, Partition
  <2>4. ASSUME NEW u \in Procs, NEW c \in ConnsOf(u)
        PROVE  c \in Range(pool'[u]) \/ \E r \in Runners : rn'[r].conn = c
    <3>1. CASE u = p
      BY <1>4, <2>4, <3>1, Pools
    <3>2. ASSUME u # p, NEW r \in Runners, rn[r].conn = c
          PROVE  rn'[r].conn = c
      <4>1. c # None
        BY Pools
      <4>2. c \in ConnsOf(Proc(r))
        BY <3>2, <4>1 DEF Base, Partition
      <4>3. Proc(r) # p
        BY <2>4, <3>2, <4>2, Pools
      <4> QED BY <1>3, <3>2, <4>3
    <3> QED BY <1>4, <3>1, <3>2 DEF Base, Partition
  <2> QED BY <1>4, <2>1, <2>2, <2>3, <2>4 DEF Partition
<1>8. ASSUME NEW r \in Runners PROVE SessionOK(r)'
  <2>1. CASE Proc(r) = p
    BY <1>3, <1>5, <2>1 DEF SessionOK, InTransaction, Proc
  <2>2. CASE Proc(r) # p
    <3>1. rn'[r] = rn[r] /\ SessionOK(r)
      BY <1>3, <2>2 DEF Base
    <3>2. <<Proc(r), rn[r].lane>> \in laneLock =>
             <<Proc(r), rn[r].lane>> \in laneLock'
      BY <1>1, <2>2
    <3> QED BY <3>1, <3>2 DEF SessionOK, Proc
  <2> QED BY <2>1, <2>2
<1>9. LaneLockHeldOnce'
  BY <1>3, <1>5 DEF Base, LaneLockHeldOnce, Proc
<1> QED BY <1>6, <1>7, <1>8, <1>9 DEF Base

\* Nobody runs at the start, and every connection is idle.
LEMMA BaseInit ==
    ASSUME Init
    PROVE  Base
<1>1. Shapes
  <2>1. NoRun \in RunType
    BY DEF NoRun, RunType
  <2> QED BY <2>1, IdleType DEF Init, Shapes
<1>2. \A r \in Runners : rn[r] = Idle
  BY DEF Init
<1>3. Idle.pc = "idle" /\ Idle.conn = None /\ Idle.lanes = FALSE
  BY DEF Idle
<1>4. Partition
  <2>1. pool = Pool /\ DOMAIN Pool = Procs
    BY LaneAssumption DEF Init
  <2>2. Pool \in [Procs -> Seq(Conns)]
    BY LaneAssumption
  <2> QED BY <1>2, <1>3, <2>1, <2>2, Pools DEF Partition
<1>5. \A r \in Runners : SessionOK(r)
  BY <1>2, <1>3 DEF SessionOK, InTransaction
<1>6. LaneLockHeldOnce
  BY <1>2, <1>3 DEF LaneLockHeldOnce
<1> QED BY <1>1, <1>4, <1>5, <1>6 DEF Base

LEMMA BaseNext ==
    ASSUME Base, [Next]_vars
    PROVE  Base'
<1>1. ASSUME NEW r \in Runners, RunnerStep(r) PROVE Base'
  BY <1>1, TryAdvisoryLockBase, ExistingRunSkipBase, LookBase, LoseConnectionBase,
     StartRunBase, EndRunBase, EndRunUnrecordedBase DEF RunnerStep
<1>2. ASSUME NEW r \in Runners, Checkpoint(r) PROVE Base'
  BY <1>2, CheckpointBase
<1>3. ASSUME NEW r \in Runners, NEW l \in Lanes, RunSegment(r, l) \/ DirectRun(r, l)
      PROVE  Base'
  BY <1>3, RunSegmentBase, DirectRunBase
<1>4. ASSUME NEW p \in Procs, OtherSession(p) \/ DropConnection(p) \/ Crash(p)
      PROVE  Base'
  BY <1>4, OtherSessionBase, DropConnectionBase, CrashBase
<1>5. CASE WatchdogInspect \/ WatchdogRepair \/ (\E i \in RunIds : RunAges(i))
              \/ UNCHANGED vars
  BY <1>5, WatchdogBase
<1> QED BY <1>1, <1>2, <1>3, <1>4, <1>5 DEF Next

-----------------------------------------------------------------------------
Deciding == {"held", "looked"}

\* While the rows are looked at and the run's row is inserted, the connection
\* of the transaction holds the lane, alone: this needs no bound on drops.
DeciderHoldsLock ==
    \A r \in Runners : rn[r].pc \in Deciding =>
        /\ adv[rn[r].conn][rn[r].lane] > 0
        /\ \A d \in Conns \ {rn[r].conn} : adv[d][rn[r].lane] = 0

\* From then on some connection of the process does, until the segment ends.
Covered(r) ==
    /\ \E c \in ConnsOf(Proc(r)) : adv[c][rn[r].lane] > 0
    /\ \A p \in Procs \ {Proc(r)} : \A c \in ConnsOf(p) : adv[c][rn[r].lane] = 0

InSegment(r) == rn[r].lanes /\ rn[r].pc \in InTransaction

LocksCover == drops = 0 => \A r \in Runners : InSegment(r) => Covered(r)

Locks == DeciderHoldsLock /\ LocksCover

\* Locks are only given back, never those of a segment that goes on.
OnlyReleases ==
    /\ adv' \in [Conns -> [Lanes -> Nat]]
    /\ drops' = 0 => drops = 0
    /\ \A d \in Conns, k \in Lanes : adv'[d][k] <= adv[d][k]
    /\ \A r \in Runners :
          /\ rn'[r].pc \in Deciding =>
                /\ rn[r].pc \in Deciding
                /\ rn'[r].conn = rn[r].conn /\ rn'[r].lane = rn[r].lane
                /\ adv'[rn[r].conn][rn[r].lane] = adv[rn[r].conn][rn[r].lane]
          /\ drops' = 0 /\ rn'[r].lanes /\ rn'[r].pc \in InTransaction =>
                /\ InSegment(r)
                /\ rn'[r].lane = rn[r].lane
                /\ \A c \in ConnsOf(Proc(r)) :
                      adv'[c][rn[r].lane] = adv[c][rn[r].lane]

LEMMA ReleasesKeepLocks ==
    ASSUME Base, Locks, OnlyReleases
    PROVE  Locks'
<1>1. ASSUME NEW d \in Conns, NEW k \in Lanes, adv[d][k] = 0 PROVE adv'[d][k] = 0
  <2>1. adv'[d][k] \in Nat /\ adv'[d][k] <= adv[d][k]
    BY DEF OnlyReleases
  <2> QED BY <1>1, <2>1
<1>2. \A r \in Runners : rn[r].pc \in InTransaction =>
         rn[r].conn \in Conns /\ rn[r].lane \in Lanes
  BY DEF Base, Shapes, SessionOK, RunnerType, InTransaction
<1>3. DeciderHoldsLock'
  <2> SUFFICES ASSUME NEW r \in Runners, rn'[r].pc \in Deciding
               PROVE  /\ adv'[rn'[r].conn][rn'[r].lane] > 0
                      /\ \A d \in Conns \ {rn'[r].conn} : adv'[d][rn'[r].lane] = 0
    BY DEF DeciderHoldsLock
  <2>1. /\ rn[r].pc \in Deciding
        /\ rn'[r].conn = rn[r].conn /\ rn'[r].lane = rn[r].lane
        /\ adv'[rn[r].conn][rn[r].lane] = adv[rn[r].conn][rn[r].lane]
    BY DEF OnlyReleases
  <2>2. /\ adv[rn[r].conn][rn[r].lane] > 0
        /\ \A d \in Conns \ {rn[r].conn} : adv[d][rn[r].lane] = 0
    BY <2>1 DEF Locks, DeciderHoldsLock
  <2>3. rn[r].lane \in Lanes
    BY <1>2, <2>1 DEF Deciding, InTransaction
  <2> QED BY <1>1, <2>1, <2>2, <2>3
<1>4. LocksCover'
  <2> SUFFICES ASSUME drops' = 0, NEW r \in Runners, InSegment(r)'
               PROVE  Covered(r)'
    BY DEF LocksCover
  <2>1. /\ InSegment(r) /\ drops = 0
        /\ rn'[r].lane = rn[r].lane
        /\ \A c \in ConnsOf(Proc(r)) : adv'[c][rn[r].lane] = adv[c][rn[r].lane]
    BY DEF OnlyReleases, InSegment
  <2>2. Covered(r)
    BY <2>1 DEF Locks, LocksCover
  <2>3. rn[r].lane \in Lanes
    BY <1>2, <2>1 DEF InSegment
  <2>4. \A p \in Procs : ConnsOf(p) \subseteq Conns
    BY Pools
  <2> QED BY <1>1, <2>1, <2>2, <2>3, <2>4 DEF Covered, Proc
<1> QED BY <1>3, <1>4 DEF Locks

\* No lock moves: the sessions may only go on with what they have.
LEMMA NoLockMoves ==
    ASSUME Base, UNCHANGED <<adv, drops>>,
           \A r \in Runners :
              /\ rn'[r].pc \in Deciding =>
                    /\ rn[r].pc \in Deciding
                    /\ rn'[r].conn = rn[r].conn /\ rn'[r].lane = rn[r].lane
              /\ rn'[r].lanes /\ rn'[r].pc \in InTransaction =>
                    InSegment(r) /\ rn'[r].lane = rn[r].lane
    PROVE  OnlyReleases
<1>1. \A d \in Conns, k \in Lanes : adv[d][k] \in Nat
  BY DEF Base, Shapes
<1> QED BY <1>1 DEF OnlyReleases, Base, Shapes

\* The session that leaves gives back holds of its own connection only.
LEMMA LeaverReleases ==
    ASSUME Base, NEW r \in Runners, rn[r].pc \in Deciding \union {"ended"},
           rn' = [rn EXCEPT ![r] = Idle],
           adv' = Unlocked(rn[r].conn, rn[r].lane), UNCHANGED drops
    PROVE  OnlyReleases
<1> DEFINE c == rn[r].conn
           l == rn[r].lane
<1>1. c # None /\ c \in Conns /\ l \in Lanes /\ rn[r].lanes /\ c \in ConnsOf(Proc(r))
  BY DEF Base, Shapes, SessionOK, RunnerType, InTransaction, Deciding, Partition
<1>2. /\ adv' \in [Conns -> [Lanes -> Nat]]
      /\ \A d \in Conns, k \in Lanes :
            /\ d # c \/ k # l => adv'[d][k] = adv[d][k]
            /\ adv'[d][k] <= adv[d][k]
  BY <1>1, UnlockedHolds DEF Base
<1>3. rn'[r].pc = "idle" /\ \A s \in Runners \ {r} : rn'[s] = rn[s]
  BY DEF Base, Shapes, Idle
<1>4. ASSUME NEW s \in Runners \ {r}, rn[s].pc \in Deciding
      PROVE  adv'[rn[s].conn][rn[s].lane] = adv[rn[s].conn][rn[s].lane]
  <2>1. rn[s].conn # None /\ rn[s].conn \in Conns /\ rn[s].lane \in Lanes
    BY <1>4 DEF Base, Shapes, SessionOK, RunnerType, InTransaction, Deciding
  <2>2. rn[s].conn # c
    BY <2>1 DEF Base, Partition
  <2> QED BY <1>2, <2>1, <2>2
<1>5. ASSUME NEW s \in Runners \ {r}, InSegment(s), NEW d \in ConnsOf(Proc(s))
      PROVE  adv'[d][rn[s].lane] = adv[d][rn[s].lane]
  <2>1. rn[s].lane \in Lanes /\ d \in Conns /\ rn[s].lanes
    BY <1>5, Pools DEF Base, SessionOK, InSegment, InTransaction
  <2>2. d # c \/ rn[s].lane # l
    <3>1. CASE Proc(s) = Proc(r)
      BY <1>1, <2>1, <3>1 DEF Base, LaneLockHeldOnce
    <3>2. CASE Proc(s) # Proc(r)
      BY <1>1, <3>2, Pools
    <3> QED BY <3>1, <3>2
  <2> QED BY <1>2, <2>1, <2>2
<1>6. \A s \in Runners :
         /\ rn'[s].pc \in Deciding \union InTransaction => s # r
         /\ s # r => rn'[s] = rn[s]
  BY <1>3 DEF Deciding, InTransaction
<1> HIDE DEF c, l
<1> QED BY <1>2, <1>4, <1>5, <1>6 DEF OnlyReleases, InSegment

\* A connection that is lost loses what it holds; every other session has
\* another connection.
LEMMA LossReleases ==
    ASSUME Base, NEW c \in Conns, adv' = [adv EXCEPT ![c] = [l \in Lanes |-> 0]],
           drops' = drops + 1,
           \A r \in Runners : rn'[r].pc \in Deciding =>
              rn'[r] = rn[r] /\ rn[r].conn # c
    PROVE  OnlyReleases
<1> DEFINE none == [l \in Lanes |-> 0]
<1>1. none \in [Lanes -> Nat] /\ \A k \in Lanes : none[k] = 0
  OBVIOUS
<1>2. adv' = [adv EXCEPT ![c] = none]
  OBVIOUS
<1> HIDE DEF none
<1>3. adv' \in [Conns -> [Lanes -> Nat]]
  BY <1>1, <1>2 DEF Base, Shapes
<1>4. \A d \in Conns, k \in Lanes : adv[d][k] \in Nat
  BY DEF Base, Shapes
<1>5. \A d \in Conns, k \in Lanes :
         /\ adv'[d][k] <= adv[d][k]
         /\ d # c => adv'[d] = adv[d]
  BY <1>1, <1>2, <1>4 DEF Base, Shapes
<1>6. drops' # 0
  BY DEF Base, Shapes
<1>7. \A r \in Runners : rn'[r].pc \in Deciding =>
         adv'[rn[r].conn] = adv[rn[r].conn]
  <2> SUFFICES ASSUME NEW r \in Runners, rn'[r].pc \in Deciding
               PROVE  adv'[rn[r].conn] = adv[rn[r].conn]
    OBVIOUS
  <2>1. rn[r].pc \in Deciding /\ rn[r].conn # c
    OBVIOUS
  <2>2. rn[r].conn \in Conns
    BY <2>1 DEF Base, Shapes, SessionOK, RunnerType, InTransaction, Deciding
  <2> QED BY <1>2, <2>1, <2>2 DEF Base, Shapes
<1> QED BY <1>3, <1>5, <1>6, <1>7 DEF OnlyReleases

LEMMA CrashReleases ==
    ASSUME Base, NEW p \in Procs, Crash(p)
    PROVE  OnlyReleases
<1> DEFINE none == [l \in Lanes |-> 0]
<1>1. none \in [Lanes -> Nat] /\ \A k \in Lanes : none[k] = 0
  OBVIOUS
<1>2. /\ adv' = [c \in Conns |-> IF c \in ConnsOf(p) THEN none ELSE adv[c]]
      /\ rn' = [r \in Runners |-> IF Proc(r) = p THEN Idle ELSE rn[r]]
      /\ UNCHANGED drops
  BY DEF Crash
<1> HIDE DEF none
<1>3. adv' \in [Conns -> [Lanes -> Nat]]
  BY <1>1, <1>2 DEF Base, Shapes
<1>4. \A d \in Conns, k \in Lanes : adv[d][k] \in Nat
  BY DEF Base, Shapes
<1>5. \A d \in Conns, k \in Lanes : adv'[d][k] <= adv[d][k]
  BY <1>1, <1>2, <1>4
<1>6. Idle.pc = "idle"
  BY DEF Idle
<1>7. ASSUME NEW r \in Runners, rn'[r].pc # "idle"
      PROVE  /\ rn'[r] = rn[r]
             /\ \A c \in ConnsOf(Proc(r)) : adv'[c] = adv[c]
  <2>1. Proc(r) # p /\ rn'[r] = rn[r]
    BY <1>2, <1>6, <1>7
  <2>2. \A c \in ConnsOf(Proc(r)) : c \in Conns /\ c \notin ConnsOf(p)
    BY <2>1, Pools
  <2> QED BY <1>2, <2>1, <2>2
<1>8. \A r \in Runners : rn[r].pc \in Deciding => rn[r].conn \in ConnsOf(Proc(r))
  BY DEF Base, SessionOK, Partition, Deciding, InTransaction
<1>9. "idle" \notin Deciding \union InTransaction
  BY DEF Deciding, InTransaction
<1> QED BY <1>2, <1>3, <1>5, <1>7, <1>8, <1>9 DEF OnlyReleases, InSegment

-----------------------------------------------------------------------------
\* The lock is granted to one connection, when no other one has it.
LEMMA GrantLocks ==
    ASSUME Base, Locks, NEW r \in Runners, TryAdvisoryLock(r),
           Granted(Head(pool[Proc(r)]), rn[r].lane)
    PROVE  Locks'
<1> DEFINE c == Head(pool[Proc(r)])
           l == rn[r].lane
           n == [rn[r] EXCEPT !.pc = "held", !.conn = c]
<1>1. /\ rn[r].pc = "lane" /\ pool[Proc(r)] # <<>>
      /\ adv' = [adv EXCEPT ![c][l] = @ + 1]
      /\ rn' = [rn EXCEPT ![r].pc = "held", ![r].conn = c]
      /\ UNCHANGED drops
  BY DEF TryAdvisoryLock
<1>2. rn[r].conn = None /\ rn[r].lanes /\ l \in Lanes
  BY <1>1 DEF Base, SessionOK, InTransaction
<1>3. c \in Conns /\ c \in Range(pool[Proc(r)]) /\ c \in ConnsOf(Proc(r)) /\ Proc(r) \in Procs
  BY <1>1, Pools, TakeFirst DEF Base, Partition
<1>4. \A d \in Conns \ {c} : adv[d][l] = 0
  BY DEF Granted
<1> HIDE DEF c, l
<1>5. rn' = [rn EXCEPT ![r] = n]
  BY <1>1 DEF Base, Shapes
<1>6. n.pc = "held" /\ n.conn = c /\ n.lane = l
  BY DEF Base, Shapes, RunnerType, l
<1> HIDE DEF n
<1>7. rn'[r] = n /\ \A s \in Runners \ {r} : rn'[s] = rn[s]
  BY <1>5 DEF Base, Shapes
<1>8. adv[c][l] \in Nat
  BY <1>2, <1>3 DEF Base, Shapes
<1>9. \A d \in Conns, k \in Lanes :
         adv'[d][k] = IF d = c /\ k = l THEN adv[c][l] + 1 ELSE adv[d][k]
  BY <1>1, <1>2, <1>3 DEF Base, Shapes
<1>10. adv'[c][l] > 0 /\ \A d \in Conns \ {c} : adv'[d][l] = 0
  BY <1>2, <1>3, <1>4, <1>8, <1>9
<1>11. DeciderHoldsLock'
  <2>1. ASSUME NEW s \in Runners \ {r}, rn[s].pc \in Deciding
        PROVE  /\ adv'[rn[s].conn][rn[s].lane] > 0
               /\ \A d \in Conns \ {rn[s].conn} : adv'[d][rn[s].lane] = 0
    <3>1. /\ rn[s].conn # None /\ rn[s].conn \in Conns /\ rn[s].lane \in Lanes
          /\ adv[rn[s].conn][rn[s].lane] > 0
          /\ \A d \in Conns \ {rn[s].conn} : adv[d][rn[s].lane] = 0
      BY <2>1 DEF Locks, DeciderHoldsLock, Base, Shapes, SessionOK, RunnerType,
                  InTransaction, Deciding
    <3>2. rn[s].conn # c
      <4>1. c \in Range(pool[Proc(s)]) \/ Proc(s) # Proc(r)
        BY <1>3
      <4>2. rn[s].conn \in ConnsOf(Proc(s)) /\ rn[s].conn \notin Range(pool[Proc(s)])
        BY <3>1 DEF Base, Partition
      <4> QED BY <1>3, <4>1, <4>2, Pools
    <3>3. rn[s].lane # l
      BY <1>4, <3>1, <3>2
    <3> QED BY <1>9, <3>1, <3>3
  <2> QED BY <1>6, <1>7, <1>10, <2>1 DEF DeciderHoldsLock
<1>12. LocksCover'
  <2> SUFFICES ASSUME drops' = 0, NEW s \in Runners, InSegment(s)'
               PROVE  Covered(s)'
    BY DEF LocksCover
  <2>1. CASE s = r
    <3>1. \A p \in Procs \ {Proc(r)} : \A d \in ConnsOf(p) : d \in Conns \ {c}
      BY <1>3, Pools
    <3> QED BY <1>3, <1>6, <1>7, <1>10, <2>1, <3>1 DEF Covered, Proc
  <2>2. CASE s # r
    <3>1. /\ rn'[s] = rn[s] /\ InSegment(s) /\ Covered(s)
          /\ rn[s].lane \in Lanes
      BY <1>1, <1>7, <2>2 DEF Locks, LocksCover, InSegment, InTransaction, Base, SessionOK
    <3>2. \A d \in ConnsOf(Proc(s)) : adv[d][rn[s].lane] \in Nat
      BY <3>1, Pools DEF Base, Shapes
    <3>3. rn[s].lane # l
      <4>1. CASE Proc(s) = Proc(r)
        BY <1>2, <2>2, <3>1, <4>1 DEF Base, LaneLockHeldOnce, InSegment, l
      <4>2. CASE Proc(s) # Proc(r)
        BY <1>3, <1>4, <3>1, <4>2, Pools DEF Covered
      <4> QED BY <4>1, <4>2
    <3>4. \A p \in Procs : ConnsOf(p) \subseteq Conns
      BY Pools
    <3>5. \A d \in Conns : adv'[d][rn[s].lane] = adv[d][rn[s].lane]
      BY <1>9, <3>1, <3>3
    <3>6. Proc(s) \in Procs
      BY Pools
    <3> QED BY <3>1, <3>4, <3>5, <3>6 DEF Covered, Proc
  <2> QED BY <2>1, <2>2
<1> QED BY <1>11, <1>12 DEF Locks

\* One session steps; the others keep what they have.
LEMMA OthersStay ==
    ASSUME Base, NEW r \in Runners, NEW n \in RunnerType, rn' = [rn EXCEPT ![r] = n]
    PROVE  rn'[r] = n /\ \A s \in Runners \ {r} : rn'[s] = rn[s]
BY DEF Base, Shapes

LEMMA QuietStep ==
    ASSUME Base, NEW r \in Runners, NEW n \in RunnerType, rn' = [rn EXCEPT ![r] = n],
           UNCHANGED <<adv, drops>>,
           n.pc \in Deciding =>
              rn[r].pc \in Deciding /\ n.conn = rn[r].conn /\ n.lane = rn[r].lane,
           n.lanes /\ n.pc \in InTransaction => InSegment(r) /\ n.lane = rn[r].lane
    PROVE  OnlyReleases
<1>1. rn'[r] = n /\ \A s \in Runners \ {r} : rn'[s] = rn[s]
  BY OthersStay
<1> QED BY <1>1, NoLockMoves DEF InSegment

\* The new state of the session that steps, when no lock moves.
LEMMA SessionSteps ==
    ASSUME Base, NEW r \in Runners
    PROVE  /\ \A force \in BOOLEAN : Look(r, force) => OnlyReleases
           /\ StartRun(r) => OnlyReleases
           /\ Checkpoint(r) => OnlyReleases
           /\ \A st \in {"completed", "failed"} : EndRun(r, st) => OnlyReleases
           /\ EndRunUnrecorded(r) => OnlyReleases
<1>2. rn[r] \in RunnerType
  BY DEF Base, Shapes
<1>3. Idle.pc = "idle" /\ "idle" \notin Deciding \union InTransaction
  BY DEF Idle, Deciding, InTransaction
<1>4. rn[r].pc = "looked" => rn[r].lanes /\ rn[r].pc \in InTransaction
  BY DEF Base, SessionOK, InTransaction
<1>5. ASSUME NEW force \in BOOLEAN, Look(r, force) PROVE OnlyReleases
  <2> DEFINE n == [rn[r] EXCEPT !.pc = "looked", !.guarded = ~force]
  <2>1. n \in RunnerType
    BY <1>2 DEF RunnerType
  <2>2. rn' = [rn EXCEPT ![r] = n] /\ rn[r].pc = "held" /\ UNCHANGED <<adv, drops>>
    BY <1>5 DEF Look, Base, Shapes
  <2>3. /\ n.pc = "looked" /\ n.conn = rn[r].conn
        /\ n.lane = rn[r].lane /\ n.lanes = rn[r].lanes
    BY <1>2 DEF RunnerType
  <2> HIDE DEF n
  <2> QED BY <2>1, <2>2, <2>3, QuietStep DEF Deciding, InTransaction, InSegment
<1>6. ASSUME StartRun(r) PROVE OnlyReleases
  <2> DEFINE q == Returned(Proc(r), rn[r].conn)
             id == NextRunId
             n == [rn[r] EXCEPT !.pc = "live", !.run = id, !.conn = Head(q)]
  <2>1. /\ rn' = [rn EXCEPT ![r].pc = "live", ![r].run = id, ![r].conn = Head(q)]
        /\ rn[r].pc = "looked" /\ id \in RunIds /\ UNCHANGED <<adv, drops>>
    BY <1>6 DEF StartRun, StartedRun
  <2>2. Head(q) \in Conns
    BY <2>1, RecyclesConnection DEF Base, SessionOK, InTransaction
  <2>3. id \in 0..MaxRuns
    BY <2>1, Pools DEF RunIds
  <2> HIDE DEF q, id
  <2>4. n \in RunnerType
    BY <1>2, <2>2, <2>3 DEF RunnerType
  <2>5. n.pc = "live" /\ n.lane = rn[r].lane
    BY <1>2 DEF RunnerType
  <2>6. rn' = [rn EXCEPT ![r] = n]
    BY <2>1 DEF Base, Shapes
  <2> HIDE DEF n
  <2> QED BY <1>4, <2>1, <2>4, <2>5, <2>6, QuietStep DEF Deciding, InSegment
<1>7. ASSUME Checkpoint(r) PROVE OnlyReleases
  <2> DEFINE q == Returned(Proc(r), rn[r].conn)
             n == [rn[r] EXCEPT !.conn = Head(q)]
  <2>1. /\ rn' = [rn EXCEPT ![r].conn = Head(q)]
        /\ rn[r].pc = "live" /\ UNCHANGED <<adv, drops>>
    BY <1>7 DEF Checkpoint, Recycled
  <2>2. Head(q) \in Conns
    BY <2>1, RecyclesConnection DEF Base, SessionOK, InTransaction
  <2> HIDE DEF q
  <2>3. n \in RunnerType
    BY <1>2, <2>2 DEF RunnerType
  <2>4. n.pc = "live" /\ n.lane = rn[r].lane /\ n.lanes = rn[r].lanes
    BY <1>2, <2>1 DEF RunnerType
  <2>5. rn' = [rn EXCEPT ![r] = n]
    BY <2>1 DEF Base, Shapes
  <2> HIDE DEF n
  <2> QED BY <2>1, <2>3, <2>4, <2>5, QuietStep DEF Deciding, InSegment, InTransaction
<1>8. ASSUME NEW st \in {"completed", "failed"}, EndRun(r, st) PROVE OnlyReleases
  <2> DEFINE q == Returned(Proc(r), rn[r].conn)
             n == [rn[r] EXCEPT !.pc = "ended", !.conn = Head(q)]
  <2>1. rn[r].pc = "live" /\ UNCHANGED <<adv, drops>>
    BY <1>8 DEF EndRun
  <2>2. CASE rn[r].lanes
    <3>1. rn' = [rn EXCEPT ![r].pc = "ended", ![r].conn = Head(q)]
      BY <1>8, <2>2 DEF EndRun
    <3>2. Head(q) \in Conns
      BY <2>1, RecyclesConnection DEF Base, SessionOK, InTransaction
    <3> HIDE DEF q
    <3>3. n \in RunnerType
      BY <1>2, <3>2 DEF RunnerType
    <3>4. n.pc = "ended" /\ n.lane = rn[r].lane /\ n.lanes = rn[r].lanes
      BY <1>2, <2>1 DEF RunnerType
    <3>5. rn' = [rn EXCEPT ![r] = n]
      BY <3>1 DEF Base, Shapes
    <3> HIDE DEF n
    <3> QED BY <2>1, <3>3, <3>4, <3>5, QuietStep DEF Deciding, InSegment, InTransaction
  <2>3. CASE ~rn[r].lanes
    <3>1. rn' = [rn EXCEPT ![r] = Idle]
      BY <1>8, <2>3 DEF EndRun
    <3> QED BY <1>3, <2>1, <3>1, IdleType, QuietStep
  <2> QED BY <2>2, <2>3
<1>9. ASSUME EndRunUnrecorded(r) PROVE OnlyReleases
  <2>1. rn' = [rn EXCEPT ![r] = Idle] /\ UNCHANGED <<adv, drops>>
    BY <1>9 DEF EndRunUnrecorded, Leave
  <2> QED BY <1>3, <2>1, IdleType, QuietStep
<1> QED BY <1>5, <1>6, <1>7, <1>8, <1>9

\* Where a segment begins, is refused, or a direct run starts.
LEMMA BeginningSteps ==
    ASSUME Base, NEW r \in Runners
    PROVE  /\ \A l \in Lanes : RunSegment(r, l) \/ DirectRun(r, l) => OnlyReleases
           /\ TryAdvisoryLock(r) /\ ~Granted(Head(pool[Proc(r)]), rn[r].lane) =>
                 OnlyReleases
<1>1. Idle.pc = "idle" /\ "idle" \notin Deciding \union InTransaction
  BY DEF Idle, Deciding, InTransaction
<1>2. ASSUME NEW l \in Lanes, RunSegment(r, l) PROVE OnlyReleases
  <2> DEFINE n == [Idle EXCEPT !.pc = "lane", !.lane = l, !.lanes = TRUE]
  <2>1. n \in RunnerType /\ n.pc = "lane"
    BY IdleType DEF Idle, RunnerType
  <2>2. rn' = [rn EXCEPT ![r] = n] /\ UNCHANGED <<adv, drops>>
    BY <1>2 DEF RunSegment
  <2> HIDE DEF n
  <2> QED BY <2>1, <2>2, QuietStep DEF Deciding, InTransaction
<1>3. ASSUME NEW l \in Lanes, DirectRun(r, l) PROVE OnlyReleases
  <2> DEFINE q == Append(Tail(pool[Proc(r)]), Head(pool[Proc(r)]))
             id == NextRunId
             n == [Idle EXCEPT !.pc = "live", !.lane = l, !.run = id, !.conn = Head(q)]
  <2>1. /\ rn[r].pc = "idle" /\ id \in RunIds /\ pool[Proc(r)] # <<>>
        /\ rn' = [rn EXCEPT ![r] = n] /\ UNCHANGED <<adv, drops>>
    BY <1>3 DEF DirectRun
  <2>2. Head(q) \in Conns
    BY <2>1, PassesConnection DEF Base, SessionOK, InTransaction
  <2>3. id \in 0..MaxRuns
    BY <2>1, Pools DEF RunIds
  <2> HIDE DEF q, id
  <2>4. n \in RunnerType /\ n.pc = "live" /\ n.lanes = FALSE
    BY <2>2, <2>3, IdleType DEF Idle, RunnerType
  <2> HIDE DEF n
  <2> QED BY <2>1, <2>4, QuietStep DEF Deciding
<1>4. ASSUME TryAdvisoryLock(r), ~Granted(Head(pool[Proc(r)]), rn[r].lane)
      PROVE  OnlyReleases
  <2>1. rn' = [rn EXCEPT ![r] = Idle] /\ UNCHANGED <<adv, drops>>
    BY <1>4 DEF TryAdvisoryLock, Leave
  <2> QED BY <1>1, <2>1, IdleType, QuietStep
<1> QED BY <1>2, <1>3, <1>4

LEMMA LocksNext ==
    ASSUME Base, Locks, [Next]_vars
    PROVE  Locks'
<1>1. ASSUME NEW r \in Runners, RunnerStep(r) PROVE Locks'
  <2>1. CASE TryAdvisoryLock(r)
    <3>1. CASE Granted(Head(pool[Proc(r)]), rn[r].lane)
      BY <2>1, <3>1, GrantLocks
    <3>2. CASE ~Granted(Head(pool[Proc(r)]), rn[r].lane)
      BY <2>1, <3>2, BeginningSteps, ReleasesKeepLocks
    <3> QED BY <3>1, <3>2
  <2>2. CASE ExistingRunSkip(r) \/ ReleaseAdvisoryLock(r)
    <3>1. /\ rn[r].pc \in Deciding \union {"ended"}
          /\ rn' = [rn EXCEPT ![r] = Idle]
          /\ adv' = Unlocked(rn[r].conn, rn[r].lane) /\ UNCHANGED drops
      BY <2>2 DEF ExistingRunSkip, ReleaseAdvisoryLock, Leave, Deciding
    <3> QED BY <3>1, LeaverReleases, ReleasesKeepLocks
  <2>3. CASE LoseConnection(r)
    <3>1. /\ rn[r].pc \in Deciding
          /\ rn' = [rn EXCEPT ![r] = Idle]
          /\ adv' = [adv EXCEPT ![rn[r].conn] = [l \in Lanes |-> 0]]
          /\ drops' = drops + 1
      BY <2>3 DEF LoseConnection, Leave, Deciding
    <3>2. rn[r].conn # None /\ rn[r].conn \in Conns
      BY <3>1 DEF Base, Shapes, SessionOK, RunnerType, InTransaction, Deciding
    <3>3. rn'[r] = Idle /\ \A s \in Runners \ {r} : rn'[s] = rn[s]
      BY <3>1, OthersStay, IdleType
    <3>4. ASSUME NEW s \in Runners, rn'[s].pc \in Deciding
          PROVE  rn'[s] = rn[s] /\ rn[s].conn # rn[r].conn
      <4>1. s # r
        BY <3>3, <3>4 DEF Idle, Deciding
      <4> QED BY <3>2, <3>3, <4>1 DEF Base, Partition
    <3> QED BY <3>1, <3>2, <3>4, LossReleases, ReleasesKeepLocks
  <2>4. CASE \/ \E force \in BOOLEAN : Look(r, force)
             \/ StartRun(r)
             \/ \E st \in {"completed", "failed"} : EndRun(r, st)
             \/ EndRunUnrecorded(r)
    BY <2>4, SessionSteps, ReleasesKeepLocks
  <2> QED BY <1>1, <2>1, <2>2, <2>3, <2>4 DEF RunnerStep
<1>2. ASSUME NEW r \in Runners, Checkpoint(r) PROVE Locks'
  BY <1>2, SessionSteps, ReleasesKeepLocks
<1>3. ASSUME NEW r \in Runners, NEW l \in Lanes, RunSegment(r, l) \/ DirectRun(r, l)
      PROVE  Locks'
  BY <1>3, BeginningSteps, ReleasesKeepLocks
<1>4. ASSUME NEW p \in Procs, Crash(p) PROVE Locks'
  BY <1>4, CrashReleases, ReleasesKeepLocks
<1>5. ASSUME NEW p \in Procs, DropConnection(p) PROVE Locks'
  <2>1. /\ pool[p] # <<>> /\ pool[p] \in Seq(Conns)
        /\ adv' = [adv EXCEPT ![Head(pool[p])] = [l \in Lanes |-> 0]]
        /\ drops' = drops + 1 /\ UNCHANGED rn
    BY <1>5 DEF DropConnection, Base, Partition
  <2>2. Head(pool[p]) \in Conns /\ Head(pool[p]) \in Range(pool[p])
    BY <2>1, TakeFirst
  <2>3. ASSUME NEW s \in Runners, rn[s].pc \in Deciding
        PROVE  rn[s].conn # Head(pool[p])
    <3>1. /\ rn[s].conn \in ConnsOf(Proc(s))
          /\ rn[s].conn \notin Range(pool[Proc(s)])
      BY <2>3 DEF Base, SessionOK, Partition, Deciding, InTransaction
    <3>2. Head(pool[p]) \in ConnsOf(p)
      BY <2>2 DEF Base, Partition
    <3> QED BY <2>2, <3>1, <3>2, Pools
  <2> QED BY <2>1, <2>2, <2>3, LossReleases, ReleasesKeepLocks
<1>6. CASE \/ WatchdogInspect \/ WatchdogRepair \/ UNCHANGED vars
           \/ \E i \in RunIds : RunAges(i)
           \/ \E p \in Procs : OtherSession(p)
  <2>1. UNCHANGED <<adv, drops, rn>>
    BY <1>6 DEF WatchdogInspect, WatchdogRepair, RunAges, OtherSession, vars
  <2>2. OnlyReleases
    BY <2>1, NoLockMoves DEF InSegment
  <2> QED BY <2>2, ReleasesKeepLocks
<1> QED BY <1>1, <1>2, <1>3, <1>4, <1>5, <1>6 DEF Next

-----------------------------------------------------------------------------
\* Two sessions never look at the rows of one lane at the same time: each
\* would hold the lane's advisory lock alone.
LEMMA OneDecides ==
    ASSUME Base, Locks, NEW r \in Runners, NEW s \in Runners, r # s,
           rn[r].pc \in Deciding, rn[s].pc \in Deciding
    PROVE  rn[r].lane # rn[s].lane
<1>1. /\ rn[r].conn # None /\ rn[r].conn \in Conns
      /\ rn[s].conn # None /\ rn[s].conn \in Conns
  BY DEF Base, Shapes, SessionOK, RunnerType, InTransaction, Deciding
<1>2. rn[r].conn # rn[s].conn
  BY <1>1 DEF Base, Partition
<1> QED BY <1>1, <1>2 DEF Locks, DeciderHoldsLock

Written(i) == runs[i].st # None

\* The rows are written in their order, so that the next one is free.
RowsInOrder == \E k \in 0..MaxRuns : \A i \in RunIds : Written(i) <=> i <= k

\* A live run has its row.
LiveHasRow ==
    \A r \in Runners : Live(r) =>
        rn[r].run \in RunIds /\ Written(rn[r].run) /\ runs[rn[r].run].lane = rn[r].lane

\* NobodyRuns(r): nobody's guarded run of the lane has a running row.
NobodyRuns(r) ==
    \A s \in Runners : Live(s) /\ rn[s].guarded /\ rn[s].lane = rn[r].lane =>
        runs[rn[s].run].st # "running"

LookedAlone == \A r \in Runners : rn[r].pc = "looked" /\ rn[r].guarded => NobodyRuns(r)

Rows ==
    /\ RowsInOrder
    /\ \A i \in watch : Written(i)
    /\ LiveHasRow
    /\ LookedAlone
    /\ LaneExclusive

LEMMA NextRowFree ==
    ASSUME RowsInOrder
    PROVE  \E k \in 0..MaxRuns : /\ \A i \in RunIds : Written(i) <=> i <= k
                                 /\ NextRunId = k + 1
<1>1. PICK k \in 0..MaxRuns : \A i \in RunIds : Written(i) <=> i <= k
  BY DEF RowsInOrder
<1>2. MaxRuns \in Nat
  BY LaneAssumption
<1>3. {i \in RunIds : runs[i].st # None} = 1..k
  BY <1>1, <1>2 DEF RunIds, Written
<1>4. Cardinality(1..k) = k
  BY <1>1, <1>2, FS_Interval
<1>5. NextRunId = k + 1
  BY <1>3, <1>4 DEF NextRunId
<1> QED BY <1>1, <1>5

\* No row is added and none comes back to running; no session starts to be
\* live or to have looked.
LEMMA RowsStay ==
    ASSUME Rows,
           \A i \in RunIds : /\ Written(i)' <=> Written(i)
                             /\ runs'[i].lane = runs[i].lane
                             /\ runs'[i].st = "running" => runs[i].st = "running",
           \A i \in watch' : i \in RunIds /\ Written(i),
           \A r \in Runners : rn'[r].pc \in {"live", "looked"} =>
              /\ rn'[r].pc = rn[r].pc
              /\ rn'[r].run = rn[r].run /\ rn'[r].lane = rn[r].lane
              /\ rn'[r].guarded = rn[r].guarded
    PROVE  Rows'
<1>1. RowsInOrder'
  BY DEF Rows, RowsInOrder
<1>2. LiveHasRow'
  BY DEF Rows, LiveHasRow, Live
<1>3. LookedAlone'
  BY DEF Rows, LookedAlone, NobodyRuns, Live, LiveHasRow
<1>4. LaneExclusive'
  <2> SUFFICES ASSUME NEW r \in Runners, NEW s \in Runners, r # s,
                      Live(r)', Live(s)', rn'[r].guarded, rn'[s].guarded,
                      rn'[r].lane = rn'[s].lane
               PROVE  \E q \in {r, s} : runs'[rn'[q].run].st # "running"
    BY DEF LaneExclusive
  <2>1. /\ rn'[r].run = rn[r].run /\ rn[r].run \in RunIds
        /\ rn'[s].run = rn[s].run /\ rn[s].run \in RunIds
        /\ Live(r) /\ Live(s) /\ rn[r].guarded /\ rn[s].guarded
        /\ rn[r].lane = rn[s].lane
    BY DEF Live, Rows, LiveHasRow
  <2>2. \E q \in {r, s} : runs[rn[q].run].st # "running"
    BY <2>1 DEF Rows, LaneExclusive
  <2> QED BY <2>1, <2>2
<1>5. \A i \in watch' : Written(i)'
  OBVIOUS
<1> QED BY <1>1, <1>2, <1>3, <1>4, <1>5 DEF Rows

(***************************************************************************)
(* A run inserts its row: a direct run, or one that has looked.  A guarded *)
(* one found no other run of its lane, and nobody else is looking.         *)
(***************************************************************************)
LEMMA RowInserted ==
    ASSUME Base, Locks, Rows, NEW r \in Runners, NEW l \in Lanes,
           NEW n \in RunnerType, rn' = [rn EXCEPT ![r] = n],
           NextRunId \in RunIds, runs' = Inserted(l), UNCHANGED watch,
           n.pc = "live", n.run = NextRunId, n.lane = l,
           n.guarded => rn[r].pc = "looked" /\ rn[r].guarded /\ rn[r].lane = l
    PROVE  Rows'
<1>1. PICK k \in 0..MaxRuns : /\ \A i \in RunIds : Written(i) <=> i <= k
                              /\ NextRunId = k + 1
  BY NextRowFree DEF Rows
<1> DEFINE id == k + 1
<1>2. /\ rn'[r] = n
      /\ \A s \in Runners \ {r} : rn'[s] = rn[s]
  BY OthersStay
<1>3. /\ runs'[id] = [st |-> "running", lane |-> l, old |-> FALSE]
      /\ \A i \in RunIds \ {id} : runs'[i] = runs[i]
  BY <1>1 DEF Inserted, Base, Shapes
<1>4. MaxRuns \in Nat /\ id \in RunIds /\ n.run = id
  BY <1>1, Pools
<1>5. ~Written(id)
  BY <1>1, <1>4 DEF RunIds
<1> HIDE DEF id
<1>6. /\ Written(id)' /\ runs'[id].lane = l
      /\ \A i \in RunIds \ {id} : Written(i)' <=> Written(i)
  BY <1>3 DEF Written, None
<1>7. RowsInOrder'
  <2>1. k + 1 \in 0..MaxRuns
    BY <1>1, <1>4 DEF RunIds, id
  <2>2. \A i \in RunIds : Written(i)' <=> i <= k + 1
    BY <1>1, <1>4, <1>6 DEF RunIds, id
  <2> QED BY <2>1, <2>2 DEF RowsInOrder
<1>8. \A i \in watch' : Written(i)'
  BY <1>6 DEF Rows, Base, Shapes
<1>9. ASSUME NEW s \in Runners \ {r}, Live(s)
      PROVE  /\ rn[s].run \in RunIds /\ rn[s].run # id
             /\ Written(rn[s].run) /\ runs[rn[s].run].lane = rn[s].lane
             /\ runs'[rn[s].run] = runs[rn[s].run]
  BY <1>3, <1>5, <1>9 DEF Rows, LiveHasRow
<1>10. LiveHasRow'
  BY <1>2, <1>4, <1>6, <1>9 DEF LiveHasRow, Live, Written
<1>11. ASSUME n.guarded PROVE NobodyRuns(r) /\ rn[r].lane = l
  BY <1>11 DEF Rows, LookedAlone
<1>12. ASSUME NEW s \in Runners, rn'[s].pc = "looked", rn'[s].guarded
       PROVE  NobodyRuns(s)'
  <2>1. s # r /\ rn'[s] = rn[s]
    BY <1>2, <1>12
  <2>2. NobodyRuns(s)
    BY <1>12, <2>1 DEF Rows, LookedAlone
  <2>3. ASSUME n.guarded PROVE rn[s].lane # l
    BY <1>12, <2>1, <2>3, OneDecides DEF Deciding
  <2>4. ASSUME NEW u \in Runners, Live(u)', rn'[u].guarded, rn'[u].lane = rn'[s].lane
        PROVE  runs'[rn'[u].run].st # "running"
    <3>1. u # r
      BY <1>2, <2>1, <2>3, <2>4
    <3> QED BY <1>2, <1>9, <2>1, <2>2, <2>4, <3>1 DEF NobodyRuns, Live
  <2> QED BY <2>4 DEF NobodyRuns
<1>13. LaneExclusive'
  <2> SUFFICES ASSUME NEW s \in Runners, NEW u \in Runners, s # u,
                      Live(s)', Live(u)', rn'[s].guarded, rn'[u].guarded,
                      rn'[s].lane = rn'[u].lane
               PROVE  \E q \in {s, u} : runs'[rn'[q].run].st # "running"
    BY DEF LaneExclusive
  <2>1. ASSUME NEW q \in Runners \ {r}, n.guarded, Live(q)', rn'[q].guarded,
               rn'[q].lane = l
        PROVE  runs'[rn'[q].run].st # "running"
    BY <1>2, <1>9, <1>11, <2>1 DEF NobodyRuns, Live
  <2>2. CASE s = r \/ u = r
    BY <1>2, <2>1, <2>2
  <2>3. CASE s # r /\ u # r
    <3>1. \E q \in {s, u} : runs[rn[q].run].st # "running"
      BY <1>2, <2>3 DEF Rows, LaneExclusive, Live
    <3> QED BY <1>2, <1>9, <2>3, <3>1 DEF Live
  <2> QED BY <2>2, <2>3
<1> QED BY <1>7, <1>8, <1>10, <1>12, <1>13 DEF Rows, LookedAlone

LEMMA LookRows ==
    ASSUME Base, Rows, NEW r \in Runners, NEW force \in BOOLEAN, Look(r, force)
    PROVE  Rows'
<1> DEFINE n == [rn[r] EXCEPT !.pc = "looked", !.guarded = ~force]
<1>1. n \in RunnerType
  BY DEF Base, Shapes, RunnerType
<1>2. n.pc = "looked" /\ n.guarded = ~force /\ n.lane = rn[r].lane
  BY DEF Base, Shapes, RunnerType
<1>3. /\ rn' = [rn EXCEPT ![r] = n]
      /\ force \/ RowsOf(rn[r].lane, "running") = {}
      /\ UNCHANGED <<runs, watch>>
  BY DEF Look, Base, Shapes
<1> HIDE DEF n
<1>4. rn'[r] = n /\ \A s \in Runners \ {r} : rn'[s] = rn[s]
  BY <1>1, <1>3, OthersStay
<1>5. /\ RowsInOrder'
      /\ \A i \in watch' : Written(i)'
  BY <1>3 DEF Rows, RowsInOrder, Written
<1>6. \A s \in Runners : Live(s)' => Live(s) /\ rn'[s] = rn[s]
  BY <1>2, <1>4 DEF Live
<1>7. LiveHasRow'
  BY <1>3, <1>6 DEF Rows, LiveHasRow, Written
<1>8. LaneExclusive'
  BY <1>3, <1>6 DEF Rows, LaneExclusive
<1>9. ~force => NobodyRuns(r)
  BY <1>3 DEF Rows, LiveHasRow, NobodyRuns, RowsOf
<1>10. LookedAlone'
  <2> SUFFICES ASSUME NEW s \in Runners, rn'[s].pc = "looked", rn'[s].guarded
               PROVE  NobodyRuns(s)'
    BY DEF LookedAlone
  <2>1. NobodyRuns(s) /\ rn'[s].lane = rn[s].lane
    BY <1>2, <1>4, <1>9 DEF Rows, LookedAlone
  <2> QED BY <1>3, <1>6, <2>1 DEF NobodyRuns
<1> QED BY <1>5, <1>7, <1>8, <1>10 DEF Rows

\* A session that leaves, and one whose run goes on.
LEMMA SessionStays ==
    ASSUME Base, Rows, NEW r \in Runners, NEW n \in RunnerType,
           rn' = [rn EXCEPT ![r] = n],
           n.pc \in {"live", "looked"} =>
              /\ n.pc = rn[r].pc /\ n.run = rn[r].run /\ n.lane = rn[r].lane
              /\ n.guarded = rn[r].guarded,
           \A i \in RunIds : /\ Written(i)' <=> Written(i)
                             /\ runs'[i].lane = runs[i].lane
                             /\ runs'[i].st = "running" => runs[i].st = "running",
           UNCHANGED watch
    PROVE  Rows'
<1>1. rn'[r] = n /\ \A s \in Runners \ {r} : rn'[s] = rn[s]
  BY OthersStay
<1>2. \A i \in watch' : i \in RunIds /\ Written(i)
  BY DEF Base, Shapes, Rows
<1>3. \A s \in Runners : rn'[s].pc \in {"live", "looked"} =>
         /\ rn'[s].pc = rn[s].pc
         /\ rn'[s].run = rn[s].run /\ rn'[s].lane = rn[s].lane
         /\ rn'[s].guarded = rn[s].guarded
  BY <1>1
<1> QED BY <1>2, <1>3, RowsStay

LEMMA SessionRows ==
    ASSUME Base, Locks, Rows, NEW r \in Runners, RunnerStep(r) \/ Checkpoint(r)
    PROVE  Rows'
<1>1. rn[r] \in RunnerType
  BY DEF Base, Shapes
<1>2. Idle.pc = "idle"
  BY DEF Idle
<1>3. ASSUME rn' = [rn EXCEPT ![r] = Idle], UNCHANGED <<runs, watch>> PROVE Rows'
  BY <1>2, <1>3, IdleType, SessionStays DEF Written
<1>4. CASE TryAdvisoryLock(r)
  <2> DEFINE c == Head(pool[Proc(r)])
             n == [rn[r] EXCEPT !.pc = "held", !.conn = c]
  <2>1. UNCHANGED <<runs, watch>> /\ rn[r].pc = "lane" /\ pool[Proc(r)] # <<>>
    BY <1>4 DEF TryAdvisoryLock
  <2>2. CASE Granted(c, rn[r].lane)
    <3>1. rn' = [rn EXCEPT ![r].pc = "held", ![r].conn = c]
      BY <1>4, <2>2 DEF TryAdvisoryLock
    <3>2. c \in Conns
      BY <2>1, TakesConnection DEF Base, SessionOK, InTransaction
    <3> HIDE DEF c
    <3>3. n \in RunnerType /\ n.pc = "held"
      BY <1>1, <3>2 DEF RunnerType
    <3>4. rn' = [rn EXCEPT ![r] = n]
      BY <3>1 DEF Base, Shapes
    <3> HIDE DEF n
    <3> QED BY <2>1, <3>3, <3>4, SessionStays DEF Written
  <2>3. CASE ~Granted(c, rn[r].lane)
    BY <1>3, <1>4, <2>1, <2>3 DEF TryAdvisoryLock, Leave
  <2> QED BY <2>2, <2>3
<1>5. CASE \/ ExistingRunSkip(r) \/ ReleaseAdvisoryLock(r) \/ LoseConnection(r)
           \/ EndRunUnrecorded(r)
  BY <1>3, <1>5 DEF ExistingRunSkip, ReleaseAdvisoryLock, LoseConnection,
                    EndRunUnrecorded, Leave
<1>6. ASSUME NEW force \in BOOLEAN, Look(r, force) PROVE Rows'
  BY <1>6, LookRows
<1>7. CASE StartRun(r)
  <2> DEFINE q == Returned(Proc(r), rn[r].conn)
             id == NextRunId
             n == [rn[r] EXCEPT !.pc = "live", !.run = id, !.conn = Head(q)]
  <2>1. /\ rn' = [rn EXCEPT ![r].pc = "live", ![r].run = id, ![r].conn = Head(q)]
        /\ rn[r].pc = "looked" /\ id \in RunIds
        /\ runs' = Inserted(rn[r].lane) /\ UNCHANGED watch
    BY <1>7 DEF StartRun, StartedRun
  <2>2. Head(q) \in Conns /\ rn[r].lane \in Lanes
    BY <2>1, RecyclesConnection DEF Base, SessionOK, InTransaction
  <2>3. id \in 0..MaxRuns
    BY <2>1, Pools DEF RunIds
  <2> HIDE DEF q, id
  <2>4. n \in RunnerType
    BY <1>1, <2>2, <2>3 DEF RunnerType
  <2>5. /\ n.pc = "live" /\ n.run = id /\ n.lane = rn[r].lane
        /\ n.guarded = rn[r].guarded
    BY <1>1 DEF RunnerType
  <2>6. rn' = [rn EXCEPT ![r] = n]
    BY <2>1 DEF Base, Shapes
  <2> HIDE DEF n
  <2> QED BY <2>1, <2>2, <2>4, <2>5, <2>6, RowInserted DEF id
<1>8. CASE Checkpoint(r)
  <2> DEFINE q == Returned(Proc(r), rn[r].conn)
             n == [rn[r] EXCEPT !.conn = Head(q)]
  <2>1. /\ rn' = [rn EXCEPT ![r].conn = Head(q)]
        /\ rn[r].pc = "live" /\ UNCHANGED <<runs, watch>>
    BY <1>8 DEF Checkpoint, Recycled
  <2>2. Head(q) \in Conns
    BY <2>1, RecyclesConnection DEF Base, SessionOK, InTransaction
  <2> HIDE DEF q
  <2>3. n \in RunnerType
    BY <1>1, <2>2 DEF RunnerType
  <2>4. /\ n.pc = rn[r].pc /\ n.run = rn[r].run /\ n.lane = rn[r].lane
        /\ n.guarded = rn[r].guarded
    BY <1>1 DEF RunnerType
  <2>5. rn' = [rn EXCEPT ![r] = n]
    BY <2>1 DEF Base, Shapes
  <2> HIDE DEF n
  <2> QED BY <2>1, <2>3, <2>4, <2>5, SessionStays DEF Written
<1>9. ASSUME NEW st \in {"completed", "failed"}, EndRun(r, st) PROVE Rows'
  <2> DEFINE q == Returned(Proc(r), rn[r].conn)
             n == [rn[r] EXCEPT !.pc = "ended", !.conn = Head(q)]
  <2>1. /\ rn[r].pc = "live" /\ UNCHANGED watch
        /\ runs' = [runs EXCEPT ![rn[r].run].st = st]
    BY <1>9 DEF EndRun
  <2>2. rn[r].run \in RunIds /\ Written(rn[r].run)
    BY <2>1 DEF Rows, LiveHasRow, Live
  <2>3. \A i \in RunIds : /\ Written(i)' <=> Written(i)
                          /\ runs'[i].lane = runs[i].lane
                          /\ runs'[i].st = "running" => runs[i].st = "running"
    BY <2>1, <2>2 DEF Written, None, Base, Shapes, RunType
  <2>4. CASE rn[r].lanes
    <3>1. rn' = [rn EXCEPT ![r].pc = "ended", ![r].conn = Head(q)]
      BY <1>9, <2>4 DEF EndRun
    <3>2. Head(q) \in Conns
      BY <2>1, RecyclesConnection DEF Base, SessionOK, InTransaction
    <3> HIDE DEF q
    <3>3. n \in RunnerType /\ n.pc = "ended"
      BY <1>1, <3>2 DEF RunnerType
    <3>4. rn' = [rn EXCEPT ![r] = n]
      BY <3>1 DEF Base, Shapes
    <3> HIDE DEF n
    <3> QED BY <2>1, <2>3, <3>3, <3>4, SessionStays
  <2>5. CASE ~rn[r].lanes
    <3>1. rn' = [rn EXCEPT ![r] = Idle]
      BY <1>9, <2>5 DEF EndRun
    <3> QED BY <1>2, <2>1, <2>3, <3>1, IdleType, SessionStays
  <2> QED BY <2>4, <2>5
<1> QED BY <1>4, <1>5, <1>6, <1>7, <1>8, <1>9 DEF RunnerStep

LEMMA RowsNext ==
    ASSUME Base, Locks, Rows, [Next]_vars
    PROVE  Rows'
<1>1. ASSUME NEW r \in Runners, RunnerStep(r) \/ Checkpoint(r) PROVE Rows'
  BY <1>1, SessionRows
<1>2. ASSUME NEW r \in Runners, NEW l \in Lanes, RunSegment(r, l) PROVE Rows'
  <2> DEFINE n == [Idle EXCEPT !.pc = "lane", !.lane = l, !.lanes = TRUE]
  <2>1. n \in RunnerType /\ n.pc = "lane"
    BY IdleType DEF Idle, RunnerType
  <2>2. rn' = [rn EXCEPT ![r] = n] /\ UNCHANGED <<runs, watch>>
    BY <1>2 DEF RunSegment
  <2> HIDE DEF n
  <2> QED BY <2>1, <2>2, SessionStays DEF Written
<1>3. ASSUME NEW r \in Runners, NEW l \in Lanes, DirectRun(r, l) PROVE Rows'
  <2> DEFINE q == Append(Tail(pool[Proc(r)]), Head(pool[Proc(r)]))
             id == NextRunId
             n == [Idle EXCEPT !.pc = "live", !.lane = l, !.run = id, !.conn = Head(q)]
  <2>1. /\ rn[r].pc = "idle" /\ id \in RunIds /\ pool[Proc(r)] # <<>>
        /\ rn' = [rn EXCEPT ![r] = n]
        /\ runs' = Inserted(l) /\ UNCHANGED watch
    BY <1>3 DEF DirectRun
  <2>2. Head(q) \in Conns
    BY <2>1, PassesConnection DEF Base, SessionOK, InTransaction
  <2>3. id \in 0..MaxRuns
    BY <2>1, Pools DEF RunIds
  <2> HIDE DEF q, id
  <2>4. /\ n \in RunnerType /\ n.pc = "live" /\ n.run = id /\ n.lane = l
        /\ n.guarded = FALSE
    BY <2>2, <2>3, IdleType DEF Idle, RunnerType
  <2> HIDE DEF n
  <2> QED BY <2>1, <2>4, RowInserted DEF id
<1>4. ASSUME NEW p \in Procs, OtherSession(p) \/ DropConnection(p) \/ Crash(p)
      PROVE  Rows'
  <2>1. UNCHANGED <<runs, watch>>
    BY <1>4 DEF OtherSession, DropConnection, Crash
  <2>2. \A r \in Runners : rn'[r] = rn[r] \/ rn'[r].pc = "idle"
    BY <1>4 DEF OtherSession, DropConnection, Crash, Idle
  <2>3. \A i \in watch' : i \in RunIds /\ Written(i)
    BY <2>1 DEF Base, Shapes, Rows
  <2> QED BY <2>1, <2>2, <2>3, RowsStay DEF Written
<1>5. CASE WatchdogInspect \/ WatchdogRepair \/ (\E i \in RunIds : RunAges(i))
              \/ UNCHANGED vars
  <2>1. UNCHANGED rn
    BY <1>5 DEF WatchdogInspect, WatchdogRepair, RunAges, vars
  <2>2. \A i \in watch' : i \in RunIds /\ Written(i)
    BY <1>5 DEF WatchdogInspect, WatchdogRepair, RunAges, vars, StaleRuns,
                Base, Shapes, Rows, Written, None
  <2>3. ASSUME NEW i \in RunIds
        PROVE  /\ Written(i)' <=> Written(i)
               /\ runs'[i].lane = runs[i].lane
               /\ runs'[i].st = "running" => runs[i].st = "running"
    <3>1. CASE WatchdogRepair
      BY <3>1 DEF WatchdogRepair, Written, None, Rows, Base, Shapes, RunType
    <3>2. ASSUME NEW j \in RunIds, RunAges(j)
          PROVE  runs'[i].st = runs[i].st /\ runs'[i].lane = runs[i].lane
      BY <3>2 DEF RunAges, Base, Shapes, RunType
    <3> QED BY <1>5, <3>1, <3>2 DEF WatchdogInspect, vars, Written
  <2> QED BY <2>1, <2>2, <2>3, RowsStay
<1> QED BY <1>1, <1>2, <1>3, <1>4, <1>5 DEF Next

-----------------------------------------------------------------------------
\* The inductive invariant.
LanesInv == Base /\ Locks /\ Rows

LEMMA LanesInit ==
    ASSUME Init
    PROVE  LanesInv
<1>1. Base
  BY BaseInit
<1>2. \A r \in Runners : rn[r].pc = "idle"
  BY DEF Init, Idle
<1>3. Locks
  BY <1>2 DEF Locks, DeciderHoldsLock, LocksCover, InSegment, Deciding, InTransaction
<1>4. RowsInOrder
  <2>1. \A i \in RunIds : ~Written(i) /\ ~(i <= 0)
    BY Pools DEF Init, Written, NoRun, RunIds
  <2> QED BY <2>1, Pools DEF RowsInOrder
<1>5. Rows
  BY <1>2, <1>4 DEF Rows, LiveHasRow, LookedAlone, LaneExclusive, Live, Init
<1> QED BY <1>1, <1>3, <1>5 DEF LanesInv

\* Every reachable state of the lanes, for any processes, pools and bounds.
THEOREM LanesInvariant == Spec => []LanesInv
<1>1. Init => LanesInv
  BY LanesInit
<1>2. LanesInv /\ [Next]_vars => LanesInv'
  BY BaseNext, LocksNext, RowsNext DEF LanesInv
<1> QED BY <1>1, <1>2, PTL DEF Spec

(***************************************************************************)
(* LaneExclusive: two guarded runs of one lane never both look alive,      *)
(* whatever processes die and whatever connections are lost.               *)
(***************************************************************************)
THEOREM OneRunPerLane == Spec => []LaneExclusive
<1>1. LanesInv => LaneExclusive
  BY DEF LanesInv, Rows
<1> QED BY <1>1, LanesInvariant, PTL

\* LockCoversRun: the lane is locked by the run's process as long as the run.
THEOREM LockLastsAsLongAsTheRun == Spec => []LockCoversRun
<1>1. LanesInv => LockCoversRun
  BY DEF LanesInv, Locks, LocksCover, InSegment, InTransaction, Covered,
         LockCoversRun, Live
<1> QED BY <1>1, LanesInvariant, PTL

(***************************************************************************)
(* TypeOK: the shapes of the state, and each connection idle in its pool   *)
(* or serving one session, never both and never two.                       *)
(***************************************************************************)
LEMMA OnePlace ==
    ASSUME Base, NEW p \in Procs, NEW c \in ConnsOf(p)
    PROVE  Cardinality({i \in DOMAIN pool[p] : pool[p][i] = c})
              + Cardinality({r \in Runners : rn[r].conn = c}) = 1
<1> DEFINE places == {i \in DOMAIN pool[p] : pool[p][i] = c}
           users == {r \in Runners : rn[r].conn = c}
<1>1. c # None
  BY Pools
<1>2. CASE c \in Range(pool[p])
  <2>1. PICK i \in DOMAIN pool[p] : pool[p][i] = c
    BY <1>2 DEF Range
  <2>2. places = {i}
    BY <2>1 DEF Base, Partition, IsInjective
  <2>3. users = {}
    <3> SUFFICES ASSUME NEW r \in Runners, rn[r].conn = c PROVE FALSE
      OBVIOUS
    <3>1. c \in ConnsOf(Proc(r)) /\ c \notin Range(pool[Proc(r)])
      BY <1>1 DEF Base, Partition
    <3> QED BY <1>2, <3>1, Pools
  <2>4. Cardinality({i}) = 1
    BY FS_Singleton
  <2>5. Cardinality({}) = 0
    BY FS_EmptySet
  <2> HIDE DEF places, users
  <2>6. Cardinality(places) = 1 /\ Cardinality(users) = 0
    BY <2>2, <2>3, <2>4, <2>5
  <2>7. Cardinality(places) + Cardinality(users) = 1
    BY <2>6
  <2> QED BY <2>7 DEF places, users
<1>3. CASE c \notin Range(pool[p])
  <2>1. places = {}
    BY <1>3 DEF Range
  <2>2. PICK r \in Runners : rn[r].conn = c
    BY <1>3 DEF Base, Partition
  <2>3. users = {r}
    BY <1>1, <2>2 DEF Base, Partition
  <2>4. Cardinality({r}) = 1
    BY FS_Singleton
  <2>5. Cardinality({}) = 0
    BY FS_EmptySet
  <2> HIDE DEF places, users
  <2>6. Cardinality(places) = 0 /\ Cardinality(users) = 1
    BY <2>1, <2>3, <2>4, <2>5
  <2>7. Cardinality(places) + Cardinality(users) = 1
    BY <2>6
  <2> QED BY <2>7 DEF places, users
<1> QED BY <1>2, <1>3

\* The tables, the locks and the connections keep their shapes, and a
\* connection of a process is idle or serves one session, never two.
THEOREM LanesTypeCorrect == Spec => []TypeOK
<1>1. LanesInv => TypeOK
  <2> SUFFICES ASSUME LanesInv PROVE TypeOK
    OBVIOUS
  <2>1. Base
    BY DEF LanesInv
  <2>2. \A p \in Procs : \A c \in ConnsOf(p) :
           Cardinality({i \in DOMAIN pool[p] : pool[p][i] = c})
              + Cardinality({r \in Runners : rn[r].conn = c}) = 1
    BY <2>1, OnePlace
  <2> QED BY <2>1, <2>2 DEF Base, Shapes, RunType, RunnerType, TypeOK
<1> QED BY <1>1, LanesInvariant, PTL

=============================================================================
