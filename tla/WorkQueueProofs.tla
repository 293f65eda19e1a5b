--------------------------- MODULE WorkQueueProofs ---------------------------
(***************************************************************************)
(* What is proved of the work queue, for every set of items, workers and   *)
(* producers, every lease, limit and bound: the type invariant, that no    *)
(* item is handed out more often than max_attempts, and that a final       *)
(* status is lost only to a session that read the row before.              *)
(*                                                                         *)
(* None of the three is inductive alone.  A commit of a producer writes    *)
(* new rows, with a fresh attempt counter, over whatever is there: that it *)
(* never writes over a committed row is InsertsAreNew, and this needs that *)
(* no two open transactions hold the same fingerprint, the lock of the     *)
(* unique index.  The sweeps and the worker's answers must write committed *)
(* rows only: ReadsAreCommitted.                                           *)
(***************************************************************************)
EXTENDS WorkQueue, TLAPS

ItemType == [st : Statuses, owner : Workers \union {Nobody},
             left : 0..Lease, tries : Nat]
ProducerType == [tx : SUBSET Items, want : SUBSET Items, told : SUBSET Items]
WorkerType == [pc : {"idle", "claiming", "working"},
               due : SUBSET Items, requeue : SUBSET Items,
               fail : SUBSET Items, fresh : SUBSET Items,
               left : 0..Lease, mine : SUBSET Items]

InsertsAreNew ==
    /\ \A i \in Items : item[i].st = None => item[i].tries = 0
    /\ \A p \in Producers : \A i \in prod[p].tx : item[i].st = None
    /\ \A p, q \in Producers : p # q => prod[p].tx \intersect prod[q].tx = {}

Committed == {i \in Items : item[i].st # None}

ReadsAreCommitted ==
    \A w \in Workers : \A i \in Items : ReadEarlier(w, i) => i \in Committed

QueueInv == TypeOK /\ LeasesBounded /\ InsertsAreNew /\ ReadsAreCommitted

-----------------------------------------------------------------------------
\* The bounds that the types mention.
LEMMA Bounds == Lease \in Nat /\ 0 \in 0..Lease /\ MaxTries \in Nat /\ Items \subseteq Nat
                /\ MaxLife \in Nat /\ MaxCrashes \in Nat
BY QueueAssumption

USE Bounds

\* A worker that starts and a producer that starts.
LEMMA IdleType == IdleWorker \in WorkerType /\ IdleProducer \in ProducerType
BY DEF IdleWorker, WorkerType, IdleProducer, ProducerType

\* A row that is given another status and no lease is still a row.
LEMMA RowWritten ==
    ASSUME NEW r \in ItemType, NEW s \in Statuses
    PROVE  /\ [r EXCEPT !.st = s, !.left = 0] \in ItemType
           /\ [r EXCEPT !.st = s, !.left = 0].st = s
           /\ [r EXCEPT !.st = s, !.left = 0].tries = r.tries
BY DEF ItemType

\* The sweeps of a claim keep the attempt counter, change rows that were read
\* only, and leave a row that was read committed.
LEMMA SweptRow ==
    ASSUME TypeOK, NEW w \in Workers, NEW i \in Items
    PROVE  /\ Swept(w)[i] \in ItemType
           /\ Swept(w)[i].tries = item[i].tries
           /\ i \in wk[w].due \union wk[w].requeue \union wk[w].fail =>
                 Swept(w)[i].st \in {"expired", "failed", "pending"}
           /\ i \notin wk[w].due \union wk[w].requeue \union wk[w].fail =>
                 Swept(w)[i] = item[i]
<1> DEFINE expired == [item[i] EXCEPT !.st = "expired", !.left = 0]
           failed == [item[i] EXCEPT !.st = "failed", !.owner = Nobody, !.left = 0]
           requeued == [item[i] EXCEPT !.st = "pending", !.owner = Nobody, !.left = 0]
<1>1. item[i] \in ItemType
  BY DEF TypeOK, ItemType
<1>2. /\ expired \in ItemType
      /\ expired.tries = item[i].tries
      /\ expired.st = "expired"
  BY <1>1 DEF ItemType, Statuses, FinalStatuses
<1>3. /\ failed \in ItemType
      /\ failed.tries = item[i].tries
      /\ failed.st = "failed"
  BY <1>1 DEF ItemType, Statuses, FinalStatuses
<1>4. /\ requeued \in ItemType
      /\ requeued.tries = item[i].tries
      /\ requeued.st = "pending"
  BY <1>1 DEF ItemType, Statuses
<1>5. Swept(w)[i] = CASE i \in wk[w].due -> expired
                      [] i \in wk[w].fail -> failed
                      [] i \in wk[w].requeue -> requeued
                      [] OTHER -> item[i]
  BY DEF Swept
<1> HIDE DEF expired, failed, requeued
<1>6. CASE i \in wk[w].due \union wk[w].requeue \union wk[w].fail
  <2>1. Swept(w)[i] \in {expired, failed, requeued}
    BY <1>5, <1>6
  <2> QED BY <1>2, <1>3, <1>4, <1>6, <2>1
<1>7. CASE i \notin wk[w].due \union wk[w].requeue \union wk[w].fail
  BY <1>1, <1>5, <1>7
<1> QED BY <1>6, <1>7

\* The batch of a claim: pending after the sweeps, with attempts left, and
\* committed before them.
LEMMA BatchRow ==
    ASSUME QueueInv, NEW w \in Workers, NEW i \in FirstOf(Claimable(w))
    PROVE  /\ i \in Items
           /\ Swept(w)[i].st = "pending"
           /\ item[i].tries < MaxTries
           /\ item[i].st # None
<1>1. i \in wk[w].fresh /\ Swept(w)[i].st = "pending" /\ Swept(w)[i].tries < MaxTries
  BY DEF FirstOf, Claimable
<1>2. i \in Items
  BY <1>1 DEF QueueInv, TypeOK
<1>3. item[i].tries < MaxTries
  BY <1>1, <1>2, SweptRow DEF QueueInv
<1>4. item[i].st # None
  <2>1. CASE i \in wk[w].due \union wk[w].requeue \union wk[w].fail
    BY <1>2, <2>1 DEF QueueInv, ReadsAreCommitted, ReadEarlier, Committed
  <2>2. CASE i \notin wk[w].due \union wk[w].requeue \union wk[w].fail
    BY <1>1, <1>2, <2>2, SweptRow DEF QueueInv, None
  <2> QED BY <2>1, <2>2
<1> QED BY <1>1, <1>2, <1>3, <1>4

-----------------------------------------------------------------------------
\* The producer's steps before its commit write no row.
LEMMA InsertKeepsInv ==
    ASSUME QueueInv, NEW p \in Producers,
           \/ \E i \in Items : Enqueue(p, i)
           \/ FlushInsert(p) \/ DuplicateInsert(p) \/ ProducerFails(p)
    PROVE  QueueInv'
<1>1. UNCHANGED <<item, life, wk, leases, crashes>>
  BY DEF Enqueue, FlushInsert, DuplicateInsert, ProducerFails
<1>2. /\ prod' \in [Producers -> ProducerType]
      /\ \A q \in Producers \ {p} : prod'[q] = prod[q]
      /\ \A i \in prod'[p].tx :
            \/ i \in prod[p].tx
            \/ item[i].st = None /\ ~InsertedByOther(p, i)
  <2>1. ASSUME NEW i \in Items, Enqueue(p, i)
        PROVE  /\ prod' \in [Producers -> ProducerType]
               /\ \A q \in Producers \ {p} : prod'[q] = prod[q]
               /\ prod'[p].tx = prod[p].tx
    <3>1. prod' = [prod EXCEPT ![p].want = {i}] /\ {i} \in SUBSET Items
      BY <2>1 DEF Enqueue
    <3>2. prod' \in [Producers -> ProducerType]
      <4> DEFINE r == [prod[p] EXCEPT !.want = {i}]
      <4>1. prod[p] \in ProducerType
        BY DEF QueueInv, TypeOK, ProducerType
      <4>2. r \in ProducerType
        BY <3>1, <4>1 DEF ProducerType
      <4>3. prod' = [prod EXCEPT ![p] = r]
        BY <3>1 DEF QueueInv, TypeOK
      <4> HIDE DEF r
      <4> QED BY <4>2, <4>3 DEF QueueInv, TypeOK, ProducerType
    <3>3. \A q \in Producers \ {p} : prod'[q] = prod[q]
      BY <3>1 DEF QueueInv, TypeOK
    <3>4. prod'[p].tx = prod[p].tx
      BY <3>1 DEF QueueInv, TypeOK
    <3> QED BY <3>2, <3>3, <3>4
  <2>2. ASSUME NEW i \in prod[p].want,
               ~InsertedByOther(p, i), item[i].st = None,
               prod' = [prod EXCEPT ![p].tx = @ \union {i},
                                    ![p].told = @ \union {i},
                                    ![p].want = {}]
        PROVE  /\ prod' \in [Producers -> ProducerType]
               /\ \A q \in Producers \ {p} : prod'[q] = prod[q]
               /\ prod'[p].tx = prod[p].tx \union {i}
    BY <2>2 DEF QueueInv, TypeOK, ProducerType
  <2>3. ASSUME DuplicateInsert(p)
        PROVE  /\ prod' \in [Producers -> ProducerType]
               /\ \A q \in Producers \ {p} : prod'[q] = prod[q]
               /\ prod'[p].tx = {}
    BY <2>3 DEF DuplicateInsert, QueueInv, TypeOK, ProducerType
  <2>4. ASSUME ProducerFails(p)
        PROVE  /\ prod' \in [Producers -> ProducerType]
               /\ \A q \in Producers \ {p} : prod'[q] = prod[q]
               /\ prod'[p].tx = {}
    BY <2>4, IdleType DEF ProducerFails, QueueInv, TypeOK, ProducerType, IdleProducer
  <2> QED BY <2>1, <2>2, <2>3, <2>4 DEF FlushInsert
<1>3. TypeOK'
  BY <1>1, <1>2 DEF QueueInv, TypeOK, ProducerType
<1>4. InsertsAreNew'
  <2>1. \A q \in Producers : \A i \in prod'[q].tx : item'[i].st = None
    BY <1>1, <1>2 DEF QueueInv, InsertsAreNew
  <2>2. ASSUME NEW q \in Producers \ {p}
        PROVE  prod'[p].tx \intersect prod'[q].tx = {}
    BY <1>2 DEF QueueInv, InsertsAreNew, InsertedByOther
  <2>3. \A q, r \in Producers : q # r => prod'[q].tx \intersect prod'[r].tx = {}
    BY <1>2, <2>2 DEF QueueInv, InsertsAreNew
  <2> QED BY <1>1, <2>1, <2>3 DEF QueueInv, InsertsAreNew
<1>5. LeasesBounded' /\ ReadsAreCommitted'
  BY <1>1 DEF QueueInv, LeasesBounded, ReadsAreCommitted, ReadEarlier, Committed
<1> QED BY <1>3, <1>4, <1>5 DEF QueueInv

\* A commit writes new rows over none.
LEMMA CommitEnqueueKeepsInv ==
    ASSUME QueueInv, NEW p \in Producers, CommitEnqueue(p)
    PROVE  QueueInv'
<1>1. NewItem \in ItemType /\ NewItem.st = "pending" /\ NewItem.tries = 0
  BY DEF NewItem, NoItem, ItemType, Statuses
<1>2. \A i \in Items : item'[i] = IF i \in prod[p].tx THEN NewItem ELSE item[i]
  BY DEF CommitEnqueue
<1>3. item' \in [Items -> ItemType]
  BY <1>1 DEF CommitEnqueue, QueueInv, TypeOK, ItemType
<1>4. prod' = [prod EXCEPT ![p] = IdleProducer] /\ IdleProducer.tx = {}
  BY DEF CommitEnqueue, IdleProducer
<1>5. prod' \in [Producers -> ProducerType]
  BY <1>4, IdleType DEF QueueInv, TypeOK, ProducerType
<1>6. UNCHANGED <<life, wk, leases, crashes>>
  BY DEF CommitEnqueue
<1>7. \A i \in Items : item'[i].tries = item[i].tries
  BY <1>1, <1>2 DEF QueueInv, InsertsAreNew
<1>8. \A i \in Items : item[i].st # None => item'[i].st # None
  BY <1>1, <1>2 DEF None
<1>9. \A q \in Producers \ {p} : prod'[q] = prod[q]
  BY <1>4 DEF QueueInv, TypeOK
<1>10. prod'[p].tx = {}
  BY <1>4 DEF QueueInv, TypeOK
<1>11. TypeOK'
  BY <1>3, <1>5, <1>6 DEF QueueInv, TypeOK, ItemType, ProducerType
<1>12. LeasesBounded'
  BY <1>6, <1>7 DEF QueueInv, LeasesBounded
<1>13. InsertsAreNew'
  <2>1. \A q \in Producers : \A i \in prod'[q].tx : item'[i].st = None
    <3> SUFFICES ASSUME NEW q \in Producers, NEW i \in prod'[q].tx
                 PROVE  item'[i].st = None
      OBVIOUS
    <3>1. q # p /\ i \in prod[q].tx /\ i \in Items
      BY <1>9, <1>10 DEF QueueInv, TypeOK
    <3>2. i \notin prod[p].tx /\ item[i].st = None
      BY <3>1 DEF QueueInv, InsertsAreNew
    <3> QED BY <1>2, <3>1, <3>2
  <2>2. \A q, r \in Producers : q # r => prod'[q].tx \intersect prod'[r].tx = {}
    BY <1>9, <1>10 DEF QueueInv, InsertsAreNew
  <2>3. \A i \in Items : item'[i].st = None => item'[i].tries = 0
    BY <1>7, <1>8 DEF QueueInv, InsertsAreNew
  <2> QED BY <2>1, <2>2, <2>3 DEF InsertsAreNew
<1>14. ReadsAreCommitted'
  BY <1>6, <1>8 DEF QueueInv, ReadsAreCommitted, ReadEarlier, Committed
<1> QED BY <1>11, <1>12, <1>13, <1>14 DEF QueueInv

-----------------------------------------------------------------------------
\* A claim reads committed rows.
LEMMA ClaimReadKeepsInv ==
    ASSUME QueueInv, NEW w \in Workers, ClaimRead(w)
    PROVE  QueueInv'
<1> DEFINE read == [pc |-> "claiming", due |-> Due,
                    requeue |-> Lapsed \ (Due \union Exhausted),
                    fail |-> (Lapsed \intersect Exhausted) \ Due,
                    fresh |-> Fresh, left |-> Lease, mine |-> {}]
<1>1. UNCHANGED <<item, life, prod, leases, crashes>> /\ wk' = [wk EXCEPT ![w] = read]
  BY DEF ClaimRead
<1>2. Due \subseteq Committed /\ Lapsed \subseteq Committed
  BY DEF Due, Lapsed, Committed, None
<1>3. read \in WorkerType
  BY DEF WorkerType, Due, Lapsed, Fresh
<1>4. \A i : i \in read.mine \/ i \in read.due \union read.requeue \union read.fail
               => i \in Committed
  BY <1>2
<1> HIDE DEF read
<1>5. \A v \in Workers : wk'[v] = IF v = w THEN read ELSE wk[v]
  BY <1>1 DEF QueueInv, TypeOK
<1>6. TypeOK'
  BY <1>1, <1>3 DEF QueueInv, TypeOK, WorkerType
<1>7. Committed' = Committed
  BY <1>1 DEF Committed
<1>8. ReadsAreCommitted'
  BY <1>4, <1>5, <1>7 DEF QueueInv, ReadsAreCommitted, ReadEarlier
<1>9. LeasesBounded' /\ InsertsAreNew'
  BY <1>1 DEF QueueInv, LeasesBounded, InsertsAreNew
<1> QED BY <1>6, <1>8, <1>9 DEF QueueInv

\* What a worker does to rows that exist keeps the producers' part.
LEMMA WorkerStepKeepsInserts ==
    ASSUME QueueInv, UNCHANGED prod,
           \A i \in Items :
              /\ item[i].st = None => item'[i] = item[i]
              /\ item[i].st # None => item'[i].st # None
    PROVE  InsertsAreNew' /\ Committed' = Committed
<1>1. \A i \in Items : item'[i].st = None <=> item[i].st = None
  OBVIOUS
<1>2. \A p \in Producers : \A i \in prod[p].tx : i \in Items
  BY DEF QueueInv, TypeOK
<1> QED BY <1>1, <1>2 DEF QueueInv, InsertsAreNew, Committed

\* A claim leases what it swept or found pending, one attempt each.
LEMMA ClaimCommitKeepsInv ==
    ASSUME QueueInv, NEW w \in Workers, ClaimCommit(w)
    PROVE  QueueInv'
<1> DEFINE batch == FirstOf(Claimable(w))
           leased(i) == [st |-> "leased", owner |-> w, left |-> wk[w].left,
                         tries |-> item[i].tries + 1]
           next == [IdleWorker EXCEPT
                      !.pc = IF batch = {} THEN "idle" ELSE "working",
                      !.mine = batch]
<1>1. /\ item' = [i \in Items |-> IF i \in batch THEN leased(i) ELSE Swept(w)[i]]
      /\ leases' = [i \in Items |-> IF i \in batch THEN leases[i] + 1 ELSE leases[i]]
      /\ wk' = [wk EXCEPT ![w] = next]
      /\ UNCHANGED <<life, prod, crashes>>
  BY DEF ClaimCommit
<1>2. batch \subseteq Items /\ batch \subseteq Committed
  BY BatchRow DEF Committed
<1>3. /\ next \in WorkerType
      /\ next.mine = batch
      /\ next.due = {} /\ next.requeue = {} /\ next.fail = {}
  BY <1>2 DEF IdleWorker, WorkerType
<1>4. ASSUME NEW i \in Items
      PROVE  /\ leased(i) \in ItemType
             /\ Swept(w)[i] \in ItemType
  <2>1. wk[w].left \in 0..Lease /\ item[i].tries + 1 \in Nat
    BY DEF QueueInv, TypeOK
  <2> QED BY <2>1, SweptRow DEF QueueInv, ItemType, Statuses
<1>5. ASSUME NEW i \in Items
      PROVE  /\ item[i].st = None => item'[i] = item[i]
             /\ item[i].st # None => item'[i].st # None
  <2>1. CASE i \in batch
    BY <1>1, <1>2, <2>1 DEF Committed, None
  <2>2. CASE i \notin batch
    <3>1. item'[i] = Swept(w)[i]
      BY <1>1, <2>2
    <3>2. item[i].st = None =>
             i \notin wk[w].due \union wk[w].requeue \union wk[w].fail
      BY DEF QueueInv, ReadsAreCommitted, ReadEarlier, Committed
    <3> QED BY <3>1, <3>2, SweptRow DEF QueueInv, None
  <2> QED BY <2>1, <2>2
<1>6. ASSUME NEW i \in Items
      PROVE  leases'[i] = item'[i].tries /\ leases'[i] <= MaxTries
  <2>1. CASE i \in batch
    <3>1. item'[i].tries = item[i].tries + 1 /\ leases'[i] = leases[i] + 1
      BY <1>1, <2>1
    <3>2. item[i].tries < MaxTries
      BY <2>1, BatchRow
    <3>3. item[i].tries \in Nat /\ leases[i] = item[i].tries
      BY DEF QueueInv, LeasesBounded, TypeOK
    <3> QED BY <3>1, <3>2, <3>3
  <2>2. CASE i \notin batch
    BY <1>1, <2>2, SweptRow DEF QueueInv, LeasesBounded
  <2> QED BY <2>1, <2>2
<1> HIDE DEF batch, next
<1>7. item' \in [Items -> ItemType]
  BY <1>1, <1>4
<1>8. leases' \in [Items -> Nat]
  BY <1>1 DEF QueueInv, TypeOK
<1>9. \A v \in Workers : wk'[v] = IF v = w THEN next ELSE wk[v]
  BY <1>1 DEF QueueInv, TypeOK
<1>10. TypeOK'
  BY <1>1, <1>3, <1>7, <1>8 DEF QueueInv, TypeOK, WorkerType, ItemType
<1>11. InsertsAreNew' /\ Committed' = Committed
  BY <1>1, <1>5, WorkerStepKeepsInserts
<1>12. ReadsAreCommitted'
  BY <1>2, <1>3, <1>9, <1>11 DEF QueueInv, ReadsAreCommitted, ReadEarlier
<1>13. LeasesBounded'
  BY <1>6 DEF LeasesBounded
<1> QED BY <1>10, <1>11, <1>12, <1>13 DEF QueueInv

\* An answer writes one row of the worker's batch, whatever it has become.
LEMMA AnswerKeepsInv ==
    ASSUME QueueInv, NEW w \in Workers, NEW i \in Items,
           Complete(w, i) \/ \E retry \in BOOLEAN : Fail(w, i, retry)
    PROVE  QueueInv'
<1>1. PICK s \in {"completed", "pending", "failed"} :
         item' = [item EXCEPT ![i].st = s, ![i].left = 0]
  BY DEF Complete, Fail
<1>2. Release(w, i) /\ i \in wk[w].mine /\ UNCHANGED <<life, prod, leases, crashes>>
  BY DEF Complete, Fail
<1>3. item[i] \in ItemType
  BY DEF QueueInv, TypeOK, ItemType
<1>4. item' = [item EXCEPT ![i] = [item[i] EXCEPT !.st = s, !.left = 0]]
  BY <1>1 DEF QueueInv, TypeOK
<1> DEFINE row == [item[i] EXCEPT !.st = s, !.left = 0]
<1>5. row \in ItemType /\ row.st = s /\ row.tries = item[i].tries
  BY <1>3, RowWritten DEF Statuses, FinalStatuses
<1> HIDE DEF row
<1>6. \A k \in Items : item'[k] = IF k = i THEN row ELSE item[k]
  BY <1>4 DEF QueueInv, TypeOK, row
<1>7. item' \in [Items -> ItemType]
  BY <1>4, <1>5 DEF QueueInv, TypeOK, ItemType, row
<1>8. \A v \in Workers :
         /\ wk'[v].mine \subseteq wk[v].mine
         /\ wk'[v].due = wk[v].due
         /\ wk'[v].requeue = wk[v].requeue
         /\ wk'[v].fail = wk[v].fail
  BY <1>2 DEF Release, QueueInv, TypeOK
<1>9. wk' \in [Workers -> WorkerType]
  <2> DEFINE pc == IF wk[w].mine = {i} THEN "idle" ELSE wk[w].pc
             rest == wk[w].mine \ {i}
  <2>1. wk' = [wk EXCEPT ![w].mine = rest, ![w].pc = pc]
    BY <1>2 DEF Release, QueueInv, TypeOK
  <2>2. pc \in {"idle", "claiming", "working"} /\ rest \in SUBSET Items
    BY DEF QueueInv, TypeOK
  <2> DEFINE r == [wk[w] EXCEPT !.mine = rest, !.pc = pc]
  <2> HIDE DEF pc, rest
  <2>3. wk[w] \in WorkerType
    BY DEF QueueInv, TypeOK, WorkerType
  <2>4. r \in WorkerType
    BY <2>2, <2>3 DEF WorkerType
  <2>5. wk' = [wk EXCEPT ![w] = r]
    BY <2>1 DEF QueueInv, TypeOK
  <2> HIDE DEF r
  <2> QED BY <2>4, <2>5 DEF QueueInv, TypeOK, WorkerType
<1>10. TypeOK'
  BY <1>2, <1>7, <1>9 DEF QueueInv, TypeOK, ItemType, WorkerType
<1>11. item[i].st # None
  BY <1>2 DEF QueueInv, ReadsAreCommitted, ReadEarlier, Committed
<1>12. InsertsAreNew' /\ Committed' = Committed
  BY <1>2, <1>5, <1>6, <1>11, WorkerStepKeepsInserts DEF None
<1>13. LeasesBounded'
  BY <1>2, <1>5, <1>6 DEF QueueInv, LeasesBounded
<1>14. ReadsAreCommitted'
  BY <1>8, <1>12 DEF QueueInv, ReadsAreCommitted, ReadEarlier
<1> QED BY <1>10, <1>12, <1>13, <1>14 DEF QueueInv

\* A worker that dies forgets what it read.
LEMMA WorkerCrashKeepsInv ==
    ASSUME QueueInv, NEW w \in Workers, WorkerCrash(w)
    PROVE  QueueInv'
<1>1. /\ wk' = [wk EXCEPT ![w] = IdleWorker]
      /\ UNCHANGED <<item, life, prod, leases>>
      /\ crashes' = crashes + 1 /\ crashes < MaxCrashes
  BY DEF WorkerCrash
<1>2. \A v \in Workers : wk'[v] = IF v = w THEN IdleWorker ELSE wk[v]
  BY <1>1 DEF QueueInv, TypeOK
<1>3. TypeOK'
  <2>1. wk' \in [Workers -> WorkerType]
    BY <1>1, IdleType DEF QueueInv, TypeOK, WorkerType
  <2>2. crashes' \in 0..MaxCrashes
    BY <1>1 DEF QueueInv, TypeOK
  <2> QED BY <1>1, <2>1, <2>2 DEF QueueInv, TypeOK, WorkerType
<1>4. InsertsAreNew' /\ LeasesBounded' /\ Committed' = Committed
  BY <1>1 DEF QueueInv, InsertsAreNew, LeasesBounded, Committed
<1>5. ReadsAreCommitted'
  BY <1>2, <1>4 DEF QueueInv, ReadsAreCommitted, ReadEarlier, IdleWorker
<1> QED BY <1>3, <1>4, <1>5 DEF QueueInv

\* Time takes a lease's term and nothing else from a row.
LEMMA TickKeepsInv ==
    ASSUME QueueInv, Tick
    PROVE  QueueInv'
<1>1. ASSUME NEW n \in 0..Lease PROVE Down(n) \in 0..Lease
  BY DEF Down
<1>2. ASSUME NEW i \in Items
      PROVE  /\ [item[i] EXCEPT !.left = Down(item[i].left)] \in ItemType
             /\ item'[i].st = item[i].st
             /\ item'[i].tries = item[i].tries
  <2>1. item[i] \in ItemType
    BY DEF QueueInv, TypeOK, ItemType
  <2>2. Down(item[i].left) \in 0..Lease
    BY <1>1, <2>1 DEF ItemType
  <2>3. item'[i] = [item[i] EXCEPT !.left = Down(item[i].left)]
    BY DEF Tick
  <2> QED BY <2>1, <2>2, <2>3 DEF ItemType
<1>3. item' \in [Items -> ItemType]
  BY <1>2 DEF Tick
<1>4. ASSUME NEW w \in Workers
      PROVE  /\ [wk[w] EXCEPT !.left = Down(wk[w].left)] \in WorkerType
             /\ wk'[w].mine = wk[w].mine
             /\ wk'[w].due = wk[w].due
             /\ wk'[w].requeue = wk[w].requeue
             /\ wk'[w].fail = wk[w].fail
  <2>1. wk[w] \in WorkerType
    BY DEF QueueInv, TypeOK, WorkerType
  <2>2. Down(wk[w].left) \in 0..Lease
    BY <1>1, <2>1 DEF WorkerType
  <2>3. wk'[w] = [wk[w] EXCEPT !.left = Down(wk[w].left)]
    BY DEF Tick
  <2> QED BY <2>1, <2>2, <2>3 DEF WorkerType
<1>5. wk' \in [Workers -> WorkerType]
  BY <1>4 DEF Tick
<1>6. life' \in [Items -> 0..Never]
  <2>1. ASSUME NEW i \in Items
        PROVE  (IF life[i] = Never THEN Never ELSE Down(life[i])) \in 0..Never
    BY DEF QueueInv, TypeOK, Never, Down
  <2> QED BY <2>1 DEF Tick
<1>7. UNCHANGED <<prod, leases, crashes>>
  BY DEF Tick
<1>8. TypeOK'
  BY <1>3, <1>5, <1>6, <1>7 DEF QueueInv, TypeOK, ItemType, WorkerType
<1>9. InsertsAreNew'
  <2>1. \A p \in Producers : prod[p].tx \subseteq Items
    BY DEF QueueInv, TypeOK
  <2> QED BY <1>2, <1>7, <2>1 DEF QueueInv, InsertsAreNew
<1>10. LeasesBounded' /\ ReadsAreCommitted'
  BY <1>2, <1>4, <1>7 DEF QueueInv, LeasesBounded, ReadsAreCommitted,
                          ReadEarlier, Committed
<1> QED BY <1>8, <1>9, <1>10 DEF QueueInv

\* An empty queue that nobody has read.
LEMMA QueueInvInit == Init => QueueInv
<1> SUFFICES ASSUME Init PROVE QueueInv
  OBVIOUS
<1>1. NoItem \in ItemType
  BY DEF NoItem, ItemType, Statuses
<1>2. item \in [Items -> ItemType]
  BY <1>1 DEF Init
<1>3. prod \in [Producers -> ProducerType] /\ wk \in [Workers -> WorkerType]
  BY IdleType DEF Init
<1>4. TypeOK
  BY <1>2, <1>3 DEF Init, TypeOK, ItemType, ProducerType, WorkerType
<1>5. LeasesBounded
  BY DEF Init, LeasesBounded, NoItem
<1>6. InsertsAreNew
  BY DEF Init, InsertsAreNew, NoItem, IdleProducer
<1>7. ReadsAreCommitted
  BY DEF Init, ReadsAreCommitted, ReadEarlier, IdleWorker
<1> QED BY <1>4, <1>5, <1>6, <1>7 DEF QueueInv

\* The invariant is inductive.
LEMMA QueueInvNext == QueueInv /\ [Next]_vars => QueueInv'
<1> SUFFICES ASSUME QueueInv, [Next]_vars PROVE QueueInv'
  OBVIOUS
<1>1. ASSUME NEW p \in Producers,
             \/ \E i \in Items : Enqueue(p, i)
             \/ FlushInsert(p) \/ DuplicateInsert(p)
             \/ CommitEnqueue(p) \/ ProducerFails(p)
      PROVE  QueueInv'
  BY <1>1, InsertKeepsInv, CommitEnqueueKeepsInv
<1>2. ASSUME NEW w \in Workers,
             ClaimRead(w) \/ ClaimCommit(w) \/ WorkerCrash(w)
      PROVE  QueueInv'
  BY <1>2, ClaimReadKeepsInv, ClaimCommitKeepsInv, WorkerCrashKeepsInv
<1>3. ASSUME NEW w \in Workers, NEW i \in Items,
             Complete(w, i) \/ \E retry \in BOOLEAN : Fail(w, i, retry)
      PROVE  QueueInv'
  BY <1>3, AnswerKeepsInv
<1>4. CASE Tick
  BY <1>4, TickKeepsInv
<1>5. CASE UNCHANGED vars
  BY <1>5 DEF vars, QueueInv, TypeOK, LeasesBounded, InsertsAreNew,
              ReadsAreCommitted, ReadEarlier, Committed
<1> QED BY <1>1, <1>2, <1>3, <1>4, <1>5 DEF Next

-----------------------------------------------------------------------------
(***************************************************************************)
(* The table, the open transactions and the workers' batches fit together  *)
(* whatever the claims of several sessions overwrite.                      *)
(***************************************************************************)
THEOREM QueueInvariant == Spec => []QueueInv
BY QueueInvInit, QueueInvNext, PTL DEF Spec

(***************************************************************************)
(* Rows, transactions and workers keep their shapes: a status is one of    *)
(* the table's, an owner is a worker or nobody, a lease is not longer than *)
(* lease_seconds.                                                          *)
(***************************************************************************)
THEOREM QueueTypeCorrect == Spec => []TypeOK
<1>1. QueueInv => TypeOK
  BY DEF QueueInv
<1> QED BY <1>1, QueueInvariant, PTL

(***************************************************************************)
(* attempt_count never falls behind the times an item was handed out, and  *)
(* stops them at max_attempts, for any number of workers, producers and    *)
(* items, leases that lapse and workers that die.                          *)
(***************************************************************************)
THEOREM AttemptsBounded == Spec => []LeasesBounded
<1>1. QueueInv => LeasesBounded
  BY DEF QueueInv
<1> QED BY <1>1, QueueInvariant, PTL

(***************************************************************************)
(* No one takes an item back from a final status but a session that read   *)
(* the row before the status was committed.                                *)
(***************************************************************************)
THEOREM FinalStatusIsFinal == Spec => FinalStatusLostOnlyToStaleReader
<1> DEFINE Kept == \A i \in Items :
                      /\ item[i].st \in FinalStatuses
                      /\ item'[i].st # item[i].st
                      => \E w \in Workers : ReadEarlier(w, i)
<1>1. QueueInv /\ [Next]_vars => [Kept]_vars
  <2> SUFFICES ASSUME QueueInv, Next,
                      NEW i \in Items, item[i].st \in FinalStatuses,
                      item'[i].st # item[i].st,
                      ~ \E w \in Workers : ReadEarlier(w, i)
               PROVE  FALSE
    OBVIOUS
  <2>1. ASSUME NEW p \in Producers,
               \/ \E k \in Items : Enqueue(p, k)
               \/ FlushInsert(p) \/ DuplicateInsert(p) \/ ProducerFails(p)
        PROVE  FALSE
    BY <2>1 DEF Enqueue, FlushInsert, DuplicateInsert, ProducerFails
  <2>2. ASSUME NEW p \in Producers, CommitEnqueue(p)
        PROVE  FALSE
    <3>1. i \notin prod[p].tx
      BY DEF QueueInv, InsertsAreNew, FinalStatuses, None
    <3> QED BY <2>2, <3>1 DEF CommitEnqueue
  <2>3. ASSUME NEW w \in Workers, ClaimRead(w) \/ WorkerCrash(w)
        PROVE  FALSE
    BY <2>3 DEF ClaimRead, WorkerCrash
  <2>4. ASSUME NEW w \in Workers, ClaimCommit(w)
        PROVE  FALSE
    <3>1. Swept(w)[i] = item[i]
      BY SweptRow DEF QueueInv, ReadEarlier
    <3>2. i \notin FirstOf(Claimable(w))
      BY <3>1, BatchRow DEF FinalStatuses
    <3>3. item'[i] = Swept(w)[i]
      BY <2>4, <3>2 DEF ClaimCommit
    <3> QED BY <3>1, <3>3
  <2>5. ASSUME NEW w \in Workers, NEW k \in Items,
               Complete(w, k) \/ \E retry \in BOOLEAN : Fail(w, k, retry)
        PROVE  FALSE
    <3>1. k # i
      BY <2>5 DEF Complete, Fail, ReadEarlier
    <3>2. item'[i] = item[i]
      BY <2>5, <3>1 DEF Complete, Fail, QueueInv, TypeOK
    <3> QED BY <3>2
  <2>6. ASSUME Tick
        PROVE  FALSE
    <3>1. item'[i] = [item[i] EXCEPT !.left = Down(item[i].left)]
      BY <2>6 DEF Tick
    <3> QED BY <3>1 DEF QueueInv, TypeOK
  <2> QED BY <2>1, <2>2, <2>3, <2>4, <2>5, <2>6 DEF Next
<1> QED BY <1>1, QueueInvariant, PTL DEF Spec, FinalStatusLostOnlyToStaleReader

=============================================================================
