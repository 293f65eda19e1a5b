----------------------------- MODULE WorkQueue -----------------------------
(***************************************************************************)
(* modules/intraday/work_queue.py: the Postgres table that hands units of  *)
(* work to the Research and Lab workers.  A producer inserts items in a    *)
(* transaction of its own; a worker claims a batch under a lease, works,   *)
(* and completes or fails each item; every claim first expires due items   *)
(* and takes back lapsed leases.                                           *)
(*                                                                         *)
(* READ COMMITTED: the rows a claim expires or reaps are SELECTed without  *)
(* a lock and UPDATEd by primary key, so what the UPDATE overwrites may no *)
(* longer be what was read.  A transaction's locks are held to its commit, *)
(* so its writes take effect together, in one action.                      *)
(*                                                                         *)
(* Clocks run down instead of up: `left' is the time before lease_until,   *)
(* `life' the time before expires_at, and a timestamp has passed when its  *)
(* clock is at 0.  No bound on time is needed.                             *)
(***************************************************************************)
EXTENDS Integers, FiniteSets

CONSTANTS
    Items,       \* fingerprints, numbered in the order of the claim's ORDER BY
    Workers,     \* sessions that claim
    Producers,   \* sessions that enqueue
    MaxTries,    \* max_attempts
    Lease,       \* lease_seconds
    Limit,       \* limit of a claim
    MaxLife,     \* bound: time from the start to an item's expires_at
    MaxCrashes   \* bound: worker deaths

ASSUME QueueAssumption ==
    /\ Items \subseteq Nat
    /\ IsFiniteSet(Items)
    /\ MaxTries \in Nat \ {0}
    /\ Lease \in Nat \ {0}
    /\ Limit \in Nat \ {0}
    /\ MaxLife \in Nat
    /\ MaxCrashes \in Nat

VARIABLES
    item,     \* intraday_work_items: the committed row of each fingerprint
    life,     \* time before each item's expires_at
    prod,     \* each producer's open transaction
    wk,       \* each worker's program counter and loaded values
    leases,   \* history: how often each item was handed to a worker
    crashes   \* worker deaths so far

vars == <<item, life, prod, wk, leases, crashes>>

Never == MaxLife + 1   \* expires_at is NULL
Nobody == "nobody"
None == "none"

FinalStatuses == {"completed", "failed", "expired"}
Statuses == FinalStatuses \union {None, "pending", "leased"}

NoItem == [st |-> None, owner |-> Nobody, left |-> 0, tries |-> 0]
NewItem == [NoItem EXCEPT !.st = "pending"]

\* tx: inserted and not committed; want: the INSERT under way; told: the items
\* the caller was told it created, since its last commit.
IdleProducer == [tx |-> {}, want |-> {}, told |-> {}]

\* due, requeue, fail: rows read for expiry and for reaping; fresh: the items
\* whose expires_at is later than the claim's `current'; left: the lease it
\* will grant, counted from `current'.
IdleWorker == [pc |-> "idle", due |-> {}, requeue |-> {}, fail |-> {},
               fresh |-> {}, left |-> 0, mine |-> {}]

TypeOK ==
    /\ item \in [Items -> [st : Statuses, owner : Workers \union {Nobody},
                           left : 0..Lease, tries : Nat]]
    /\ life \in [Items -> 0..Never]
    /\ prod \in [Producers -> [tx : SUBSET Items, want : SUBSET Items,
                               told : SUBSET Items]]
    /\ wk \in [Workers -> [pc : {"idle", "claiming", "working"},
                           due : SUBSET Items, requeue : SUBSET Items,
                           fail : SUBSET Items, fresh : SUBSET Items,
                           left : 0..Lease, mine : SUBSET Items]]
    /\ leases \in [Items -> Nat]
    /\ crashes \in 0..MaxCrashes

Init ==
    /\ item = [i \in Items |-> NoItem]
    /\ life \in [Items -> 0..Never]
    /\ prod = [p \in Producers |-> IdleProducer]
    /\ wk = [w \in Workers |-> IdleWorker]
    /\ leases = [i \in Items |-> 0]
    /\ crashes = 0

(***************************************************************************)
(* enqueue.  The fingerprint is looked up among the committed rows and     *)
(* this transaction's own; a known one changes nothing.  The INSERT waits  *)
(* while another open transaction holds the same fingerprint.              *)
(***************************************************************************)
Enqueue(p, i) ==
    /\ prod[p].want = {}
    /\ item[i].st = None
    /\ i \notin prod[p].tx
    /\ prod' = [prod EXCEPT ![p].want = {i}]
    /\ UNCHANGED <<item, life, wk, leases, crashes>>

InsertedByOther(p, i) == \E q \in Producers \ {p} : i \in prod[q].tx

FlushInsert(p) ==
    /\ \E i \in prod[p].want :
          /\ ~InsertedByOther(p, i)
          /\ item[i].st = None
          /\ prod' = [prod EXCEPT ![p].tx = @ \union {i},
                                  ![p].told = @ \union {i},
                                  ![p].want = {}]
    /\ UNCHANGED <<item, life, wk, leases, crashes>>

\* IntegrityError: db.rollback() ends the caller's whole transaction, the items
\* it had been told it created included, and enqueue returns normally.
DuplicateInsert(p) ==
    /\ \E i \in prod[p].want :
          /\ ~InsertedByOther(p, i)
          /\ item[i].st # None
    /\ prod' = [prod EXCEPT ![p].tx = {}, ![p].want = {}]
    /\ UNCHANGED <<item, life, wk, leases, crashes>>

CommitEnqueue(p) ==
    /\ prod[p].want = {}
    /\ prod[p].told # {}
    /\ item' = [i \in Items |-> IF i \in prod[p].tx THEN NewItem ELSE item[i]]
    /\ prod' = [prod EXCEPT ![p] = IdleProducer]
    /\ UNCHANGED <<life, wk, leases, crashes>>

\* The producer dies, or Postgres breaks a cycle of waiting INSERTs: the
\* exception reaches the caller and the transaction is gone.
ProducerFails(p) ==
    /\ prod[p].want # {}
    /\ prod' = [prod EXCEPT ![p] = IdleProducer]
    /\ UNCHANGED <<item, life, wk, leases, crashes>>

(***************************************************************************)
(* claim_batch, first half: expire_due_items and reap_expired_leases       *)
(* SELECT their rows at the claim's `current'.                             *)
(***************************************************************************)
Due == {i \in Items : /\ item[i].st \in {"pending", "leased"}
                      /\ life[i] = 0}
Lapsed == {i \in Items : item[i].st = "leased" /\ item[i].left = 0}
Exhausted == {i \in Items : item[i].tries >= MaxTries}
Fresh == {i \in Items : life[i] > 0}

\* Mutant: lapsed leases are not read.
ClaimReadWithoutReap(w) ==
    /\ wk[w].pc = "idle"
    /\ wk' = [wk EXCEPT ![w] =
                [pc |-> "claiming", due |-> Due, requeue |-> {}, fail |-> {},
                 fresh |-> Fresh, left |-> Lease, mine |-> {}]]
    /\ UNCHANGED <<item, life, prod, leases, crashes>>

\* Mutant: a lapsed lease whose attempts are used up is left as it is.
ClaimReadRequeueOnly(w) ==
    /\ wk[w].pc = "idle"
    /\ wk' = [wk EXCEPT ![w] =
                [pc |-> "claiming", due |-> Due,
                 requeue |-> Lapsed \ (Due \union Exhausted), fail |-> {},
                 fresh |-> Fresh, left |-> Lease, mine |-> {}]]
    /\ UNCHANGED <<item, life, prod, leases, crashes>>

ClaimRead(w) ==
    /\ wk[w].pc = "idle"
    /\ wk' = [wk EXCEPT ![w] =
                [pc |-> "claiming", due |-> Due,
                 requeue |-> Lapsed \ (Due \union Exhausted),
                 fail |-> (Lapsed \intersect Exhausted) \ Due,
                 fresh |-> Fresh, left |-> Lease, mine |-> {}]]
    /\ UNCHANGED <<item, life, prod, leases, crashes>>

(***************************************************************************)
(* Second half: the UPDATEs of what was read, then the pending rows in     *)
(* order, locked and up to the limit, are leased to this worker.           *)
(***************************************************************************)
\* Mutant: an expired row is marked skipped, a status nothing else knows.
SweptAsSkipped(w) ==
    [i \in Items |-> IF i \in wk[w].due THEN [item[i] EXCEPT !.st = "skipped"]
                     ELSE item[i]]

Swept(w) ==
    [i \in Items |->
        CASE i \in wk[w].due ->
                [item[i] EXCEPT !.st = "expired", !.left = 0]
          [] i \in wk[w].fail ->
                [item[i] EXCEPT !.st = "failed", !.owner = Nobody, !.left = 0]
          [] i \in wk[w].requeue ->
                [item[i] EXCEPT !.st = "pending", !.owner = Nobody, !.left = 0]
          [] OTHER -> item[i]]

\* Mutant: the attempt counter is not part of the filter.
ClaimableUncounted(w) ==
    {i \in wk[w].fresh : Swept(w)[i].st = "pending"}

\* Mutant: the status is not part of the filter.
ClaimableAnyStatus(w) ==
    {i \in wk[w].fresh : Swept(w)[i].st # None /\ Swept(w)[i].tries < MaxTries}

Claimable(w) ==
    {i \in wk[w].fresh : /\ Swept(w)[i].st = "pending"
                         /\ Swept(w)[i].tries < MaxTries}

FirstOf(S) == {i \in S : Cardinality({j \in S : j <= i}) <= Limit}

ClaimCommit(w) ==
    /\ wk[w].pc = "claiming"
    /\ LET batch == FirstOf(Claimable(w)) IN
       /\ item' = [i \in Items |->
                     IF i \in batch
                     THEN [st |-> "leased", owner |-> w, left |-> wk[w].left,
                           tries |-> item[i].tries + 1]
                     ELSE Swept(w)[i]]
       /\ leases' = [i \in Items |->
                        IF i \in batch THEN leases[i] + 1 ELSE leases[i]]
       /\ wk' = [wk EXCEPT ![w] =
                   [IdleWorker EXCEPT
                      !.pc = IF batch = {} THEN "idle" ELSE "working",
                      !.mine = batch]]
    /\ UNCHANGED <<life, prod, crashes>>

(***************************************************************************)
(* complete and fail write the row whatever it has become; the caller's    *)
(* commit refreshed it, so fail decides on the current attempt count.      *)
(***************************************************************************)
Release(w, i) ==
    wk' = [wk EXCEPT ![w].mine = @ \ {i},
                     ![w].pc = IF wk[w].mine = {i} THEN "idle" ELSE @]

Complete(w, i) ==
    /\ wk[w].pc = "working"
    /\ i \in wk[w].mine
    /\ item' = [item EXCEPT ![i].st = "completed", ![i].left = 0]
    /\ Release(w, i)
    /\ UNCHANGED <<life, prod, leases, crashes>>

Fail(w, i, retry) ==
    /\ wk[w].pc = "working"
    /\ i \in wk[w].mine
    /\ item' = [item EXCEPT
                  ![i].st = IF retry /\ item[i].tries < MaxTries
                            THEN "pending" ELSE "failed",
                  ![i].left = 0]
    /\ Release(w, i)
    /\ UNCHANGED <<life, prod, leases, crashes>>

\* The worker's process dies; it restarts without its batch.
WorkerCrash(w) ==
    /\ wk[w].pc # "idle"
    /\ crashes < MaxCrashes
    /\ crashes' = crashes + 1
    /\ wk' = [wk EXCEPT ![w] = IdleWorker]
    /\ UNCHANGED <<item, life, prod, leases>>

Down(n) == IF n = 0 THEN 0 ELSE n - 1

Tick ==
    /\ life' = [i \in Items |->
                  IF life[i] = Never THEN Never ELSE Down(life[i])]
    /\ item' = [i \in Items |-> [item[i] EXCEPT !.left = Down(item[i].left)]]
    /\ wk' = [w \in Workers |-> [wk[w] EXCEPT !.left = Down(wk[w].left)]]
    /\ UNCHANGED <<prod, leases, crashes>>

Next ==
    \/ \E p \in Producers :
          \/ \E i \in Items : Enqueue(p, i)
          \/ FlushInsert(p)
          \/ DuplicateInsert(p)
          \/ CommitEnqueue(p)
          \/ ProducerFails(p)
    \/ \E w \in Workers :
          \/ ClaimRead(w)
          \/ ClaimCommit(w)
          \/ \E i \in Items : Complete(w, i)
          \/ \E i \in Items, retry \in BOOLEAN : Fail(w, i, retry)
          \/ WorkerCrash(w)
    \/ Tick

Spec == Init /\ [][Next]_vars

\* A worker polls the queue and ends what it claimed; clocks run.
WorkerEnds(w) ==
    \E i \in Items : Complete(w, i) \/ \E r \in BOOLEAN : Fail(w, i, r)

Fairness ==
    /\ WF_vars(Tick)
    /\ \A w \in Workers : /\ WF_vars(ClaimRead(w))
                          /\ WF_vars(ClaimCommit(w))
                          /\ WF_vars(WorkerEnds(w))

FairSpec == Spec /\ Fairness

-----------------------------------------------------------------------------
(***************************************************************************)
(* attempt_count/max_attempts: whatever the sweeps overwrite, the counter  *)
(* a claim increments is the committed one under the row's lock, so no     *)
(* item is handed out more than max_attempts times.                        *)
(***************************************************************************)
LeasesBounded ==
    \A i \in Items : leases[i] = item[i].tries /\ leases[i] <= MaxTries

(***************************************************************************)
(* A lease does not outlive its worker: when the owner of a leased item is *)
(* not working on it, because its process died, some later claim takes the *)
(* item back or another worker gets it.                                    *)
(***************************************************************************)
Orphaned(i) ==
    /\ item[i].st = "leased"
    /\ \A w \in Workers : i \notin wk[w].mine

LeaseRecovered == \A i \in Items : Orphaned(i) ~> ~Orphaned(i)

(***************************************************************************)
(* complete, fail and the sweeps write rows whatever they have become.     *)
(* Even so an item that completed, failed or expired loses that status     *)
(* only to a session that read it earlier: a worker that was handed it, or *)
(* a claim whose SELECT saw it due or lapsed.  No claim that starts after  *)
(* the final status was committed takes it back.                           *)
(***************************************************************************)
ReadEarlier(w, i) ==
    \/ i \in wk[w].mine
    \/ i \in wk[w].due \union wk[w].requeue \union wk[w].fail

FinalStatusLostOnlyToStaleReader ==
    [][\A i \in Items :
          /\ item[i].st \in FinalStatuses
          /\ item'[i].st # item[i].st
          => \E w \in Workers : ReadEarlier(w, i)]_vars

(***************************************************************************)
(* Every committed item ends in a final status, or is pending with its     *)
(* attempts used up, which no claim takes: the one way the races of reaper *)
(* and owner can leave an item behind.                                     *)
(***************************************************************************)
EveryItemEndsOrIsExhausted ==
    \A i \in Items :
        item[i].st # None ~> (\/ item[i].st \in FinalStatuses
                              \/ item[i].st = "pending" /\ item[i].tries >= MaxTries)

=============================================================================
