---------------------------- MODULE SqlTxnProofs ----------------------------
(***************************************************************************)
(* The statements of Txn 1 and Txn 2 implement the abstract ledger without *)
(* a deadlock, for any number of requests, keys, periods and workers.      *)
(***************************************************************************)
EXTENDS SqlTxn, SequenceTheorems, FiniteSetTheorems, TLAPS

\* The stages at which a transaction has written its idempotency row.
KeyStages == {"reserve", "commit_1", "refund", "record", "commit_2"}
BalanceStages == {"commit_1", "record", "commit_2"}

\* The stages of a request whose Txn 1 has committed.
OwnerStages == {"execute", "queued_2", "claim", "refund", "record", "commit_2"}

\* A transaction locks its idempotency row first and its budget row last.
LocksFollowStages ==
  \A r \in Requests :
    /\ "key" \in holds[r] <=> stage[r] \in KeyStages
    /\ "budget" \in holds[r] => stage[r] \in BalanceStages

\* Two transactions never hold the write lock of one row.
LocksExclude ==
  \A r, s \in Requests : r # s =>
    /\ "key" \in holds[r] /\ "key" \in holds[s] => KeyOf[r] # KeyOf[s]
    /\ "budget" \in holds[r] /\ "budget" \in holds[s] => period[r] # period[s]

\* The calls in the queue are waiting, each once.
Waiting == {r \in Requests : stage[r] \in Queued}

Distinct(q) == \A i, j \in 1 .. Len(q) : q[i] = q[j] => i = j

Within(q, W) == \A i \in 1 .. Len(q) : q[i] \in W

QueueWaits == Distinct(queue) /\ Within(queue, Waiting)

\* While Txn 1 holds its new row, no committed one is there.
InsertedIsNew ==
  \A r \in Requests : stage[r] \in {"reserve", "commit_1"} => row[KeyOf[r]].status = "absent"

PendingRow(r) ==
  [status |-> "pending", owner |-> r, period |-> period[r], reserved |-> quote[r]]

\* From its Txn 1 to the end of its Txn 2 a request owns a pending row.
OwnerIsPending == \A r \in Requests : stage[r] \in OwnerStages => row[KeyOf[r]] = PendingRow(r)

\* What a transaction has written, or needs not write, is the latest
\* committed balance and its own change: no update can be lost.
WrittenIsCurrent ==
  \A r \in Requests :
    /\ stage[r] = "commit_1" =>
         IF "budget" \in holds[r]
           THEN written[r] = remaining[period[r]] - quote[r] /\ written[r] >= 0
           ELSE quote[r] = 0
    /\ stage[r] \in {"record", "commit_2"} =>
         IF "budget" \in holds[r] THEN written[r] = remaining[period[r]] + RefundOf(r)
                                  ELSE RefundOf(r) = 0

SqlInv ==
  /\ TypeOK
  /\ LocksFollowStages
  /\ LocksExclude
  /\ QueueWaits
  /\ InsertedIsNew
  /\ OwnerIsPending
  /\ WrittenIsCurrent
  /\ LoserFindsRow

LEMMA SqlInvInit == Init => SqlInv
<1>. SUFFICES ASSUME Init PROVE SqlInv
  OBVIOUS
<1>1. TypeOK
  <2>1. row \in [Keys -> Rows] /\ stage \in [Requests -> Stages]
    BY DEF Init, Rows, Stages
  <2>2. quote \in [Requests -> Nat] /\ remaining \in [Periods -> Nat]
    BY SqlAssumption DEF Init
  <2>. QED
    BY <2>1, <2>2 DEF Init, TypeOK
<1>2. LocksFollowStages /\ LocksExclude /\ QueueWaits
  BY DEF Init, LocksFollowStages, LocksExclude, QueueWaits, Distinct, Within, KeyStages
<1>3. InsertedIsNew /\ OwnerIsPending /\ WrittenIsCurrent /\ LoserFindsRow
  BY DEF Init, InsertedIsNew, OwnerIsPending, WrittenIsCurrent, LoserFindsRow, OwnerStages
<1>. QED
  BY <1>1, <1>2, <1>3 DEF SqlInv

-----------------------------------------------------------------------------
\* A new element goes to the end of a queue without repetition.
LEMMA AppendDistinct ==
  ASSUME NEW S, NEW q \in Seq(S), NEW e \in S, NEW W, Distinct(q), Within(q, W), e \notin W
  PROVE  Distinct(Append(q, e)) /\ Within(Append(q, e), W \cup {e})
<1>. DEFINE a == Append(q, e)
<1>1. Len(q) \in Nat /\ Len(a) = Len(q) + 1 /\ a[Len(q) + 1] = e
  BY AppendProperties, LenProperties
<1>2. \A i \in 1 .. Len(q) : a[i] = q[i]
  BY AppendProperties
<1>. HIDE DEF a
<1>3. PICK n \in Nat : n = Len(q)
  BY <1>1
<1>4. \A i \in 1 .. n + 1 : i = n + 1 \/ i \in 1 .. n
  BY <1>3
<1>5. Within(a, W \cup {e})
  BY <1>1, <1>2, <1>3, <1>4 DEF Within
<1>6. ASSUME NEW i \in 1 .. n + 1, NEW j \in 1 .. n + 1, a[i] = a[j] PROVE i = j
  <2>1. CASE i \in 1 .. n /\ j \in 1 .. n
    BY <2>1, <1>2, <1>3, <1>6 DEF Distinct
  <2>2. ASSUME NEW l \in 1 .. n PROVE a[l] # a[n + 1]
    BY <1>1, <1>2, <1>3 DEF Within
  <2>. QED
    BY <2>1, <2>2, <1>4, <1>6
<1>. QED
  BY <1>1, <1>3, <1>5, <1>6 DEF Distinct, a

\* The rest of a queue without repetition does not contain its head.
LEMMA TailDistinct ==
  ASSUME NEW S, NEW q \in Seq(S), q # <<>>, NEW W, Distinct(q), Within(q, W)
  PROVE  /\ Head(q) \in W
         /\ Distinct(Tail(q)) /\ Within(Tail(q), W \ {Head(q)})
<1>. DEFINE t == Tail(q)
<1>1. Len(t) = Len(q) - 1 /\ \A i \in 1 .. Len(t) : t[i] = q[i + 1]
  BY HeadTailProperties
<1>2. Head(q) = q[1]
  OBVIOUS
<1>. HIDE DEF t
<1>3. PICK n \in Nat : n = Len(q) /\ n # 0
  BY LenProperties, EmptySeq
<1>4. 1 \in 1 .. n /\ \A i \in 1 .. n - 1 : i + 1 \in 1 .. n /\ i + 1 # 1
  BY <1>3
<1>5. \A i \in 1 .. n - 1 : t[i] = q[i + 1] /\ q[i + 1] # q[1] /\ q[i + 1] \in W
  BY <1>1, <1>3, <1>4 DEF Distinct, Within
<1>6. Within(t, W \ {Head(q)})
  BY <1>1, <1>2, <1>3, <1>5 DEF Within
<1>7. ASSUME NEW i \in 1 .. n - 1, NEW j \in 1 .. n - 1, t[i] = t[j] PROVE i = j
  <2>1. i + 1 = j + 1
    BY <1>7, <1>3, <1>4, <1>5 DEF Distinct
  <2>. QED
    BY <2>1
<1>. QED
  BY <1>1, <1>2, <1>3, <1>4, <1>6, <1>7 DEF Distinct, Within, t

\* A step that neither queues nor takes a call keeps the queue in order.
LEMMA QueueStays ==
  ASSUME QueueWaits, queue' = queue, Waiting' = Waiting
  PROVE  QueueWaits'
BY DEF QueueWaits, Distinct, Within

-----------------------------------------------------------------------------
\* asyncio.to_thread queues a call of a request that holds nothing.
LEMMA SubmitKeeps == ASSUME SqlInv, NEW r \in Requests, Submit(r) PROVE SqlInv'
<1>. USE SqlAssumption DEF SqlInv, committed, request
<1>. PICK x \in {"queued_1", "queued_2"} :
       /\ x = "queued_1" <=> stage[r] = "new"
       /\ stage[r] \in {"new", "execute"}
       /\ stage' = [stage EXCEPT ![r] = x]
  BY DEF Submit
<1>1. TypeOK'
  <2>1. stage' \in [Requests -> Stages]
    BY DEF TypeOK, Stages, Queued
  <2>2. cost' \in [Requests -> Nat]
    BY DEF Submit, TypeOK
  <2>3. queue' \in Seq(Requests)
    BY AppendProperties DEF Submit, TypeOK
  <2>. QED
    BY <2>1, <2>2, <2>3 DEF TypeOK, Submit
<1>2. LocksFollowStages' /\ LocksExclude'
  BY DEF Submit, TypeOK, LocksFollowStages, LocksExclude, KeyStages, BalanceStages
<1>3. QueueWaits'
  <2>1. r \notin Waiting /\ Waiting' = Waiting \cup {r}
    BY DEF Waiting, Queued, TypeOK
  <2>2. queue \in Seq(Requests) /\ queue' = Append(queue, r)
    BY DEF Submit, TypeOK
  <2>3. Distinct(queue') /\ Within(queue', Waiting \cup {r})
    BY <2>1, <2>2, AppendDistinct DEF QueueWaits
  <2>. QED
    BY <2>1, <2>3 DEF QueueWaits, Distinct, Within
<1>4. InsertedIsNew' /\ OwnerIsPending' /\ LoserFindsRow'
  BY DEF Submit, TypeOK, InsertedIsNew, OwnerIsPending, LoserFindsRow, OwnerStages, PendingRow
<1>5. WrittenIsCurrent'
  BY DEF Submit, TypeOK, WrittenIsCurrent, RefundOf
<1>. QED
  BY <1>1, <1>2, <1>3, <1>4, <1>5

\* A worker begins the oldest call, or skips it.
LEMMA DequeueKeeps == ASSUME SqlInv, Dequeue PROVE SqlInv'
<1>. USE SqlAssumption DEF SqlInv, committed, request
<1>. DEFINE r == Head(queue)
<1>1. queue \in Seq(Requests) /\ queue # <<>> /\ queue' = Tail(queue)
  BY DEF Dequeue, TypeOK
<1>2. r \in Waiting /\ Distinct(queue') /\ Within(queue', Waiting \ {r})
  BY <1>1, TailDistinct DEF QueueWaits
<1>3. r \in Requests /\ stage[r] \in Queued
  BY <1>2 DEF Waiting
<1>4. PICK x \in {"over", "find", "claim"} :
       /\ x = "find" => stage[r] = "queued_1"
       /\ x = "claim" => stage[r] = "queued_2"
       /\ stage' = [stage EXCEPT ![r] = x]
  BY <1>3 DEF Dequeue, TypeOK, Queued
<1>. HIDE DEF r
<1>5. TypeOK'
  <2>1. stage' \in [Requests -> Stages]
    BY <1>3, <1>4 DEF TypeOK, Stages, Txn1, Txn2
  <2>2. queue' \in Seq(Requests)
    BY <1>1, HeadTailProperties
  <2>. QED
    BY <2>1, <2>2 DEF TypeOK, Dequeue
<1>6. LocksFollowStages' /\ LocksExclude'
  BY <1>3, <1>4 DEF Dequeue, TypeOK, LocksFollowStages, LocksExclude, KeyStages, BalanceStages, Queued
<1>7. QueueWaits'
  <2>1. Waiting' = Waiting \ {r}
    BY <1>3, <1>4 DEF Waiting, Queued, TypeOK
  <2>. QED
    BY <1>2, <2>1 DEF QueueWaits, Distinct, Within
<1>8. InsertedIsNew' /\ OwnerIsPending' /\ LoserFindsRow'
  BY <1>3, <1>4 DEF Dequeue, TypeOK, InsertedIsNew, OwnerIsPending, LoserFindsRow, OwnerStages,
                    PendingRow, Queued
<1>9. WrittenIsCurrent'
  BY <1>3, <1>4 DEF Dequeue, TypeOK, WrittenIsCurrent, RefundOf
<1>. QED
  BY <1>5, <1>6, <1>7, <1>8, <1>9

-----------------------------------------------------------------------------
\* What a statement waits for, one lemma per statement that waits.
LEMMA InsertWaitsForHolders ==
  ASSUME NEW r \in Requests, stage[r] = "insert" PROVE WaitsFor(r) = KeyHolders(r)
BY DEF WaitsFor, InsertWaits

LEMMA ClaimWaitsForHolders ==
  ASSUME NEW r \in Requests, stage[r] = "claim" PROVE WaitsFor(r) = KeyHolders(r)
BY DEF WaitsFor

LEMMA ReserveWaitsForHolders ==
  ASSUME NEW r \in Requests, stage[r] = "reserve", quote[r] > 0 PROVE WaitsFor(r) = BudgetHolders(r)
BY DEF WaitsFor

LEMMA RefundWaitsForHolders ==
  ASSUME NEW r \in Requests, stage[r] = "refund", RefundOf(r) > 0 PROVE WaitsFor(r) = BudgetHolders(r)
BY DEF WaitsFor

LEMMA WaitsForBudget ==
  ASSUME NEW r \in Requests, stage[r] \in {"reserve", "refund"} PROVE WaitsFor(r) \subseteq BudgetHolders(r)
BY DEF WaitsFor

LEMMA OthersWaitForNobody ==
  ASSUME NEW r \in Requests, stage[r] \notin {"insert", "claim", "reserve", "refund"}
  PROVE  WaitsFor(r) = {}
BY DEF WaitsFor

-----------------------------------------------------------------------------
\* What the invariant asks of a running request r whose statement takes it to
\* stage x with the locks h, the uncommitted balance w and the period p.
MayMove(r, x, h, w, p) ==
  /\ x \in Txn1 \cup Txn2 \cup {"over"} /\ h \in SUBSET LockNames /\ w \in Int /\ p \in Periods
  /\ "key" \in h <=> x \in KeyStages
  /\ "budget" \in h => x \in BalanceStages
  /\ "key" \in h => KeyHolders(r) = {}
  /\ "budget" \in h => \A s \in Requests \ {r} : "budget" \in holds[s] => period[s] # p
  /\ x \in {"reserve", "commit_1"} => row[KeyOf[r]].status = "absent"
  /\ x = "reread" => row[KeyOf[r]].status # "absent"
  /\ x \in OwnerStages => row[KeyOf[r]] = PendingRow(r) /\ p = period[r]
  /\ x = "commit_1" =>
       IF "budget" \in h THEN w = remaining[p] - quote[r] /\ w >= 0 ELSE quote[r] = 0
  /\ x \in {"record", "commit_2"} =>
       IF "budget" \in h THEN w = remaining[p] + RefundOf(r) ELSE RefundOf(r) = 0

Moves(r, x, h, w, p) ==
  /\ stage' = [stage EXCEPT ![r] = x]
  /\ holds' = [holds EXCEPT ![r] = h]
  /\ written' = [written EXCEPT ![r] = w]
  /\ period' = [period EXCEPT ![r] = p]
  /\ UNCHANGED <<row, remaining, queue, cancelled, quote, cost>>

\* A statement that commits nothing keeps the invariant if its own request
\* may make the move.
LEMMA MoveKeeps ==
  ASSUME SqlInv, NEW r \in Requests, stage[r] \in Txn1 \cup Txn2,
         NEW x, NEW h, NEW w, NEW p, MayMove(r, x, h, w, p), Moves(r, x, h, w, p)
  PROVE  SqlInv'
<1>. USE DEF SqlInv, MayMove, Moves
<1>1. TypeOK'
  <2>1. stage' \in [Requests -> Stages]
    BY DEF TypeOK, Stages
  <2>2. holds' \in [Requests -> SUBSET LockNames] /\ written' \in [Requests -> Int]
        /\ period' \in [Requests -> Periods]
    BY DEF TypeOK
  <2>. QED
    BY <2>1, <2>2 DEF TypeOK
<1>2. LocksFollowStages'
  BY DEF TypeOK, LocksFollowStages
<1>3. LocksExclude'
  <2>. SUFFICES ASSUME NEW s \in Requests, NEW t \in Requests, s # t
                PROVE  /\ "key" \in holds'[s] /\ "key" \in holds'[t] => KeyOf[s] # KeyOf[t]
                       /\ "budget" \in holds'[s] /\ "budget" \in holds'[t] => period'[s] # period'[t]
    BY DEF LocksExclude
  <2>1. CASE s # r /\ t # r
    BY <2>1 DEF LocksExclude, TypeOK
  <2>2. CASE s = r
    BY <2>2 DEF TypeOK, KeyHolders
  <2>3. CASE t = r
    BY <2>3 DEF TypeOK, KeyHolders
  <2>. QED
    BY <2>1, <2>2, <2>3
<1>4. QueueWaits'
  BY QueueStays DEF Waiting, Queued, TypeOK, Txn1, Txn2
<1>5. InsertedIsNew' /\ LoserFindsRow'
  BY DEF TypeOK, InsertedIsNew, LoserFindsRow
<1>6. OwnerIsPending'
  BY DEF TypeOK, OwnerIsPending, PendingRow
<1>7. WrittenIsCurrent'
  BY DEF TypeOK, WrittenIsCurrent, RefundOf
<1>. QED
  BY <1>1, <1>2, <1>3, <1>4, <1>5, <1>6, <1>7

\* A rollback gives back the locks and writes nothing.
LEMMA RollbackKeeps == ASSUME SqlInv, NEW r \in Requests, stage[r] \in Txn1 \cup Txn2, Rollback(r) PROVE SqlInv'
<1>1. MayMove(r, "over", {}, written[r], period[r])
  BY DEF SqlInv, TypeOK, MayMove, KeyStages, OwnerStages
<1>2. Moves(r, "over", {}, written[r], period[r])
  BY DEF Moves, Rollback, Release, request, SqlInv, TypeOK
<1>. QED
  BY <1>1, <1>2, MoveKeeps

\* The period is chosen before anything is locked.
LEMMA FindPeriodKeeps == ASSUME SqlInv, NEW r \in Requests, FindPeriod(r) PROVE SqlInv'
<1>1. PICK p \in Periods : period' = [period EXCEPT ![r] = p]
  BY DEF FindPeriod
<1>2. "key" \notin holds[r] /\ "budget" \notin holds[r]
  BY DEF SqlInv, FindPeriod, LocksFollowStages, KeyStages, BalanceStages
<1>3. MayMove(r, "insert", holds[r], written[r], p)
  BY <1>2 DEF SqlInv, TypeOK, MayMove, KeyStages, OwnerStages, Txn1
<1>4. Moves(r, "insert", holds[r], written[r], p)
  BY <1>1 DEF Moves, FindPeriod, Proceed, committed, SqlInv, TypeOK
<1>5. stage[r] \in Txn1 \cup Txn2
  BY DEF FindPeriod, Txn1
<1>. QED
  BY <1>3, <1>4, <1>5, MoveKeeps

\* The row is inserted when nobody else has written it.
LEMMA InsertKeeps == ASSUME SqlInv, NEW r \in Requests, Insert(r) PROVE SqlInv'
<1>1. "key" \notin holds[r] /\ "budget" \notin holds[r]
  BY DEF SqlInv, Insert, LocksFollowStages, KeyStages, BalanceStages
<1>2. CASE row[KeyOf[r]].status = "absent" /\ KeyHolders(r) = {}
  <2>1. MayMove(r, "reserve", {"key", "share"}, written[r], period[r])
    BY <1>2 DEF SqlInv, TypeOK, MayMove, LockNames, KeyStages, OwnerStages, Txn1
  <2>2. Moves(r, "reserve", {"key", "share"}, written[r], period[r])
    BY <1>2 DEF Moves, Insert, Proceed, committed, request, SqlInv, TypeOK
  <2>3. stage[r] \in Txn1 \cup Txn2
    BY DEF Insert, Txn1
  <2>. QED
    BY <2>1, <2>2, <2>3, MoveKeeps
<1>3. CASE ~(row[KeyOf[r]].status = "absent" /\ KeyHolders(r) = {})
  <2>1. row[KeyOf[r]].status # "absent"
    BY <1>3, InsertWaitsForHolders DEF Insert
  <2>2. MayMove(r, "reread", holds[r], written[r], period[r])
    BY <1>1, <2>1 DEF SqlInv, TypeOK, MayMove, KeyStages, OwnerStages, Txn1
  <2>3. Moves(r, "reread", holds[r], written[r], period[r])
    BY <1>3 DEF Moves, Insert, Proceed, committed, request, SqlInv, TypeOK
  <2>4. stage[r] \in Txn1 \cup Txn2
    BY DEF Insert, Txn1
  <2>. QED
    BY <2>2, <2>3, <2>4, MoveKeeps
<1>. QED
  BY <1>2, <1>3

\* The balance is reserved when nobody else has written it.
LEMMA ReserveKeeps == ASSUME SqlInv, NEW r \in Requests, Reserve(r) PROVE SqlInv'
<1>1. /\ "key" \in holds[r] /\ "budget" \notin holds[r] /\ KeyHolders(r) = {}
      /\ row[KeyOf[r]].status = "absent"
  BY DEF SqlInv, Reserve, LocksFollowStages, LocksExclude, KeyHolders, InsertedIsNew, KeyStages,
         BalanceStages
<1>2. CASE quote[r] = 0
  <2>1. MayMove(r, "commit_1", holds[r], written[r], period[r])
    BY <1>1, <1>2 DEF SqlInv, TypeOK, MayMove, KeyStages, OwnerStages, Txn1
  <2>2. Moves(r, "commit_1", holds[r], written[r], period[r])
    BY <1>2 DEF Moves, Reserve, Proceed, committed, request, SqlInv, TypeOK
  <2>3. stage[r] \in Txn1 \cup Txn2
    BY DEF Reserve, Txn1
  <2>. QED
    BY <2>1, <2>2, <2>3, MoveKeeps
<1>3. CASE quote[r] # 0
  <2>. DEFINE w == remaining[period[r]] - quote[r]
  <2>1. remaining[period[r]] \in Nat /\ quote[r] \in Nat /\ quote[r] > 0
    BY <1>3 DEF SqlInv, TypeOK
  <2>2. stage[r] = "reserve" /\ WaitsFor(r) = {} /\ quote[r] <= remaining[period[r]]
    BY DEF Reserve, Covered
  <2>3. w \in Int /\ w >= 0
    BY <2>1, <2>2
  <2>4. \A s \in Requests \ {r} : "budget" \in holds[s] => period[s] # period[r]
    <3>1. BudgetHolders(r) = {}
      BY <2>1, <2>2, ReserveWaitsForHolders
    <3>. QED
      BY <3>1 DEF BudgetHolders, BudgetConflicts
  <2>. HIDE DEF w
  <2>5. MayMove(r, "commit_1", holds[r] \cup {"budget"}, w, period[r])
    BY <1>1, <2>3, <2>4 DEF SqlInv, TypeOK, MayMove, LockNames, KeyStages, BalanceStages,
                            OwnerStages, Txn1, w
  <2>6. Moves(r, "commit_1", holds[r] \cup {"budget"}, w, period[r])
    BY <1>3 DEF Moves, Reserve, Proceed, committed, request, SqlInv, TypeOK, w
  <2>7. stage[r] \in Txn1 \cup Txn2
    BY DEF Reserve, Txn1
  <2>. QED
    BY <2>5, <2>6, <2>7, MoveKeeps
<1>. QED
  BY <1>2, <1>3

\* An owner claims its pending row.
LEMMA ClaimKeeps == ASSUME SqlInv, NEW r \in Requests, Claim(r) PROVE SqlInv'
<1>1. "key" \notin holds[r] /\ "budget" \notin holds[r] /\ row[KeyOf[r]] = PendingRow(r)
  BY DEF SqlInv, Claim, LocksFollowStages, OwnerIsPending, KeyStages, BalanceStages, OwnerStages
<1>2. row[KeyOf[r]].status = "pending" /\ KeyHolders(r) = {}
  BY <1>1, ClaimWaitsForHolders DEF Claim, PendingRow
<1>3. MayMove(r, "refund", {"key"}, written[r], period[r])
  BY <1>1, <1>2 DEF SqlInv, TypeOK, MayMove, LockNames, KeyStages, Txn2
<1>4. Moves(r, "refund", {"key"}, written[r], period[r])
  BY <1>2 DEF Moves, Claim, Proceed, committed, request, SqlInv, TypeOK
<1>5. stage[r] \in Txn1 \cup Txn2
  BY DEF Claim, Txn2
<1>. QED
  BY <1>3, <1>4, <1>5, MoveKeeps

\* The refund is written on the latest balance.
LEMMA RefundKeeps == ASSUME SqlInv, NEW r \in Requests, ApplyRefund(r) PROVE SqlInv'
<1>1. /\ "key" \in holds[r] /\ "budget" \notin holds[r] /\ KeyHolders(r) = {}
      /\ row[KeyOf[r]] = PendingRow(r)
  BY DEF SqlInv, ApplyRefund, LocksFollowStages, LocksExclude, KeyHolders, OwnerIsPending,
         KeyStages, BalanceStages, OwnerStages
<1>2. CASE RefundOf(r) = 0
  <2>1. MayMove(r, "record", holds[r], written[r], period[r])
    BY <1>1, <1>2 DEF SqlInv, TypeOK, MayMove, KeyStages, Txn2
  <2>2. Moves(r, "record", holds[r], written[r], period[r])
    BY <1>2 DEF Moves, ApplyRefund, Proceed, committed, request, SqlInv, TypeOK
  <2>3. stage[r] \in Txn1 \cup Txn2
    BY DEF ApplyRefund, Txn2
  <2>. QED
    BY <2>1, <2>2, <2>3, MoveKeeps
<1>3. CASE RefundOf(r) # 0 /\ remaining[period[r]] + RefundOf(r) <= Alloc[period[r]]
  <2>. DEFINE w == remaining[period[r]] + RefundOf(r)
  <2>1. w \in Int /\ RefundOf(r) > 0
    BY <1>3 DEF RefundOf, SqlInv, TypeOK
  <2>2. \A s \in Requests \ {r} : "budget" \in holds[s] => period[s] # period[r]
    BY <2>1, RefundWaitsForHolders DEF ApplyRefund, BudgetHolders, BudgetConflicts
  <2>. HIDE DEF w
  <2>3. MayMove(r, "record", holds[r] \cup {"budget"}, w, period[r])
    BY <1>1, <2>1, <2>2 DEF SqlInv, TypeOK, MayMove, LockNames, KeyStages, BalanceStages, Txn2, w
  <2>4. Moves(r, "record", holds[r] \cup {"budget"}, w, period[r])
    BY <1>3 DEF Moves, ApplyRefund, Proceed, committed, request, SqlInv, TypeOK, w
  <2>5. stage[r] \in Txn1 \cup Txn2
    BY DEF ApplyRefund, Txn2
  <2>. QED
    BY <2>3, <2>4, <2>5, MoveKeeps
<1>4. CASE RefundOf(r) # 0 /\ ~(remaining[period[r]] + RefundOf(r) <= Alloc[period[r]])
  BY <1>4, RollbackKeeps DEF ApplyRefund, Rollback, Release, Proceed, committed, Txn2
<1>. QED
  BY <1>2, <1>3, <1>4

\* The usage record is inserted under the locks held.
LEMMA UsageKeeps == ASSUME SqlInv, NEW r \in Requests, InsertUsage(r) PROVE SqlInv'
<1>1. /\ "key" \in holds[r] /\ KeyHolders(r) = {} /\ row[KeyOf[r]] = PendingRow(r)
      /\ "budget" \in holds[r] => \A s \in Requests \ {r} : "budget" \in holds[s] => period[s] # period[r]
  BY DEF SqlInv, InsertUsage, LocksFollowStages, LocksExclude, KeyHolders, OwnerIsPending,
         KeyStages, OwnerStages
<1>2. MayMove(r, "commit_2", holds[r], written[r], period[r])
  BY <1>1 DEF SqlInv, TypeOK, MayMove, KeyStages, BalanceStages, Txn2, WrittenIsCurrent, InsertUsage
<1>3. Moves(r, "commit_2", holds[r], written[r], period[r])
  BY DEF Moves, InsertUsage, Proceed, committed, request, SqlInv, TypeOK
<1>4. stage[r] \in Txn1 \cup Txn2
  BY DEF InsertUsage, Txn2
<1>. QED
  BY <1>2, <1>3, <1>4, MoveKeeps

-----------------------------------------------------------------------------
\* What a commit makes of the balances.
LEMMA CommittedBalance ==
  ASSUME SqlInv, NEW r \in Requests, InstallBalance(r),
         "budget" \in holds[r] => written[r] \in Nat
  PROVE  /\ remaining' \in [Periods -> Nat]
         /\ \A s \in Requests \ {r} :
              "budget" \in holds[s] => remaining'[period[s]] = remaining[period[s]]
BY DEF SqlInv, TypeOK, InstallBalance, LocksExclude

\* A commit of r that installs a row for its own key and gives back its locks
\* keeps the invariant, whatever r goes on with but its own next transaction.
LEMMA CommitKeeps ==
  ASSUME SqlInv, NEW r \in Requests, NEW x \in {"execute", "over"}, NEW y \in Rows,
         "key" \in holds[r], y.status # "absent",
         "budget" \in holds[r] => written[r] \in Nat,
         x = "execute" => y = PendingRow(r),
         \A s \in Requests \ {r} : stage[s] \in OwnerStages => KeyOf[s] # KeyOf[r],
         stage[r] \in Txn1 \cup Txn2,
         row' = [row EXCEPT ![KeyOf[r]] = y], stage' = [stage EXCEPT ![r] = x],
         InstallBalance(r), Release(r),
         UNCHANGED <<queue, cancelled, quote, cost, period, written>>
  PROVE  SqlInv'
<1>. USE DEF SqlInv
<1>0. KeyOf[r] \in Keys
  BY SqlAssumption
<1>1. TypeOK'
  <2>1. stage' \in [Requests -> Stages] /\ holds' \in [Requests -> SUBSET LockNames]
    BY DEF TypeOK, Stages, Release
  <2>2. row' \in [Keys -> Rows]
    BY DEF TypeOK
  <2>. QED
    BY <2>1, <2>2, CommittedBalance DEF TypeOK
<1>2. LocksFollowStages' /\ LocksExclude'
  BY DEF TypeOK, LocksFollowStages, LocksExclude, Release, KeyStages
<1>3. QueueWaits'
  BY QueueStays DEF Waiting, Queued, TypeOK, Txn1, Txn2
<1>4. InsertedIsNew'
  <2>. SUFFICES ASSUME NEW s \in Requests, stage'[s] \in {"reserve", "commit_1"}
                PROVE  row'[KeyOf[s]].status = "absent"
    BY DEF InsertedIsNew
  <2>1. s # r /\ stage[s] \in {"reserve", "commit_1"}
    BY DEF TypeOK
  <2>2. KeyOf[s] # KeyOf[r]
    BY <2>1 DEF LocksFollowStages, LocksExclude, KeyStages
  <2>. QED
    BY <2>1, <2>2, SqlAssumption DEF InsertedIsNew, TypeOK
<1>5. OwnerIsPending'
  <2>. SUFFICES ASSUME NEW s \in Requests, stage'[s] \in OwnerStages
                PROVE  row'[KeyOf[s]] = PendingRow(s)'
    BY DEF OwnerIsPending
  <2>1. CASE s = r
    <3>1. x = "execute"
      BY <2>1 DEF TypeOK, OwnerStages
    <3>. QED
      BY <1>0, <2>1, <3>1 DEF TypeOK, PendingRow
  <2>2. CASE s # r
    BY <2>2 DEF TypeOK, OwnerIsPending, PendingRow
  <2>. QED
    BY <2>1, <2>2
<1>6. WrittenIsCurrent'
  <2>. SUFFICES ASSUME NEW s \in Requests, s # r, stage'[s] = stage[s], holds'[s] = holds[s]
                PROVE  "budget" \in holds[s] => remaining'[period[s]] = remaining[period[s]]
    BY DEF TypeOK, WrittenIsCurrent, RefundOf, Release
  <2>. QED
    BY CommittedBalance
<1>7. LoserFindsRow'
  BY <1>0 DEF LoserFindsRow, TypeOK
<1>. QED
  BY <1>1, <1>2, <1>3, <1>4, <1>5, <1>6, <1>7

\* A request at its commit is the only one that owns its key.
LEMMA CommitterAlone ==
  ASSUME SqlInv, NEW r \in Requests, stage[r] \in {"commit_1", "commit_2"},
         NEW s \in Requests \ {r}, stage[s] \in OwnerStages
  PROVE  KeyOf[s] # KeyOf[r]
<1>1. row[KeyOf[s]].status = "pending" /\ row[KeyOf[s]].owner = s
  <2>1. row[KeyOf[s]] = PendingRow(s)
    BY DEF SqlInv, OwnerIsPending
  <2>2. PendingRow(s).status = "pending" /\ PendingRow(s).owner = s
    BY DEF PendingRow
  <2>. QED
    BY <2>1, <2>2
<1>2. CASE stage[r] = "commit_1"
  <2>1. row[KeyOf[r]].status = "absent"
    BY <1>2 DEF SqlInv, InsertedIsNew
  <2>. QED
    BY <1>1, <2>1
<1>3. CASE stage[r] = "commit_2"
  <2>1. row[KeyOf[r]] = PendingRow(r)
    BY <1>3 DEF SqlInv, OwnerIsPending, OwnerStages
  <2>2. PendingRow(r).owner = r
    BY DEF PendingRow
  <2>. QED
    BY <1>1, <2>1, <2>2
<1>. QED
  BY <1>2, <1>3

\* The commit of Txn 1 makes the new row and the balance visible.
LEMMA Commit1Keeps == ASSUME SqlInv, NEW r \in Requests, Commit1(r) PROVE SqlInv'
<1>1. PendingRow(r) \in Rows /\ PendingRow(r).status # "absent"
  BY DEF SqlInv, TypeOK, PendingRow, Rows
<1>2. PICK x \in {"execute", "over"} : stage' = [stage EXCEPT ![r] = x]
  BY DEF Commit1, Proceed
<1>3. "key" \in holds[r] /\ ("budget" \in holds[r] => written[r] \in Nat)
  <2>1. stage[r] = "commit_1" /\ written[r] \in Int
    BY DEF Commit1, SqlInv, TypeOK
  <2>2. "budget" \in holds[r] => written[r] >= 0
    BY <2>1 DEF SqlInv, WrittenIsCurrent
  <2>3. "key" \in holds[r]
    BY <2>1 DEF SqlInv, LocksFollowStages, KeyStages
  <2>4. \A n \in Int : n >= 0 => n \in Nat
    OBVIOUS
  <2>. QED
    BY <2>1, <2>2, <2>3, <2>4
<1>4. /\ row' = [row EXCEPT ![KeyOf[r]] = PendingRow(r)]
      /\ InstallBalance(r) /\ Release(r)
      /\ UNCHANGED <<queue, cancelled, quote, cost, period, written>>
  BY DEF Commit1, request, PendingRow
<1>5. stage[r] = "commit_1" /\ stage[r] \in Txn1 \cup Txn2
  BY DEF Commit1, Txn1
<1>. QED
  BY <1>1, <1>2, <1>3, <1>4, <1>5, CommitterAlone, CommitKeeps

SettledRow(r) ==
  [status |-> "settled", owner |-> r, period |-> period[r], reserved |-> quote[r],
   usage |-> cost[r]]

\* The commit of Txn 2 settles the row of its owner.
LEMMA Commit2Keeps == ASSUME SqlInv, NEW r \in Requests, Commit2(r) PROVE SqlInv'
<1>1. SettledRow(r) \in Rows /\ SettledRow(r).status # "absent"
  BY DEF SqlInv, TypeOK, SettledRow, Rows
<1>2. stage' = [stage EXCEPT ![r] = "over"]
  BY DEF Commit2, Proceed
<1>3. "key" \in holds[r] /\ ("budget" \in holds[r] => written[r] \in Nat)
  <2>1. stage[r] = "commit_2"
    BY DEF Commit2
  <2>2. "budget" \in holds[r] => written[r] = remaining[period[r]] + RefundOf(r)
    BY <2>1 DEF SqlInv, WrittenIsCurrent
  <2>3. "key" \in holds[r]
    BY <2>1 DEF SqlInv, LocksFollowStages, KeyStages
  <2>4. remaining[period[r]] \in Nat /\ quote[r] \in Nat /\ cost[r] \in Nat
    BY DEF SqlInv, TypeOK
  <2>5. RefundOf(r) \in Nat
    BY <2>4 DEF RefundOf
  <2>. QED
    BY <2>2, <2>3, <2>4, <2>5
<1>4. /\ row' = [row EXCEPT ![KeyOf[r]] = SettledRow(r)]
      /\ InstallBalance(r) /\ Release(r)
      /\ UNCHANGED <<queue, cancelled, quote, cost, period, written>>
  BY DEF Commit2, request, SettledRow
<1>5. stage[r] = "commit_2" /\ stage[r] \in Txn1 \cup Txn2
  BY DEF Commit2, Txn2
<1>. QED
  BY <1>1, <1>2, <1>3, <1>4, <1>5, CommitterAlone, CommitKeeps

-----------------------------------------------------------------------------
\* A cancellation reaches the coroutine and not its thread.
LEMMA CancelKeeps == ASSUME SqlInv, NEW r \in Requests, Cancel(r) PROVE SqlInv'
<1>. USE DEF SqlInv, Cancel, committed, request
<1>1. TypeOK'
  BY DEF TypeOK, Stages
<1>2. LocksFollowStages' /\ LocksExclude'
  BY DEF TypeOK, LocksFollowStages, LocksExclude, KeyStages, BalanceStages
<1>3. QueueWaits'
  BY QueueStays DEF Waiting, Queued, TypeOK
<1>4. InsertedIsNew' /\ OwnerIsPending' /\ LoserFindsRow'
  BY DEF TypeOK, InsertedIsNew, OwnerIsPending, LoserFindsRow, OwnerStages, PendingRow
<1>5. WrittenIsCurrent'
  BY DEF TypeOK, WrittenIsCurrent, RefundOf
<1>. QED
  BY <1>1, <1>2, <1>3, <1>4, <1>5

\* A crash ends every transaction and empties the queue.
LEMMA CrashKeeps == ASSUME SqlInv, Crash PROVE SqlInv'
<1>. USE DEF SqlInv, Crash, committed, request
<1>1. TypeOK'
  <2>1. stage' \in [Requests -> Stages] /\ holds' \in [Requests -> SUBSET LockNames]
    BY DEF Stages
  <2>2. queue' \in Seq(Requests)
    OBVIOUS
  <2>. QED
    BY <2>1, <2>2 DEF TypeOK
<1>2. \A r \in Requests : stage'[r] \in {"new", "over"} /\ holds'[r] = {}
  OBVIOUS
<1>3. LocksFollowStages' /\ LocksExclude'
  BY <1>2 DEF LocksFollowStages, LocksExclude, KeyStages, BalanceStages
<1>4. QueueWaits'
  BY DEF QueueWaits, Distinct, Within
<1>5. InsertedIsNew' /\ OwnerIsPending' /\ LoserFindsRow' /\ WrittenIsCurrent'
  BY <1>2 DEF InsertedIsNew, OwnerIsPending, LoserFindsRow, WrittenIsCurrent, OwnerStages
<1>. QED
  BY <1>1, <1>3, <1>4, <1>5

-----------------------------------------------------------------------------
\* The inductive invariant: locks follow stages and exclude one another, rows
\* belong to who executes or settles them, and an uncommitted balance is the
\* latest committed one and the transaction's own change.
THEOREM SqlInvariant == Spec => []SqlInv
<1>1. SqlInv /\ [Next]_vars => SqlInv'
  <2>. SUFFICES ASSUME SqlInv, [Next]_vars PROVE SqlInv'
    OBVIOUS
  <2>1. ASSUME NEW r \in Requests, Step(r) PROVE SqlInv'
    <3>1. CASE FindPeriod(r) \/ Insert(r)
      BY <3>1, FindPeriodKeeps, InsertKeeps
    <3>2. CASE Reread(r) \/ ReserveTooLittle(r)
      BY <3>2, RollbackKeeps DEF Reread, ReserveTooLittle, Txn1
    <3>3. CASE Reserve(r) \/ Commit1(r)
      BY <3>3, ReserveKeeps, Commit1Keeps
    <3>4. CASE Claim(r) \/ ApplyRefund(r) \/ InsertUsage(r) \/ Commit2(r)
      BY <3>4, ClaimKeeps, RefundKeeps, UsageKeeps, Commit2Keeps
    <3>. QED
      BY <2>1, <3>1, <3>2, <3>3, <3>4 DEF Step
  <2>2. ASSUME NEW r \in Requests, Submit(r) \/ StatementFails(r) \/ Cancel(r) PROVE SqlInv'
    BY <2>2, SubmitKeeps, RollbackKeeps, CancelKeeps DEF StatementFails
  <2>3. CASE Dequeue \/ Crash
    BY <2>3, DequeueKeeps, CrashKeeps
  <2>4. CASE UNCHANGED vars
    BY <2>4 DEF vars, SqlInv, TypeOK, LocksFollowStages, LocksExclude, QueueWaits, Distinct,
                Within, Waiting, InsertedIsNew, OwnerIsPending, PendingRow, WrittenIsCurrent,
                RefundOf, LoserFindsRow
  <2>. QED
    BY <2>1, <2>2, <2>3, <2>4 DEF Next
<1>. QED
  BY SqlInvInit, <1>1, PTL DEF Spec

\* The statements are type correct: no committed balance is ever negative.
THEOREM SqlTypeSafe == Spec => []TypeOK
<1>1. SqlInv => TypeOK
  BY DEF SqlInv
<1>. QED
  BY SqlInvariant, <1>1, PTL

\* A request that lost the insert finds the row it lost to.
THEOREM SqlLoserFindsRow == Spec => []LoserFindsRow
<1>1. SqlInv => LoserFindsRow
  BY DEF SqlInv
<1>. QED
  BY SqlInvariant, <1>1, PTL

\* A statement that waits for a budget row waits for somebody who waits for
\* nobody, and one that waits for an idempotency row waits for somebody who at
\* most waits for a budget row: no set of requests waits in a circle.
THEOREM SqlNoDeadlock == Spec => []NoWaitCycle
<1>1. SqlInv => NoWaitCycle
  <2>. SUFFICES ASSUME SqlInv, NEW S \in SUBSET Requests, S # {}
                PROVE  \E r \in S : WaitsFor(r) \cap S = {}
    BY DEF NoWaitCycle
  <2>1. ASSUME NEW r \in S, stage[r] \notin {"insert", "claim"}, NEW s \in WaitsFor(r)
        PROVE  s \in Requests /\ WaitsFor(s) = {}
    <3>1. s \in BudgetHolders(r)
      BY <2>1, WaitsForBudget, OthersWaitForNobody
    <3>2. s \in Requests /\ stage[s] \in BalanceStages
      BY <3>1 DEF BudgetHolders, BudgetConflicts, SqlInv, LocksFollowStages
    <3>. QED
      BY <3>2, OthersWaitForNobody DEF BalanceStages
  <2>2. ASSUME NEW r \in S, stage[r] \in {"insert", "claim"}, NEW s \in WaitsFor(r)
        PROVE  s \in Requests /\ stage[s] \notin {"insert", "claim"}
    <3>1. s \in KeyHolders(r)
      BY <2>2, InsertWaitsForHolders, ClaimWaitsForHolders
    <3>. QED
      BY <3>1 DEF KeyHolders, SqlInv, LocksFollowStages, KeyStages
  <2>3. PICK r \in S : TRUE
    OBVIOUS
  <2>4. CASE stage[r] \notin {"insert", "claim"}
    BY <2>1, <2>4
  <2>5. CASE stage[r] \in {"insert", "claim"}
    BY <2>1, <2>2, <2>5
  <2>. QED
    BY <2>4, <2>5
<1>. QED
  BY SqlInvariant, <1>1, PTL

-----------------------------------------------------------------------------
\* The slot of a committed row, one lemma per status.
LEMMA SlotOfAbsent ==
  ASSUME NEW k \in Keys, row[k].status = "absent" PROVE SlotOf(k) = [state |-> "free"]
BY DEF SlotOf

LEMMA SlotOfPending ==
  ASSUME NEW k \in Keys, row[k].status = "pending"
  PROVE  SlotOf(k) = [state |-> "held", period |-> row[k].period, amount |-> row[k].reserved]
BY DEF SlotOf

LEMMA SlotOfSettled ==
  ASSUME NEW k \in Keys, row[k].status = "settled"
  PROVE  SlotOf(k) = [state |-> "settled", period |-> row[k].period,
                      amount |-> IF row[k].usage < row[k].reserved THEN row[k].usage
                                                                   ELSE row[k].reserved]
BY DEF SlotOf

\* A step that commits nothing leaves the ledger alone.
LEMMA SlotsStay == ASSUME UNCHANGED committed PROVE UNCHANGED Ledger!ledgerVars
BY DEF committed, Ledger!ledgerVars, Slots, SlotOf

\* The commit of Txn 1 takes the reservation out of the latest committed balance,
\* whether or not its UPDATE was skipped.
LEMMA Commit1Takes ==
  ASSUME SqlInv, NEW r \in Requests, Commit1(r), NEW p \in Periods, p = period[r]
  PROVE  /\ quote[r] \in 0 .. remaining[p]
         /\ remaining' = [remaining EXCEPT ![p] = @ - quote[r]]
<1>1. remaining \in [Periods -> Nat] /\ quote[r] \in Nat
  BY DEF SqlInv, TypeOK
<1>2. /\ "budget" \in holds[r] => written[r] = remaining[p] - quote[r] /\ written[r] >= 0
      /\ "budget" \notin holds[r] => quote[r] = 0
  BY DEF Commit1, SqlInv, WrittenIsCurrent
<1>3. quote[r] \in 0 .. remaining[p]
  BY <1>1, <1>2
<1>4. remaining' = IF "budget" \in holds[r] THEN [remaining EXCEPT ![p] = written[r]]
                                             ELSE remaining
  BY DEF Commit1, InstallBalance
<1>5. CASE "budget" \in holds[r]
  BY <1>2, <1>3, <1>4, <1>5
<1>6. CASE "budget" \notin holds[r]
  <2>1. remaining[p] - quote[r] = remaining[p]
    BY <1>1, <1>2, <1>6
  <2>. QED
    BY <1>1, <1>3, <1>4, <1>6, <2>1
<1>. QED
  BY <1>5, <1>6

\* The commit of Txn 2 gives the refund back to the latest committed balance.
LEMMA Commit2Returns ==
  ASSUME SqlInv, NEW r \in Requests, Commit2(r), NEW p \in Periods, p = period[r]
  PROVE  remaining' = [remaining EXCEPT ![p] = remaining[p] + RefundOf(r)]
<1>1. remaining \in [Periods -> Nat]
  BY DEF SqlInv, TypeOK
<1>2. /\ "budget" \in holds[r] => written[r] = remaining[p] + RefundOf(r)
      /\ "budget" \notin holds[r] => RefundOf(r) = 0
  BY DEF Commit2, SqlInv, WrittenIsCurrent
<1>3. remaining' = IF "budget" \in holds[r] THEN [remaining EXCEPT ![p] = written[r]]
                                             ELSE remaining
  BY DEF Commit2, InstallBalance
<1>4. CASE "budget" \in holds[r]
  BY <1>2, <1>3, <1>4
<1>5. CASE "budget" \notin holds[r]
  <2>1. remaining[p] + RefundOf(r) = remaining[p]
    BY <1>1, <1>2, <1>5
  <2>. QED
    BY <1>1, <1>3, <1>5, <2>1
<1>. QED
  BY <1>4, <1>5

\* The commit of Txn 1 is a hold of the ledger.
LEMMA Commit1Holds ==
  ASSUME SqlInv, NEW r \in Requests, Commit1(r), NEW k \in Keys, k = KeyOf[r],
         NEW p \in Periods, p = period[r]
  PROVE  Ledger!Hold(k, p)
<1>1. /\ row[k].status = "absent" /\ row \in [Keys -> Rows]
      /\ row' = [row EXCEPT ![k] = PendingRow(r)]
  BY DEF Commit1, SqlInv, InsertedIsNew, PendingRow, TypeOK
<1>2. Slots[k].state = "free"
  BY <1>1, SlotOfAbsent DEF Slots
<1>3. SlotOf(k)' = [state |-> "held", period |-> p, amount |-> quote[r]]
  <2>1. row'[k].status = "pending" /\ row'[k].period = p /\ row'[k].reserved = quote[r]
    BY <1>1 DEF PendingRow
  <2>. QED
    BY <2>1 DEF SlotOf
<1>4. \A j \in Keys \ {k} : SlotOf(j)' = SlotOf(j)
  BY <1>1 DEF SlotOf
<1>5. Slots' = [Slots EXCEPT ![k] = [state |-> "held", period |-> p, amount |-> quote[r]]]
  BY <1>3, <1>4 DEF Slots
<1>8. /\ quote[r] \in 0 .. remaining[p]
      /\ remaining' = [remaining EXCEPT ![p] = @ - quote[r]]
  BY Commit1Takes
<1>. QED
  BY <1>2, <1>5, <1>8 DEF Ledger!Hold

\* The commit of Txn 2 is a settlement of the ledger.
LEMMA Commit2Settles ==
  ASSUME SqlInv, NEW r \in Requests, Commit2(r), NEW k \in Keys, k = KeyOf[r],
         NEW p \in Periods, p = period[r]
  PROVE  Ledger!Settle(k)
<1>. DEFINE charge == IF cost[r] < quote[r] THEN cost[r] ELSE quote[r]
<1>1. /\ row[k] = PendingRow(r) /\ row \in [Keys -> Rows]
      /\ row' = [row EXCEPT ![k] = SettledRow(r)]
  BY DEF Commit2, SqlInv, OwnerIsPending, OwnerStages, SettledRow, TypeOK
<1>2. Slots[k] = [state |-> "held", period |-> p, amount |-> quote[r]]
  <2>1. row[k].status = "pending" /\ row[k].period = p /\ row[k].reserved = quote[r]
    BY <1>1 DEF PendingRow
  <2>. QED
    BY <2>1, SlotOfPending DEF Slots
<1>3. SlotOf(k)' = [state |-> "settled", period |-> p, amount |-> charge]
  <2>1. /\ row'[k].status = "settled" /\ row'[k].period = p
        /\ row'[k].reserved = quote[r] /\ row'[k].usage = cost[r]
    BY <1>1 DEF SettledRow
  <2>. QED
    BY <2>1 DEF SlotOf
<1>4. \A j \in Keys \ {k} : SlotOf(j)' = SlotOf(j)
  BY <1>1 DEF SlotOf
<1>5. remaining \in [Periods -> Nat] /\ quote[r] \in Nat /\ cost[r] \in Nat
  BY DEF SqlInv, TypeOK
<1>6. charge \in 0 .. quote[r] /\ RefundOf(r) = quote[r] - charge
  BY <1>5 DEF RefundOf
<1>. HIDE DEF charge
<1>7. Slots' = [Slots EXCEPT ![k] = [state |-> "settled", period |-> p, amount |-> charge]]
  BY <1>3, <1>4 DEF Slots
<1>9. remaining' = [remaining EXCEPT ![p] = @ + quote[r] - charge]
  <2>1. remaining' = [remaining EXCEPT ![p] = remaining[p] + RefundOf(r)]
    BY Commit2Returns
  <2>2. remaining[p] + RefundOf(r) = remaining[p] + quote[r] - charge
    BY <1>5, <1>6
  <2>. QED
    BY <2>1, <2>2
<1>10. Slots[k].state = "held" /\ Slots[k].period = p /\ Slots[k].amount = quote[r]
  BY <1>2
<1>. QED
  BY <1>6, <1>7, <1>9, <1>10 DEF Ledger!Settle

\* Only the two commits change what is committed.
LEMMA OnlyCommitsCommit ==
  ASSUME [Next]_vars
  PROVE  \/ UNCHANGED committed
         \/ \E r \in Requests : Commit1(r) \/ Commit2(r)
<1>1. ASSUME NEW r \in Requests, Step(r), ~Commit1(r), ~Commit2(r) PROVE UNCHANGED committed
  BY <1>1 DEF Step, FindPeriod, Insert, Reread, Reserve, ReserveTooLittle, Claim, ApplyRefund,
              InsertUsage, Rollback, committed
<1>2. ASSUME NEW r \in Requests, Submit(r) \/ StatementFails(r) \/ Cancel(r)
      PROVE  UNCHANGED committed
  BY <1>2 DEF Submit, StatementFails, Cancel, Rollback, committed
<1>3. CASE Dequeue \/ Crash \/ UNCHANGED vars
  BY <1>3 DEF Dequeue, Crash, vars, committed
<1>. QED
  BY <1>1, <1>2, <1>3 DEF Next

\* The interleaved statements implement the abstract ledger: no update of a
\* balance is lost and no key is held or settled twice.
THEOREM SqlImplementsLedger == Spec => ImplementsLedger
<1>1. Init => Ledger!Init
  <2>. SUFFICES ASSUME Init PROVE Slots = [k \in Keys |-> [state |-> "free"]] /\ remaining = Alloc
    BY DEF Ledger!Init
  <2>1. \A k \in Keys : SlotOf(k) = [state |-> "free"]
    BY SlotOfAbsent DEF Init
  <2>. QED
    BY <2>1 DEF Init, Slots
<1>2. SqlInv /\ [Next]_vars => [Ledger!Next]_(Ledger!ledgerVars)
  <2>. SUFFICES ASSUME SqlInv, [Next]_vars
                PROVE  Ledger!Next \/ UNCHANGED Ledger!ledgerVars
    OBVIOUS
  <2>1. ASSUME NEW r \in Requests PROVE KeyOf[r] \in Keys /\ period[r] \in Periods
    BY SqlAssumption DEF SqlInv, TypeOK
  <2>2. ASSUME NEW r \in Requests, Commit1(r) PROVE Ledger!Next
    BY <2>1, <2>2, Commit1Holds DEF Ledger!Next
  <2>3. ASSUME NEW r \in Requests, Commit2(r) PROVE Ledger!Next
    BY <2>1, <2>3, Commit2Settles DEF Ledger!Next
  <2>. QED
    BY <2>2, <2>3, SlotsStay, OnlyCommitsCommit
<1>. QED
  BY <1>1, <1>2, SqlInvariant, PTL DEF Spec, ImplementsLedger, Ledger!Spec

-----------------------------------------------------------------------------
(***************************************************************************)
(* What follows from the ledger for the statements.                        *)
(***************************************************************************)

\* The ledger's theorems, for the committed rows.
LedgerProofs == INSTANCE BudgetLedgerProofs WITH slot <- Slots

LEMMA SqlLedgerAssumptions == LedgerProofs!LedgerAssumption
BY SqlAssumption DEF LedgerProofs!LedgerAssumption, IsFiniteSet, LedgerProofs!IsFiniteSet

\* The instance that carries the ledger's theorems is the same specification.
LEMMA SqlLedgerSpec == Spec => LedgerProofs!Spec
<1>1. Ledger!Spec <=> LedgerProofs!Spec
  BY DEF Ledger!Spec, LedgerProofs!Spec, Ledger!Init, LedgerProofs!Init,
         Ledger!Next, LedgerProofs!Next, Ledger!ledgerVars, LedgerProofs!ledgerVars,
         Ledger!Hold, LedgerProofs!Hold, Ledger!Settle, LedgerProofs!Settle
<1>. QED
  BY <1>1, SqlImplementsLedger, PTL DEF ImplementsLedger

\* Whatever statements of other transactions run in between, the committed
\* balance of a period, its pending reservations and its charges add up to its
\* allocation.
THEOREM SqlConservesMoney == Spec => []Ledger!Conservation
<1>1. LedgerProofs!Spec => []LedgerProofs!Conservation
  BY SqlLedgerAssumptions, LedgerProofs!LedgerConserves, PTL
<1>2. LedgerProofs!Conservation <=> Ledger!Conservation
  BY DEF Ledger!Conservation, LedgerProofs!Conservation,
         Ledger!SumOf, LedgerProofs!SumOf, Ledger!Taken, LedgerProofs!Taken,
         Ledger!PartialSums, LedgerProofs!PartialSums
<1>. QED
  BY <1>1, <1>2, SqlLedgerSpec, PTL

\* Neither error branch of Txn 2 is ever taken: claim_settlement finds the row
\* pending, and refund_budget finds room for the refund.
SettlementGoesThrough ==
  \A r \in Requests :
    /\ stage[r] = "claim" => row[KeyOf[r]].status = "pending" /\ row[KeyOf[r]].owner = r
    /\ stage[r] = "refund" => remaining[period[r]] + RefundOf(r) <= Alloc[period[r]]

\* A settlement is lost only by a failing statement or a crash: its claim wins
\* and its refund fits the latest committed balance, although that was written
\* by others since Txn 1 (claim_settlement, refund_budget).
THEOREM SqlSettlementGoesThrough == Spec => []SettlementGoesThrough
<1>1. SqlInv /\ LedgerProofs!TypeOK /\ LedgerProofs!Conservation => SettlementGoesThrough
  <2>. SUFFICES ASSUME SqlInv, LedgerProofs!TypeOK, LedgerProofs!Conservation,
                       NEW r \in Requests, stage[r] \in {"claim", "refund"}
                PROVE  /\ row[KeyOf[r]].status = "pending" /\ row[KeyOf[r]].owner = r
                       /\ remaining[period[r]] + RefundOf(r) <= Alloc[period[r]]
    BY DEF SettlementGoesThrough
  <2>. DEFINE k == KeyOf[r]
              p == period[r]
  <2>1. k \in Keys /\ p \in Periods
    BY SqlAssumption DEF SqlInv, TypeOK
  <2>2. /\ row[k].status = "pending" /\ row[k].owner = r
        /\ row[k].period = p /\ row[k].reserved = quote[r]
    <3>1. row[k] = PendingRow(r)
      BY DEF SqlInv, OwnerIsPending, OwnerStages
    <3>2. /\ PendingRow(r).status = "pending" /\ PendingRow(r).owner = r
          /\ PendingRow(r).period = p /\ PendingRow(r).reserved = quote[r]
      BY DEF PendingRow
    <3>. QED
      BY <3>1, <3>2
  <2>3. Slots[k] = [state |-> "held", period |-> p, amount |-> quote[r]]
    BY <2>1, <2>2, SlotOfPending DEF Slots
  <2>4. LedgerProofs!Taken(k, p) = quote[r]
    BY <2>3 DEF LedgerProofs!Taken
  <2>5. remaining[p] + quote[r] <= Alloc[p]
    BY <2>1, <2>4, SqlLedgerAssumptions, LedgerProofs!LedgerNeverOverspends
  <2>6. /\ remaining[p] \in Nat /\ quote[r] \in Nat /\ cost[r] \in Nat
        /\ Alloc[p] \in Nat
    BY <2>1, SqlAssumption DEF SqlInv, TypeOK
  <2>. HIDE DEF k, p
  <2>7. RefundOf(r) \in 0 .. quote[r]
    BY <2>6 DEF RefundOf
  <2>8. remaining[p] + RefundOf(r) <= Alloc[p]
    BY <2>5, <2>6, <2>7
  <2>. QED
    BY <2>2, <2>8 DEF k, p
<1>2. Spec => [](LedgerProofs!TypeOK /\ LedgerProofs!Conservation)
  BY SqlLedgerAssumptions, SqlLedgerSpec, LedgerProofs!LedgerTypeSafe,
     LedgerProofs!LedgerConserves, PTL
<1>. QED
  BY <1>1, <1>2, SqlInvariant, PTL

\* A committed row stays with its period, is reserved once and settled once, and
\* a settled one never changes its charge, whatever commits after it.
THEOREM SqlSettledIsFinal == Spec => Ledger!OneWaySlots
<1>1. LedgerProofs!Spec => LedgerProofs!OneWaySlots
  BY SqlLedgerAssumptions, LedgerProofs!LedgerOneWay, PTL
<1>2. LedgerProofs!OneWaySlots <=> Ledger!OneWaySlots
  BY DEF LedgerProofs!OneWaySlots, Ledger!OneWaySlots, LedgerProofs!ledgerVars, Ledger!ledgerVars
<1>. QED
  BY <1>1, <1>2, SqlLedgerSpec, PTL

-----------------------------------------------------------------------------
(***************************************************************************)
(* The safety half of EveryTransactionEnds: a call is never lost, somebody *)
(* who runs never waits, and every statement brings its request closer to  *)
(* its end.                                                                *)
(***************************************************************************)

Queue == {queue[i] : i \in 1 .. Len(queue)}

\* Every call that waits for a worker is in the queue.
NoCallLost == \A r \in Requests : stage[r] \in Queued => r \in Queue

\* While transactions run one of them waits for no lock, and while none runs
\* every worker is free for the oldest call.
SomebodyRuns ==
  /\ Running # {} => \E r \in Running : WaitsFor(r) = {}
  /\ Running = {} => Cardinality(Running) < Threads

NeverStuck == NoCallLost /\ SomebodyRuns

\* The statements in the order a request comes to them.
Rank == [x \in Stages |->
  IF x = "new" THEN 0
  ELSE IF x = "queued_1" THEN 1
  ELSE IF x = "find" THEN 2
  ELSE IF x = "insert" THEN 3
  ELSE IF x \in {"reread", "reserve"} THEN 4
  ELSE IF x = "commit_1" THEN 5
  ELSE IF x = "execute" THEN 6
  ELSE IF x = "queued_2" THEN 7
  ELSE IF x = "claim" THEN 8
  ELSE IF x = "refund" THEN 9
  ELSE IF x = "record" THEN 10
  ELSE IF x = "commit_2" THEN 11
  ELSE 12]

\* No request ever goes back, and each of its statements takes it on.
StagesAdvance ==
  \A r \in Requests :
    /\ stage'[r] = stage[r] \/ Rank[stage[r]] < Rank[stage'[r]]
    /\ Step(r) => stage'[r] # stage[r]

LEMMA QueueOfAppend ==
  ASSUME NEW S, NEW q \in Seq(S), NEW e \in S
  PROVE  {Append(q, e)[i] : i \in 1 .. Len(Append(q, e))} = {q[i] : i \in 1 .. Len(q)} \cup {e}
<1>. DEFINE a == Append(q, e)
<1>1. Len(a) = Len(q) + 1 /\ a[Len(q) + 1] = e /\ \A i \in 1 .. Len(q) : a[i] = q[i]
  BY AppendProperties
<1>. HIDE DEF a
<1>2. PICK n \in Nat : n = Len(q)
  BY LenProperties
<1>3. \A i \in 1 .. n + 1 : i = n + 1 \/ i \in 1 .. n
  BY <1>2
<1>4. n + 1 \in 1 .. n + 1 /\ \A i \in 1 .. n : i \in 1 .. n + 1
  BY <1>2
<1>5. {a[i] : i \in 1 .. Len(a)} = {q[i] : i \in 1 .. Len(q)} \cup {e}
  BY <1>1, <1>2, <1>3, <1>4
<1>. QED
  BY <1>5 DEF a

LEMMA QueueOfTail ==
  ASSUME NEW S, NEW q \in Seq(S), q # <<>>
  PROVE  {q[i] : i \in 1 .. Len(q)} \subseteq {Tail(q)[i] : i \in 1 .. Len(Tail(q))} \cup {Head(q)}
<1>. DEFINE t == Tail(q)
<1>1. Len(t) = Len(q) - 1 /\ \A i \in 1 .. Len(t) : t[i] = q[i + 1]
  BY HeadTailProperties
<1>2. Head(q) = q[1]
  OBVIOUS
<1>. HIDE DEF t
<1>3. PICK n \in Nat : n = Len(q)
  BY LenProperties
<1>4. ASSUME NEW i \in 1 .. n, i # 1 PROVE i - 1 \in 1 .. n - 1 /\ (i - 1) + 1 = i
  BY <1>3, <1>4
<1>5. ASSUME NEW i \in 1 .. n, i # 1 PROVE q[i] = t[i - 1] /\ i - 1 \in 1 .. Len(t)
  BY <1>1, <1>3, <1>4, <1>5
<1>6. {q[i] : i \in 1 .. Len(q)} \subseteq {t[i] : i \in 1 .. Len(t)} \cup {Head(q)}
  BY <1>2, <1>3, <1>5
<1>. QED
  BY <1>6 DEF t

LEMMA NoCallLostStep == ASSUME TypeOK, NoCallLost, [Next]_vars PROVE NoCallLost'
<1>. USE DEF NoCallLost, committed, request
<1>1. ASSUME NEW r \in Requests, Submit(r) PROVE NoCallLost'
  <2>1. Queue' = Queue \cup {r}
    <3>1. queue \in Seq(Requests) /\ queue' = Append(queue, r)
      BY <1>1 DEF Submit, TypeOK
    <3>2. Queue' = {Append(queue, r)[i] : i \in 1 .. Len(Append(queue, r))}
      BY <3>1 DEF Queue
    <3>. QED
      BY <3>1, <3>2, QueueOfAppend DEF Queue
  <2>2. \A s \in Requests \ {r} : stage'[s] = stage[s]
    BY <1>1 DEF Submit, TypeOK
  <2>. QED
    BY <2>1, <2>2
<1>2. CASE Dequeue
  <2>1. Queue \subseteq Queue' \cup {Head(queue)}
    BY <1>2, QueueOfTail DEF Dequeue, Queue, TypeOK
  <2>2. \A s \in Requests : s # Head(queue) => stage'[s] = stage[s]
    BY <1>2 DEF Dequeue, TypeOK
  <2>3. Head(queue) \in Requests => stage'[Head(queue)] \notin Queued
    BY <1>2 DEF Dequeue, TypeOK, Queued
  <2>. QED
    BY <2>1, <2>2, <2>3
<1>3. CASE Crash
  BY <1>3 DEF Crash, Queued
<1>4. ASSUME NEW r \in Requests, Step(r) \/ StatementFails(r) \/ Cancel(r) PROVE NoCallLost'
  <2>1. queue' = queue /\ \A s \in Requests : stage'[s] \in Queued => stage[s] \in Queued
    BY <1>4 DEF Step, FindPeriod, Insert, Reread, Reserve, ReserveTooLittle, Commit1, Claim,
                ApplyRefund, InsertUsage, Commit2, StatementFails, Cancel, Rollback, Proceed,
                TypeOK, Queued
  <2>. QED
    BY <2>1 DEF Queue
<1>5. CASE UNCHANGED vars
  BY <1>5 DEF vars, Queue
<1>. QED
  BY <1>1, <1>2, <1>3, <1>4, <1>5 DEF Next

\* Nothing gets stuck: a call is never lost from the queue, a running
\* transaction that waits for no lock can take its statement, and with none
\* running a worker is free.
THEOREM SqlNeverStuck == Spec => []NeverStuck
<1>1. Init => NoCallLost
  BY DEF Init, NoCallLost, Queued
<1>2. Spec => []NoCallLost
  BY <1>1, NoCallLostStep, SqlTypeSafe, PTL DEF Spec
<1>3. NoWaitCycle /\ SqlInv => SomebodyRuns
  <2>. SUFFICES ASSUME NoWaitCycle, SqlInv PROVE SomebodyRuns
    OBVIOUS
  <2>1. ASSUME Running # {} PROVE \E r \in Running : WaitsFor(r) = {}
    <3>1. \A r \in Requests : WaitsFor(r) \subseteq Running
      <4>1. \A r \in Requests : KeyHolders(r) \subseteq Running /\ BudgetHolders(r) \subseteq Running
        BY DEF KeyHolders, BudgetHolders, BudgetConflicts, Running, SqlInv, LocksFollowStages,
               KeyStages, BalanceStages, Txn1, Txn2
      <4>. QED
        BY <4>1, WaitsForBudget, InsertWaitsForHolders, ClaimWaitsForHolders, OthersWaitForNobody
    <3>2. PICK r \in Running : WaitsFor(r) \cap Running = {}
      BY <2>1 DEF NoWaitCycle, Running
    <3>. QED
      BY <3>1, <3>2 DEF Running
  <2>2. Running = {} => Cardinality(Running) < Threads
    BY FS_EmptySet, SqlAssumption
  <2>. QED
    BY <2>1, <2>2 DEF SomebodyRuns
<1>. QED
  BY <1>2, <1>3, SqlNoDeadlock, SqlInvariant, PTL DEF NeverStuck

LEMMA Ranks ==
  /\ Rank["new"] = 0 /\ Rank["queued_1"] = 1 /\ Rank["find"] = 2 /\ Rank["insert"] = 3
  /\ Rank["reread"] = 4 /\ Rank["reserve"] = 4 /\ Rank["commit_1"] = 5
  /\ Rank["execute"] = 6 /\ Rank["queued_2"] = 7 /\ Rank["claim"] = 8
  /\ Rank["refund"] = 9 /\ Rank["record"] = 10 /\ Rank["commit_2"] = 11
  /\ Rank["over"] = 12
BY DEF Rank, Stages, Queued, Txn1, Txn2

\* A step of a request moves that request only, and onwards.
LEMMA MovesOn ==
  ASSUME TypeOK, NEW r \in Requests, NEW x, stage' = [stage EXCEPT ![r] = x],
         x = stage[r] \/ Rank[stage[r]] < Rank[x]
  PROVE  \A s \in Requests : stage'[s] = stage[s] \/ Rank[stage[s]] < Rank[stage'[s]]
BY DEF TypeOK

\* The end of a transaction or of a request comes last.
LEMMA OverIsLast ==
  ASSUME NEW x \in Stages \ {"over"} PROVE Rank[x] < Rank["over"]
BY Ranks DEF Stages, Queued, Txn1, Txn2

LEMMA StepAdvances ==
  ASSUME TypeOK, NEW r \in Requests, Step(r)
  PROVE  \E x : /\ stage' = [stage EXCEPT ![r] = x]
               /\ Rank[stage[r]] < Rank[x]
               /\ x # stage[r]
<1>. DEFINE To(x) == stage' = [stage EXCEPT ![r] = x]
<1>. USE DEF Proceed, Rollback
<1>1. CASE FindPeriod(r)
  <2>1. PICK x : stage[r] = "find" /\ x = "insert" /\ To(x)
    BY <1>1 DEF FindPeriod
  <2>2. Rank[stage[r]] < Rank[x] /\ x # stage[r]
    BY <2>1, Ranks
  <2>. QED
    BY <2>1, <2>2
<1>2. CASE Insert(r)
  <2>1. PICK x : stage[r] = "insert" /\ x \in {"reserve", "reread"} /\ To(x)
    BY <1>2 DEF Insert
  <2>2. Rank[stage[r]] < Rank[x] /\ x # stage[r]
    BY <2>1, Ranks
  <2>. QED
    BY <2>1, <2>2
<1>3. CASE Reread(r) \/ ReserveTooLittle(r)
  <2>1. PICK x : stage[r] \in {"reread", "reserve"} /\ x = "over" /\ To(x)
    BY <1>3 DEF Reread, ReserveTooLittle
  <2>2. Rank[stage[r]] < Rank[x] /\ x # stage[r]
    BY <2>1, Ranks
  <2>. QED
    BY <2>1, <2>2
<1>4. CASE Reserve(r)
  <2>1. PICK x : stage[r] = "reserve" /\ x = "commit_1" /\ To(x)
    BY <1>4 DEF Reserve
  <2>2. Rank[stage[r]] < Rank[x] /\ x # stage[r]
    BY <2>1, Ranks
  <2>. QED
    BY <2>1, <2>2
<1>5. CASE Commit1(r)
  <2>1. PICK x : stage[r] = "commit_1" /\ x \in {"execute", "over"} /\ To(x)
    BY <1>5 DEF Commit1
  <2>2. Rank[stage[r]] < Rank[x] /\ x # stage[r]
    BY <2>1, Ranks
  <2>. QED
    BY <2>1, <2>2
<1>6. CASE Claim(r)
  <2>1. PICK x : stage[r] = "claim" /\ x \in {"refund", "over"} /\ To(x)
    BY <1>6 DEF Claim
  <2>2. Rank[stage[r]] < Rank[x] /\ x # stage[r]
    BY <2>1, Ranks
  <2>. QED
    BY <2>1, <2>2
<1>7. CASE ApplyRefund(r)
  <2>1. PICK x : stage[r] = "refund" /\ x \in {"record", "over"} /\ To(x)
    BY <1>7 DEF ApplyRefund
  <2>2. Rank[stage[r]] < Rank[x] /\ x # stage[r]
    BY <2>1, Ranks
  <2>. QED
    BY <2>1, <2>2
<1>8. CASE InsertUsage(r)
  <2>1. PICK x : stage[r] = "record" /\ x = "commit_2" /\ To(x)
    BY <1>8 DEF InsertUsage
  <2>2. Rank[stage[r]] < Rank[x] /\ x # stage[r]
    BY <2>1, Ranks
  <2>. QED
    BY <2>1, <2>2
<1>9. CASE Commit2(r)
  <2>1. PICK x : stage[r] = "commit_2" /\ x = "over" /\ To(x)
    BY <1>9 DEF Commit2
  <2>2. Rank[stage[r]] < Rank[x] /\ x # stage[r]
    BY <2>1, Ranks
  <2>. QED
    BY <2>1, <2>2
<1>. QED
  BY <1>1, <1>2, <1>3, <1>4, <1>5, <1>6, <1>7, <1>8, <1>9 DEF Step

\* A request takes at most twelve statements and queue places, in one
\* direction: no step of it, of another, of a cancellation or of a crash takes
\* it back (_run_txn1_sync, _settle_success_sync).
THEOREM SqlStagesAdvance == Spec => [][StagesAdvance]_vars
<1>. DEFINE Onwards ==
       \A s \in Requests : stage'[s] = stage[s] \/ Rank[stage[s]] < Rank[stage'[s]]
<1>1. SqlInv /\ [Next]_vars => Onwards
  <2>. SUFFICES ASSUME SqlInv, TypeOK, [Next]_vars PROVE Onwards
    BY DEF SqlInv
  <2>1. ASSUME NEW r \in Requests, Step(r) PROVE Onwards
    BY <2>1, StepAdvances, MovesOn
  <2>2. ASSUME NEW r \in Requests, Submit(r) PROVE Onwards
    <3>1. PICK x \in {"queued_1", "queued_2"} :
             /\ stage' = [stage EXCEPT ![r] = x]
             /\ \/ stage[r] = "new" /\ x = "queued_1"
                \/ stage[r] = "execute" /\ x = "queued_2"
      BY <2>2 DEF Submit
    <3>2. Rank[stage[r]] < Rank[x]
      BY <3>1, Ranks
    <3>. QED
      BY <3>1, <3>2, MovesOn
  <2>3. ASSUME NEW r \in Requests, StatementFails(r) PROVE Onwards
    <3>1. PICK y : /\ y = "over" /\ stage' = [stage EXCEPT ![r] = y]
                   /\ stage[r] \in Stages \ {"over"}
      BY <2>3 DEF StatementFails, Rollback, TypeOK, Txn1, Txn2
    <3>. QED
      BY <3>1, OverIsLast, MovesOn
  <2>4. ASSUME NEW r \in Requests, Cancel(r) PROVE Onwards
    <3>1. PICK y : /\ y = "over"
                   /\ \/ stage' = stage
                      \/ stage[r] = "execute" /\ stage' = [stage EXCEPT ![r] = y]
      BY <2>4 DEF Cancel
    <3>2. stage[r] = "execute" => Rank[stage[r]] < Rank[y]
      BY <3>1, Ranks
    <3>. QED
      BY <3>1, <3>2, MovesOn
  <2>5. CASE Dequeue
    <3>1. Head(queue) \in Waiting
      BY <2>5, TailDistinct DEF SqlInv, QueueWaits, Dequeue, TypeOK
    <3>2. PICK r \in Requests : r = Head(queue) /\ stage[r] \in {"queued_1", "queued_2"}
      BY <3>1 DEF Waiting, Queued
    <3>3. PICK x : /\ stage' = [stage EXCEPT ![r] = x]
                   /\ \/ x = "over"
                      \/ stage[r] = "queued_1" /\ x = "find"
                      \/ stage[r] = "queued_2" /\ x = "claim"
      BY <2>5, <3>2 DEF Dequeue, TypeOK
    <3>4. Rank[stage[r]] < Rank[x]
      BY <3>2, <3>3, Ranks
    <3>. QED
      BY <3>2, <3>3, <3>4, MovesOn
  <2>6. CASE Crash
    <3>1. \A s \in Requests : stage'[s] = stage[s] \/ stage'[s] = "over"
      BY <2>6 DEF Crash
    <3>2. \A s \in Requests : stage[s] \in Stages
      BY DEF TypeOK
    <3>. QED
      BY <3>1, <3>2, OverIsLast
  <2>7. CASE UNCHANGED vars
    BY <2>7 DEF vars
  <2>. QED
    BY <2>1, <2>2, <2>3, <2>4, <2>5, <2>6, <2>7 DEF Next
<1>2. SqlInv /\ [Next]_vars => StagesAdvance
  <2>. SUFFICES ASSUME SqlInv, [Next]_vars, Onwards, NEW r \in Requests
                PROVE  Step(r) => stage'[r] # stage[r]
    BY <1>1 DEF StagesAdvance
  <2>. QED
    BY StepAdvances DEF SqlInv, TypeOK
<1>. QED
  BY <1>2, SqlInvariant, PTL DEF Spec

-----------------------------------------------------------------------------
(***************************************************************************)
(* The interleaved statements implement transactions that happen at once.  *)
(* Every step but the two commits either leaves a request at its place, or *)
(* ends it; the crash ends many.                                           *)
(***************************************************************************)

\* The place of a request at each group of stages.
LEMMA PlacesOfStages ==
  /\ PlaceOf("new") = "outside"
  /\ \A s \in {"queued_1"} \cup Txn1 : PlaceOf(s) = "asking"
  /\ PlaceOf("execute") = "owner"
  /\ \A s \in {"queued_2"} \cup Txn2 : PlaceOf(s) = "settling"
  /\ PlaceOf("over") = "ended"
BY DEF PlaceOf, Txn1, Txn2

\* A request whose stage changed, and no other, changes its place.
LEMMA OneMoves ==
  ASSUME TypeOK, NEW r \in Requests, NEW s, stage' = [stage EXCEPT ![r] = s]
  PROVE  /\ stage'[r] = s
         /\ Places[r] = PlaceOf(stage[r])
         /\ \A u \in Requests \ {r} : stage'[u] = stage[u]
         /\ Places' = [Places EXCEPT ![r] = PlaceOf(s)]
<1>1. stage'[r] = s /\ \A u \in Requests \ {r} : stage'[u] = stage[u]
  BY DEF TypeOK
<1>2. Places' = [u \in Requests |-> PlaceOf(stage'[u])]
  BY DEF Places
<1>3. [Places EXCEPT ![r] = PlaceOf(s)]
        = [u \in Requests |-> IF u = r THEN PlaceOf(s) ELSE PlaceOf(stage[u])]
  BY DEF Places
<1>. QED
  BY <1>1, <1>2, <1>3 DEF Places

\* A step that commits nothing and gives no request a new place but its end is
\* a departure, of nobody perhaps.
LEMMA SomeLeave ==
  ASSUME UNCHANGED <<row, remaining, quote, cost>>,
         \A r \in Requests : PlaceOf(stage'[r]) \in {PlaceOf(stage[r]), "ended"}
  PROVE  Atomic!Next
<1>. DEFINE S == {r \in Requests : PlaceOf(stage'[r]) # PlaceOf(stage[r])}
<1>1. \A r \in S : Places[r] # "ended"
  BY DEF Places
<1>2. Places' = [r \in Requests |-> IF r \in S THEN "ended" ELSE Places[r]]
  BY DEF Places
<1>3. Entries' = Entries
  BY DEF Entries, EntryOf
<1>. HIDE DEF S
<1>4. Atomic!Leave(S)
  BY <1>1, <1>2, <1>3 DEF Atomic!Leave
<1>5. S \in SUBSET Requests
  BY DEF S
<1>. QED
  BY <1>4, <1>5 DEF Atomic!Next

\* The same for a step that moves one request.
LEMMA OneLeavesOrStays ==
  ASSUME TypeOK, UNCHANGED <<row, remaining, quote, cost>>,
         NEW r \in Requests, NEW s, stage' = [stage EXCEPT ![r] = s],
         PlaceOf(s) \in {PlaceOf(stage[r]), "ended"}
  PROVE  Atomic!Next
BY OneMoves, SomeLeave

\* A request asks for its transactions when it is submitted to the pool.
LEMMA SubmitAsks ==
  ASSUME TypeOK, NEW r \in Requests, Submit(r)
  PROVE  Atomic!Next
<1>1. Entries' = Entries /\ UNCHANGED <<remaining, quote>>
  BY DEF Submit, committed, Entries, EntryOf
<1>2. CASE stage[r] = "new"
  <2>1. stage' = [stage EXCEPT ![r] = "queued_1"] /\ UNCHANGED cost
    BY <1>2 DEF Submit
  <2>2. Places[r] = "outside" /\ Places' = [Places EXCEPT ![r] = "asking"]
    <3>1. Places[r] = PlaceOf("new") /\ Places' = [Places EXCEPT ![r] = PlaceOf("queued_1")]
      BY <1>2, <2>1, OneMoves
    <3>. QED
      BY <3>1, PlacesOfStages
  <2>3. quote'[r] \in Nat /\ quote' = [quote EXCEPT ![r] = quote'[r]]
    BY <1>1 DEF TypeOK
  <2>4. Atomic!Ask(r)
    BY <1>1, <2>1, <2>2, <2>3 DEF Atomic!Ask, Atomic!GoTo
  <2>. QED
    BY <2>4 DEF Atomic!Next
<1>3. CASE stage[r] # "new"
  <2>1. stage[r] = "execute" /\ stage' = [stage EXCEPT ![r] = "queued_2"]
    BY <1>3 DEF Submit
  <2>2. Places[r] = "owner" /\ Places' = [Places EXCEPT ![r] = "settling"]
    <3>1. Places[r] = PlaceOf("execute") /\ Places' = [Places EXCEPT ![r] = PlaceOf("queued_2")]
      BY <2>1, OneMoves
    <3>. QED
      BY <3>1, PlacesOfStages
  <2>3. cost'[r] \in Nat /\ cost' = [cost EXCEPT ![r] = cost'[r]]
    <3>1. PICK c \in Costs : cost' = [cost EXCEPT ![r] = c]
      BY <1>3 DEF Submit
    <3>2. c \in Nat /\ cost'[r] = c
      BY <3>1, SqlAssumption DEF TypeOK
    <3>. QED
      BY <3>1, <3>2
  <2>4. Atomic!Conclude(r)
    BY <1>1, <2>2, <2>3 DEF Atomic!Conclude, Atomic!GoTo
  <2>. QED
    BY <2>4 DEF Atomic!Next
<1>. QED
  BY <1>2, <1>3

\* The commit of Txn 1 is the whole of an acquisition.
LEMMA Commit1Acquires ==
  ASSUME SqlInv, NEW r \in Requests, Commit1(r)
  PROVE  Atomic!Next
<1>1. PICK k \in Keys, p \in Periods : k = KeyOf[r] /\ p = period[r]
  BY SqlAssumption DEF SqlInv, TypeOK
<1>2. /\ stage[r] = "commit_1" /\ row[k].status = "absent" /\ row \in [Keys -> Rows]
      /\ row' = [row EXCEPT ![k] = PendingRow(r)]
      /\ UNCHANGED <<quote, cost>>
  BY <1>1 DEF Commit1, SqlInv, InsertedIsNew, PendingRow, TypeOK, request
<1>3. Entries[k] = [state |-> "free"]
  BY <1>2 DEF Entries, EntryOf
<1>4. EntryOf(k)' = [state |-> "held", owner |-> r, period |-> p, amount |-> quote[r]]
  <2>1. /\ row'[k].status = "pending" /\ row'[k].owner = r
        /\ row'[k].period = p /\ row'[k].reserved = quote[r]
    BY <1>1, <1>2 DEF PendingRow
  <2>. QED
    BY <2>1 DEF EntryOf
<1>5. \A j \in Keys \ {k} : EntryOf(j)' = EntryOf(j)
  BY <1>2 DEF EntryOf
<1>6. Entries' = [Entries EXCEPT ![k] = [state |-> "held", owner |-> r, period |-> p,
                                         amount |-> quote[r]]]
  BY <1>4, <1>5 DEF Entries
<1>7. quote[r] <= remaining[p] /\ remaining' = [remaining EXCEPT ![p] = @ - quote[r]]
  <2>1. quote[r] \in 0 .. remaining[p] /\ remaining[p] \in Nat
    BY <1>1, Commit1Takes DEF SqlInv, TypeOK
  <2>. QED
    BY <1>1, <2>1, Commit1Takes
<1>8. PICK s \in {"execute", "over"} : stage' = [stage EXCEPT ![r] = s]
  BY DEF Commit1, Proceed
<1>9. /\ Places[r] = "asking"
      /\ \E place \in {"owner", "ended"} : Places' = [Places EXCEPT ![r] = place]
  <2>1. TypeOK /\ PlaceOf("commit_1") = "asking"
    BY PlacesOfStages DEF SqlInv, Txn1
  <2>2. Places[r] = "asking" /\ Places' = [Places EXCEPT ![r] = PlaceOf(s)]
    BY <1>2, <1>8, <2>1, OneMoves
  <2>3. PlaceOf(s) \in {"owner", "ended"}
    BY PlacesOfStages
  <2>. QED
    BY <2>2, <2>3
<1>10. Atomic!Acquire(r)
  BY <1>1, <1>2, <1>3, <1>6, <1>7, <1>9 DEF Atomic!Acquire, Atomic!GoTo
<1>. QED
  BY <1>10 DEF Atomic!Next

\* The commit of Txn 2 is the whole of a settlement, of the request's own row.
LEMMA Commit2IsSettlement ==
  ASSUME SqlInv, NEW r \in Requests, Commit2(r)
  PROVE  Atomic!Next
<1>1. PICK k \in Keys, p \in Periods : k = KeyOf[r] /\ p = period[r]
  BY SqlAssumption DEF SqlInv, TypeOK
<1>2. /\ stage[r] = "commit_2" /\ row[k] = PendingRow(r) /\ row \in [Keys -> Rows]
      /\ row' = [row EXCEPT ![k] = SettledRow(r)]
      /\ UNCHANGED <<quote, cost>>
  BY <1>1 DEF Commit2, SqlInv, OwnerIsPending, OwnerStages, SettledRow, TypeOK, request
<1>3. Entries[k] = [state |-> "held", owner |-> r, period |-> p, amount |-> quote[r]]
  <2>1. /\ row[k].status = "pending" /\ row[k].owner = r
        /\ row[k].period = p /\ row[k].reserved = quote[r]
    BY <1>1, <1>2 DEF PendingRow
  <2>. QED
    BY <2>1 DEF Entries, EntryOf
<1>4. EntryOf(k)' = [state |-> "settled", owner |-> r, period |-> p, amount |-> quote[r],
                     cost |-> cost[r]]
  <2>1. /\ row'[k].status = "settled" /\ row'[k].owner = r /\ row'[k].period = p
        /\ row'[k].reserved = quote[r] /\ row'[k].usage = cost[r]
    BY <1>1, <1>2 DEF SettledRow
  <2>. QED
    BY <2>1 DEF EntryOf
<1>5. \A j \in Keys \ {k} : EntryOf(j)' = EntryOf(j)
  BY <1>2 DEF EntryOf
<1>6. Entries' = [Entries EXCEPT ![k] = [state |-> "settled", owner |-> r, period |-> p,
                                         amount |-> quote[r], cost |-> cost[r]]]
  BY <1>4, <1>5 DEF Entries
<1>7. remaining' = [remaining EXCEPT ![p] = @ + Atomic!Rest(quote[r], cost[r])]
  <2>1. quote[r] \in Nat /\ cost[r] \in Nat
    BY DEF SqlInv, TypeOK
  <2>2. Atomic!Rest(quote[r], cost[r]) = RefundOf(r)
    BY <2>1 DEF Atomic!Rest, RefundOf
  <2>. QED
    BY <1>1, <2>2, Commit2Returns
<1>8. Places[r] = "settling" /\ Places' = [Places EXCEPT ![r] = "ended"]
  <2>1. TypeOK /\ PlaceOf("commit_2") = "settling" /\ PlaceOf("over") = "ended"
    BY PlacesOfStages DEF SqlInv, Txn2
  <2>2. stage' = [stage EXCEPT ![r] = "over"]
    BY DEF Commit2, Proceed
  <2>. QED
    BY <1>2, <2>1, <2>2, OneMoves
<1>9. Atomic!Settle(r)
  BY <1>1, <1>2, <1>3, <1>6, <1>7, <1>8 DEF Atomic!Settle, Atomic!GoTo
<1>. QED
  BY <1>9 DEF Atomic!Next

\* A statement before the last of its transaction shows nothing to anybody: its
\* request stays where it was, or ends.
LEMMA StatementShowsNothing ==
  ASSUME TypeOK, NEW r \in Requests, Step(r), ~Commit1(r), ~Commit2(r)
  PROVE  Atomic!Next
<1>. USE DEF Proceed, Rollback, committed, request, Txn1, Txn2
<1>1. CASE FindPeriod(r) \/ Insert(r)
  <2>1. PICK s \in {"insert", "reserve", "reread"} : stage' = [stage EXCEPT ![r] = s]
    BY <1>1 DEF FindPeriod, Insert
  <2>2. stage[r] \in {"find", "insert"} /\ UNCHANGED <<row, remaining, quote, cost>>
    BY <1>1 DEF FindPeriod, Insert
  <2>. QED
    BY <2>1, <2>2, PlacesOfStages, OneLeavesOrStays
<1>2. CASE Reread(r) \/ ReserveTooLittle(r)
  <2>1. stage' = [stage EXCEPT ![r] = "over"] /\ UNCHANGED <<row, remaining, quote, cost>>
    BY <1>2 DEF Reread, ReserveTooLittle
  <2>. QED
    BY <2>1, PlacesOfStages, OneLeavesOrStays
<1>3. CASE Reserve(r)
  <2>1. /\ stage[r] = "reserve" /\ stage' = [stage EXCEPT ![r] = "commit_1"]
        /\ UNCHANGED <<row, remaining, quote, cost>>
    BY <1>3 DEF Reserve
  <2>. QED
    BY <2>1, PlacesOfStages, OneLeavesOrStays
<1>4. CASE Claim(r) \/ ApplyRefund(r)
  <2>1. PICK s \in {"refund", "record", "over"} : stage' = [stage EXCEPT ![r] = s]
    BY <1>4 DEF Claim, ApplyRefund
  <2>2. stage[r] \in {"claim", "refund"} /\ UNCHANGED <<row, remaining, quote, cost>>
    BY <1>4 DEF Claim, ApplyRefund
  <2>. QED
    BY <2>1, <2>2, PlacesOfStages, OneLeavesOrStays
<1>5. CASE InsertUsage(r)
  <2>1. /\ stage[r] = "record" /\ stage' = [stage EXCEPT ![r] = "commit_2"]
        /\ UNCHANGED <<row, remaining, quote, cost>>
    BY <1>5 DEF InsertUsage
  <2>. QED
    BY <2>1, PlacesOfStages, OneLeavesOrStays
<1>. QED
  BY <1>1, <1>2, <1>3, <1>4, <1>5 DEF Step

\* The statements of any number of interleaved transactions, their waits,
\* failures, cancellations and crashes, implement transactions that happen at
\* once at their commit: Txn 1 gives a free key and the money a request asked
\* for to it, and Txn 2 settles the request's own row at the cost it reported
\* (_run_txn1_sync, _settle_success_sync, _settle_failure_sync).
THEOREM SqlImplementsTransactions == Spec => ImplementsTransactions
<1>1. Init => Atomic!Init
  <2>. SUFFICES ASSUME Init PROVE Atomic!Init
    OBVIOUS
  <2>1. Entries = [k \in Keys |-> [state |-> "free"]]
    BY DEF Init, Entries, EntryOf
  <2>2. Places = [r \in Requests |-> "outside"]
    BY PlacesOfStages DEF Init, Places
  <2>3. quote \in [Requests -> Nat]
    BY SqlAssumption DEF Init
  <2>. QED
    BY <2>1, <2>2, <2>3, SqlAssumption DEF Init, Atomic!Init
<1>2. SqlInv /\ [Next]_vars => [Atomic!Next]_(Atomic!vars)
  <2>. SUFFICES ASSUME SqlInv, TypeOK, [Next]_vars PROVE Atomic!Next
    BY DEF SqlInv
  <2>1. ASSUME NEW r \in Requests, Step(r) PROVE Atomic!Next
    BY <2>1, Commit1Acquires, Commit2IsSettlement, StatementShowsNothing
  <2>2. ASSUME NEW r \in Requests, StatementFails(r) PROVE Atomic!Next
    <3>1. stage' = [stage EXCEPT ![r] = "over"] /\ UNCHANGED <<row, remaining, quote, cost>>
      BY <2>2 DEF StatementFails, Rollback, request
    <3>. QED
      BY <3>1, PlacesOfStages, OneLeavesOrStays
  <2>3. ASSUME NEW r \in Requests, Cancel(r) PROVE Atomic!Next
    <3>1. UNCHANGED <<row, remaining, quote, cost>>
      BY <2>3 DEF Cancel, committed, request
    <3>2. CASE stage[r] = "execute"
      <4>1. stage' = [stage EXCEPT ![r] = "over"]
        BY <2>3, <3>2 DEF Cancel
      <4>. QED
        BY <3>1, <4>1, PlacesOfStages, OneLeavesOrStays
    <3>3. CASE stage[r] # "execute"
      <4>1. stage' = stage
        BY <2>3, <3>3 DEF Cancel
      <4>. QED
        BY <3>1, <4>1, SomeLeave
    <3>. QED
      BY <3>2, <3>3
  <2>4. ASSUME Dequeue PROVE Atomic!Next
    <3>1. /\ UNCHANGED <<row, remaining, quote, cost>>
          /\ Head(queue) \in Requests /\ stage[Head(queue)] \in Queued
      <4>1. /\ queue \in Seq(Requests) /\ queue # <<>>
            /\ \A i \in 1 .. Len(queue) : queue[i] \in Waiting
        BY <2>4 DEF Dequeue, TypeOK, SqlInv, QueueWaits, Within
      <4>2. 1 \in 1 .. Len(queue) /\ Head(queue) = queue[1]
        BY <4>1
      <4>. QED
        BY <2>4, <4>1, <4>2 DEF Dequeue, Waiting, committed, request
    <3>2. PICK s : /\ stage' = [stage EXCEPT ![Head(queue)] = s]
                   /\ \/ s = "over"
                      \/ stage[Head(queue)] = "queued_1" /\ s = "find"
                      \/ stage[Head(queue)] # "queued_1" /\ s = "claim"
      BY <2>4 DEF Dequeue
    <3>3. PlaceOf(s) \in {PlaceOf(stage[Head(queue)]), "ended"}
      BY <3>1, <3>2, PlacesOfStages DEF Queued, Txn1, Txn2
    <3>. QED
      BY <3>1, <3>2, <3>3, OneLeavesOrStays
  <2>5. CASE Crash
    <3>1. \A r \in Requests : PlaceOf(stage'[r]) \in {PlaceOf(stage[r]), "ended"}
      BY <2>5, PlacesOfStages DEF Crash
    <3>. QED
      BY <2>5, <3>1, SomeLeave DEF Crash, committed, request
  <2>6. CASE UNCHANGED vars
    BY <2>6, SomeLeave DEF vars, committed, request
  <2>. QED
    BY <2>1, <2>2, <2>3, <2>4, <2>5, <2>6, SubmitAsks DEF Next
<1>. QED
  BY <1>1, <1>2, SqlInvariant, PTL DEF Spec, ImplementsTransactions, Atomic!Spec
=============================================================================
