------------------------------- MODULE SqlTxn -------------------------------
(***************************************************************************)
(* Txn 1 (_run_txn1_sync) and Txn 2 (_settle_success_sync and              *)
(* _settle_failure_sync) as the statements PostgreSQL runs under READ      *)
(* COMMITTED, in the threads asyncio.to_thread takes them to.  Between two *)
(* statements of one transaction those of others run; what a transaction   *)
(* wrote is locked and seen by nobody else until it commits.  ChatGateway  *)
(* takes each transaction as one step: here the statements are shown to    *)
(* add up to the same promise, BudgetLedger.                               *)
(*                                                                         *)
(* The locks are those PostgreSQL takes for these statements: a written    *)
(* row is locked FOR NO KEY UPDATE until the end of the transaction, the   *)
(* foreign key of an inserted idempotency row locks its team_budgets row   *)
(* FOR KEY SHARE, and INSERT ... ON CONFLICT waits for whoever has an      *)
(* uncommitted version of the conflicting row.  The connection pool of the *)
(* engine is larger than the thread pool and is left out.                  *)
(***************************************************************************)
EXTENDS Integers, Sequences, FiniteSets

CONSTANTS
  Requests,  \* requests admitted to Txn 1
  Keys,      \* their idempotency keys
  KeyOf,     \* the key of each request
  Periods,   \* budget periods (rows of team_budgets)
  Alloc,     \* allocated_amount of each period
  Quotes,    \* amounts a request may reserve
  Costs,     \* actual costs of an execution
  Threads    \* workers of the default thread pool

ASSUME SqlAssumption ==
  /\ IsFiniteSet(Keys)
  /\ KeyOf \in [Requests -> Keys]
  /\ Alloc \in [Periods -> Nat]
  /\ Quotes \subseteq Nat
  /\ Costs \subseteq Nat
  /\ Threads \in Nat \ {0}

VARIABLES
  row,        \* committed idempotency_keys rows, with their usage record
  remaining,  \* committed remaining_amount of each period
  stage,      \* the statement each request is at
  queue,      \* calls waiting for a worker, oldest first
  cancelled,  \* requests cancelled while a call of theirs waits or runs
  quote,      \* reserved_cost of each request
  cost,       \* actual_cost of each request
  period,     \* budget_period.period_start that Txn 1 read
  holds,      \* the row locks of each transaction
  written     \* uncommitted remaining_amount of the locked budget row

committed == <<row, remaining>>
request == <<quote, cost, period>>
vars == <<row, remaining, stage, queue, cancelled, quote, cost, period, holds, written>>

Queued == {"queued_1", "queued_2"}
Txn1 == {"find", "insert", "reread", "reserve", "commit_1"}
Txn2 == {"claim", "refund", "record", "commit_2"}
Stages == {"new", "execute", "over"} \cup Queued \cup Txn1 \cup Txn2

\* The locks of a transaction: "key" is its write of the idempotency row,
\* "share" and "budget" are on the team_budgets row of its period.
LockNames == {"key", "share", "budget"}

Rows ==
  [status: {"absent"}]
    \cup [status: {"pending"}, owner: Requests, period: Periods, reserved: Nat]
    \cup [status: {"settled"}, owner: Requests, period: Periods, reserved: Nat, usage: Nat]

TypeOK ==
  /\ row \in [Keys -> Rows]
  /\ remaining \in [Periods -> Nat]
  /\ stage \in [Requests -> Stages]
  /\ queue \in Seq(Requests)
  /\ cancelled \subseteq Requests
  /\ quote \in [Requests -> Nat]
  /\ cost \in [Requests -> Nat]
  /\ period \in [Requests -> Periods]
  /\ holds \in [Requests -> SUBSET LockNames]
  /\ written \in [Requests -> Int]

Init ==
  /\ row = [k \in Keys |-> [status |-> "absent"]]
  /\ remaining = Alloc
  /\ stage = [r \in Requests |-> "new"]
  /\ queue = <<>>
  /\ cancelled = {}
  /\ quote \in [Requests -> Quotes]
  /\ cost = [r \in Requests |-> 0]
  /\ period \in [Requests -> Periods]
  /\ holds = [r \in Requests |-> {}]
  /\ written = [r \in Requests |-> 0]

-----------------------------------------------------------------------------
(* Locks *)

\* Whoever has an uncommitted version of r's idempotency row.
KeyHolders(r) == {s \in Requests \ {r} : KeyOf[s] = KeyOf[r] /\ "key" \in holds[s]}

\* Mutant of BudgetConflicts: the balance is updated under FOR UPDATE, which
\* the foreign keys' FOR KEY SHARE excludes.
ForUpdateConflicts(held) == held \in {"share", "budget"}

\* Mutant of BudgetConflicts: the balance is read first and written as a
\* value, so no UPDATE waits for the uncommitted one.
NothingConflicts(held) == FALSE

\* UPDATE of remaining_amount takes FOR NO KEY UPDATE: it excludes another
\* UPDATE, and not the FOR KEY SHARE of a foreign key.
BudgetConflicts(held) == held = "budget"

BudgetHolders(r) ==
  {s \in Requests \ {r} :
     period[s] = period[r] /\ \E held \in holds[s] : BudgetConflicts(held)}

\* What Txn 2 gives back (_compute_refund_amount).
RefundOf(r) == IF cost[r] >= quote[r] THEN 0 ELSE quote[r] - cost[r]

\* Mutant of InsertWaits: the conflicting insert does not wait for the end
\* of the transaction that inserted the row.
InsertNeverWaits(r) == {}

\* INSERT ... ON CONFLICT DO NOTHING waits for an uncommitted version of the
\* row: of a Txn 1 that inserted it or of a Txn 2 that updates its status.
InsertWaits(r) == KeyHolders(r)

\* Whom r waits for at the statement it is at.
WaitsFor(r) ==
  CASE stage[r] = "insert" -> InsertWaits(r)
    [] stage[r] = "claim" -> KeyHolders(r)
    [] stage[r] = "reserve" /\ quote[r] > 0 -> BudgetHolders(r)
    [] stage[r] = "refund" /\ RefundOf(r) > 0 -> BudgetHolders(r)
    [] OTHER -> {}

-----------------------------------------------------------------------------
(* Ends of a transaction *)

\* Mutant of Release: the session of a refused or failed transaction is
\* neither rolled back nor closed.
ReleaseOnCommit(r) ==
  holds' = IF stage[r] \in {"commit_1", "commit_2"} THEN [holds EXCEPT ![r] = {}] ELSE holds

\* The end of a transaction, by commit or rollback, gives back its locks.
Release(r) == holds' = [holds EXCEPT ![r] = {}]

Rollback(r) ==
  /\ stage' = [stage EXCEPT ![r] = "over"]
  /\ Release(r)
  /\ UNCHANGED <<row, remaining, queue, cancelled, request, written>>

\* A statement that succeeds takes the transaction to its next one.
Proceed(r, next) == stage' = [stage EXCEPT ![r] = next]

\* What the transaction wrote to its budget row becomes visible.
InstallBalance(r) ==
  remaining' = IF "budget" \in holds[r] THEN [remaining EXCEPT ![period[r]] = written[r]]
                                        ELSE remaining

-----------------------------------------------------------------------------
(* The thread pool *)

\* The handler awaits asyncio.to_thread: for Txn 1 after admission, for Txn 2
\* when the execution has ended at some cost.
Submit(r) ==
  /\ \/ /\ stage[r] = "new"
        /\ stage' = [stage EXCEPT ![r] = "queued_1"]
        /\ UNCHANGED cost
     \/ /\ stage[r] = "execute"
        /\ stage' = [stage EXCEPT ![r] = "queued_2"]
        /\ \E c \in Costs : cost' = [cost EXCEPT ![r] = c]
  /\ queue' = Append(queue, r)
  /\ UNCHANGED <<committed, cancelled, quote, period, holds, written>>

Running == {r \in Requests : stage[r] \in Txn1 \cup Txn2}

\* A worker takes the oldest call; one whose future was cancelled is skipped.
Dequeue ==
  /\ queue # <<>>
  /\ Cardinality(Running) < Threads
  /\ queue' = Tail(queue)
  /\ LET r == Head(queue) IN
       stage' = [stage EXCEPT ![r] = IF r \in cancelled THEN "over"
                                     ELSE IF @ = "queued_1" THEN "find" ELSE "claim"]
  /\ UNCHANGED <<committed, cancelled, request, holds, written>>

-----------------------------------------------------------------------------
(* Txn 1 *)

\* get_current_budget_period; no period for today ends the transaction.
FindPeriod(r) ==
  /\ stage[r] = "find"
  /\ \E p \in Periods : period' = [period EXCEPT ![r] = p]
  /\ Proceed(r, "insert")
  /\ UNCHANGED <<committed, queue, cancelled, quote, cost, holds, written>>

\* acquire_idempotency_slot inserts the row, or finds it taken.
Insert(r) ==
  /\ stage[r] = "insert"
  /\ WaitsFor(r) = {}
  /\ IF row[KeyOf[r]].status = "absent" /\ KeyHolders(r) = {}
       THEN /\ holds' = [holds EXCEPT ![r] = {"key", "share"}]
            /\ Proceed(r, "reserve")
       ELSE /\ Proceed(r, "reread")
            /\ UNCHANGED holds
  /\ UNCHANGED <<committed, queue, cancelled, request, written>>

\* The loser reads the row it lost to and ends.
Reread(r) == stage[r] = "reread" /\ Rollback(r)

\* Mutant of Covered: the UPDATE has no condition on the balance.
AlwaysCovered(r) == TRUE

\* WHERE remaining_amount >= amount, on the latest committed version
Covered(r) == quote[r] <= remaining[period[r]]

\* reserve_budget: the UPDATE waits for its row and is skipped for a
\* reservation of nothing.
Reserve(r) ==
  /\ stage[r] = "reserve"
  /\ WaitsFor(r) = {}
  /\ Covered(r)
  /\ IF quote[r] = 0
       THEN UNCHANGED <<holds, written>>
       ELSE /\ holds' = [holds EXCEPT ![r] = @ \cup {"budget"}]
            /\ written' = [written EXCEPT ![r] = remaining[period[r]] - quote[r]]
  /\ Proceed(r, "commit_1")
  /\ UNCHANGED <<committed, queue, cancelled, request>>

\* 402: the balance does not cover the reservation.
ReserveTooLittle(r) ==
  /\ stage[r] = "reserve"
  /\ WaitsFor(r) = {}
  /\ ~Covered(r)
  /\ Rollback(r)

\* The commit of Txn 1.  The coroutine goes on unless it was cancelled or the
\* acknowledgement is lost.
Commit1(r) ==
  /\ stage[r] = "commit_1"
  /\ row' = [row EXCEPT ![KeyOf[r]] = [status |-> "pending", owner |-> r,
                                       period |-> period[r], reserved |-> quote[r]]]
  /\ InstallBalance(r)
  /\ Release(r)
  /\ \E next \in IF r \in cancelled THEN {"over"} ELSE {"execute", "over"} : Proceed(r, next)
  /\ UNCHANGED <<queue, cancelled, request, written>>

-----------------------------------------------------------------------------
(* Txn 2 *)

\* claim_settlement: UPDATE ... WHERE status = 'pending', and the reload of
\* the row; a lost claim writes nothing and commits.
Claim(r) ==
  /\ stage[r] = "claim"
  /\ WaitsFor(r) = {}
  /\ IF row[KeyOf[r]].status = "pending"
       THEN Proceed(r, "refund") /\ holds' = [holds EXCEPT ![r] = {"key"}]
       ELSE Proceed(r, "over") /\ UNCHANGED holds
  /\ UNCHANGED <<committed, queue, cancelled, request, written>>

\* refund_budget, skipped when there is nothing to refund.  A refund that
\* would exceed the allocation raises SettlementIntegrityError.
ApplyRefund(r) ==
  /\ stage[r] = "refund"
  /\ WaitsFor(r) = {}
  /\ IF RefundOf(r) = 0
       THEN UNCHANGED <<holds, written>> /\ Proceed(r, "record")
       ELSE IF remaining[period[r]] + RefundOf(r) <= Alloc[period[r]]
         THEN /\ holds' = [holds EXCEPT ![r] = @ \cup {"budget"}]
              /\ written' = [written EXCEPT ![r] = remaining[period[r]] + RefundOf(r)]
              /\ Proceed(r, "record")
         ELSE /\ Release(r)
              /\ Proceed(r, "over")
              /\ UNCHANGED written
  /\ UNCHANGED <<committed, queue, cancelled, request>>

\* INSERT INTO usage_records
InsertUsage(r) ==
  /\ stage[r] = "record"
  /\ Proceed(r, "commit_2")
  /\ UNCHANGED <<committed, queue, cancelled, request, holds, written>>

\* The commit of Txn 2: status, balance and usage record become visible.
Commit2(r) ==
  /\ stage[r] = "commit_2"
  /\ row' = [row EXCEPT ![KeyOf[r]] = [status |-> "settled", owner |-> r,
                                       period |-> period[r], reserved |-> quote[r],
                                       usage |-> cost[r]]]
  /\ InstallBalance(r)
  /\ Release(r)
  /\ Proceed(r, "over")
  /\ UNCHANGED <<queue, cancelled, request, written>>

-----------------------------------------------------------------------------
(* Failures *)

\* Any statement may raise, or find no period: the transaction is rolled back.
StatementFails(r) == stage[r] \in Txn1 \cup Txn2 /\ Rollback(r)

\* A cancelled coroutine never continues; its call in a thread does.
Cancel(r) ==
  /\ stage[r] \in (Queued \cup Txn1 \cup Txn2 \cup {"execute"}) /\ r \notin cancelled
  /\ cancelled' = cancelled \cup {r}
  /\ stage' = IF stage[r] = "execute" THEN [stage EXCEPT ![r] = "over"] ELSE stage
  /\ UNCHANGED <<committed, queue, request, holds, written>>

\* The process dies: its connections are closed and their transactions rolled
\* back.
Crash ==
  /\ stage' = [r \in Requests |-> IF stage[r] = "new" THEN "new" ELSE "over"]
  /\ queue' = <<>>
  /\ holds' = [r \in Requests |-> {}]
  /\ UNCHANGED <<committed, cancelled, request, written>>

Step(r) ==
  \/ FindPeriod(r) \/ Insert(r) \/ Reread(r)
  \/ Reserve(r) \/ ReserveTooLittle(r) \/ Commit1(r)
  \/ Claim(r) \/ ApplyRefund(r) \/ InsertUsage(r) \/ Commit2(r)

Next ==
  \/ Dequeue
  \/ Crash
  \/ \E r \in Requests : Submit(r) \/ Step(r) \/ StatementFails(r) \/ Cancel(r)

Spec == Init /\ [][Next]_vars

\* A statement that waits for nobody returns, a free worker takes the next
\* call, and an execution ends (Routing!RouteEnds).  Nothing is assumed of
\* clients, cancellations, failures and crashes.
FairSpec ==
  /\ Spec
  /\ WF_vars(Dequeue)
  /\ \A r \in Requests :
       /\ WF_vars(Step(r))
       /\ WF_vars(stage[r] = "execute" /\ Submit(r))

-----------------------------------------------------------------------------
(* Properties *)

\* No deadlock: of any set of requests one waits for none of the set.  Txn 1
\* and Txn 2 take the idempotency row before the budget row, and the budget
\* row last (chat_completions.py:480-496, settlement.py:293-302).
NoWaitCycle ==
  \A S \in SUBSET Requests : S # {} => \E r \in S : WaitsFor(r) \cap S = {}

\* A request that lost the insert finds the committed row it lost to, so
\* scalar_one (idempotency.py:246-253) never raises.
LoserFindsRow == \A r \in Requests : stage[r] = "reread" => row[KeyOf[r]].status # "absent"

\* A transaction that was asked for ends: no lock and no worker is kept for
\* ever, however few the workers are (chat_completions.py:330).
EveryTransactionEnds == \A r \in Requests : stage[r] # "new" ~> stage[r] = "over"

\* The slot that the committed row of a key is.
SlotOf(k) ==
  CASE row[k].status = "absent" -> [state |-> "free"]
    [] row[k].status = "pending" ->
         [state |-> "held", period |-> row[k].period, amount |-> row[k].reserved]
    [] row[k].status = "settled" ->
         [state |-> "settled", period |-> row[k].period,
          amount |-> IF row[k].usage < row[k].reserved THEN row[k].usage ELSE row[k].reserved]

Slots == [k \in Keys |-> SlotOf(k)]

Ledger == INSTANCE BudgetLedger WITH slot <- Slots

\* The committed rows implement the abstract ledger: interleaved statements
\* neither lose an update of the balance nor hold or settle a key twice.
ImplementsLedger == Ledger!Spec

\* The committed row of a key as the entry of the atomic transactions, and how
\* far each request is for them.
EntryOf(k) ==
  CASE row[k].status = "absent" -> [state |-> "free"]
    [] row[k].status = "pending" ->
         [state |-> "held", owner |-> row[k].owner, period |-> row[k].period,
          amount |-> row[k].reserved]
    [] row[k].status = "settled" ->
         [state |-> "settled", owner |-> row[k].owner, period |-> row[k].period,
          amount |-> row[k].reserved, cost |-> row[k].usage]

Entries == [k \in Keys |-> EntryOf(k)]

PlaceOf(s) ==
  CASE s = "new" -> "outside"
    [] s \in {"queued_1"} \cup Txn1 -> "asking"
    [] s = "execute" -> "owner"
    [] s \in {"queued_2"} \cup Txn2 -> "settling"
    [] OTHER -> "ended"

Places == [r \in Requests |-> PlaceOf(stage[r])]

Atomic == INSTANCE AtomicTransactions
            WITH key <- KeyOf, at <- Places, entry <- Entries, balance <- remaining

\* The interleaved statements add up to transactions that happen at once, at
\* their commit or not at all: what a request reserves or settles is what it
\* asked for, under its own key, in the period its row names.
ImplementsTransactions == Atomic!Spec
=============================================================================
