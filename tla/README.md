# model-budget: specifications, model checking and proofs

model-budget is a gateway in front of an LLM provider. A client sends a chat
completion with an `Idempotency-Key`; the gateway reserves its worst-case cost
from the team's budget, calls the provider with retries behind a circuit
breaker, settles the true cost and answers. This directory holds TLA+ modules of
the parts of it that can go wrong, TLC configurations that check them on small
instances, and TLAPS proofs of the results that matter most for every size.
Paths below are relative to `src/`.

## Inventory of the system

| Component | State | Operations | Hard because of | Correct when |
|---|---|---|---|---|
| Chat handler `app/api/chat_completions.py` | coroutine per request | validate, authenticate, replay lookup, rate limit, quote, Txn 1, execute, Txn 2 | cancellation with a thread still running, crash between the transactions, commits whose answer is lost | one execution per key, honest answers, no money lost |
| Idempotency `app/services/idempotency.py` | `idempotency_keys` rows | acquire, claim | two requests with one key, a lease that ends while its owner works | one owner, settled once, faithful replay |
| Budget `app/services/budget.py` | `team_budgets` rows | find period, reserve, refund | concurrent reservations, a change of period | balance + held + charged = allocated |
| Settlement `app/services/settlement.py` | both, and `usage_records` | settle success, settle failure | partial failure, overrun of the reservation | claim, refund and record together, final |
| Routing `app/services/routing.py` | breaker per provider and process, attempts per route | execute route, should allow, record success/failure | requests in flight across the breaker's states, exceptions that skip its bookkeeping | ends, calls no more than was reserved, breaker follows its state machine |
| Rate limiter `app/services/rate_limit.py` | sorted set per team in Redis | one Lua script | lost and repeated replies, window edges, reused IDs | never more than the limit in any window |
| Prompt versions `scripts/manage_prompt_versions.py`, migration `509346923a9f` | `prompt_versions` rows | create, approve, retire | operators that decide on what they read before | draft, approved, retired, in that order |
| SQL transactions, the statements of Txn 1 and Txn 2 in `app/services/` | row locks, uncommitted writes, the thread pool | find period, insert, reserve, commit; claim, refund, record, commit | READ COMMITTED interleavings, waits for uncommitted rows, rollbacks, few workers | no deadlock, no lost update, same promise as one atomic step |
| Pricing `app/services/pricing.py` | none | ceiling-rounded costs, storable range | decimal edges | the quote, rounded once, covers all that is billed, whatever is executed of the attempts |
| Providers `app/providers/openai.py` | none | map answers and exceptions to categories | answers that are neither a success nor a known failure | retried only when a retry may help |
| Lifespan `app/main.py`, `app/config.py` | owned clients, exit stack | start, serve, drain, close | failing start, failing close, requests in flight | closes what it opened, after the last use |
| Auth, admin API, dashboard, deployment | see `PROJECT.json` | | | not modelled, see the last section |

How they interact: the handler is the only caller of all services. It shares
Postgres rows with the handlers of other requests and processes, Redis with
every process, and a breaker with the other requests of its own process only.
Provider adapters are called through the routing module. Operators change
prompt versions in their own transactions.

`PROJECT.json` lists every hazard at the line where it bites and the properties
that would catch it going wrong.

## Modules

```
FiniteSum ----------------- FiniteSumTheorems
    |                              |
BudgetLedger -------------- BudgetLedgerProofs
                                   |
ChatGateway --------------- ChatGatewayProofs
    implements BudgetLedger, IdempotentExecution, AtomicTransactions
SqlTxn -------------------- SqlTxnProofs
    implements BudgetLedger, AtomicTransactions
Pricing   OpenAIAdapter
      \      /
   CompletionCall   Lifespan
            \        /
          GatewayProcess -- GatewayProcessProofs
Routing ------------------- RoutingProofs
RateLimiter --------------- RateLimiterProofs
PromptVersions ------------ PromptVersionsProofs
MC<module>: instances of each module for TLC
```

`BudgetLedger` is what the accounting promises; `ChatGateway` (all handler
paths, each transaction one step) and `SqlTxn` (each statement one step) are
both shown to implement it. `AtomicTransactions` is what the two transactions
promise, with the request, the row and the money of each; it is the meeting
point of the same two modules: what the statements of `SqlTxn` add up to is what
the handler of `ChatGateway` is built on. `IdempotentExecution` is what the key
promises, and `ChatGateway` is shown to implement that too. `CompletionCall` adds prices and time to what
`Routing` says of one candidate, and `GatewayProcess` puts such a call into the
process that owns its clients.

### FiniteSum
The sum of a function over a finite domain, as a recursive function that both
TLC and the provers take. The library's folds cannot be unfolded by induction
in TLAPS; `FiniteSumTheorems` proves what is needed by well-founded minimality.

### BudgetLedger
What the accounting promises, without requests, rows or transactions: each
idempotency key is a slot that is free, holds an amount of one period, or is
settled at a charge no larger than that. `Hold` is `reserve_budget` for the
owner of the key; `Settle` is `claim_settlement` with `refund_budget`. Like the
two abstract specifications below it has no run of its own: it is checked as what
`ChatGateway` implements, and its theorems hold under `LedgerAssumption`, which
those who implement it prove of their constants.

### IdempotentExecution
What an `Idempotency-Key` promises the clients of a team, without rows,
handlers or leases: a key is owned by one request for good (`Own`), only the
owner calls the provider (`Run`), a success is stored only after a call
(`Settle`), and a stored result is given again only to a request with the
payload that was run (`Give`). No action frees a key. `ChatGateway` maps
`row` to `entry`, `callers` to `runs` and the successes and replays among the
`answer`s to `given`; crashes, cancellations, expiring leases and commits whose
reply is lost are steps of the gateway that this specification does not see.

### AtomicTransactions
Txn 1 and Txn 2 as one step each, without statements, locks, threads or answers.
A request is outside, asking for Txn 1, the owner of its key, settling, or ended
(`at`). `Acquire` makes it the owner of a free key together with the money of its
own `quote`; `Settle` settles the key it still owns, at the `cost` it reported,
together with the refund to the period the money came from; `Leave` ends any
requests with nothing committed. Both transactions may commit and their request
never learn of it. `ChatGateway` maps `row` and the cost in `usage` to
`entry` and the location of a coroutine to `at`; `SqlTxn` maps what is committed
and the stage of a transaction. An uncommitted write is invisible here, so every
statement but the last of each transaction must stutter.

### ChatGateway
One team, several requests. `pc` is the await a request's coroutine is at.

| State | Code |
|---|---|
| `row` | `idempotency_keys`: status, request hash, reserved cost, period; `id` is the request that inserted it |
| `usage` | `usage_records` of each row |
| `remaining` | `team_budgets.remaining_amount` |
| `expired`, `period` | `expires_at <= now`; the row of `team_budgets` that covers today |
| `cancelled` | requests cancelled while their `asyncio.to_thread` call runs: the thread goes on, the coroutine does not |
| `callers` | observer: who called the provider under each key |

| Action | Code |
|---|---|
| `Arrive`, `ReplayLookup`, `Refuse`, `Admit` | lines 676-959 of the handler |
| `ReserveWithoutPeriod`, `ReserveDuplicate`, `ReserveTooLittle`, `ReserveAcquire`, `ReserveFails` | `_run_txn1_sync`; each alternative is one outcome, rollback included |
| `CircuitOpen`, `CallProvider`, `ProviderRetry`, `ProviderGivesUp`, `ProviderRaises`, `ProviderAnswers` | `execute_route` as the handler sees it, and its three `except` clauses |
| `SettleRow`, `SettleFails` | `settle_success` / `settle_failure` in Txn 2, `_settle_and_resolve`, and the authoritative state after a lost claim |
| `Cancel`, `Crash`, `ExpireLease`, `RollPeriod` | environment |

`ReserveAcquire` and `SettleRow` both include the case that the commit happens
and the request never learns of it. The two transactions are atomic: each
starts with the write that decides (the unique key, or the conditional UPDATE
on `status = 'pending'`) and every later statement either succeeds or rolls it
all back. That their statements interleave under READ COMMITTED is the subject
of `SqlTxn`; both modules implement `AtomicTransactions`. Token counting, prompt versions, rate
limit and model lookup write nothing in Postgres and are one refusal.

### SqlTxn
The two transactions as PostgreSQL runs them, for requests that have been
admitted. `stage` is the statement a request is at, `holds` the row locks of its
transaction, `written` the balance it has written and not committed; `row` and
`remaining` are what is committed. `queue` is the queue of the default executor.

| Action | Code |
|---|---|
| `Submit`, `Dequeue` | `_traced_to_thread`, a worker taking the oldest call; a call cancelled while queued is skipped |
| `FindPeriod`, `Insert`, `Reread`, `Reserve`, `ReserveTooLittle`, `Commit1` | the statements of `_run_txn1_sync` |
| `Claim`, `ApplyRefund`, `InsertUsage`, `Commit2` | those of `settle_success` and `settle_failure` |
| `StatementFails`, `Cancel`, `Crash` | a statement raises; the coroutine is cancelled; the process dies |

The locks are what PostgreSQL takes for these statements and are modelled from
their use: the written row FOR NO KEY UPDATE, the foreign key of the new row FOR
KEY SHARE on its budget row, and `INSERT ... ON CONFLICT` waits for whoever has
an uncommitted version of the row. An UPDATE with a condition is evaluated on
the latest committed version once it has its lock.

### Routing
Several tasks of one event loop run the same route again and again. A step is
what runs between two awaits of the adapter or of the backoff sleep, so the end
of one candidate, its breaker's bookkeeping and the skip or call of the next
are one step (`GoOn`). `trial` and `calls` are observers. The breaker's
`_consecutive_failures` is only compared with the threshold and saturates there.
`cooled` says that the cooldown is over. What `build_route` and
`validate_route_against_registry` insist on are the assumptions `WellFormed` and
`Supported` on the route; two candidates may share a provider and its breaker.

### Pricing, OpenAIAdapter, CompletionCall
`Pricing` has the catalog and the arithmetic of `app/services/pricing.py` on
integers: prices in cents per million tokens, costs in micro-dollars, rounded up.
`OpenAIAdapter` sorts the answers and exceptions of the client library the way
`_map_openai_exception`, `complete` and the routing loop do.
`CompletionCall` is one request with the deployed route of one candidate.

| State | Code |
|---|---|
| `input`, `limit`, `held` | `prompt_token_count`, `max_tokens`, the reserved cost |
| `attempt`, `elapsed` | attempts begun, time since the row's lease began, in tenths of a second |
| `actual`, `charge`, `code` | actual cost, what the team pays, `failure_code` or `SUCCEEDED` |
| `billed` | observer: tokens of every execution at the provider, those included whose answer was lost, and the sum of their costs rounded one by one |

`CountTokens`, `HoldQuote`, `CallProvider`, `Retry`, `GiveUp`, `RaiseInternal`,
`Answer` and `Settle` follow the handler and `_run_candidate`; a failed attempt
may have been executed in full (`BillUnknown`) and takes no time or all its
timeout (`Lasts`). The usage an answer reports has the counted input tokens;
its output may exceed `max_tokens` by `Surplus`.

### Lifespan, GatewayProcess
`Lifespan` is `_application_lifespan`: tracing, Redis, OpenAI in this order,
callbacks for all of them registered once tracing is up, and an exit stack that
runs them backwards. `settings` says which step the environment makes fail.
`GatewayProcess` adds the server: it accepts a request while the lifespan
serves, waits for it after the stop signal and then enters the shutdown
(`Shutdown`), or is killed (`Die`).

### RateLimiter
The Lua script is one step of the server; the reply is delivered later, lost
(503) or lost and the script sent again by the client library. The start of
the window is a multiple of `Grain` near `now - Window`, because the script
formats it with 14 digits; scores keep all of theirs. The key expires one
second after the window of its last entry.

### PromptVersions
An operator's command reads in one step and writes in another; the timestamp is
taken in between. The UPDATE goes by primary key, so the triggers and CHECKs
see the row as it is at the write. A stale approval of a row retired meanwhile is
refused twice, by the trigger and by the CHECK on `retired_at`: either suffices.

## Runs

| Run | Instance | Shows |
|---|---|---|
| `gateway_races` | 3 requests, 1 key, 2 payloads, 2 attempts, reservations of 2 or 6, actual costs 1 to 3 | ownership, single execution, one settlement, replay, honest answers, leaks only by fault, implements `IdempotentExecution` |
| `gateway_money` | 2 requests, 2 keys, 2 periods of 5, reservations of 4, actual cost 1 | implements the ledger; requests and reservations end; refunds always fit |
| `sql_txn` | 3 requests, 2 of them with one key, 1 period of 5, reservations 0 and 3, costs 1 and 3, 2 workers | no deadlock, the loser finds its row, implements `AtomicTransactions`, every transaction ends |
| `routing` | 2 tasks, 3 candidates of 2 providers, threshold 2, 2 attempts | breaker count and state agree, calls stay in the reservation, records tell the calls, routes end, trials decide, breakers move and count only with verdicts on their provider, trials are lost only by escape |
| `gateway_process` | 1 request at the prices of gpt-5-mini, 9 attempts of 30 s, backoff 0.2 to 2 s, lease 300 s | the hold covers the bill, rounded once and call by call, honest charge, route within the lease, clients outlive their request, stopping completes |
| `rate_limit` | 4 requests, limit 2, window of 4 ticks, 8 ticks | sliding window and Retry-After |
| `prompt_versions` | 3 operators, 2 versions, 4 ticks | dense numbers, forward life cycle, ordered timestamps |
| five `violation` runs | the smallest instance that shows each | see Findings |

Why these bounds are enough to be interesting. Races for a key need an owner, a
loser and a late retry: three requests. In `gateway_races` a period holds 5: a
reservation of 2 fits, one of 6 is always refused, and actual costs 1, 2 and 3
against the reservation of 2 are an under-run, an exact fit and an overrun. In
`gateway_money` a reservation takes 4 of 5 and costs 1, so a second request is
refused until the first is settled or refunded. Two periods and
the day after them give reservation and settlement on different sides of a
roll-over, and no period at all. In `routing` two tasks are enough for a
straggler beside a trial (the run about two trials needs three), and with two
of the three candidates at one provider a breaker that opens at the second
candidate skips the third. In `sql_txn` two of three requests want one key and
all want one budget row that covers one reservation of 3 and not two; a
reservation of 0 takes no budget lock, a cost of 3 refunds nothing, and with
two workers the third call queues behind transactions that wait for each other.
In `gateway_process` prompts of 1, 3 and 60 tokens with limits 1 and 3 give
costs on both sides of a rounding step: rounding attempt by attempt differs
from rounding the sum; amounts above 80 micro-dollars are refused as too large
to store, as the quote of a prompt of 60 tokens is, and the cost of an
answer with a surplus of 40 tokens. Nine attempts are the most that fit the
lease. In `rate_limit`
the clock runs for two windows, so a burst on each side of a boundary occurs;
`Grain` of 2 ticks makes every odd start ambiguous.

Deadlock is not checked (`CHECK_DEADLOCK FALSE`) because requests end and the
bounded clocks stop: a state without successors is where the instance is done.
`SYMMETRY` is used only in runs without liveness properties.

### Fairness
`ChatGateway!FairSpec` is weak fairness of each request's own handler, nothing
more: awaits of the database return or raise, provider calls run under
`asyncio.timeout`, and the event loop resumes every task that can go on. No
fairness is assumed of clients, cancellations, crashes, lease expiry or the
calendar. `Routing!FairSpec` is weak fairness of each started task, for the
same reasons; no trial or cooldown has to happen. The handler's disjunction
includes its failing outcomes, so a property may not rely on a success.
`SqlTxn!FairSpec` assumes that a worker that is free takes the next call, that
a statement that waits for nobody returns, and that an execution ends, which is
`Routing!RouteEnds`. `GatewayProcess!FairSpec` assumes that start-up and the exit
stack run on (the close of a client is bounded by its own timeouts), that the
handler's awaits end, and that the server enters the shutdown once it is
drained; no signal and no request has to come.

## Findings

Each of the first five is shown by a run that violates one statement of the
code's own text, the sixth by a run that passes although a text denies it.

1. `breaker_stuck`: the comment at `app/services/routing.py:534` says a
   half-open breaker has a trial in flight. A trial that ends by a contract
   error, an unexpected exception or a cancellation skips the bookkeeping and
   the breaker refuses its provider until the process restarts.
2. `breaker_two_trials`: a straggler's failure reopens a half-open breaker, and
   after a cooldown a second trial runs beside the first
   (`app/services/routing.py:456-458`, "exactly one trial request").
3. `rate_limit_shared_id`: requests that carry the same `X-Request-ID` are one
   member of the sorted set and counted once
   (`app/services/rate_limit.py:38-44`).
4. `prompt_timestamps`: a second approval that was decided before the first
   committed rewrites `approved_at` (`app/models/prompt_version.py:12-13`).
5. `retry_accounting`: `app/services/settlement.py:62-65` expects `actual_cost` to
   be the total over every attempt that was billed. The handler passes the cost
   of the final answer alone (`app/api/chat_completions.py:1089-1091`), so what a
   timed-out attempt cost before a retry succeeded is charged to nobody.
   `ChargeIsHonest` bounds the charge from above only and is not affected.
6. `ReservationCoversBilling` in `gateway_process` holds although
   `app/services/routing.py:66-88` calls retries after timeouts an "explicitly
   flagged, currently-unaddressed gap" between the reservation and the billed
   cost ("the cost of ONE successful attempt", "It is not solved here"), and
   `app/providers/openai.py:68-70` says the count "still is not a complete
   guarantee under retries". Both describe an earlier reservation: the handler
   now holds the worst cost times the attempts of all candidates
   (`app/api/chat_completions.py:946-950`). What remains of the gap is an answer
   with more output than `max_tokens` (`billed.surplus`).

Not shown by a run, and met while modelling:

* A straggler's success closes an open breaker without cooldown or trial:
  `record_success` (`app/services/routing.py:536-542`) does not ask for the state,
  the class comment (454-460) tells of closing only after a trial.
* `app/config.py:122-126` speaks of failed attempts; the breaker counts candidates
  given up after all their attempts.
* The lease is 5 minutes (`app/api/chat_completions.py:228`) and `app/config.py`
  permits ten attempts of 30 s: with their backoff they may take 313 s, nine take
  at most 281 s. `app/services/idempotency.py:16-19` has the lease tell that the
  owner is still at work.
* `docs/architecture.md:13` says Redis shares the circuit breaker's state; the
  breaker is per process (`app/services/routing.py:440-452`).
* `docs/recruiter-guide.md:40` and `:68` call atomic budget reservations future
  work. They are there: `reserve_budget` is one conditional UPDATE, and
  `MoneyConserved`, `ImplementsLedger` and `ImplementsTransactions` are about it.
* A reservation whose request was cancelled or whose process died stays held for
  ever; the docstring of the handler says so (lines 57-62), and `LeakOnlyByFault`
  says that it is the only way.

## What is proved

Every safety invariant and action property a passing run checks and every
refinement is proved for all values of the constants: any number of requests,
keys, periods, tasks, operators, versions, attempts, any limits, costs and
clocks. The assumptions are the `ASSUME`s of the modules (finitely many keys
and requests, natural numbers, the ranges that the code validates) and, where
named below, one more in the theorem itself.

**`FiniteSumTheorems`.** Changing one term of a sum changes the sum by the
difference (`SumUpdate`), a sum of naturals bounds each of its terms
(`SumBoundsTerm`). Induction operators cannot be instantiated by the installed
provers, so the argument is by a minimal counterexample among the subsets of the
domain.

**`BudgetLedgerProofs`.** `LedgerTypeSafe`, `LedgerConserves`, `LedgerOneWay`,
`LedgerNeverOverspends`, under `LedgerAssumption`. `TypeOK` and `Conservation` are
inductive together.

**`ChatGatewayProofs`.**
* Invariants. `GatewayTypeSafe` first, then the inductive invariant `GatewayInv`.
  The checked properties are not inductive alone: ownership needs that an absent
  row has no callers and no usage (`AbsentRows`), that a row's owner is a request
  with this key (`RowsBelong`), that only owners called the provider
  (`CalledByOwner`), and what a final answer says about the row
  (`AnsweredIsOver`, `ExhaustedIsFree`). Every step is one of three
  (`StepCases`): a step that leaves the database alone (`QuietStep`), an
  acquisition, or a settlement that commits; one lemma each shows that the
  invariant is preserved. From it follow `GatewayOwnership`,
  `GatewaySingleExecution`, `GatewaySettledOnce`, `GatewayReplayFaithful`,
  `GatewayHonest`, `GatewayLeaks` and the action property
  `GatewaySettledIsFinal`.
* Money. `GatewayImplementsLedger`: under the mapping `LedgerSlots` (absent,
  pending and settled rows are free, held and settled slots; the charge is the
  recorded cost capped at the reservation) an acquisition is a `Hold`, a committed
  settlement is a `Settle` and every other step stutters. `GatewayConservesMoney`
  and `GatewayRefundsFit` follow from the ledger's theorems.
* Idempotency. `GatewayImplementsOnce`: under `OnceEntries` and `OnceGiven` an
  acquisition is an `Own`, a provider call is a `Run`, a committed settlement is a
  `Settle`, with or without its answer reaching the client, and an answer that
  replays is a `Give`. The guards of the abstract actions are what needs the
  invariant: that the row named by the handler is still its own, that a success
  was called for, and that a row found completed has the payload of whoever reads it.
* Transactions. `GatewayImplementsTransactions`: under `Entries`, `Places` and
  `KeysWanted` an acquisition is an `Acquire`, a committed settlement a `Settle`, and
  every refusal, failure, cancellation and crash a `Leave`. A request that was
  cancelled with its thread at work must never ask for another transaction: a
  cancelled request is at one of its two transactions or gone (`CancelledWaits`).
* Progress. `GatewayWorkShrinks`: `Work` counts the steps a handler can still
  take, at most `2 * MaxAttempts + 4`. Its own steps lower it and nobody
  else's raise it, which is why `EveryRequestEnds` needs only that the steps are
  taken.

**`SqlTxnProofs`.**
* `SqlInv` says which locks each stage holds (`LocksFollowStages`) and that they
  exclude one another (`LocksExclude`), that a queue has each call once
  (`QueueWaits`), that an uncommitted insert has no committed rival
  (`InsertedIsNew`), that the owner's row is pending with its amounts
  (`OwnerIsPending`), and that an uncommitted balance is the latest committed one
  and the transaction's own change (`WrittenIsCurrent`), which is why no update is
  lost. It gives `SqlTypeSafe` and `SqlLoserFindsRow`.
* `SqlImplementsTransactions`: `Commit1` is an `Acquire`, `Commit2` a `Settle`, and
  the other statements stutter or, when the transaction ends without a commit,
  are a `Leave`. That the abstract guards hold at the commit although they were
  evaluated statements earlier is what the locks are for: the key is still free
  (`InsertedIsNew`), the row still the request's own (`OwnerIsPending`), the balance
  still the one that was read (`WrittenIsCurrent`). With
  `GatewayImplementsTransactions` this closes the gap that `ChatGateway` takes its
  transactions as atomic: both are refinements of one specification.
* `SqlImplementsLedger`: `Commit1` is a `Hold` and `Commit2` a `Settle`.
  The ledger's theorems then speak of the statements: `SqlConservesMoney`
  and `SqlSettledIsFinal` hold between any two statements of any transactions, and
  by `SqlSettlementGoesThrough` neither error branch of Txn 2 is ever taken,
  although others wrote the balance since Txn 1.
* Progress. `SqlNoDeadlock`: a wait for a budget row is for somebody who waits
  for nobody, and a wait for an idempotency row is for somebody who at most waits
  for a budget row. `SqlNeverStuck` adds that no call is lost from the queue, that of
  the running transactions one waits for no lock, and that with none running a
  worker is free. `SqlStagesAdvance`: stages have a rank and no step goes
  back.

**`RoutingProofs`.**
* `BreakersOK` (closed exactly below the threshold) and `RouteInv` (calls against
  records and against the candidates and tries so far) give
  `BreakerClosedBelowThreshold`, `RouteWithinReservation` and
  `RecordsAreComplete`. Records are counted as the cardinality of the indices that
  are no skips.
* `VerdictsMoveBreakers`: which step may change a breaker from which state to
  which, and its count, for any number of tasks. `TrialsLostByEscape` is the exact complement of
  finding 1: a half-open breaker loses the trial it waits for only when that
  trial's task raises or is cancelled, and no straggler, retry or fallback takes
  it away. It needs that a task with a trial is on its route (`TrialsBusy`).
  `TrialsStartFromOpen` is the complement of finding 2: a task becomes a trial only
  by the step that takes an open, cooled breaker to half-open, so nobody joins a
  trial in flight, and two trials at once need a straggler's verdict in between.
* Progress. `RouteAlwaysAdvances`: each step of a task raises its `Position`, which
  is bounded by the route and its attempts; other tasks never lower it.

**`GatewayProcessProofs`.**
* Costs are monotone in their tokens (`CostMonotone`), so it is enough that the
  executions billed are no more than the attempts begun (`Within(Executed)`) and
  the time no more than `RouteTime` of them. From `ProcessInv` follow
  `QuoteCoversBilling`, `HonestCharge`, `ShutdownClosesClients`, and
  `RouteWithinLease` under `LeaseIsLongEnough`:
  `(MaxAttempts - 1) * (Timeout + MaxBackoff) + Timeout <= Lease`.
  `DeployedRouteWithinLease` has the deployed numbers and nine attempts, for any
  prices and prompts. `QuoteCoversBilling` has two parts: the tokens of all
  executions together cost no more than the hold, by monotonicity; rounded call by
  call they may cost more (nine calls of 2.25 micro-dollars are 27 against a hold
  of 21), but by less than one micro-dollar per attempt (`RoundingAdds`).
* `CostIsCeiling`: a cost is the exact price rounded up, and rounding a sum once
  costs at most as much as rounding its parts and at most one micro-dollar less.
* `ClosesInReverseOrder`: the exit stack is always a tail of the one `AllCallbacks`,
  and a client whose callback has run is no longer owned (`OrderInv`).
* Progress. `ProcessAlwaysAdvances`: the life cycle and the call have ranks that
  are bounded and that no step lowers, and every step raises one.

**`RateLimiterProofs`.** `SlidingWindow` under `DistinctIds` (no two requests
carry one ID; finding 3 shows that it is needed). An admission's entry stays while a
window can reach back to it (`EntryInv`), so the admissions of a window are
entries the script counted (`WindowInv`). `SlidingWindowCountsIds` is what is left
without the assumption: in any window at most `Limit` different IDs are
admitted, because an admission leaves an entry of its ID that is at least as young as
itself (`IdEntryInv`, `IdWindowInv`). `RetryAfterIsEnough` needs no assumption either: at a refusal
fewer than the limit are left once the oldest entry is gone (`RoomInv`).

**`PromptVersionsProofs`.** `VersionsInv`: numbers are `1 .. n` (`Dense`), rows
satisfy the CHECKs and are of the past (`RowsInv`), and what an operator read was
true once (`ReadsInv`); from it `VersionNumbersDense`, `VersionTimestampsOrdered`
and the action property `VersionsGoForward`. `HistoryOnlyRepeats` is the
complement of finding 4: no timestamp is ever cleared, a retired version's
approval is fixed, no status changes without its timestamp, and only a command
decided for that version rewrites the timestamp it sets.

The theorems that state no property of a run (those on the ledger and on
progress, `TrialsStartFromOpen`, `SlidingWindowCountsIds`, `HistoryOnlyRepeats`,
`CostIsCeiling`, `SqlConservesMoney`, `SqlSettledIsFinal`,
`SqlSettlementGoesThrough`, `SqlNeverStuck`, `ClosesInReverseOrder`, and the
refinements `SqlImplementsLedger` and `GatewayImplementsTransactions`) were checked by TLC on the instances of the runs
before they were proved; they are no properties of a run because they say
more about the same behaviours that the runs' own properties bound. Each
of the two refinements is a property of one run for the other module that
keeps it: `gateway_money` has the ledger, `sql_txn` the transactions.

The leaves are small enough that each is proved within a fraction of its time
limit, so that the proofs do not depend on how fast the machine is.

Only model-checked: liveness (`EveryRequestEnds`, `EveryReservationResolves`,
`EveryTransactionEnds`, `RouteEnds`, `TrialDecides`, `StopCompletes`), which
needs `ENABLED` and fairness and is out of the prover's reach, and the five
counterexamples. Of each that says that something ends, the part that is a safety
property is proved (`GatewayWorkShrinks`, `SqlNeverStuck` and
`SqlStagesAdvance`, `RouteAlwaysAdvances`, `ProcessAlwaysAdvances`); what is left
to TLC is that fair schedulers take the steps.

## Plan

The plan of the first version is carried out: `BudgetLedger`, `ChatGateway`,
`Routing`, `RateLimiter`, `PromptVersions`, then `SqlTxn`, the pricing and
process modules, `IdempotentExecution`, `AtomicTransactions` as the common
specification of the gateway's transactions and their statements, the proofs of
every safety property and of the safety half of every liveness property. What is
left to prove:

* that `GatewayProcess` steps of a call implement one task of `Routing` with one
  candidate;
* a property about pending rows left by crashes, when the code gets the
  reconciliation sweep that `app/services/idempotency.py:33` speaks of.

## Not modelled, and why

Authentication and the admin API only read; authentication appears as `Refuse`.
The dashboard is a separate process that reads the admin API: its session tokens
are stateless and its login guard runs without an await between check and
count, so nothing interleaves. The mock provider is a pure function of tests and
demos. Spans, metrics and logs decide nothing; the construction and shutdown of
tracing are steps of `Lifespan`. Jitter is a parameter no deployed policy sets,
and only shortens the backoff. `select_max_estimated_cost` is called by nothing, and
`estimate_cost_for_pricing` by nothing a request reaches.
Argument checks of the bootstrap and prompt tools, Terraform, CI, containers and
the scripts that test the repository have no state of the running program.

The contents of prompts, fingerprints, tokens and error texts are values.
An answer's input tokens are taken to be the counted ones; a provider that bills
more output than `max_tokens` is modelled, and the charge is capped at the hold.
The engine's connection pool is larger than the thread pool and is left out.
Loss of Redis's or Postgres's data is outside: Postgres is assumed durable, and
the code calls Redis ephemeral.
