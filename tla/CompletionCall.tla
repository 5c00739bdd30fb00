--------------------------- MODULE CompletionCall ---------------------------
(***************************************************************************)
(* What one request costs: tokens are counted, the worst case is quoted    *)
(* and held, the provider is called up to MaxAttempts times with backoff,  *)
(* and what the answer cost is charged.  `billed' is an observer that no   *)
(* guard reads: what every execution cost, those included whose answer     *)
(* never arrived.                                                          *)
(* The rows and transactions are ChatGateway's, the breaker is Routing's.  *)
(***************************************************************************)
EXTENDS Pricing, OpenAIAdapter

CONSTANTS
  Model,        \* the model of the deployment, a key of Catalog
  MaxAttempts,  \* openai_retry_max_attempts
  Timeout,      \* of one attempt; all times are in tenths of a second
  BaseBackoff,  \* of RetryPolicy
  MaxBackoff,   \* of RetryPolicy
  Lease,        \* _DEFAULT_IDEMPOTENCY_TTL
  PromptTokens, \* input tokens of the prompts considered
  Limits,       \* values of max_tokens considered
  Surplus       \* output tokens a provider may report above max_tokens

\* RetryPolicy.__post_init__
ValidPolicy ==
  /\ MaxAttempts \in 1 .. 10
  /\ BaseBackoff \in Nat
  /\ MaxBackoff \in Nat
  /\ BaseBackoff <= MaxBackoff

ASSUME CallAssumption ==
  /\ Model \in Models
  /\ ValidPolicy
  /\ Timeout \in Nat \ {0}
  /\ Lease \in Nat
  /\ PromptTokens \subseteq Nat
  /\ Limits \subseteq Nat \ {0}
  /\ Surplus \subseteq Nat

VARIABLES
  step,       \* the await the request is at
  input,      \* prompt_token_count
  limit,      \* max_tokens
  held,       \* reserved_cost
  attempt,    \* attempts begun
  elapsed,    \* since the lease of the row began
  billed,     \* tokens of all executions, their costs rounded one by one, and
              \* whether one exceeded max_tokens
  actual,     \* actual_cost
  charge,     \* what the team pays
  code        \* how the request was settled

callVars == <<step, input, limit, held, attempt, elapsed, billed, actual, charge, code>>

Price == Catalog[Model]

Steps == {"new", "quote", "route", "call", "settle", "over"}
Codes == {"none", "SUCCEEDED", "RETRIES_EXHAUSTED_COST_UNKNOWN", "CIRCUIT_OPEN_NO_ATTEMPT",
          "INTERNAL_ERROR", "COST_CALCULATION_FAILED"}
Bills == [input: Nat, output: Nat, cost: Nat, surplus: BOOLEAN]
NothingBilled == [input |-> 0, output |-> 0, cost |-> 0, surplus |-> FALSE]

CallTypeOK ==
  /\ step \in Steps
  /\ input \in Nat
  /\ limit \in Limits
  /\ held \in Nat
  /\ attempt \in 0 .. MaxAttempts
  /\ elapsed \in Nat
  /\ billed \in Bills
  /\ actual \in Nat
  /\ charge \in Nat
  /\ code \in Codes

CallInit ==
  /\ step = "new"
  /\ input = 0
  /\ limit \in Limits
  /\ held = 0
  /\ attempt = 0
  /\ elapsed = 0
  /\ billed = NothingBilled
  /\ actual = 0
  /\ charge = 0
  /\ code = "none"

\* Mutant of Backoff: it doubles without a cap.
BackoffUncapped(n) == BaseBackoff * 2 ^ (n - 1)

\* compute_backoff_ms after attempt n, without jitter, which only shortens it
Backoff(n) ==
  LET raw == BaseBackoff * 2 ^ (n - 1) IN IF raw \in 0 .. MaxBackoff THEN raw ELSE MaxBackoff

-----------------------------------------------------------------------------
(* Before the reservation *)

\* The exact count of the provider.
CountTokens ==
  /\ step = "new"
  /\ \E n \in PromptTokens : input' = n
  /\ step' = "quote"
  /\ UNCHANGED <<limit, held, attempt, elapsed, billed, actual, charge, code>>

\* A count that fails ends the request; nothing is held yet.
CountFails ==
  /\ step = "new"
  /\ \E answer \in CountAnswers : CountOutcome(answer) # "success"
  /\ step' = "over"
  /\ UNCHANGED <<input, limit, held, attempt, elapsed, billed, actual, charge, code>>

\* The quote and Txn 1; the lease of the row begins.
HoldQuote ==
  /\ step = "quote"
  /\ LET quote == Quote(Price, input, limit, MaxAttempts) IN
       /\ Storable(quote)
       /\ held' = quote
  /\ step' = "route"
  /\ UNCHANGED <<input, limit, attempt, elapsed, billed, actual, charge, code>>

\* 422: the quote cannot be stored.
QuoteTooLarge ==
  /\ step = "quote"
  /\ ~Storable(Quote(Price, input, limit, MaxAttempts))
  /\ step' = "over"
  /\ UNCHANGED <<input, limit, held, attempt, elapsed, billed, actual, charge, code>>

-----------------------------------------------------------------------------
(* The route *)

\* The breaker refuses the only candidate: no call is made.
SkipCircuitOpen ==
  /\ step = "route"
  /\ step' = "settle"
  /\ code' = "CIRCUIT_OPEN_NO_ATTEMPT"
  /\ UNCHANGED <<input, limit, held, attempt, elapsed, billed, actual, charge>>

CallProvider ==
  /\ step = "route"
  /\ step' = "call"
  /\ attempt' = 1
  /\ UNCHANGED <<input, limit, held, elapsed, billed, actual, charge, code>>

\* The provider executes the call and bills some output.
Bill(output) ==
  billed' = [input   |-> billed.input + input,
             output  |-> billed.output + output,
             cost    |-> billed.cost + Cost(Price, input, output),
             surplus |-> billed.surplus \/ output > limit]

\* A failed attempt may have been executed in full; one that was answered was.
BillUnknown(answer) ==
  \/ answer \notin Responses /\ UNCHANGED billed
  \/ Bill(limit)

\* An attempt takes no time worth the name, or all that asyncio.timeout gives.
Lasts(answer) == IF answer = "deadline" THEN {Timeout} ELSE {0, Timeout}

\* Mutant of AttemptsLeft: one attempt more than RetryPolicy permits.
AttemptsLeftInclusive == attempt <= MaxAttempts

AttemptsLeft == attempt < MaxAttempts

\* A timeout or a retryable error before the last attempt: backoff, next one.
Retry ==
  /\ step = "call"
  /\ AttemptsLeft
  /\ \E answer \in CompleteAnswers :
       /\ MayRetry(CompleteOutcome(answer))
       /\ BillUnknown(answer)
       /\ \E d \in Lasts(answer) : elapsed' = elapsed + d + Backoff(attempt)
  /\ attempt' = attempt + 1
  /\ UNCHANGED <<step, input, limit, held, actual, charge, code>>

\* The last attempt fails, or one is rejected: all candidates have failed.
GiveUp ==
  /\ step = "call"
  /\ \E answer \in CompleteAnswers :
       /\ CompleteOutcome(answer) \in {"timeout", "retryable", "non-retryable"}
       /\ ~(AttemptsLeft /\ MayRetry(CompleteOutcome(answer)))
       /\ BillUnknown(answer)
       /\ \E d \in Lasts(answer) : elapsed' = elapsed + d
  /\ step' = "settle"
  /\ code' = "RETRIES_EXHAUSTED_COST_UNKNOWN"
  /\ UNCHANGED <<input, limit, held, attempt, actual, charge>>

\* A broken contract or a foreign exception ends the route at once.
RaiseInternal ==
  /\ step = "call"
  /\ \E answer \in CompleteAnswers :
       /\ CompleteOutcome(answer) \in {"contract error", "unexpected"}
       /\ BillUnknown(answer)
       /\ \E d \in Lasts(answer) : elapsed' = elapsed + d
  /\ step' = "settle"
  /\ code' = "INTERNAL_ERROR"
  /\ UNCHANGED <<input, limit, held, attempt, actual, charge>>

\* Mutant of CostOfAnswer: the cost is what was quoted for every attempt.
CostOfAllAttempts(output) == Cost(Price, input * MaxAttempts, output * MaxAttempts)

\* calculate_actual_cost
CostOfAnswer(output) == Cost(Price, input, output)

\* The usage of the answer is priced; a cost that cannot be stored is
\* recorded as a failure without cost.
Answer ==
  /\ step = "call"
  /\ \E output \in {1, limit} \cup {limit + s : s \in Surplus} :
       /\ Bill(output)
       /\ IF Storable(CostOfAnswer(output))
            THEN actual' = CostOfAnswer(output) /\ code' = "SUCCEEDED"
            ELSE actual' = 0 /\ code' = "COST_CALCULATION_FAILED"
  /\ \E d \in Lasts("completion") : elapsed' = elapsed + d
  /\ step' = "settle"
  /\ UNCHANGED <<input, limit, held, attempt, charge>>

\* Txn 2 charges the cost, at most what is held.
Settle ==
  /\ step = "settle"
  /\ charge' = IF actual < held THEN actual ELSE held
  /\ step' = "over"
  /\ UNCHANGED <<input, limit, held, attempt, elapsed, billed, actual, code>>

\* The coroutine is cancelled; what is held stays held.
CancelCall ==
  /\ step \notin {"new", "over"}
  /\ step' = "over"
  /\ UNCHANGED <<input, limit, held, attempt, elapsed, billed, actual, charge, code>>

\* The handler's own steps once it has begun
Continue ==
  \/ HoldQuote \/ QuoteTooLarge \/ SkipCircuitOpen \/ CallProvider
  \/ Retry \/ GiveUp \/ RaiseInternal \/ Answer \/ Settle

CallNext == CountTokens \/ CountFails \/ Continue \/ CancelCall

CallSpec == CallInit /\ [][CallNext]_callVars

-----------------------------------------------------------------------------
(* Properties *)

BilledCost == Cost(Price, billed.input, billed.output)

\* The reservation covers all the provider may bill for the request, failed
\* and timed-out executions included, unless it exceeds max_tokens itself:
\* the cost of all tokens together, rounded once as the quote is, is within the
\* quote (chat_completions.py:946-950, pricing.py:59); rounded call by call, as
\* calculate_actual_cost does, it may exceed the quote, but by less than a
\* micro-dollar for each attempt.  routing.py:66-88, older than the handler's
\* quote, still says that a reservation covers one attempt only.
ReservationCoversBilling ==
  step \in {"call", "settle"} /\ ~billed.surplus =>
    /\ BilledCost <= held
    /\ billed.cost < held + attempt

\* The team never pays more than the provider billed or than was held; it
\* pays nothing for an executed call only when the code says so, and 'no
\* request was sent' is said only if nothing was billed
\* (chat_completions.py:1010-1012, 1027-1033).
ChargeIsHonest ==
  /\ charge <= held
  /\ charge <= BilledCost
  /\ code = "CIRCUIT_OPEN_NO_ATTEMPT" => attempt = 0 /\ BilledCost = 0
  /\ step = "settle" /\ actual = 0 /\ BilledCost > 0 =>
       code \in {"RETRIES_EXHAUSTED_COST_UNKNOWN", "INTERNAL_ERROR", "COST_CALCULATION_FAILED"}

\* What is settled for a success is "the TOTAL billable cost across every attempt
\* that was actually billed by a provider" (settlement.py:62-65).
ActualCostIsTotal == step = "settle" /\ code = "SUCCEEDED" => actual >= BilledCost

\* The lease of the idempotency row outlasts the route: while it is valid
\* "another owner is actively working" (idempotency.py:16-19), so a retry is
\* not told that the original expired and to use a new key.
LeaseCoversRoute == step \in {"call", "settle"} => elapsed <= Lease
=============================================================================
