------------------------------ MODULE Routing ------------------------------
(***************************************************************************)
(* execute_route and the circuit breaker (app/services/routing.py) in one  *)
(* process: concurrent tasks run the same route, candidate after           *)
(* candidate, with retries, and share one breaker per provider.            *)
(*                                                                         *)
(* The tasks are coroutines of one event loop.  They await the adapter and *)
(* the backoff sleep only, so a step runs from one such await to the next: *)
(* a candidate that fails, its breaker's bookkeeping and the choice of the *)
(* next candidate are one step.                                            *)
(*                                                                         *)
(* Time is abstract: a cooldown elapses some time after the breaker opened.*)
(* The failure counter is compared with the threshold only, so it          *)
(* saturates there.                                                        *)
(***************************************************************************)
EXTENDS Integers, Sequences, FiniteSets

CONSTANTS
  Tasks,        \* coroutines that execute the route, again and again
  Registry,     \* supported models of each registered provider
  Route,        \* its candidates, pairs of provider and model, in order
  Threshold,    \* circuit breaker's failure_threshold
  MaxAttempts   \* retry_policy.max_attempts_per_candidate

\* build_route: candidates differ, though two may name one provider.
WellFormed(route) ==
  /\ route \in Seq([provider: STRING, model: STRING])
  /\ Len(route) \in 1 .. 10
  /\ \A i, j \in DOMAIN route : route[i] = route[j] => i = j

\* validate_route_against_registry
Supported(route) ==
  \A i \in DOMAIN route :
    /\ route[i].provider \in DOMAIN Registry
    /\ route[i].model \in Registry[route[i].provider]

\* The ranges of CircuitBreakerConfig and RetryPolicy
ASSUME RoutingAssumption ==
  /\ WellFormed(Route)
  /\ Supported(Route)
  /\ Threshold \in 1 .. 100
  /\ MaxAttempts \in 1 .. 10

Providers == {Route[i].provider : i \in DOMAIN Route}

VARIABLES
  \* each provider's breaker
  state,     \* closed, open or half_open
  failures,  \* _consecutive_failures, up to Threshold
  cooled,    \* open for at least cooldown_seconds
  \* each task
  pc,        \* awaiting the adapter, asleep between attempts, or idle
  candidate, \* index of the candidate it is at
  tries,     \* attempts made with that candidate
  attempts,  \* outcomes of the AttemptRecords of its route
  result,    \* how its last route ended
  \* observers
  trial,     \* the task was let through as a provider's trial
  calls      \* adapter calls made for its route

breaker == <<state, failures, cooled>>
task    == <<pc, candidate, tries, attempts, result, trial, calls>>
vars    == <<breaker, task>>

Outcomes == {"skipped", "transient", "rejected", "success"}

TypeOK ==
  /\ state \in [Providers -> {"closed", "open", "half_open"}]
  /\ failures \in [Providers -> 0 .. Threshold]
  /\ cooled \in [Providers -> BOOLEAN]
  /\ pc \in [Tasks -> {"idle", "calling", "sleeping"}]
  /\ candidate \in [Tasks -> 1 .. Len(Route)]
  /\ tries \in [Tasks -> 0 .. MaxAttempts]
  /\ attempts \in [Tasks -> Seq(Outcomes)]
  /\ result \in [Tasks -> {"none", "success", "failed", "raised", "cancelled"}]
  /\ trial \in [Tasks -> BOOLEAN]
  /\ calls \in [Tasks -> Nat]

Init ==
  /\ state = [p \in Providers |-> "closed"]
  /\ failures = [p \in Providers |-> 0]
  /\ cooled = [p \in Providers |-> FALSE]
  /\ pc = [t \in Tasks |-> "idle"]
  /\ candidate = [t \in Tasks |-> 1]
  /\ tries = [t \in Tasks |-> 0]
  /\ attempts = [t \in Tasks |-> <<>>]
  /\ result = [t \in Tasks |-> "none"]
  /\ trial = [t \in Tasks |-> FALSE]
  /\ calls = [t \in Tasks |-> 0]

-----------------------------------------------------------------------------
ProviderOf(t) == Route[candidate[t]].provider

Saturated(n) == IF n < Threshold THEN n ELSE Threshold

\* should_allow of a breaker in state s with cooldown c elapsed.
Allows(s, c) == s = "closed" \/ (s = "open" /\ c)

\* Mutant of RecordSuccess: the failures are not reset.
RecordSuccessKeepsCount(p) ==
  /\ state' = [state EXCEPT ![p] = "closed"]
  /\ cooled' = [cooled EXCEPT ![p] = FALSE]
  /\ UNCHANGED failures

\* Mutant of RecordSuccess: the outcome of a trial is not taken into account.
RecordSuccessWhenClosed(p) ==
  /\ failures' = [failures EXCEPT ![p] = IF state[p] = "closed" THEN 0 ELSE @]
  /\ UNCHANGED <<state, cooled>>

\* record_success on p's breaker.
RecordSuccess(p) ==
  /\ state' = [state EXCEPT ![p] = "closed"]
  /\ failures' = [failures EXCEPT ![p] = 0]
  /\ cooled' = [cooled EXCEPT ![p] = FALSE]

\* Mutant of AfterFailure: a breaker whose trial fails is left as it is.
AfterFailureWhenClosed(p) ==
  LET n == Saturated(failures[p] + 1)
  IN  [state    |-> [state EXCEPT ![p] = IF @ = "closed" /\ n = Threshold THEN "open" ELSE @],
       failures |-> [failures EXCEPT ![p] = n],
       cooled   |-> cooled]

\* record_failure on p's breaker, as a record.  A failed trial opens it again
\* with a fresh cooldown, and so does one more failure when it is open already.
AfterFailure(p) ==
  LET n == Saturated(failures[p] + 1)
      opens == state[p] = "half_open" \/ n = Threshold
  IN  [state    |-> [state EXCEPT ![p] = IF opens THEN "open" ELSE @],
       failures |-> [failures EXCEPT ![p] = IF state[p] = "half_open" THEN @ ELSE n],
       cooled   |-> [cooled EXCEPT ![p] = IF opens THEN FALSE ELSE @]]

Unchanged == [state |-> state, failures |-> failures, cooled |-> cooled]

\* Task t goes on at candidate i with the breakers b, the records and the number
\* of adapter calls of its route so far: it skips candidates whose breaker refuses
\* and calls the first one allowed, which claims the trial slot of a cooled
\* breaker; with none left it raises AllCandidatesFailedError.
GoOn(t, i, b, records, made) ==
  LET allowed == {j \in i .. Len(Route) : Allows(b.state[Route[j].provider], b.cooled[Route[j].provider])}
      Skipping(n) == records \o [j \in 1 .. n |-> "skipped"]
  IN
  /\ failures' = b.failures
  /\ \/ /\ allowed = {}
        /\ attempts' = [attempts EXCEPT ![t] = Skipping(Len(Route) + 1 - i)]
        /\ pc' = [pc EXCEPT ![t] = "idle"]
        /\ result' = [result EXCEPT ![t] = "failed"]
        /\ calls' = [calls EXCEPT ![t] = made]
        /\ trial' = [trial EXCEPT ![t] = FALSE]
        /\ state' = b.state
        /\ cooled' = b.cooled
        /\ candidate' = [candidate EXCEPT ![t] = 1]
        /\ tries' = [tries EXCEPT ![t] = 0]
     \/ \E next \in allowed :
        LET p == Route[next].provider IN
        /\ \A j \in allowed : next <= j
        /\ attempts' = [attempts EXCEPT ![t] = Skipping(next - i)]
        /\ pc' = [pc EXCEPT ![t] = "calling"]
        /\ candidate' = [candidate EXCEPT ![t] = next]
        /\ tries' = [tries EXCEPT ![t] = 1]
        /\ calls' = [calls EXCEPT ![t] = made + 1]
        /\ trial' = [trial EXCEPT ![t] = b.state[p] = "open"]
        /\ state' = [b.state EXCEPT ![p] = IF @ = "open" THEN "half_open" ELSE @]
        /\ cooled' = [b.cooled EXCEPT ![p] = FALSE]
        /\ result' = [result EXCEPT ![t] = "none"]

\* Task t leaves its route with outcome how.
Leave(t, how) ==
  /\ pc' = [pc EXCEPT ![t] = "idle"]
  /\ result' = [result EXCEPT ![t] = how]
  /\ trial' = [trial EXCEPT ![t] = FALSE]
  /\ candidate' = [candidate EXCEPT ![t] = 1]
  /\ tries' = [tries EXCEPT ![t] = 0]
  /\ UNCHANGED calls

\* Mutant of Record: an attempt that is retried leaves no record.
RecordUnlessRetried(t, outcome) ==
  IF outcome = "transient" THEN attempts[t] ELSE Append(attempts[t], outcome)

\* The route's attempts with one more AttemptRecord.
Record(t, outcome) == Append(attempts[t], outcome)

\* Mutant of MayRetry: one attempt too many.
MayRetryOnceMore(t) == tries[t] <= MaxAttempts

MayRetry(t) == tries[t] < MaxAttempts

-----------------------------------------------------------------------------
\* A new request executes the route.
Start(t) ==
  /\ pc[t] = "idle"
  /\ GoOn(t, 1, Unchanged, <<>>, 0)

\* The adapter answers with a valid result.
AttemptSucceeds(t) ==
  /\ pc[t] = "calling"
  /\ RecordSuccess(ProviderOf(t))
  /\ attempts' = [attempts EXCEPT ![t] = Record(t, "success")]
  /\ Leave(t, "success")

\* Mutant of AttemptRetries: the breaker counts the attempt, not the candidate.
AttemptRetriesCounting(t) ==
  /\ pc[t] = "calling"
  /\ MayRetry(t)
  /\ attempts' = [attempts EXCEPT ![t] = Record(t, "transient")]
  /\ pc' = [pc EXCEPT ![t] = "sleeping"]
  /\ state' = AfterFailure(ProviderOf(t)).state
  /\ failures' = AfterFailure(ProviderOf(t)).failures
  /\ cooled' = AfterFailure(ProviderOf(t)).cooled
  /\ UNCHANGED <<candidate, tries, result, trial, calls>>

\* A timeout or a RetryableProviderError with attempts left: sleep, then retry.
AttemptRetries(t) ==
  /\ pc[t] = "calling"
  /\ MayRetry(t)
  /\ attempts' = [attempts EXCEPT ![t] = Record(t, "transient")]
  /\ pc' = [pc EXCEPT ![t] = "sleeping"]
  /\ UNCHANGED <<breaker, candidate, tries, result, trial, calls>>

\* The candidate is given up: its last attempt failed transiently, or the
\* provider rejected the request at any attempt.  Its breaker counts one
\* failure, and the route goes on with the next candidate.
CandidateFails(t) ==
  /\ pc[t] = "calling"
  /\ \E outcome \in {"transient", "rejected"} :
       /\ outcome = "transient" => ~MayRetry(t)
       /\ GoOn(t, candidate[t] + 1, AfterFailure(ProviderOf(t)), Record(t, outcome), calls[t])

\* _validate_completion_result raises ProviderContractError, or the adapter
\* something that is no ProviderError: it leaves execute_route at once, past the
\* breaker's bookkeeping.
AttemptRaises(t) ==
  /\ pc[t] = "calling"
  /\ Leave(t, "raised")
  /\ UNCHANGED <<breaker, attempts>>

\* The client goes away: CancelledError leaves execute_route from its await.
Cancelled(t) ==
  /\ pc[t] # "idle"
  /\ Leave(t, "cancelled")
  /\ UNCHANGED <<breaker, attempts>>

\* Mutant of Wake: the retry starts the candidate afresh.
WakeAfresh(t) ==
  /\ pc[t] = "sleeping"
  /\ pc' = [pc EXCEPT ![t] = "calling"]
  /\ tries' = [tries EXCEPT ![t] = 1]
  /\ calls' = [calls EXCEPT ![t] = 1]
  /\ attempts' = [attempts EXCEPT ![t] = <<>>]
  /\ UNCHANGED <<breaker, candidate, result, trial>>

\* The backoff is over: the next attempt.
Wake(t) ==
  /\ pc[t] = "sleeping"
  /\ pc' = [pc EXCEPT ![t] = "calling"]
  /\ tries' = [tries EXCEPT ![t] = @ + 1]
  /\ calls' = [calls EXCEPT ![t] = @ + 1]
  /\ UNCHANGED <<breaker, candidate, attempts, result, trial>>

\* cooldown_seconds have passed since p's breaker last opened.
CoolDown(p) ==
  /\ state[p] = "open"
  /\ ~cooled[p]
  /\ cooled' = [cooled EXCEPT ![p] = TRUE]
  /\ UNCHANGED <<state, failures, task>>

\* What task t does once it has started.
Proceed(t) ==
  \/ AttemptSucceeds(t) \/ AttemptRetries(t) \/ CandidateFails(t)
  \/ AttemptRaises(t) \/ Wake(t)

Next ==
  \/ \E t \in Tasks : Start(t) \/ Proceed(t) \/ Cancelled(t)
  \/ \E p \in Providers : CoolDown(p)

Spec == Init /\ [][Next]_vars

\* Every attempt is under asyncio.timeout and every sleep ends.
FairSpec == Spec /\ \A t \in Tasks : WF_vars(Proceed(t))

-----------------------------------------------------------------------------
(***************************************************************************)
(* Properties.                                                             *)
(***************************************************************************)

\* The breaker lets every request through exactly while its failures are below
\* the threshold: stragglers, trials and successes in any order never leave it
\* closed with the threshold reached, or open with a forgotten count.
ClosedBelowThreshold ==
  \A p \in Providers : state[p] = "closed" <=> failures[p] < Threshold

\* A route calls the adapter at most as often as chat_completions reserved money
\* for: max_attempts_per_candidate times the number of candidates.
ReservationCoversCalls ==
  \A t \in Tasks : calls[t] <= MaxAttempts * Len(Route)

\* A failed route reports one record for every adapter call it made: when all of
\* them are skips, nothing was sent and its cost is known to be zero.
RecordsTellCalls ==
  \A t \in Tasks : result[t] \in {"success", "failed"} /\ pc[t] = "idle" =>
    calls[t] = Cardinality({i \in DOMAIN attempts[t] : attempts[t][i] # "skipped"})

\* Every execution of the route ends.
RouteEnds == \A t \in Tasks : pc[t] # "idle" ~> pc[t] = "idle"

\* A breaker whose trial is in flight gets its verdict, unless that request is
\* cancelled or breaks the adapter's contract.
TrialDecides ==
  \A t \in Tasks, p \in Providers :
    trial[t] /\ ProviderOf(t) = p /\ state[p] = "half_open" ~>
      state[p] # "half_open" \/ result[t] \in {"raised", "cancelled"}

\* A trial of p's breaker is in flight.
HasTrial(p) == \E t \in Tasks : trial[t] /\ ProviderOf(t) = p

\* Task t's step ends its route with an answer, gives its candidate up, or ends
\* its route past the breaker's bookkeeping.
Answered(t) == pc[t] = "calling" /\ pc'[t] = "idle" /\ result'[t] = "success"
GivenUp(t) ==
  /\ pc[t] = "calling"
  /\ candidate'[t] > candidate[t] \/ (pc'[t] = "idle" /\ result'[t] = "failed")
Escaped(t) == pc[t] # "idle" /\ pc'[t] = "idle" /\ result'[t] \in {"raised", "cancelled"}

\* A breaker closes only with an answer of its provider; opens only with a
\* candidate of its provider given up, a closed one at the threshold; and becomes
\* half-open only when it was open and cooled, together with its trial.
BreakerTransitions ==
  \A p \in Providers :
    /\ state'[p] = "closed" =>
         state[p] = "closed" \/ \E t \in Tasks : ProviderOf(t) = p /\ Answered(t)
    /\ state'[p] = "open" =>
         \/ state[p] = "open"
         \/ /\ \E t \in Tasks : ProviderOf(t) = p /\ GivenUp(t)
            /\ state[p] = "closed" => failures[p] + 1 = Threshold
    /\ state'[p] = "half_open" =>
         state[p] = "half_open" \/ (state[p] = "open" /\ cooled[p] /\ HasTrial(p)')

\* A breaker counts candidates given up, one by one, and forgets them with an
\* answer: the attempts that a candidate retries do not add up.
CountTransitions ==
  \A p \in Providers : failures'[p] # failures[p] =>
    \/ failures'[p] = failures[p] + 1 /\ \E t \in Tasks : ProviderOf(t) = p /\ GivenUp(t)
    \/ failures'[p] = 0 /\ \E t \in Tasks : ProviderOf(t) = p /\ Answered(t)

\* Whatever the other requests do meanwhile, a breaker moves with the verdicts on
\* its own provider's candidates only, the way the class describes its state
\* machine, and counts failed candidates, not attempts (CircuitBreaker).
BreakerFollowsVerdicts == [][BreakerTransitions /\ CountTransitions]_vars

\* A half-open breaker loses its last trial without a verdict only when that
\* request is cancelled or breaks the adapter's contract.
TrialLostOnlyByEscape ==
  \A p \in Providers : state[p] = "half_open" /\ state'[p] = "half_open" /\ HasTrial(p) =>
    HasTrial(p)' \/ \E t \in Tasks : trial[t] /\ ProviderOf(t) = p /\ Escaped(t)

\* The one way into the stuck half-open breaker of HalfOpenHasTrial: stragglers,
\* retries, fallbacks and other requests never take a trial away without its
\* verdict (should_allow, record_success, record_failure).
TrialsOnlyEscape == [][TrialLostOnlyByEscape]_vars

\* While a breaker is half-open, its trial is in flight (should_allow).
HalfOpenHasTrial ==
  \A p \in Providers : state[p] = "half_open" => HasTrial(p)

\* Exactly one trial request is allowed through (CircuitBreaker).
AtMostOneTrial ==
  \A s, t \in Tasks : trial[s] /\ trial[t] /\ ProviderOf(s) = ProviderOf(t) => s = t
=============================================================================
