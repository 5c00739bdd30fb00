---------------------------- MODULE ChatGateway ----------------------------
(***************************************************************************)
(* POST /v1/chat/completions (app/api/chat_completions.py) with the        *)
(* services it calls: idempotency.py, budget.py and settlement.py.         *)
(*                                                                         *)
(* Each request is a coroutine, and pc says which await it is at; between  *)
(* two awaits its effects are one step.  Its two database transactions run *)
(* in worker threads (asyncio.to_thread) and are atomic here: Postgres     *)
(* serialises them on the unique (team_id, idempotency_key) row and on the *)
(* team_budgets row.  A cancelled request leaves such a thread running; a  *)
(* crash of its process does not.                                          *)
(*                                                                         *)
(* One team is modelled: rows and budgets of different teams never meet.   *)
(* Costs are whole units.  The rate limiter, the prompt versions and the   *)
(* circuit breaker appear only through what they answer.                   *)
(***************************************************************************)
EXTENDS Integers, FiniteSets

CONSTANTS
  Requests,     \* HTTP requests, each with an Idempotency-Key header
  Keys,         \* idempotency keys the team uses
  Hashes,       \* fingerprints of request payloads
  NumPeriods,   \* budget periods that have a team_budgets row
  Alloc,        \* allocated_amount of each
  MaxAttempts,  \* retry_policy.max_attempts_per_candidate, one candidate
  Quotes,       \* worst-case costs of all attempts (Pricing!Quote)
  ActualCosts,  \* cost of the usage a provider may report
  None          \* no value

Periods == 1 .. NumPeriods

ASSUME GatewayAssumption ==
  /\ IsFiniteSet(Keys)
  /\ NumPeriods \in Nat
  /\ Alloc \in [Periods -> Nat]
  /\ MaxAttempts \in Nat \ {0}
  /\ Quotes \subseteq Nat
  /\ ActualCosts \subseteq Nat
  /\ None \notin Requests \cup Hashes

VARIABLES
  \* Postgres
  row,        \* idempotency_keys, one row at most per key
  usage,      \* usage_records of each row
  remaining,  \* team_budgets.remaining_amount of each period
  \* time
  expired,    \* keys whose row has expires_at <= now
  period,     \* period of today's date; NumPeriods + 1: no row covers it
  \* the requests
  req,        \* key and fingerprint each request carries
  pc,         \* where its coroutine is
  cancelled,  \* requests cancelled while their database thread runs
  quote,      \* reserved_cost computed for the request
  tries,      \* provider attempts made
  verdict,    \* how the request asks to be settled
  cost,       \* actual_cost it asks to be settled with
  answer,     \* what its client is told
  \* observers
  callers     \* requests that called the provider under each key

database == <<row, usage, remaining>>
clock    == <<expired, period>>
handler  == <<req, pc, cancelled, quote, tries, verdict, cost, answer>>
vars     == <<database, clock, handler, callers>>

Statuses == {"absent", "pending", "completed", "failed"}

\* id is the request whose transaction inserted the row: the row's identity.
Rows == [status: Statuses, hash: Hashes \cup {None}, id: Requests \cup {None},
         reserved: Nat, period: 0 .. NumPeriods]

NoRow == [status |-> "absent", hash |-> None, id |-> None, reserved |-> 0, period |-> 0]

UsageRecords == [status: {"succeeded", "failed"}, cost: Nat, by: Requests]

Locations == {"idle", "lookup", "admit", "reserve", "execute", "calling", "settle",
              "done", "gone"}

Answers == {"none", "refused", "no_budget", "conflict", "in_progress", "expired",
            "replay", "prior_failure", "success", "not_charged", "internal_error",
            "unresolved", "server_error"}

\* What a client is told, and whose result it is given.
ClientAnswers == [kind: Answers, of: Requests \cup {None}]

TypeOK ==
  /\ row \in [Keys -> Rows]
  /\ usage \in [Keys -> SUBSET UsageRecords]
  /\ remaining \in [Periods -> Nat]
  /\ expired \subseteq Keys
  /\ period \in 1 .. NumPeriods + 1
  /\ req \in [Requests -> [key: Keys, hash: Hashes]]
  /\ pc \in [Requests -> Locations]
  /\ cancelled \subseteq Requests
  /\ quote \in [Requests -> Nat]
  /\ tries \in [Requests -> 0 .. MaxAttempts]
  /\ verdict \in [Requests -> {"none", "completed", "exhausted", "internal"}]
  /\ cost \in [Requests -> Nat]
  /\ answer \in [Requests -> ClientAnswers]
  /\ callers \in [Keys -> SUBSET Requests]

Init ==
  /\ row = [k \in Keys |-> NoRow]
  /\ usage = [k \in Keys |-> {}]
  /\ remaining = Alloc
  /\ expired = {}
  /\ period = 1
  /\ req \in [Requests -> [key: Keys, hash: Hashes]]
  /\ pc = [r \in Requests |-> "idle"]
  /\ cancelled = {}
  /\ quote = [r \in Requests |-> 0]
  /\ tries = [r \in Requests |-> 0]
  /\ verdict = [r \in Requests |-> "none"]
  /\ cost = [r \in Requests |-> 0]
  /\ answer = [r \in Requests |-> [kind |-> "none", of |-> None]]
  /\ callers = [k \in Keys |-> {}]

-----------------------------------------------------------------------------
KeyOf(r) == req[r].key

Tell(kind) == [kind |-> kind, of |-> None]

\* The coroutine of r goes on to location next, unless it was cancelled.
GoTo(r, next) == pc' = [pc EXCEPT ![r] = IF r \in cancelled THEN "gone" ELSE next]

\* The handler of r returns or raises: its client gets a, unless it is gone.
Finish(r, a) ==
  /\ GoTo(r, "done")
  /\ answer' = [answer EXCEPT ![r] = IF r \in cancelled THEN @ ELSE a]

\* Mutant of AnswerFromRow: the fingerprint is not compared.
AnswerAnyPayload(r) ==
  IF row[KeyOf(r)].status = "completed"
  THEN [kind |-> "replay", of |-> row[KeyOf(r)].id]
  ELSE Tell("in_progress")

\* How an existing row of r's key answers a new request.
AnswerFromRow(r) ==
  LET x == row[KeyOf(r)] IN
  IF x.hash # req[r].hash        THEN Tell("conflict")
  ELSE IF x.status = "completed" THEN [kind |-> "replay", of |-> x.id]
  ELSE IF x.status = "failed"    THEN Tell("prior_failure")
  ELSE IF KeyOf(r) \in expired   THEN Tell("expired")
  ELSE Tell("in_progress")

\* How the settled row of r's key answers a request that lost the claim.
StoredAnswer(r) ==
  LET x == row[KeyOf(r)] IN
  CASE x.status = "completed" -> [kind |-> "replay", of |-> x.id]
    [] x.status = "failed"    -> Tell("prior_failure")
    [] OTHER                  -> Tell("unresolved")

\* Mutant of VerdictAnswer: every failure is reported as free.
EveryFailureIsFree(r) ==
  IF verdict[r] = "completed" THEN [kind |-> "success", of |-> r] ELSE Tell("not_charged")

\* What the client is told once its own settlement has committed.
VerdictAnswer(r) ==
  CASE verdict[r] = "completed" -> [kind |-> "success", of |-> r]
    [] verdict[r] = "exhausted" -> Tell("not_charged")
    [] OTHER                    -> Tell("internal_error")

-----------------------------------------------------------------------------
(***************************************************************************)
(* Before the reservation: nothing is written.                             *)
(***************************************************************************)

Arrive(r) ==
  /\ pc[r] = "idle"
  /\ GoTo(r, "lookup")
  /\ UNCHANGED <<database, clock, req, cancelled, quote, tries, verdict, cost, answer, callers>>

\* _resolve_existing_row_sync: a stored row answers before anything else runs.
ReplayLookup(r) ==
  /\ pc[r] = "lookup"
  /\ IF row[KeyOf(r)].status = "absent"
     THEN GoTo(r, "admit") /\ UNCHANGED answer
     ELSE Finish(r, AnswerFromRow(r))
  /\ UNCHANGED <<database, clock, req, cancelled, quote, tries, verdict, cost, callers>>

\* Every check that refuses a request without a write: authentication and a
\* failing lookup; rate limit, model, prompt version, token count, size.
Refuse(r) ==
  /\ pc[r] \in {"lookup", "admit"}
  /\ Finish(r, Tell("refused"))
  /\ UNCHANGED <<database, clock, req, cancelled, quote, tries, verdict, cost, callers>>

\* The checks pass; the reservation covers every attempt the retry policy allows.
Admit(r) ==
  /\ pc[r] = "admit"
  /\ \E c \in Quotes : quote' = [quote EXCEPT ![r] = c]
  /\ GoTo(r, "reserve")
  /\ UNCHANGED <<database, clock, req, cancelled, tries, verdict, cost, answer, callers>>

-----------------------------------------------------------------------------
(***************************************************************************)
(* Transaction 1, _run_txn1_sync.                                          *)
(***************************************************************************)

\* Mutant of KeyIsFree: an expired lease is taken over.
FreeOrExpired(r) ==
  LET x == row[KeyOf(r)] IN
  x.status = "absent" \/ (x.status = "pending" /\ KeyOf(r) \in expired)

\* Mutant of KeyIsFree: a failed request may be run again under its key.
FreeOrFailed(r) == row[KeyOf(r)].status \in {"absent", "failed"}

\* INSERT ... ON CONFLICT DO NOTHING inserts a row, whatever became of the old one.
KeyIsFree(r) == row[KeyOf(r)].status = "absent"

\* Mutant of CanReserve: the balance is not compared in the UPDATE.
ReserveAnyway(r) == quote[r] >= 0

\* The WHERE clause of reserve_budget.
CanReserve(r) == remaining[period] >= quote[r]

\* No team_budgets row covers today.
ReserveWithoutPeriod(r) ==
  /\ pc[r] = "reserve"
  /\ period \notin Periods
  /\ Finish(r, Tell("no_budget"))
  /\ UNCHANGED <<database, clock, req, cancelled, quote, tries, verdict, cost, callers>>

\* INSERT ... ON CONFLICT DO NOTHING inserted nothing: another request was first.
ReserveDuplicate(r) ==
  /\ pc[r] = "reserve"
  /\ period \in Periods
  /\ ~KeyIsFree(r)
  /\ Finish(r, AnswerFromRow(r))
  /\ UNCHANGED <<database, clock, req, cancelled, quote, tries, verdict, cost, callers>>

\* The row was inserted, reserve_budget found too little left: rolled back.
ReserveTooLittle(r) ==
  /\ pc[r] = "reserve"
  /\ period \in Periods
  /\ KeyIsFree(r)
  /\ ~CanReserve(r)
  /\ Finish(r, Tell("no_budget"))
  /\ UNCHANGED <<database, clock, req, cancelled, quote, tries, verdict, cost, callers>>

\* The row and the reservation commit together.  The request may not learn of
\* it, when the connection breaks during the commit.
ReserveAcquire(r) ==
  /\ pc[r] = "reserve"
  /\ period \in Periods
  /\ KeyIsFree(r)
  /\ CanReserve(r)
  /\ row' = [row EXCEPT ![KeyOf(r)] =
               [status |-> "pending", hash |-> req[r].hash, id |-> r,
                reserved |-> quote[r], period |-> period]]
  /\ remaining' = [remaining EXCEPT ![period] = @ - quote[r]]
  /\ \/ GoTo(r, "execute") /\ UNCHANGED answer
     \/ Finish(r, Tell("server_error"))
  /\ UNCHANGED <<usage, clock, req, cancelled, quote, tries, verdict, cost, callers>>

\* The transaction fails and is rolled back.
ReserveFails(r) ==
  /\ pc[r] = "reserve"
  /\ Finish(r, Tell("server_error"))
  /\ UNCHANGED <<database, clock, req, cancelled, quote, tries, verdict, cost, callers>>

-----------------------------------------------------------------------------
(***************************************************************************)
(* Provider execution: execute_route with one candidate.                   *)
(***************************************************************************)

\* r stops calling the provider and asks for settlement.
AskToSettle(r, how, c) ==
  /\ GoTo(r, "settle")
  /\ verdict' = [verdict EXCEPT ![r] = how]
  /\ cost' = [cost EXCEPT ![r] = c]

\* The breaker skips the only candidate: no request is sent.
CircuitOpen(r) ==
  /\ pc[r] = "execute"
  /\ tries[r] = 0
  /\ AskToSettle(r, "exhausted", 0)
  /\ UNCHANGED <<database, clock, req, cancelled, quote, tries, answer, callers>>

\* Mutant of CallProvider: the attempts are not counted.
CallUncounted(r) ==
  /\ pc[r] = "execute"
  /\ callers' = [callers EXCEPT ![KeyOf(r)] = @ \cup {r}]
  /\ GoTo(r, "calling")
  /\ UNCHANGED <<database, clock, req, cancelled, quote, tries, verdict, cost, answer>>

\* One attempt with a candidate's adapter.
CallProvider(r) ==
  /\ pc[r] = "execute"
  /\ tries[r] < MaxAttempts
  /\ tries' = [tries EXCEPT ![r] = @ + 1]
  /\ callers' = [callers EXCEPT ![KeyOf(r)] = @ \cup {r}]
  /\ GoTo(r, "calling")
  /\ UNCHANGED <<database, clock, req, cancelled, quote, verdict, cost, answer>>

\* A timeout or retryable error with attempts left: back off and call again.
ProviderRetry(r) ==
  /\ pc[r] = "calling"
  /\ tries[r] < MaxAttempts
  /\ GoTo(r, "execute")
  /\ UNCHANGED <<database, clock, req, cancelled, quote, tries, verdict, cost, answer, callers>>

\* Mutant of ProviderGivesUp: the client is answered and nothing is settled.
GiveUpUnsettled(r) ==
  /\ pc[r] = "calling"
  /\ Finish(r, Tell("not_charged"))
  /\ UNCHANGED <<database, clock, req, cancelled, quote, tries, verdict, cost, callers>>

\* The attempts are used up, or the provider rejected the request.
ProviderGivesUp(r) ==
  /\ pc[r] = "calling"
  /\ AskToSettle(r, "exhausted", 0)
  /\ UNCHANGED <<database, clock, req, cancelled, quote, tries, answer, callers>>

\* The adapter broke its contract, or something unexpected was raised.
ProviderRaises(r) ==
  /\ pc[r] = "calling"
  /\ AskToSettle(r, "internal", 0)
  /\ UNCHANGED <<database, clock, req, cancelled, quote, tries, answer, callers>>

\* An answer with usage.  The cost may fail to compute (settled as a failure
\* that costs nothing) and the response may fail to build (a failure that costs
\* what was used).
ProviderAnswers(r) ==
  /\ pc[r] = "calling"
  /\ \E c \in ActualCosts :
       \/ AskToSettle(r, "completed", c)
       \/ AskToSettle(r, "internal", c)
       \/ AskToSettle(r, "internal", 0)
  /\ UNCHANGED <<database, clock, req, cancelled, quote, tries, answer, callers>>

-----------------------------------------------------------------------------
(***************************************************************************)
(* Transaction 2, settle_success and settle_failure.                       *)
(***************************************************************************)

\* Mutant of Refund: the whole reservation comes back, charged or not.
RefundAll(reserved, actual) == IF actual >= reserved THEN 0 ELSE reserved

\* _compute_refund_amount: an overrun is capped at the reservation.
Refund(reserved, actual) == IF actual >= reserved THEN 0 ELSE reserved - actual

\* Mutant of RefundPeriod: the refund goes to the period of today.
RefundToday(k) == IF period \in Periods THEN period ELSE row[k].period

\* A refund goes back to the period the row was reserved in.
RefundPeriod(k) == row[k].period

\* refund_budget accepts the amount; it is not called for a zero refund.
RefundFits(p, amount) == amount = 0 \/ remaining[p] + amount <= Alloc[p]

\* claim_settlement, refund and usage record in one transaction.  A refund
\* that does not fit rolls everything back (SettlementIntegrityError); a
\* connection that breaks during the commit hides a settlement that happened.
SettleRow(r) ==
  LET k       == KeyOf(r)
      refund  == Refund(row[k].reserved, cost[r])
      claimed == row[k].status = "pending"
      fits    == RefundFits(RefundPeriod(k), refund)
  IN
  /\ pc[r] = "settle"
  /\ IF claimed /\ fits
     THEN /\ row' = [row EXCEPT ![k].status =
                       IF verdict[r] = "completed" THEN "completed" ELSE "failed"]
          /\ remaining' = [remaining EXCEPT ![RefundPeriod(k)] = @ + refund]
          /\ usage' = [usage EXCEPT ![k] = @ \cup
                         {[status |-> IF verdict[r] = "completed" THEN "succeeded" ELSE "failed",
                           cost |-> cost[r], by |-> r]}]
     ELSE UNCHANGED database
  /\ \/ Finish(r, IF ~claimed THEN StoredAnswer(r)
                  ELSE IF fits THEN VerdictAnswer(r)
                  ELSE Tell("unresolved"))
     \/ Finish(r, Tell("unresolved"))
  /\ UNCHANGED <<clock, req, cancelled, quote, tries, verdict, cost, callers>>

\* The settlement transaction fails and is rolled back.
SettleFails(r) ==
  /\ pc[r] = "settle"
  /\ Finish(r, Tell("unresolved"))
  /\ UNCHANGED <<database, clock, req, cancelled, quote, tries, verdict, cost, callers>>

-----------------------------------------------------------------------------
(***************************************************************************)
(* What happens to a request, and time.                                    *)
(***************************************************************************)

\* asyncio.CancelledError is never caught: the coroutine ends at its await.
\* A transaction already handed to a thread still runs.
Cancel(r) ==
  /\ \/ /\ pc[r] \in {"lookup", "admit", "execute", "calling"}
        /\ pc' = [pc EXCEPT ![r] = "gone"]
        /\ UNCHANGED cancelled
     \/ /\ pc[r] \in {"reserve", "settle"}
        /\ cancelled' = cancelled \cup {r}
        /\ UNCHANGED pc
  /\ UNCHANGED <<database, clock, req, quote, tries, verdict, cost, answer, callers>>

\* The process serving r dies; an open transaction is rolled back.
Crash(r) ==
  /\ pc[r] \notin {"idle", "done", "gone"}
  /\ pc' = [pc EXCEPT ![r] = "gone"]
  /\ UNCHANGED <<database, clock, req, cancelled, quote, tries, verdict, cost, answer, callers>>

\* The five minutes of a pending row's lease are over.
ExpireLease(k) ==
  /\ row[k].status = "pending"
  /\ expired' = expired \cup {k}
  /\ UNCHANGED <<database, period, handler, callers>>

\* Today's date leaves a budget period.
RollPeriod ==
  /\ period \in Periods
  /\ period' = period + 1
  /\ UNCHANGED <<database, expired, handler, callers>>

\* What the handler of r does by itself.
Handle(r) ==
  \/ ReplayLookup(r) \/ Refuse(r) \/ Admit(r)
  \/ ReserveWithoutPeriod(r) \/ ReserveDuplicate(r) \/ ReserveTooLittle(r)
  \/ ReserveAcquire(r) \/ ReserveFails(r)
  \/ CircuitOpen(r) \/ CallProvider(r)
  \/ ProviderRetry(r) \/ ProviderGivesUp(r) \/ ProviderRaises(r) \/ ProviderAnswers(r)
  \/ SettleRow(r) \/ SettleFails(r)

Next ==
  \/ \E r \in Requests : Arrive(r) \/ Handle(r) \/ Cancel(r) \/ Crash(r)
  \/ \E k \in Keys : ExpireLease(k)
  \/ RollPeriod

Spec == Init /\ [][Next]_vars

\* Awaits end: database calls return or raise, provider calls have a timeout,
\* and the event loop resumes every coroutine that can go on.
FairSpec == Spec /\ \A r \in Requests : WF_vars(Handle(r))

-----------------------------------------------------------------------------
(***************************************************************************)
(* Properties.                                                             *)
(***************************************************************************)

Owning  == {"execute", "calling", "settle"}
Settled == {"completed", "failed"}

\* The usage record of a settled row.
UsageOf(k) == CHOOSE u \in usage[k] : TRUE

\* Money a settled row cost its team: never more than was reserved.
Charge(k) ==
  IF UsageOf(k).cost < row[k].reserved THEN UsageOf(k).cost ELSE row[k].reserved

\* The rows as slots of the abstract ledger.
LedgerSlot(k) ==
  CASE row[k].status = "absent"  -> [state |-> "free"]
    [] row[k].status = "pending" ->
         [state |-> "held", period |-> row[k].period, amount |-> row[k].reserved]
    [] OTHER ->
         [state |-> "settled", period |-> row[k].period, amount |-> Charge(k)]

LedgerSlots == [k \in Keys |-> LedgerSlot(k)]

Ledger == INSTANCE BudgetLedger WITH slot <- LedgerSlots

\* Every step of the gateway is a step of the ledger or does not touch it: it
\* holds money once per key and settles it once, within the amount held and
\* into the period it was taken from, through every race, crash and retry.
ImplementsLedger == Ledger!Spec

\* The rows as entries of the abstract idempotent execution, and the results
\* the clients were given.
OnceEntry(k) ==
  [state |-> CASE row[k].status = "absent"    -> "free"
               [] row[k].status = "pending"   -> "running"
               [] row[k].status = "completed" -> "succeeded"
               [] OTHER                       -> "failed",
   by |-> row[k].id]

OnceEntries == [k \in Keys |-> OnceEntry(k)]

OnceGiven ==
  [r \in Requests |->
     IF answer[r].kind \in {"success", "replay"} THEN answer[r].of ELSE None]

Once == INSTANCE IdempotentExecution
          WITH wants <- req, entry <- OnceEntries, runs <- callers, given <- OnceGiven

\* Every step of the gateway keeps the promise of the Idempotency-Key: a key has
\* one owner for good, only the owner calls the provider and only after a call
\* is a success stored, and a stored result is given again to the same payload
\* only, through every race, crash, lost commit and expired lease.
ImplementsOnce == Once!Spec

\* The row of a key as the entry of the atomic transactions, and how far each
\* request is for them.
EntryOf(k) ==
  CASE row[k].status = "absent" -> [state |-> "free"]
    [] row[k].status = "pending" ->
         [state |-> "held", owner |-> row[k].id, period |-> row[k].period,
          amount |-> row[k].reserved]
    [] OTHER ->
         [state |-> "settled", owner |-> row[k].id, period |-> row[k].period,
          amount |-> row[k].reserved, cost |-> UsageOf(k).cost]

Entries == [k \in Keys |-> EntryOf(k)]

PlaceOf(location) ==
  CASE location \in {"idle", "lookup", "admit"} -> "outside"
    [] location = "reserve"                      -> "asking"
    [] location \in {"execute", "calling"}      -> "owner"
    [] location = "settle"                       -> "settling"
    [] OTHER                                     -> "ended"

Places == [r \in Requests |-> PlaceOf(pc[r])]

KeysWanted == [r \in Requests |-> KeyOf(r)]

Atomic == INSTANCE AtomicTransactions
            WITH key <- KeysWanted, at <- Places, entry <- Entries, balance <- remaining

\* The handler asks for its two transactions in their order and relies on what
\* each of them promises only (SqlTxn): it settles what it reserved, at the cost
\* its own execution had, under the key it sent.
ImplementsTransactions == Atomic!Spec

\* What remains of each period, the pending reservations and the recorded
\* charges (actual_cost capped at reserved_cost) add up to the allocation.
MoneyConserved == Ledger!Conservation

\* The refund a request is about to ask for is always accepted: remaining plus
\* refund never exceeds the allocation, so SettlementIntegrityError is never
\* raised and a settlement is never rolled back for it.
RefundAlwaysFits ==
  \A r \in Requests : pc[r] = "settle" =>
    LET x == row[KeyOf(r)] IN
    RefundFits(RefundPeriod(KeyOf(r)), Refund(x.reserved, cost[r]))

\* Whoever executes or settles still owns its key: its row is pending, carries
\* its payload's fingerprint and its reservation.  So claim_settlement never
\* loses, and no provider call is made without money held for it.
OwnerHoldsReservation ==
  \A r \in Requests : pc[r] \in Owning =>
    LET x == row[KeyOf(r)] IN
    x.status = "pending" /\ x.id = r /\ x.hash = req[r].hash /\ x.reserved = quote[r]

\* One key, one execution: the provider is called by one request only, the one
\* that inserted the row, even after that request failed, crashed or expired.
SingleExecution ==
  \A k \in Keys : callers[k] # {} => callers[k] = {row[k].id}

\* A row has a usage record exactly when it is settled, only one, written by
\* its owner and with the same outcome.
SettledOnce ==
  \A k \in Keys :
    IF row[k].status \in Settled
    THEN \E u \in usage[k] :
           /\ usage[k] = {u}
           /\ u.by = row[k].id
           /\ u.status = IF row[k].status = "completed" THEN "succeeded" ELSE "failed"
    ELSE usage[k] = {}

\* A client that is given a result is given the result stored under its key,
\* of the request that owns the row, and its payload is the one that was run.
ReplayFaithful ==
  \A r \in Requests : answer[r].kind \in {"success", "replay"} =>
    LET x == row[KeyOf(r)] IN
    /\ x.status = "completed"
    /\ x.id = answer[r].of
    /\ x.hash = req[r].hash

\* "You were not charged" is said only when the failure settled at no charge;
\* a request refused without owning its key holds no money.
HonestAnswers ==
  \A r \in Requests :
    LET k == KeyOf(r) IN
    /\ answer[r].kind = "not_charged" =>
         row[k].id = r /\ row[k].status = "failed" /\ Charge(k) = 0
    /\ answer[r].kind \in {"refused", "no_budget", "conflict", "in_progress",
                           "expired", "replay", "prior_failure"} =>
         row[k].id # r

\* A reservation is left held with nobody to settle it only when its request
\* was cancelled, its process died, or a transaction of it failed and its
\* client was told that something is wrong.
LeakOnlyByFault ==
  \A k \in Keys : row[k].status = "pending" =>
    LET r == row[k].id IN
    \/ pc[r] \in Owning \cup {"gone"}
    \/ answer[r].kind \in {"unresolved", "server_error"}

\* A settlement is final: no step changes a settled row or its usage record, and
\* a pending row changes only by being settled.
SettledIsFinal ==
  [][\A k \in Keys :
       /\ row[k].status \in Settled => row'[k] = row[k] /\ usage'[k] = usage[k]
       /\ row[k].status = "pending" /\ row'[k] # row[k] =>
            \E s \in Settled : row'[k] = [row[k] EXCEPT !.status = s]]_vars

\* Every request that arrived ends, whatever the others do.
EveryRequestEnds ==
  \A r \in Requests : pc[r] # "idle" ~> pc[r] \in {"done", "gone"}

\* A reservation is settled in the end, unless its request was cancelled, its
\* process died or one of its transactions failed.
EveryReservationResolves ==
  \A r \in Requests :
    row[KeyOf(r)].status = "pending" /\ row[KeyOf(r)].id = r ~>
      \/ row[KeyOf(r)].status \in Settled
      \/ pc[r] = "gone"
      \/ answer[r].kind \in {"unresolved", "server_error"}
=============================================================================
