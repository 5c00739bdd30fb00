---------------------------- MODULE BudgetLedger ----------------------------
(***************************************************************************)
(* What the accounting of a team promises, whatever the requests do.       *)
(* Every idempotency key owns at most one slot.  A slot holds money of one *)
(* budget period exactly once and is settled at most once, for no more     *)
(* than it holds; what it was not charged returns to the period it came    *)
(* from.  ChatGateway implements this with rows of idempotency_keys,       *)
(* usage_records and team_budgets.                                         *)
(***************************************************************************)
EXTENDS FiniteSum

CONSTANTS
  Keys,      \* idempotency keys of the team
  Periods,   \* its budget periods (rows of team_budgets)
  Alloc      \* allocated_amount of each period

\* What a specification that implements the ledger has to meet; the theorems about
\* the ledger take it as a hypothesis.
LedgerAssumption ==
  /\ IsFiniteSet(Keys)
  /\ Alloc \in [Periods -> Nat]

VARIABLES
  slot,      \* one slot per key
  remaining  \* remaining_amount of each period

ledgerVars == <<slot, remaining>>

\* A free slot takes nothing from any period.
FreeSlots == [state: {"free"}]
UsedSlots == [state: {"held", "settled"}, period: Periods, amount: Nat]

TypeOK ==
  /\ slot \in [Keys -> FreeSlots \cup UsedSlots]
  /\ remaining \in [Periods -> Nat]

Init ==
  /\ slot = [k \in Keys |-> [state |-> "free"]]
  /\ remaining = Alloc

\* reserve_budget, for the request that acquired the key
Hold(k, p) ==
  /\ slot[k].state = "free"
  /\ \E amount \in 0 .. remaining[p] :
       /\ slot' = [slot EXCEPT ![k] = [state |-> "held", period |-> p, amount |-> amount]]
       /\ remaining' = [remaining EXCEPT ![p] = @ - amount]

\* claim_settlement, and refund_budget of what is not charged
Settle(k) ==
  /\ slot[k].state = "held"
  /\ \E charge \in 0 .. slot[k].amount :
       /\ slot' = [slot EXCEPT ![k] = [state  |-> "settled",
                                       period |-> slot[k].period,
                                       amount |-> charge]]
       /\ remaining' = [remaining EXCEPT ![slot[k].period] = @ + slot[k].amount - charge]

Next == \E k \in Keys : Settle(k) \/ \E p \in Periods : Hold(k, p)

Spec == Init /\ [][Next]_ledgerVars

-----------------------------------------------------------------------------
\* What slot k takes out of period p.
Taken(k, p) ==
  IF slot[k].state # "free" /\ slot[k].period = p THEN slot[k].amount ELSE 0

\* No money of a period is created or lost: what remains and what its slots
\* hold or were charged add up to the allocation.
Conservation ==
  \A p \in Periods : remaining[p] + SumOf([k \in Keys |-> Taken(k, p)]) = Alloc[p]

\* A used slot stays with its period and is never held again; a settled one
\* never changes (claim_settlement is a one-way door).
OneWaySlots ==
  [][\A k \in Keys :
       slot[k].state # "free" =>
         \/ slot'[k] = slot[k]
         \/ /\ slot[k].state = "held"
            /\ slot'[k].state = "settled"
            /\ slot'[k].period = slot[k].period
            /\ slot'[k].amount <= slot[k].amount]_ledgerVars
=============================================================================
