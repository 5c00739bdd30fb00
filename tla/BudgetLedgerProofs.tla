------------------------- MODULE BudgetLedgerProofs -------------------------
(***************************************************************************)
(* Proofs about the abstract ledger, for any finite set of keys, any set   *)
(* of periods and any allocations.                                         *)
(***************************************************************************)
EXTENDS BudgetLedger, FiniteSumTheorems, TLAPS

\* What all slots take out of period p.
TakenFrom(p) == [k \in Keys |-> Taken(k, p)]

LEMMA LedgerTypeInit == LedgerAssumption /\ Init => TypeOK
BY DEF LedgerAssumption, Init, TypeOK, FreeSlots

LEMMA LedgerTypeStep == TypeOK /\ [Next]_ledgerVars => TypeOK'
<1>. SUFFICES ASSUME TypeOK, [Next]_ledgerVars PROVE TypeOK'
  OBVIOUS
<1>1. ASSUME NEW k \in Keys, NEW p \in Periods, Hold(k, p) PROVE TypeOK'
  <2>1. PICK amount \in 0 .. remaining[p] :
          /\ slot' = [slot EXCEPT ![k] = [state |-> "held", period |-> p, amount |-> amount]]
          /\ remaining' = [remaining EXCEPT ![p] = @ - amount]
    BY <1>1 DEF Hold
  <2>2. amount \in Nat /\ remaining[p] - amount \in Nat
    BY DEF TypeOK
  <2>. QED
    BY <2>1, <2>2 DEF TypeOK, UsedSlots
<1>2. ASSUME NEW k \in Keys, Settle(k) PROVE TypeOK'
  <2>1. PICK charge \in 0 .. slot[k].amount :
          /\ slot' = [slot EXCEPT ![k] = [state |-> "settled",
                                          period |-> slot[k].period,
                                          amount |-> charge]]
          /\ remaining' = [remaining EXCEPT
                             ![slot[k].period] = @ + slot[k].amount - charge]
    BY <1>2 DEF Settle
  <2>2. slot[k] \in UsedSlots
    BY <1>2 DEF Settle, TypeOK, FreeSlots
  <2>3. /\ slot[k].period \in Periods
        /\ slot[k].amount \in Nat
        /\ charge \in Nat
        /\ slot[k].amount - charge \in Nat
    BY <2>2 DEF UsedSlots
  <2>4. remaining' \in [Periods -> Nat]
    BY <2>1, <2>3 DEF TypeOK
  <2>. QED
    BY <2>1, <2>3, <2>4 DEF TypeOK, UsedSlots
<1>3. CASE UNCHANGED ledgerVars
  BY <1>3 DEF TypeOK, ledgerVars
<1>. QED
  BY <1>1, <1>2, <1>3 DEF Next

\* Types of the ledger: in particular no period is ever overdrawn.
THEOREM LedgerTypeSafe == ASSUME LedgerAssumption PROVE Spec => []TypeOK
BY LedgerTypeInit, LedgerTypeStep, PTL DEF Spec

-----------------------------------------------------------------------------
LEMMA TakenType ==
  ASSUME TypeOK, NEW p \in Periods
  PROVE  TakenFrom(p) \in [Keys -> Nat]
<1>1. ASSUME NEW k \in Keys PROVE Taken(k, p) \in Nat
  <2>1. CASE slot[k].state = "free"
    BY <2>1 DEF Taken
  <2>2. CASE slot[k].state # "free"
    <3>1. slot[k] \in UsedSlots
      BY <2>2 DEF TypeOK, FreeSlots
    <3>. QED
      BY <3>1 DEF Taken, UsedSlots
  <2>. QED
    BY <2>1, <2>2
<1>. QED
  BY <1>1 DEF TakenFrom

\* A step that changes one slot moves the same amount out of (into) the
\* slot's period as into (out of) the slot.
LEMMA Transfer ==
  ASSUME LedgerAssumption, TypeOK, TypeOK', NEW k \in Keys, NEW p \in Periods,
         \A j \in Keys \ {k} : slot'[j] = slot[j],
         remaining'[p] + Taken(k, p)' = remaining[p] + Taken(k, p),
         remaining[p] + SumOf(TakenFrom(p)) = Alloc[p]
  PROVE  remaining'[p] + SumOf(TakenFrom(p)') = Alloc[p]
<1>1. TakenFrom(p) \in [Keys -> Nat] /\ TakenFrom(p)' \in [Keys -> Nat]
  <2>1. TakenFrom(p) \in [Keys -> Nat]
    BY TakenType
  <2>2. TakenFrom(p)' \in [Keys -> Nat]
    <3>1. ASSUME NEW j \in Keys PROVE Taken(j, p)' \in Nat
      <4>1. CASE slot'[j].state = "free"
        BY <4>1 DEF Taken
      <4>2. CASE slot'[j].state # "free"
        <5>1. slot'[j] \in UsedSlots
          BY <4>2 DEF TypeOK, FreeSlots
        <5>. QED
          BY <5>1 DEF Taken, UsedSlots
      <4>. QED
        BY <4>1, <4>2
    <3>. QED
      BY <3>1 DEF TakenFrom
  <2>. QED
    BY <2>1, <2>2
<1>2. TakenFrom(p)' = [TakenFrom(p) EXCEPT ![k] = Taken(k, p)']
  <2>1. ASSUME NEW j \in Keys, j # k PROVE Taken(j, p)' = Taken(j, p)
    BY <2>1 DEF Taken
  <2>. QED
    BY <2>1 DEF TakenFrom
<1>3. Taken(k, p) = TakenFrom(p)[k] /\ Taken(k, p)' = TakenFrom(p)'[k]
  BY DEF TakenFrom
<1>4. SumOf(TakenFrom(p)') = SumOf(TakenFrom(p)) - Taken(k, p) + Taken(k, p)'
  <2>. DEFINE f == TakenFrom(p)
              v == Taken(k, p)'
  <2>1. f \in [Keys -> Int] /\ v \in Int /\ IsFiniteSet(Keys)
    BY <1>1, <1>3 DEF LedgerAssumption
  <2>2. f[k] = Taken(k, p)
    BY <1>3
  <2>. HIDE DEF f, v
  <2>3. SumOf([f EXCEPT ![k] = v]) = SumOf(f) - f[k] + v
    BY <2>1, SumUpdate
  <2>. QED
    BY <1>2, <2>2, <2>3 DEF f, v
<1>5. SumOf(TakenFrom(p)) \in Int
  <2>. DEFINE f == TakenFrom(p)
  <2>1. f \in [Keys -> Int]
    BY <1>1
  <2>. HIDE DEF f
  <2>2. SumOf(f) \in Int
    BY <2>1, SumInt DEF LedgerAssumption
  <2>. QED
    BY <2>2 DEF f
<1>6. Taken(k, p) \in Nat /\ Taken(k, p)' \in Nat
  BY <1>1, <1>3
<1>7. remaining[p] \in Nat /\ remaining'[p] \in Nat
  BY DEF TypeOK
<1>. QED
  BY <1>4, <1>5, <1>6, <1>7

LEMMA ConservationInit == LedgerAssumption /\ Init => Conservation
<1>. SUFFICES ASSUME LedgerAssumption, Init, NEW p \in Periods
              PROVE  remaining[p] + SumOf(TakenFrom(p)) = Alloc[p]
  BY DEF Conservation, TakenFrom
<1>1. TakenFrom(p) = [k \in Keys |-> 0]
  BY DEF TakenFrom, Taken, Init
<1>2. SumOf([k \in Keys |-> 0]) = 0
  BY SumOfZeros DEF LedgerAssumption
<1>. QED
  BY <1>1, <1>2 DEF LedgerAssumption, Init

LEMMA ConservationStep ==
  LedgerAssumption /\ TypeOK /\ Conservation /\ [Next]_ledgerVars => Conservation'
<1>. SUFFICES ASSUME LedgerAssumption, TypeOK, Conservation, [Next]_ledgerVars, NEW p \in Periods
              PROVE  remaining'[p] + SumOf(TakenFrom(p)') = Alloc[p]
  BY DEF Conservation, TakenFrom
<1>1. TypeOK'
  BY LedgerTypeStep
<1>2. remaining[p] + SumOf(TakenFrom(p)) = Alloc[p]
  BY DEF Conservation, TakenFrom
<1>3. ASSUME NEW k \in Keys, NEW q \in Periods, Hold(k, q)
      PROVE  remaining'[p] + SumOf(TakenFrom(p)') = Alloc[p]
  <2>1. PICK amount \in 0 .. remaining[q] :
          /\ slot' = [slot EXCEPT ![k] = [state |-> "held", period |-> q, amount |-> amount]]
          /\ remaining' = [remaining EXCEPT ![q] = @ - amount]
    BY <1>3 DEF Hold
  <2>2. \A j \in Keys \ {k} : slot'[j] = slot[j]
    BY <2>1 DEF TypeOK
  <2>3. slot'[k] = [state |-> "held", period |-> q, amount |-> amount]
    BY <2>1 DEF TypeOK
  <2>4. Taken(k, p) = 0
    BY <1>3 DEF Hold, Taken
  <2>5. Taken(k, p)' = IF p = q THEN amount ELSE 0
    BY <2>3 DEF Taken
  <2>6. remaining'[p] = IF p = q THEN remaining[p] - amount ELSE remaining[p]
    BY <2>1 DEF TypeOK
  <2>7. remaining'[p] + Taken(k, p)' = remaining[p] + Taken(k, p)
    BY <2>4, <2>5, <2>6 DEF TypeOK
  <2>. QED
    BY <1>1, <1>2, <2>2, <2>7, Transfer
<1>4. ASSUME NEW k \in Keys, Settle(k)
      PROVE  remaining'[p] + SumOf(TakenFrom(p)') = Alloc[p]
  <2>1. PICK charge \in 0 .. slot[k].amount :
          /\ slot' = [slot EXCEPT ![k] = [state |-> "settled",
                                          period |-> slot[k].period,
                                          amount |-> charge]]
          /\ remaining' = [remaining EXCEPT
                             ![slot[k].period] = @ + slot[k].amount - charge]
    BY <1>4 DEF Settle
  <2>2. \A j \in Keys \ {k} : slot'[j] = slot[j]
    BY <2>1 DEF TypeOK
  <2>3. slot'[k] = [state |-> "settled", period |-> slot[k].period, amount |-> charge]
    BY <2>1 DEF TypeOK
  <2>4. slot[k] \in UsedSlots
    BY <1>4 DEF Settle, TypeOK, FreeSlots
  <2>5. Taken(k, p) = IF slot[k].period = p THEN slot[k].amount ELSE 0
    BY <1>4 DEF Settle, Taken
  <2>6. Taken(k, p)' = IF slot[k].period = p THEN charge ELSE 0
    BY <2>3 DEF Taken
  <2>7. remaining'[p] = IF slot[k].period = p
                        THEN remaining[p] + slot[k].amount - charge
                        ELSE remaining[p]
    BY <2>1 DEF TypeOK
  <2>8. remaining'[p] + Taken(k, p)' = remaining[p] + Taken(k, p)
    BY <2>4, <2>5, <2>6, <2>7 DEF TypeOK, UsedSlots
  <2>. QED
    BY <1>1, <1>2, <2>2, <2>8, Transfer
<1>5. CASE UNCHANGED ledgerVars
  BY <1>2, <1>5 DEF ledgerVars, TakenFrom, Taken
<1>. QED
  BY <1>3, <1>4, <1>5 DEF Next

\* What remains of a period plus what its slots hold or were charged is
\* always its allocation (reserve_budget and refund_budget in budget.py).
THEOREM LedgerConserves == ASSUME LedgerAssumption PROVE Spec => []Conservation
BY ConservationInit, ConservationStep, LedgerTypeSafe, PTL DEF Spec

\* What a slot holds or was charged, and what remains of its period, fit into the
\* allocation: a hold can always be given back in full (the WHERE clause of
\* refund_budget), and charges never exceed what was allocated.
THEOREM LedgerNeverOverspends ==
  ASSUME LedgerAssumption, TypeOK, Conservation, NEW k \in Keys, NEW p \in Periods
  PROVE  remaining[p] + Taken(k, p) <= Alloc[p]
<1>. DEFINE f == TakenFrom(p)
<1>1. f \in [Keys -> Nat] /\ f[k] = Taken(k, p)
  BY TakenType DEF TakenFrom
<1>2. remaining[p] + SumOf(f) = Alloc[p]
  BY DEF Conservation, TakenFrom
<1>. HIDE DEF f
<1>3. f[k] <= SumOf(f) /\ SumOf(f) \in Int
  BY <1>1, SumBoundsTerm, SumInt DEF LedgerAssumption
<1>. QED
  BY <1>1, <1>2, <1>3 DEF LedgerAssumption, TypeOK

\* Slots only move forward, free to held to settled, in the same period and
\* without growing.
THEOREM LedgerOneWay == ASSUME LedgerAssumption PROVE Spec => OneWaySlots
<1>. DEFINE Step == \A k \in Keys :
                      slot[k].state # "free" =>
                        \/ slot'[k] = slot[k]
                        \/ /\ slot[k].state = "held"
                           /\ slot'[k].state = "settled"
                           /\ slot'[k].period = slot[k].period
                           /\ slot'[k].amount <= slot[k].amount
<1>1. TypeOK /\ [Next]_ledgerVars => [Step]_ledgerVars
  <2>. SUFFICES ASSUME TypeOK, Next, NEW j \in Keys, slot[j].state # "free",
                       slot'[j] # slot[j]
                PROVE  /\ slot[j].state = "held"
                       /\ slot'[j].state = "settled"
                       /\ slot'[j].period = slot[j].period
                       /\ slot'[j].amount <= slot[j].amount
    OBVIOUS
  <2>1. \A k \in Keys, p \in Periods : ~Hold(k, p)
    BY DEF Hold, TypeOK
  <2>2. Settle(j)
    BY <2>1 DEF Next, Settle, TypeOK
  <2>3. slot[j] \in UsedSlots
    BY DEF TypeOK, FreeSlots
  <2>4. PICK charge \in 0 .. slot[j].amount :
          slot'[j] = [state |-> "settled", period |-> slot[j].period, amount |-> charge]
    BY <2>2 DEF Settle, TypeOK
  <2>. QED
    BY <2>2, <2>3, <2>4 DEF Settle, UsedSlots
<1>. QED
  BY <1>1, LedgerTypeSafe, PTL DEF Spec, OneWaySlots
=============================================================================
