------------------------- MODULE ChatGatewayProofs -------------------------
(***************************************************************************)
(* Proofs about the gateway, for any number of requests, any finite set of *)
(* keys, any budget periods, allocations, costs and retry limits.          *)
(***************************************************************************)
EXTENDS ChatGateway, TLAPS

\* What a committed settlement writes.
SettlementCommits(r) ==
  /\ row[KeyOf(r)].status = "pending"
  /\ row' = [row EXCEPT ![KeyOf(r)].status =
               IF verdict[r] = "completed" THEN "completed" ELSE "failed"]
  /\ remaining' = [remaining EXCEPT ![row[KeyOf(r)].period] =
                     @ + Refund(row[KeyOf(r)].reserved, cost[r])]
  /\ usage' = [usage EXCEPT ![KeyOf(r)] = @ \cup
                 {[status |-> IF verdict[r] = "completed" THEN "succeeded" ELSE "failed",
                   cost |-> cost[r], by |-> r]}]

\* A settlement step commits or leaves the database alone.
LEMMA SettleRowCases ==
  ASSUME NEW r \in Requests, SettleRow(r)
  PROVE  SettlementCommits(r) \/ UNCHANGED database
BY DEF SettleRow, SettlementCommits, RefundPeriod

LEMMA TypeInit == Init => TypeOK
BY GatewayAssumption DEF Init, TypeOK, Rows, NoRow, Statuses, Locations, Answers, ClientAnswers

LEMMA AnswerTypes ==
  ASSUME TypeOK, NEW r \in Requests
  PROVE  /\ AnswerFromRow(r) \in ClientAnswers
         /\ StoredAnswer(r) \in ClientAnswers
         /\ VerdictAnswer(r) \in ClientAnswers
<1>1. row[KeyOf(r)].id \in Requests \cup {None}
  BY DEF TypeOK, Rows, KeyOf
<1>. QED
  BY <1>1 DEF AnswerFromRow, StoredAnswer, VerdictAnswer, Tell, Answers, ClientAnswers

LEMMA FinishTypes ==
  ASSUME TypeOK, NEW r \in Requests, NEW a \in ClientAnswers, Finish(r, a)
  PROVE  /\ pc' \in [Requests -> Locations]
         /\ answer' \in [Requests -> ClientAnswers]
BY DEF TypeOK, Finish, GoTo, Locations

LEMMA TellTypes ==
  ASSUME NEW kind \in Answers
  PROVE  Tell(kind) \in ClientAnswers
BY DEF Tell, ClientAnswers

LEMMA SettleAnswerTypes ==
  ASSUME TypeOK, NEW r \in Requests, SettleRow(r)
  PROVE  /\ pc' \in [Requests -> Locations]
         /\ answer' \in [Requests -> ClientAnswers]
<1>1. \E a \in ClientAnswers : Finish(r, a)
  <2>1. Tell("unresolved") \in ClientAnswers
    BY TellTypes DEF Answers
  <2>. QED
    BY <2>1, AnswerTypes DEF SettleRow
<1>. QED
  BY <1>1, FinishTypes

LEMMA TypeStep == TypeOK /\ [Next]_vars => TypeOK'
<1>. SUFFICES ASSUME TypeOK, [Next]_vars PROVE TypeOK'
  OBVIOUS
<1>. USE DEF database, clock, handler
<1>1. ASSUME NEW r \in Requests, Arrive(r) PROVE TypeOK'
  BY <1>1 DEF TypeOK, Arrive, GoTo, Locations
<1>2. ASSUME NEW r \in Requests, ReplayLookup(r) PROVE TypeOK'
  <2>1. CASE row[KeyOf(r)].status = "absent"
    BY <1>2, <2>1 DEF TypeOK, ReplayLookup, GoTo, Locations
  <2>2. CASE row[KeyOf(r)].status # "absent"
    BY <1>2, <2>2, AnswerTypes, FinishTypes DEF TypeOK, ReplayLookup
  <2>. QED
    BY <2>1, <2>2
<1>3. ASSUME NEW r \in Requests, Refuse(r) PROVE TypeOK'
  BY <1>3 DEF TypeOK, Refuse, Finish, GoTo, Locations, Tell, Answers, ClientAnswers
<1>4. ASSUME NEW r \in Requests, Admit(r) PROVE TypeOK'
  <2>1. Quotes \subseteq Nat
    BY GatewayAssumption
  <2>. QED
    BY <1>4, <2>1 DEF TypeOK, Admit, GoTo, Locations
<1>5. ASSUME NEW r \in Requests, ReserveWithoutPeriod(r) PROVE TypeOK'
  BY <1>5 DEF TypeOK, ReserveWithoutPeriod, Finish, GoTo, Locations, Tell, Answers, ClientAnswers
<1>6. ASSUME NEW r \in Requests, ReserveDuplicate(r) PROVE TypeOK'
  BY <1>6, AnswerTypes, FinishTypes DEF TypeOK, ReserveDuplicate
<1>7. ASSUME NEW r \in Requests, ReserveTooLittle(r) PROVE TypeOK'
  BY <1>7 DEF TypeOK, ReserveTooLittle, Finish, GoTo, Locations, Tell, Answers, ClientAnswers
<1>8. ASSUME NEW r \in Requests, ReserveAcquire(r) PROVE TypeOK'
  <2>1. row' \in [Keys -> Rows]
    <3>1. [status |-> "pending", hash |-> req[r].hash, id |-> r,
           reserved |-> quote[r], period |-> period] \in Rows
      BY <1>8, GatewayAssumption DEF TypeOK, ReserveAcquire, Rows, Statuses, Periods
    <3>. QED
      BY <1>8, <3>1 DEF TypeOK, ReserveAcquire, KeyOf
  <2>2. remaining' \in [Periods -> Nat]
    BY <1>8 DEF TypeOK, ReserveAcquire, CanReserve
  <2>3. pc' \in [Requests -> Locations]
    BY <1>8 DEF TypeOK, ReserveAcquire, GoTo, Finish, Locations
  <2>4. answer' \in [Requests -> ClientAnswers]
    <3>1. Tell("server_error") \in ClientAnswers
      BY TellTypes DEF Answers
    <3>. QED
      BY <1>8, <3>1, FinishTypes DEF TypeOK, ReserveAcquire
  <2>. QED
    BY <1>8, <2>1, <2>2, <2>3, <2>4 DEF TypeOK, ReserveAcquire
<1>9. ASSUME NEW r \in Requests, ReserveFails(r) PROVE TypeOK'
  BY <1>9 DEF TypeOK, ReserveFails, Finish, GoTo, Locations, Tell, Answers, ClientAnswers
<1>10. ASSUME NEW r \in Requests, CircuitOpen(r) PROVE TypeOK'
  BY <1>10 DEF TypeOK, CircuitOpen, AskToSettle, GoTo, Locations
<1>11. ASSUME NEW r \in Requests, CallProvider(r) PROVE TypeOK'
  <2>1. tries' \in [Requests -> 0 .. MaxAttempts]
    BY <1>11, GatewayAssumption DEF TypeOK, CallProvider
  <2>. QED
    BY <1>11, <2>1 DEF TypeOK, CallProvider, GoTo, Locations, KeyOf
<1>12. ASSUME NEW r \in Requests, ProviderRetry(r) PROVE TypeOK'
  BY <1>12 DEF TypeOK, ProviderRetry, GoTo, Locations
<1>13. ASSUME NEW r \in Requests, ProviderGivesUp(r) PROVE TypeOK'
  BY <1>13 DEF TypeOK, ProviderGivesUp, AskToSettle, GoTo, Locations
<1>14. ASSUME NEW r \in Requests, ProviderRaises(r) PROVE TypeOK'
  BY <1>14 DEF TypeOK, ProviderRaises, AskToSettle, GoTo, Locations
<1>15. ASSUME NEW r \in Requests, ProviderAnswers(r) PROVE TypeOK'
  <2>1. ASSUME NEW c \in ActualCosts, NEW how \in {"completed", "internal"},
               AskToSettle(r, how, c) \/ AskToSettle(r, how, 0)
        PROVE  /\ pc' \in [Requests -> Locations]
               /\ verdict' \in [Requests -> {"none", "completed", "exhausted", "internal"}]
               /\ cost' \in [Requests -> Nat]
    <3>1. c \in Nat /\ 0 \in Nat
      BY GatewayAssumption
    <3>2. pc' \in [Requests -> Locations]
      BY <2>1 DEF TypeOK, AskToSettle, GoTo, Locations
    <3>3. verdict' \in [Requests -> {"none", "completed", "exhausted", "internal"}]
      BY <2>1 DEF TypeOK, AskToSettle
    <3>4. cost' \in [Requests -> Nat]
      BY <2>1, <3>1 DEF TypeOK, AskToSettle
    <3>. QED
      BY <3>2, <3>3, <3>4
  <2>. QED
    BY <1>15, <2>1 DEF TypeOK, ProviderAnswers
<1>16. ASSUME NEW r \in Requests, SettleRow(r) PROVE TypeOK'
  <2>1. KeyOf(r) \in Keys /\ row[KeyOf(r)].reserved \in Nat
    BY DEF TypeOK, KeyOf, Rows
  <2>2. CASE SettlementCommits(r)
    <3>1. row' \in [Keys -> Rows]
      <4>1. PICK s \in Statuses : row' = [row EXCEPT ![KeyOf(r)].status = s]
        <5>1. CASE verdict[r] = "completed"
          BY <2>2, <5>1 DEF SettlementCommits, Statuses
        <5>2. CASE verdict[r] # "completed"
          BY <2>2, <5>2 DEF SettlementCommits, Statuses
        <5>. QED
          BY <5>1, <5>2
      <4>2. [row[KeyOf(r)] EXCEPT !.status = s] \in Rows
        <5>1. row[KeyOf(r)] \in Rows
          BY <2>1 DEF TypeOK
        <5>. QED
          BY <5>1 DEF Rows
      <4>. QED
        BY <2>1, <4>1, <4>2 DEF TypeOK
    <3>2. remaining' \in [Periods -> Nat]
      <4>. DEFINE refund == Refund(row[KeyOf(r)].reserved, cost[r])
      <4>1. refund \in Nat
        BY <2>1 DEF TypeOK, Refund
      <4>2. remaining' = [remaining EXCEPT ![row[KeyOf(r)].period] = @ + refund]
        BY <2>2 DEF SettlementCommits
      <4>. HIDE DEF refund
      <4>. QED
        <5>1. \A p \in Periods : remaining[p] + refund \in Nat
          BY <4>1 DEF TypeOK
        <5>2. remaining \in [Periods -> Nat]
          BY DEF TypeOK
        <5>. QED
          BY <4>2, <5>1, <5>2
    <3>3. usage' \in [Keys -> SUBSET UsageRecords]
      BY <2>1, <2>2 DEF TypeOK, SettlementCommits, UsageRecords
    <3>. QED
      BY <1>16, <3>1, <3>2, <3>3, SettleAnswerTypes DEF TypeOK, SettleRow
  <2>3. CASE UNCHANGED database
    BY <1>16, <2>3, SettleAnswerTypes DEF TypeOK, SettleRow
  <2>. QED
    BY <1>16, <2>2, <2>3, SettleRowCases
<1>17. ASSUME NEW r \in Requests, SettleFails(r) PROVE TypeOK'
  BY <1>17 DEF TypeOK, SettleFails, Finish, GoTo, Locations, Tell, Answers, ClientAnswers
<1>18. ASSUME NEW r \in Requests, Cancel(r) PROVE TypeOK'
  BY <1>18 DEF TypeOK, Cancel, Locations
<1>19. ASSUME NEW r \in Requests, Crash(r) PROVE TypeOK'
  BY <1>19 DEF TypeOK, Crash, Locations
<1>20. ASSUME NEW k \in Keys, ExpireLease(k) PROVE TypeOK'
  BY <1>20 DEF TypeOK, ExpireLease
<1>21. CASE RollPeriod
  BY <1>21, GatewayAssumption DEF TypeOK, RollPeriod, Periods
<1>22. CASE UNCHANGED vars
  BY <1>22 DEF TypeOK, vars
<1>. QED
  BY <1>1, <1>2, <1>3, <1>4, <1>5, <1>6, <1>7, <1>8, <1>9, <1>10, <1>11, <1>12, <1>13,
     <1>14, <1>15, <1>16, <1>17, <1>18, <1>19, <1>20, <1>21, <1>22
  DEF Next, Handle

\* Types of the gateway: in particular reserve_budget never overdraws a period,
\* whatever requests race for it.
THEOREM GatewayTypeSafe == Spec => []TypeOK
BY TypeInit, TypeStep, PTL DEF Spec

-----------------------------------------------------------------------------
(***************************************************************************)
(* The inductive invariant.  OwnerHoldsReservation is not inductive alone: *)
(* it needs that a row belongs to the request that inserted it, that such  *)
(* a request is past its reservation for good, and that a key without a    *)
(* row has no trace of an execution.                                       *)
(***************************************************************************)

\* Locations before the reservation.
Early == {"idle", "lookup", "admit", "reserve"}

RowBelongsTo(k, r) ==
  /\ r \in Requests
  /\ KeyOf(r) = k
  /\ row[k].hash = req[r].hash
  /\ row[k].reserved = quote[r]
  /\ row[k].period \in Periods
  /\ pc[r] \notin Early

RowsBelong == \A k \in Keys : row[k].status # "absent" => RowBelongsTo(k, row[k].id)

AbsentRows ==
  \A k \in Keys : row[k].status = "absent" => row[k].id = None /\ usage[k] = {}

CalledByOwner == \A k \in Keys : callers[k] \subseteq {row[k].id}

\* Only a settlement that costs nothing is reported as free of charge.
ExhaustedIsFree ==
  \A r \in Requests : pc[r] = "settle" /\ verdict[r] = "exhausted" => cost[r] = 0

AnsweredIsOver == \A r \in Requests : answer[r].kind # "none" => pc[r] = "done"

GatewayInv ==
  /\ TypeOK
  /\ RowsBelong
  /\ AbsentRows
  /\ CalledByOwner
  /\ ExhaustedIsFree
  /\ AnsweredIsOver
  /\ OwnerHoldsReservation
  /\ SettledOnce
  /\ ReplayFaithful
  /\ HonestAnswers
  /\ LeakOnlyByFault

-----------------------------------------------------------------------------
(***************************************************************************)
(* Every step is quiet (it writes nothing but the list of callers, and     *)
(* moves each request in one of a few ways), commits a reservation or      *)
(* commits a settlement.                                                   *)
(***************************************************************************)

Untouched(r) ==
  /\ pc'[r] = pc[r] /\ answer'[r] = answer[r] /\ quote'[r] = quote[r]
  /\ verdict'[r] = verdict[r] /\ cost'[r] = cost[r]

EarlyMove(r) ==
  /\ pc[r] \in Early
  /\ pc'[r] \in Early \cup {"gone"}
  /\ answer'[r] = answer[r]

EarlyAnswer(r) ==
  /\ pc[r] \in Early
  /\ pc'[r] = "done"
  /\ \/ answer'[r] \in {Tell("refused"), Tell("no_budget"), Tell("server_error")}
     \/ row[KeyOf(r)].status # "absent" /\ answer'[r] = AnswerFromRow(r)

OwnerMove(r) ==
  /\ pc[r] \in Owning
  /\ quote'[r] = quote[r]
  /\ \/ /\ pc'[r] \in Owning
        /\ pc'[r] = "settle" /\ verdict'[r] = "exhausted" => cost'[r] = 0
        /\ answer'[r] = answer[r]
     \/ pc'[r] = "gone" /\ answer'[r] = answer[r]
     \/ pc'[r] = "done" /\ answer'[r] = Tell("unresolved")

QuietMove(r) == Untouched(r) \/ EarlyMove(r) \/ EarlyAnswer(r) \/ OwnerMove(r)

QuietStep ==
  /\ UNCHANGED <<row, usage, remaining, req>>
  /\ \/ UNCHANGED callers
     \/ \E r \in Requests :
          /\ pc[r] \in Owning
          /\ callers' = [callers EXCEPT ![KeyOf(r)] = @ \cup {r}]
  /\ \A r \in Requests : QuietMove(r)

LEMMA FinishEarly ==
  ASSUME TypeOK, NEW r \in Requests, NEW a, pc[r] \in Early, Finish(r, a),
         UNCHANGED <<quote, verdict, cost>>,
         \/ a \in {Tell("refused"), Tell("no_budget"), Tell("server_error")}
         \/ row[KeyOf(r)].status # "absent" /\ a = AnswerFromRow(r)
  PROVE  \A s \in Requests : QuietMove(s)
<1>1. \A s \in Requests \ {r} : Untouched(s)
  BY DEF TypeOK, Finish, GoTo, Untouched
<1>2. CASE r \in cancelled
  <2>1. EarlyMove(r)
    BY <1>2 DEF TypeOK, Finish, GoTo, EarlyMove
  <2>. QED
    BY <1>1, <2>1 DEF QuietMove
<1>3. CASE r \notin cancelled
  <2>1. pc'[r] = "done" /\ answer'[r] = a
    BY <1>3 DEF TypeOK, Finish, GoTo
  <2>2. EarlyAnswer(r)
    BY <2>1 DEF EarlyAnswer
  <2>. QED
    BY <1>1, <2>2 DEF QuietMove
<1>. QED
  BY <1>2, <1>3

LEMMA FinishUnresolved ==
  ASSUME TypeOK, NEW r \in Requests, pc[r] \in Owning, Finish(r, Tell("unresolved")),
         UNCHANGED <<quote, verdict, cost>>
  PROVE  \A s \in Requests : QuietMove(s)
<1>1. \A s \in Requests \ {r} : Untouched(s)
  BY DEF TypeOK, Finish, GoTo, Untouched
<1>2. OwnerMove(r)
  BY DEF TypeOK, Finish, GoTo, OwnerMove
<1>. QED
  BY <1>1, <1>2 DEF QuietMove

LEMMA SettlementAsked ==
  ASSUME TypeOK, NEW r \in Requests, NEW how, NEW c, pc[r] \in Owning,
         AskToSettle(r, how, c), how = "exhausted" => c = 0, UNCHANGED <<quote, answer>>
  PROVE  \A s \in Requests : QuietMove(s)
<1>1. \A s \in Requests \ {r} : Untouched(s)
  BY DEF TypeOK, AskToSettle, GoTo, Untouched
<1>2. OwnerMove(r)
  BY DEF TypeOK, AskToSettle, GoTo, OwnerMove, Owning
<1>. QED
  BY <1>1, <1>2 DEF QuietMove

LEMMA StepCases ==
  ASSUME TypeOK, OwnerHoldsReservation, [Next]_vars
  PROVE  \/ QuietStep
         \/ \E r \in Requests : ReserveAcquire(r)
         \/ \E r \in Requests : SettleRow(r) /\ SettlementCommits(r)
<1>. USE DEF database, clock, handler, Early, Owning
<1>1. ASSUME NEW r \in Requests, Arrive(r) PROVE QuietStep
  BY <1>1 DEF TypeOK, Arrive, GoTo, QuietStep, QuietMove, Untouched, EarlyMove
<1>2. ASSUME NEW r \in Requests, ReplayLookup(r) PROVE QuietStep
  <2>1. CASE row[KeyOf(r)].status = "absent"
    BY <1>2, <2>1 DEF TypeOK, ReplayLookup, GoTo, QuietStep, QuietMove, Untouched, EarlyMove
  <2>2. CASE row[KeyOf(r)].status # "absent"
    BY <1>2, <2>2, FinishEarly DEF ReplayLookup, QuietStep
  <2>. QED
    BY <2>1, <2>2
<1>3. ASSUME NEW r \in Requests, Refuse(r) PROVE QuietStep
  BY <1>3, FinishEarly DEF Refuse, QuietStep
<1>4. ASSUME NEW r \in Requests, Admit(r) PROVE QuietStep
  BY <1>4 DEF TypeOK, Admit, GoTo, QuietStep, QuietMove, Untouched, EarlyMove
<1>5. ASSUME NEW r \in Requests, ReserveWithoutPeriod(r) PROVE QuietStep
  BY <1>5, FinishEarly DEF ReserveWithoutPeriod, QuietStep
<1>6. ASSUME NEW r \in Requests, ReserveDuplicate(r) PROVE QuietStep
  BY <1>6, FinishEarly DEF ReserveDuplicate, KeyIsFree, QuietStep
<1>7. ASSUME NEW r \in Requests, ReserveTooLittle(r) PROVE QuietStep
  BY <1>7, FinishEarly DEF ReserveTooLittle, QuietStep
<1>8. ASSUME NEW r \in Requests, ReserveFails(r) PROVE QuietStep
  BY <1>8, FinishEarly DEF ReserveFails, QuietStep
<1>9. ASSUME NEW r \in Requests, CircuitOpen(r) PROVE QuietStep
  BY <1>9, SettlementAsked DEF CircuitOpen, QuietStep
<1>10. ASSUME NEW r \in Requests, CallProvider(r) PROVE QuietStep
  BY <1>10 DEF TypeOK, CallProvider, GoTo, QuietStep, QuietMove, Untouched, OwnerMove
<1>11. ASSUME NEW r \in Requests, ProviderRetry(r) PROVE QuietStep
  BY <1>11 DEF TypeOK, ProviderRetry, GoTo, QuietStep, QuietMove, Untouched, OwnerMove
<1>12. ASSUME NEW r \in Requests, ProviderGivesUp(r) PROVE QuietStep
  BY <1>12, SettlementAsked DEF ProviderGivesUp, QuietStep
<1>13. ASSUME NEW r \in Requests, ProviderRaises(r) PROVE QuietStep
  BY <1>13, SettlementAsked DEF ProviderRaises, QuietStep
<1>14. ASSUME NEW r \in Requests, ProviderAnswers(r) PROVE QuietStep
  <2>1. PICK c \in ActualCosts \cup {0}, how \in {"completed", "internal"} :
          AskToSettle(r, how, c)
    BY <1>14 DEF ProviderAnswers
  <2>. QED
    BY <1>14, <2>1, SettlementAsked DEF ProviderAnswers, QuietStep
<1>15. ASSUME NEW r \in Requests, SettleRow(r), ~SettlementCommits(r) PROVE QuietStep
  <2>1. row[KeyOf(r)].status = "pending"
    BY <1>15 DEF SettleRow, OwnerHoldsReservation
  <2>2. Finish(r, Tell("unresolved")) /\ UNCHANGED database
    BY <1>15, <2>1 DEF SettleRow, SettlementCommits, RefundPeriod
  <2>. QED
    BY <1>15, <2>2, FinishUnresolved DEF SettleRow, QuietStep
<1>16. ASSUME NEW r \in Requests, SettleFails(r) PROVE QuietStep
  BY <1>16, FinishUnresolved DEF SettleFails, QuietStep
<1>17. ASSUME NEW r \in Requests, Cancel(r) PROVE QuietStep
  BY <1>17 DEF TypeOK, Cancel, QuietStep, QuietMove, Untouched, EarlyMove, OwnerMove
<1>18. ASSUME NEW r \in Requests, Crash(r) PROVE QuietStep
  BY <1>18 DEF TypeOK, Crash, Locations, QuietStep, QuietMove, Untouched, EarlyMove, OwnerMove
<1>19. ASSUME NEW k \in Keys, ExpireLease(k) PROVE QuietStep
  BY <1>19 DEF ExpireLease, QuietStep, QuietMove, Untouched
<1>20. CASE RollPeriod
  BY <1>20 DEF RollPeriod, QuietStep, QuietMove, Untouched
<1>21. CASE UNCHANGED vars
  BY <1>21 DEF vars, QuietStep, QuietMove, Untouched
<1>. QED
  BY <1>1, <1>2, <1>3, <1>4, <1>5, <1>6, <1>7, <1>8, <1>9, <1>10, <1>11, <1>12, <1>13,
     <1>14, <1>15, <1>16, <1>17, <1>18, <1>19, <1>20, <1>21
  DEF Next, Handle

-----------------------------------------------------------------------------
LEMMA InvInit == Init => GatewayInv
<1>. SUFFICES ASSUME Init PROVE GatewayInv
  OBVIOUS
<1>1. TypeOK
  BY TypeInit
<1>2. RowsBelong /\ AbsentRows /\ CalledByOwner /\ SettledOnce
  BY DEF Init, NoRow, RowsBelong, RowBelongsTo, AbsentRows, CalledByOwner, SettledOnce, Settled
<1>3. ExhaustedIsFree /\ AnsweredIsOver /\ OwnerHoldsReservation
  BY DEF Init, ExhaustedIsFree, AnsweredIsOver, OwnerHoldsReservation, Owning
<1>4. ReplayFaithful /\ HonestAnswers
  BY DEF Init, ReplayFaithful, HonestAnswers
<1>5. LeakOnlyByFault
  BY DEF Init, NoRow, LeakOnlyByFault
<1>. QED
  BY <1>1, <1>2, <1>3, <1>4, <1>5 DEF GatewayInv

LEMMA ReplayFromRow ==
  ASSUME NEW r \in Requests, AnswerFromRow(r).kind \in {"success", "replay"}
  PROVE  /\ row[KeyOf(r)].status = "completed"
         /\ row[KeyOf(r)].id = AnswerFromRow(r).of
         /\ row[KeyOf(r)].hash = req[r].hash
<1>1. row[KeyOf(r)].hash = req[r].hash
  <2>. SUFFICES ASSUME row[KeyOf(r)].hash # req[r].hash PROVE FALSE
    OBVIOUS
  <2>1. AnswerFromRow(r) = Tell("conflict")
    BY DEF AnswerFromRow
  <2>. QED
    BY <2>1 DEF Tell
<1>2. row[KeyOf(r)].status = "completed"
  <2>. SUFFICES ASSUME row[KeyOf(r)].status # "completed" PROVE FALSE
    OBVIOUS
  <2>1. AnswerFromRow(r) \in {Tell("prior_failure"), Tell("expired"), Tell("in_progress")}
    BY <1>1 DEF AnswerFromRow
  <2>. QED
    BY <2>1 DEF Tell
<1>3. AnswerFromRow(r) = [kind |-> "replay", of |-> row[KeyOf(r)].id]
  BY <1>1, <1>2 DEF AnswerFromRow
<1>. QED
  BY <1>1, <1>2, <1>3

\* A quiet step writes no row, and moves an owner only in ways that keep its
\* reservation or leave it to a fault.
LEMMA QuietPreserves ==
  ASSUME GatewayInv, QuietStep, TypeOK'
  PROVE  GatewayInv'
<1>. USE DEF GatewayInv
<1>1. UNCHANGED <<row, usage, remaining, req>>
  BY DEF QuietStep
<1>2. \A r \in Requests : KeyOf(r)' = KeyOf(r)
  BY <1>1 DEF KeyOf
<1>3. \A r \in Requests : pc[r] \in Early => row[KeyOf(r)].id # r
  <2>. SUFFICES ASSUME NEW r \in Requests, pc[r] \in Early, row[KeyOf(r)].id = r PROVE FALSE
    OBVIOUS
  <2>1. KeyOf(r) \in Keys /\ r # None
    BY GatewayAssumption DEF TypeOK, KeyOf
  <2>2. CASE row[KeyOf(r)].status = "absent"
    BY <2>1, <2>2 DEF AbsentRows
  <2>3. CASE row[KeyOf(r)].status # "absent"
    BY <2>1, <2>3 DEF RowsBelong, RowBelongsTo
  <2>. QED
    BY <2>2, <2>3
<1>4. \A r \in Requests : QuietMove(r)
  BY DEF QuietStep
<1>5. RowsBelong'
  <2>. SUFFICES ASSUME NEW k \in Keys, row[k].status # "absent"
                PROVE  quote'[row[k].id] = quote[row[k].id] /\ pc'[row[k].id] \notin Early
    BY <1>1, <1>2 DEF RowsBelong, RowBelongsTo, KeyOf
  <2>. QED
    BY <1>4 DEF RowsBelong, RowBelongsTo, QuietMove, Untouched, EarlyMove, EarlyAnswer, OwnerMove, Early, Owning
<1>6. AbsentRows'
  BY <1>1 DEF AbsentRows
<1>7. CalledByOwner'
  <2>1. CASE UNCHANGED callers
    BY <1>1, <2>1 DEF CalledByOwner
  <2>2. ASSUME NEW r \in Requests, pc[r] \in Owning,
               callers' = [callers EXCEPT ![KeyOf(r)] = @ \cup {r}]
        PROVE  CalledByOwner'
    <3>1. row[KeyOf(r)].id = r
      BY <2>2 DEF OwnerHoldsReservation
    <3>. QED
      BY <1>1, <2>2, <3>1 DEF CalledByOwner, TypeOK
  <2>. QED
    BY <2>1, <2>2 DEF QuietStep
<1>8. ExhaustedIsFree'
  BY <1>4 DEF ExhaustedIsFree, QuietMove, Untouched, EarlyMove, EarlyAnswer, OwnerMove, Early
<1>9. AnsweredIsOver'
  BY <1>4 DEF AnsweredIsOver, QuietMove, Untouched, EarlyMove, EarlyAnswer, OwnerMove, Early, Owning
<1>10. OwnerHoldsReservation'
  BY <1>1, <1>2, <1>4 DEF OwnerHoldsReservation, QuietMove, Untouched, EarlyMove, EarlyAnswer,
                          OwnerMove, Early, Owning
<1>11. SettledOnce'
  BY <1>1 DEF SettledOnce
<1>12. ReplayFaithful'
  <2>. SUFFICES ASSUME NEW r \in Requests, answer'[r].kind \in {"success", "replay"}
                PROVE  /\ row[KeyOf(r)].status = "completed"
                       /\ row[KeyOf(r)].id = answer'[r].of
                       /\ row[KeyOf(r)].hash = req[r].hash
    BY <1>1, <1>2 DEF ReplayFaithful
  <2>1. CASE answer'[r] = answer[r]
    BY <2>1 DEF ReplayFaithful
  <2>2. CASE answer'[r] = AnswerFromRow(r)
    BY <2>2, ReplayFromRow
  <2>. QED
    BY <1>4, <2>1, <2>2 DEF QuietMove, Untouched, EarlyMove, EarlyAnswer, OwnerMove, Tell
<1>13. HonestAnswers'
  <2>. SUFFICES ASSUME NEW r \in Requests, answer'[r] # answer[r]
                PROVE  \/ answer'[r].kind # "not_charged" /\ pc[r] \in Early
                       \/ answer'[r] = Tell("unresolved")
    BY <1>1, <1>2, <1>3 DEF HonestAnswers, Charge, UsageOf, Tell
  <2>1. AnswerFromRow(r).kind # "not_charged"
    BY DEF AnswerFromRow, Tell
  <2>. QED
    BY <1>4, <2>1 DEF QuietMove, Untouched, EarlyMove, EarlyAnswer, OwnerMove, Tell
<1>14. LeakOnlyByFault'
  <2>. SUFFICES ASSUME NEW k \in Keys, row[k].status = "pending"
                PROVE  \/ pc'[row[k].id] \in Owning \cup {"gone"}
                       \/ answer'[row[k].id].kind \in {"unresolved", "server_error"}
    BY <1>1 DEF LeakOnlyByFault
  <2>1. row[k].id \in Requests /\ pc[row[k].id] \notin Early
    BY DEF RowsBelong, RowBelongsTo
  <2>. QED
    BY <1>4, <2>1 DEF LeakOnlyByFault, QuietMove, Untouched, EarlyMove, EarlyAnswer, OwnerMove, Tell
<1>. QED
  BY <1>5, <1>6, <1>7, <1>8, <1>9, <1>10, <1>11, <1>12, <1>13, <1>14

\* A committed reservation makes its request the owner of a key that had no row,
\* so no other request owned it or was answered from it.
LEMMA AcquirePreserves ==
  ASSUME GatewayInv, NEW r \in Requests, ReserveAcquire(r), TypeOK',
         NEW k \in Keys, k = KeyOf(r)
  PROVE  GatewayInv'
<1>. USE DEF GatewayInv, database, clock, handler
<1>1. r # None /\ row[k].status = "absent" /\ pc[r] = "reserve" /\ period \in Periods
  BY GatewayAssumption DEF ReserveAcquire, KeyIsFree, TypeOK, KeyOf
<1>2. /\ row'[k] = [status |-> "pending", hash |-> req[r].hash, id |-> r,
                    reserved |-> quote[r], period |-> period]
      /\ \A j \in Keys \ {k} : row'[j] = row[j]
  BY <1>1 DEF ReserveAcquire, TypeOK
<1>3. UNCHANGED <<usage, req, quote, verdict, cost, callers>>
  BY DEF ReserveAcquire
<1>4. \A s \in Requests \ {r} : pc'[s] = pc[s] /\ answer'[s] = answer[s]
  BY DEF ReserveAcquire, GoTo, Finish, TypeOK
<1>5. \/ pc'[r] = "execute" /\ answer'[r] = answer[r]
      \/ pc'[r] = "gone" /\ answer'[r] = answer[r]
      \/ pc'[r] = "done" /\ answer'[r] = Tell("server_error")
  BY DEF ReserveAcquire, GoTo, Finish, TypeOK
<1>6. \A s \in Requests : KeyOf(s)' = KeyOf(s)
  BY <1>3 DEF KeyOf
<1>7. answer[r].kind = "none"
  BY <1>1 DEF AnsweredIsOver
<1>8. \A s \in Requests \ {r} : KeyOf(s) = k =>
        pc[s] \notin Owning /\ answer[s].kind \notin {"success", "replay", "not_charged"}
  <2>. SUFFICES ASSUME NEW s \in Requests, KeyOf(s) = k
                PROVE  pc[s] \notin Owning
                       /\ answer[s].kind \notin {"success", "replay", "not_charged"}
    OBVIOUS
  <2>1. pc[s] \notin Owning
    BY <1>1 DEF OwnerHoldsReservation
  <2>2. answer[s].kind \notin {"success", "replay", "not_charged"}
    BY <1>1 DEF ReplayFaithful, HonestAnswers
  <2>. QED
    BY <2>1, <2>2
<1>9. RowsBelong'
  <2>1. RowBelongsTo(k, r)'
    BY <1>1, <1>2, <1>3, <1>5, <1>6 DEF Early, RowBelongsTo
  <2>2. ASSUME NEW j \in Keys, j # k, row'[j].status # "absent", NEW s, s = row[j].id
        PROVE  RowBelongsTo(j, s)'
    <3>1. row'[j] = row[j] /\ RowBelongsTo(j, s)
      BY <1>2, <2>2 DEF RowsBelong, RowBelongsTo
    <3>2. s \in Requests \ {r}
      BY <2>2, <3>1 DEF RowBelongsTo
    <3>. QED
      BY <1>3, <1>4, <1>6, <2>2, <3>1, <3>2 DEF RowBelongsTo
  <2>3. ASSUME NEW j \in Keys, row'[j].status # "absent"
        PROVE  RowBelongsTo(j, row[j].id)'
    <3>1. CASE j = k
      BY <1>2, <2>1, <3>1 DEF RowBelongsTo
    <3>2. CASE j # k
      <4>1. row'[j] = row[j]
        BY <1>2, <3>2
      <4>2. PICK s : s = row[j].id
        OBVIOUS
      <4>3. RowBelongsTo(j, s)'
        BY <2>2, <2>3, <3>2, <4>2
      <4>. QED
        BY <4>1, <4>2, <4>3 DEF RowBelongsTo
    <3>. QED
      BY <3>1, <3>2
  <2>. QED
    BY <2>3 DEF RowsBelong
<1>10. AbsentRows'
  BY <1>1, <1>2, <1>3 DEF AbsentRows
<1>11. CalledByOwner'
  <2>1. callers[k] = {}
    <3>1. callers[k] \subseteq {None}
      BY <1>1 DEF CalledByOwner, AbsentRows
    <3>2. callers[k] \subseteq Requests /\ None \notin Requests
      BY GatewayAssumption DEF TypeOK
    <3>. QED
      BY <3>1, <3>2
  <2>. QED
    BY <1>1, <1>2, <1>3, <2>1 DEF CalledByOwner
<1>12. ExhaustedIsFree'
  BY <1>3, <1>4, <1>5 DEF ExhaustedIsFree
<1>13. AnsweredIsOver'
  BY <1>4, <1>5, <1>7 DEF AnsweredIsOver
<1>14. OwnerHoldsReservation'
  <2>1. pc'[r] \in Owning => /\ row'[k].status = "pending" /\ row'[k].id = r
                             /\ row'[k].hash = req'[r].hash /\ row'[k].reserved = quote'[r]
    BY <1>2, <1>3
  <2>2. ASSUME NEW s \in Requests, s # r, pc'[s] \in Owning
        PROVE  /\ row'[KeyOf(s)].status = "pending" /\ row'[KeyOf(s)].id = s
               /\ row'[KeyOf(s)].hash = req'[s].hash /\ row'[KeyOf(s)].reserved = quote'[s]
    <3>1. pc[s] \in Owning /\ KeyOf(s) # k /\ KeyOf(s) \in Keys
      BY <1>4, <1>8, <2>2 DEF TypeOK, KeyOf
    <3>. QED
      BY <1>2, <1>3, <3>1 DEF OwnerHoldsReservation
  <2>. QED
    BY <1>6, <2>1, <2>2 DEF OwnerHoldsReservation
<1>15. SettledOnce'
  BY <1>1, <1>2, <1>3 DEF SettledOnce, AbsentRows, Settled
<1>16. \A s \in Requests : answer'[s].kind \in {"success", "replay", "not_charged"} =>
          s # r /\ KeyOf(s) # k /\ KeyOf(s) \in Keys /\ answer'[s] = answer[s]
                /\ row'[KeyOf(s)] = row[KeyOf(s)]
  BY <1>2, <1>4, <1>5, <1>7, <1>8 DEF Tell, TypeOK, KeyOf
<1>17. ReplayFaithful'
  BY <1>3, <1>6, <1>16 DEF ReplayFaithful
<1>18. HonestAnswers'
  <2>1. ASSUME NEW s \in Requests, answer'[s].kind = "not_charged"
        PROVE  row'[KeyOf(s)].id = s /\ row'[KeyOf(s)].status = "failed" /\ Charge(KeyOf(s))' = 0
    BY <1>3, <1>6, <1>16, <2>1 DEF HonestAnswers, Charge, UsageOf
  <2>2. ASSUME NEW s \in Requests,
               answer'[s].kind \in {"refused", "no_budget", "conflict", "in_progress",
                                    "expired", "replay", "prior_failure"}
        PROVE  row'[KeyOf(s)].id # s
    <3>1. s # r /\ answer'[s] = answer[s] /\ KeyOf(s) \in Keys
      BY <1>4, <1>5, <1>7, <2>2 DEF Tell, TypeOK, KeyOf
    <3>2. row[KeyOf(s)].id # s
      BY <2>2, <3>1 DEF HonestAnswers
    <3>. QED
      BY <1>2, <3>1, <3>2
  <2>. QED
    BY <1>6, <2>1, <2>2 DEF HonestAnswers
<1>19. LeakOnlyByFault'
  <2>1. pc'[r] \in Owning \cup {"gone"} \/ answer'[r].kind = "server_error"
    BY <1>5 DEF Owning, Tell
  <2>2. ASSUME NEW j \in Keys, j # k, row'[j].status = "pending"
        PROVE  \/ pc'[row'[j].id] \in Owning \cup {"gone"}
               \/ answer'[row'[j].id].kind \in {"unresolved", "server_error"}
    <3>1. row'[j] = row[j] /\ row[j].id \in Requests \ {r}
      BY <1>2, <2>2 DEF RowsBelong, RowBelongsTo
    <3>. QED
      BY <1>4, <2>2, <3>1 DEF LeakOnlyByFault
  <2>. QED
    BY <1>2, <2>1, <2>2 DEF LeakOnlyByFault
<1>. QED
  BY <1>9, <1>10, <1>11, <1>12, <1>13, <1>14, <1>15, <1>17, <1>18, <1>19

\* A committed settlement settles the row of its own request, which leaves with
\* the answer of its verdict, an unresolved answer, or none because it is gone.
LEMMA SettlePreserves ==
  ASSUME GatewayInv, NEW r \in Requests, SettleRow(r), SettlementCommits(r), TypeOK',
         NEW k \in Keys, k = KeyOf(r)
  PROVE  GatewayInv'
<1>. DEFINE status == IF verdict[r] = "completed" THEN "completed" ELSE "failed"
            record == [status |-> IF verdict[r] = "completed" THEN "succeeded" ELSE "failed",
                       cost |-> cost[r], by |-> r]
<1>. USE DEF GatewayInv, database, clock, handler
<1>1. /\ pc[r] = "settle" /\ row[k].status = "pending" /\ row[k].id = r
      /\ row[k].hash = req[r].hash /\ row[k].reserved = quote[r]
  BY DEF SettleRow, OwnerHoldsReservation, Owning
<1>2. /\ row'[k] = [row[k] EXCEPT !.status = status]
      /\ \A j \in Keys \ {k} : row'[j] = row[j]
  BY DEF SettlementCommits, TypeOK
<1>3. usage'[k] = {record} /\ \A j \in Keys \ {k} : usage'[j] = usage[j]
  <2>1. usage[k] = {}
    BY <1>1 DEF SettledOnce, Settled
  <2>2. usage' = [usage EXCEPT ![k] = @ \cup {record}]
    BY DEF SettlementCommits
  <2>. QED
    BY <2>1, <2>2 DEF TypeOK
<1>4. UNCHANGED <<req, quote, verdict, cost, callers>>
  BY DEF SettleRow
<1>5. \A s \in Requests : KeyOf(s)' = KeyOf(s) /\ KeyOf(s) \in Keys
  BY <1>4 DEF KeyOf, TypeOK
<1>6. \A s \in Requests \ {r} : pc'[s] = pc[s] /\ answer'[s] = answer[s]
  BY DEF SettleRow, GoTo, Finish, TypeOK
<1>7. \/ pc'[r] = "gone" /\ answer'[r] = answer[r]
      \/ pc'[r] = "done" /\ answer'[r] \in {VerdictAnswer(r), Tell("unresolved")}
  <2>1. \E a \in {VerdictAnswer(r), Tell("unresolved")} : Finish(r, a)
    BY <1>1 DEF SettleRow
  <2>. QED
    BY <2>1 DEF GoTo, Finish, TypeOK
<1>8. answer[r].kind = "none"
  BY <1>1 DEF AnsweredIsOver
<1>9. \A s \in Requests \ {r} : KeyOf(s) = k =>
        pc[s] \notin Owning /\ answer[s].kind \notin {"success", "replay", "not_charged"}
  <2>. SUFFICES ASSUME NEW s \in Requests \ {r}, KeyOf(s) = k
                PROVE  pc[s] \notin Owning
                       /\ answer[s].kind \notin {"success", "replay", "not_charged"}
    OBVIOUS
  <2>1. pc[s] \notin Owning
    BY <1>1 DEF OwnerHoldsReservation
  <2>2. answer[s].kind \notin {"success", "replay", "not_charged"}
    BY <1>1 DEF ReplayFaithful, HonestAnswers
  <2>. QED
    BY <2>1, <2>2
<1>10. status \in {"completed", "failed"} /\ row'[k].status = status
       /\ row'[k].id = r /\ row'[k].hash = req[r].hash
       /\ row'[k].reserved = row[k].reserved /\ row'[k].period = row[k].period
  BY <1>1, <1>2 DEF TypeOK, Rows
<1>11. RowsBelong'
  <2>1. ASSUME NEW j \in Keys, row'[j].status # "absent", NEW s, s = row[j].id
        PROVE  row'[j].id = s /\ RowBelongsTo(j, s)'
    <3>1. /\ row'[j].id = s /\ row'[j].hash = row[j].hash
          /\ row'[j].reserved = row[j].reserved /\ row'[j].period = row[j].period
          /\ row[j].status # "absent"
      <4>1. CASE j = k
        BY <1>1, <1>10, <2>1, <4>1
      <4>2. CASE j # k
        BY <1>2, <2>1, <4>2
      <4>. QED
        BY <4>1, <4>2
    <3>2. RowBelongsTo(j, s)
      BY <2>1, <3>1 DEF RowsBelong
    <3>3. pc'[s] \notin Early
      BY <1>6, <1>7, <3>2 DEF RowBelongsTo, Early
    <3>. QED
      BY <1>4, <1>5, <3>1, <3>2, <3>3 DEF RowBelongsTo
  <2>. QED
    BY <2>1 DEF RowsBelong
<1>12. AbsentRows'
  <2>1. SUFFICES ASSUME NEW j \in Keys, row'[j].status = "absent"
                 PROVE  row'[j].id = None /\ usage'[j] = {}
    BY DEF AbsentRows
  <2>2. j # k
    BY <1>10, <2>1
  <2>3. row'[j] = row[j] /\ usage'[j] = usage[j]
    BY <1>2, <1>3, <2>2
  <2>. QED
    BY <2>1, <2>3 DEF AbsentRows
<1>13. CalledByOwner'
  BY <1>1, <1>2, <1>4, <1>10 DEF CalledByOwner
<1>14. ExhaustedIsFree'
  BY <1>4, <1>6, <1>7 DEF ExhaustedIsFree
<1>15. AnsweredIsOver'
  BY <1>6, <1>7, <1>8 DEF AnsweredIsOver
<1>16. OwnerHoldsReservation'
  <2>. SUFFICES ASSUME NEW s \in Requests, pc'[s] \in Owning
                PROVE  s # r /\ pc[s] \in Owning /\ KeyOf(s) # k /\ KeyOf(s) \in Keys
    BY <1>2, <1>4, <1>5 DEF OwnerHoldsReservation
  <2>. QED
    BY <1>5, <1>6, <1>7, <1>9 DEF Owning
<1>17. SettledOnce'
  <2>1. record.by = r /\ record.status = IF status = "completed" THEN "succeeded" ELSE "failed"
    OBVIOUS
  <2>. HIDE DEF record, status
  <2>2. \E u \in usage'[k] :
          /\ usage'[k] = {u}
          /\ u.by = row'[k].id
          /\ u.status = IF row'[k].status = "completed" THEN "succeeded" ELSE "failed"
    BY <1>3, <1>10, <2>1
  <2>3. row'[k].status \in Settled /\ \A j \in Keys \ {k} : row'[j] = row[j] /\ usage'[j] = usage[j]
    BY <1>2, <1>3, <1>10 DEF Settled
  <2>. QED
    BY <2>2, <2>3 DEF SettledOnce
<1>18. \A s \in Requests \ {r} :
          answer'[s].kind \in {"success", "replay", "not_charged"} =>
            /\ KeyOf(s) # k /\ answer'[s] = answer[s]
            /\ row'[KeyOf(s)] = row[KeyOf(s)] /\ usage'[KeyOf(s)] = usage[KeyOf(s)]
  BY <1>2, <1>3, <1>5, <1>6, <1>9
<1>19. /\ answer'[r].kind \in {"none", "success", "not_charged", "internal_error", "unresolved"}
       /\ answer'[r].kind = "success" => status = "completed" /\ answer'[r].of = r
       /\ answer'[r].kind = "not_charged" => status = "failed" /\ verdict[r] = "exhausted"
  <2>1. CASE answer'[r] = VerdictAnswer(r)
    BY <2>1 DEF VerdictAnswer, Tell
  <2>. QED
    BY <1>7, <1>8, <2>1 DEF Tell
<1>. HIDE DEF status, record
<1>20. ReplayFaithful'
  <2>1. answer'[r].kind \in {"success", "replay"} =>
          /\ row'[k].status = "completed" /\ row'[k].id = answer'[r].of
          /\ row'[k].hash = req'[r].hash
    BY <1>4, <1>10, <1>19
  <2>. QED
    BY <1>4, <1>5, <1>18, <2>1 DEF ReplayFaithful
<1>21. HonestAnswers'
  <2>1. answer'[r].kind = "not_charged" =>
          row'[k].id = r /\ row'[k].status = "failed" /\ Charge(k)' = 0
    <3>. SUFFICES ASSUME answer'[r].kind = "not_charged" PROVE Charge(k)' = 0
      BY <1>10, <1>19
    <3>1. record.cost = 0
      BY <1>1, <1>19 DEF ExhaustedIsFree, record
    <3>2. row'[k].reserved \in Nat
      BY DEF TypeOK, Rows
    <3>. QED
      BY <1>3, <3>1, <3>2 DEF Charge, UsageOf
  <2>2. ASSUME NEW s \in Requests \ {r}, answer'[s].kind = "not_charged"
        PROVE  row'[KeyOf(s)].id = s /\ row'[KeyOf(s)].status = "failed" /\ Charge(KeyOf(s))' = 0
    BY <1>5, <1>18, <2>2 DEF HonestAnswers, Charge, UsageOf
  <2>3. ASSUME NEW s \in Requests,
               answer'[s].kind \in {"refused", "no_budget", "conflict", "in_progress",
                                    "expired", "replay", "prior_failure"}
        PROVE  row'[KeyOf(s)].id # s
    <3>1. s # r /\ answer'[s] = answer[s]
      BY <1>6, <1>19, <2>3
    <3>2. row[KeyOf(s)].id # s
      BY <2>3, <3>1 DEF HonestAnswers
    <3>. QED
      BY <1>2, <1>5, <1>10, <3>1, <3>2
  <2>. QED
    BY <1>5, <2>1, <2>2, <2>3 DEF HonestAnswers
<1>22. LeakOnlyByFault'
  <2>. SUFFICES ASSUME NEW j \in Keys, row'[j].status = "pending"
                PROVE  \/ pc'[row'[j].id] \in Owning \cup {"gone"}
                       \/ answer'[row'[j].id].kind \in {"unresolved", "server_error"}
    BY DEF LeakOnlyByFault
  <2>1. j # k /\ row'[j] = row[j] /\ row[j].id \in Requests \ {r}
    BY <1>2, <1>10 DEF RowsBelong, RowBelongsTo
  <2>. QED
    BY <1>6, <2>1 DEF LeakOnlyByFault
<1>. QED
  BY <1>11, <1>12, <1>13, <1>14, <1>15, <1>16, <1>17, <1>20, <1>21, <1>22

THEOREM GatewayInvariant == Spec => []GatewayInv
<1>1. GatewayInv /\ [Next]_vars => GatewayInv'
  <2>. SUFFICES ASSUME GatewayInv, [Next]_vars PROVE GatewayInv'
    OBVIOUS
  <2>1. TypeOK /\ TypeOK' /\ OwnerHoldsReservation
    BY TypeStep DEF GatewayInv
  <2>2. \A r \in Requests : KeyOf(r) \in Keys
    BY <2>1 DEF TypeOK, KeyOf
  <2>. QED
    BY <2>1, <2>2, StepCases, QuietPreserves, AcquirePreserves, SettlePreserves
<1>. QED
  BY InvInit, <1>1, PTL DEF Spec

\* Whoever executes or settles a request still owns its key and its reservation
\* (acquire_idempotency_slot and claim_settlement): no lease expiry, duplicate,
\* retry or crash takes them away.
THEOREM GatewayOwnership == Spec => []OwnerHoldsReservation
BY GatewayInvariant, PTL DEF GatewayInv

\* At most one request ever calls the provider under an idempotency key.
THEOREM GatewaySingleExecution == Spec => []SingleExecution
<1>1. GatewayInv => SingleExecution
  BY DEF GatewayInv, CalledByOwner, SingleExecution
<1>. QED
  BY <1>1, GatewayInvariant, PTL

\* A settled row has one usage record, of its owner and of the same outcome, and
\* an unsettled row has none (settle_success and settle_failure).
THEOREM GatewaySettledOnce == Spec => []SettledOnce
BY GatewayInvariant, PTL DEF GatewayInv

\* A client is given only the result stored under its key for its own payload.
THEOREM GatewayReplayFaithful == Spec => []ReplayFaithful
BY GatewayInvariant, PTL DEF GatewayInv

\* What the gateway tells its clients about charges and ownership is true.
THEOREM GatewayHonest == Spec => []HonestAnswers
BY GatewayInvariant, PTL DEF GatewayInv

\* A reservation is left held by nobody only after a cancellation, a crash or a
\* failed transaction its client was told of.
THEOREM GatewayLeaks == Spec => []LeakOnlyByFault
BY GatewayInvariant, PTL DEF GatewayInv

\* Settlement is a one-way door: a settled row and its usage record never change.
THEOREM GatewaySettledIsFinal == Spec => SettledIsFinal
<1>. DEFINE Step ==
       \A k \in Keys :
         /\ row[k].status \in Settled => row'[k] = row[k] /\ usage'[k] = usage[k]
         /\ row[k].status = "pending" /\ row'[k] # row[k] =>
              \E s \in Settled : row'[k] = [row[k] EXCEPT !.status = s]
<1>1. GatewayInv /\ [Next]_vars => [Step]_vars
  <2>. SUFFICES ASSUME GatewayInv, [Next]_vars PROVE Step
    OBVIOUS
  <2>1. CASE QuietStep
    BY <2>1 DEF QuietStep
  <2>2. ASSUME NEW r \in Requests, ReserveAcquire(r) PROVE Step
    <3>1. row[KeyOf(r)].status = "absent" /\ UNCHANGED usage
      BY <2>2 DEF ReserveAcquire, KeyIsFree
    <3>2. \A j \in Keys \ {KeyOf(r)} : row'[j] = row[j]
      BY <2>2 DEF ReserveAcquire, GatewayInv, TypeOK
    <3>. QED
      BY <3>1, <3>2 DEF Settled
  <2>3. ASSUME NEW r \in Requests, SettlementCommits(r) PROVE Step
    <3>1. row[KeyOf(r)].status = "pending" /\ KeyOf(r) \in Keys
      BY <2>3 DEF SettlementCommits, GatewayInv, TypeOK, KeyOf
    <3>2. \A j \in Keys \ {KeyOf(r)} : row'[j] = row[j] /\ usage'[j] = usage[j]
      BY <2>3 DEF SettlementCommits, GatewayInv, TypeOK
    <3>3. PICK s \in Settled : row'[KeyOf(r)] = [row[KeyOf(r)] EXCEPT !.status = s]
      <4>1. (IF verdict[r] = "completed" THEN "completed" ELSE "failed") \in Settled
        BY DEF Settled
      <4>. QED
        BY <2>3, <3>1, <4>1 DEF SettlementCommits, GatewayInv, TypeOK
    <3>. QED
      BY <3>1, <3>2, <3>3 DEF Settled
  <2>. QED
    BY <2>1, <2>2, <2>3, StepCases DEF GatewayInv
<1>. QED
  BY <1>1, GatewayInvariant, PTL DEF Spec, SettledIsFinal

-----------------------------------------------------------------------------
(***************************************************************************)
(* The gateway implements the abstract ledger, and so conserves money.     *)
(***************************************************************************)

\* The ledger's theorems, under the refinement mapping.
LedgerProofs == INSTANCE BudgetLedgerProofs WITH slot <- LedgerSlots

\* The ledger's assumptions on its constants follow from the gateway's.
LEMMA LedgerAssumptions == LedgerProofs!LedgerAssumption
BY GatewayAssumption DEF LedgerProofs!LedgerAssumption, IsFiniteSet, LedgerProofs!IsFiniteSet

\* The refinement mapping takes an initial database to a ledger of free slots.
LEMMA LedgerInit == Init => Ledger!Init
BY DEF Init, Ledger!Init, LedgerSlots, LedgerSlot, NoRow

\* The slots depend on the rows and the usage records only.
LEMMA SlotsUnchanged ==
  ASSUME UNCHANGED <<row, usage, remaining>>
  PROVE  UNCHANGED Ledger!ledgerVars
BY DEF Ledger!ledgerVars, LedgerSlots, LedgerSlot, Charge, UsageOf

\* An acquisition commits one hold.
LEMMA AcquireHolds ==
  ASSUME GatewayInv, NEW r \in Requests, ReserveAcquire(r), NEW k \in Keys, k = KeyOf(r)
  PROVE  Ledger!Hold(k, period)
<1>. USE DEF GatewayInv, database, clock, handler
<1>1. /\ row[k].status = "absent" /\ period \in Periods /\ UNCHANGED usage
      /\ row' = [row EXCEPT ![k] =
                   [status |-> "pending", hash |-> req[r].hash, id |-> r,
                    reserved |-> quote[r], period |-> period]]
      /\ remaining' = [remaining EXCEPT ![period] = @ - quote[r]]
  BY DEF ReserveAcquire, KeyIsFree
<1>2. quote[r] \in 0 .. remaining[period]
  BY <1>1 DEF ReserveAcquire, CanReserve, TypeOK
<1>3. LedgerSlots[k].state = "free"
  BY <1>1 DEF LedgerSlots, LedgerSlot
<1>4. LedgerSlots' = [LedgerSlots EXCEPT ![k] =
                        [state |-> "held", period |-> period, amount |-> quote[r]]]
  <2>1. LedgerSlot(k)' = [state |-> "held", period |-> period, amount |-> quote[r]]
    BY <1>1 DEF LedgerSlot, TypeOK
  <2>2. \A j \in Keys \ {k} : LedgerSlot(j)' = LedgerSlot(j)
    BY <1>1 DEF LedgerSlot, Charge, UsageOf, TypeOK
  <2>. QED
    BY <2>1, <2>2 DEF LedgerSlots
<1>. QED
  BY <1>1, <1>2, <1>3, <1>4 DEF Ledger!Hold

\* A committed settlement leaves the row its request, period and reservation,
\* and its only usage record has the cost the request asked to be settled at.
LEMMA SettledRowKeeps ==
  ASSUME GatewayInv, NEW r \in Requests, SettlementCommits(r), NEW k \in Keys, k = KeyOf(r)
  PROVE  /\ row'[k].status \in {"completed", "failed"}
         /\ row'[k].id = row[k].id /\ row'[k].period = row[k].period
         /\ row'[k].reserved = row[k].reserved
         /\ UsageOf(k)'.cost = cost[r]
<1>. DEFINE record == [status |-> IF verdict[r] = "completed" THEN "succeeded" ELSE "failed",
                       cost |-> cost[r], by |-> r]
<1>1. /\ usage[k] = {} /\ row[k] \in Rows
      /\ row' = [row EXCEPT ![k].status =
                   IF verdict[r] = "completed" THEN "completed" ELSE "failed"]
      /\ usage' = [usage EXCEPT ![k] = @ \cup {record}]
  BY DEF GatewayInv, SettlementCommits, SettledOnce, Settled, TypeOK
<1>2. /\ row'[k].status \in {"completed", "failed"}
      /\ row'[k].id = row[k].id /\ row'[k].period = row[k].period
      /\ row'[k].reserved = row[k].reserved
  BY <1>1 DEF GatewayInv, TypeOK, Rows
<1>3. usage'[k] = {record}
  BY <1>1 DEF GatewayInv, TypeOK
<1>4. UsageOf(k)' = record
  <2>. HIDE DEF record
  <2>. QED
    BY <1>3 DEF UsageOf
<1>. QED
  BY <1>2, <1>4

\* A committed settlement settles the slot at the recorded, capped charge.
LEMMA SettleSettles ==
  ASSUME GatewayInv, NEW r \in Requests, pc[r] = "settle", SettlementCommits(r),
         NEW k \in Keys, k = KeyOf(r)
  PROVE  Ledger!Settle(k)
<1>. DEFINE reserved == row[k].reserved
            charge   == IF cost[r] < reserved THEN cost[r] ELSE reserved
            record   == [status |-> IF verdict[r] = "completed" THEN "succeeded" ELSE "failed",
                         cost |-> cost[r], by |-> r]
            status   == IF verdict[r] = "completed" THEN "completed" ELSE "failed"
<1>. USE DEF GatewayInv
<1>1. row[k].status = "pending" /\ usage[k] = {}
  BY DEF SettlementCommits, SettledOnce, Settled
<1>2. /\ row' = [row EXCEPT ![k].status = status]
      /\ remaining' = [remaining EXCEPT ![row[k].period] = @ + Refund(reserved, cost[r])]
      /\ usage' = [usage EXCEPT ![k] = @ \cup {record}]
  BY DEF SettlementCommits
<1>3. /\ reserved \in Nat /\ cost[r] \in Nat
      /\ row[k].period \in Periods /\ row[k] \in Rows
  BY <1>1 DEF TypeOK, Rows, RowsBelong, RowBelongsTo
<1>4. charge \in 0 .. reserved /\ Refund(reserved, cost[r]) = reserved - charge
  BY <1>3 DEF Refund
<1>5. LedgerSlots[k] = [state |-> "held", period |-> row[k].period, amount |-> reserved]
  BY <1>1 DEF LedgerSlots, LedgerSlot
<1>6. LedgerSlot(k)' = [state |-> "settled", period |-> row[k].period, amount |-> charge]
  <2>1. /\ row'[k].status \in {"completed", "failed"}
        /\ row'[k].period = row[k].period /\ row'[k].reserved = reserved
        /\ UsageOf(k)'.cost = cost[r]
    BY SettledRowKeeps
  <2>4. Charge(k)' = charge
    BY <2>1 DEF Charge
  <2>. QED
    BY <2>1, <2>4 DEF LedgerSlot
<1>7. \A j \in Keys \ {k} : LedgerSlot(j)' = LedgerSlot(j)
  BY <1>2 DEF LedgerSlot, Charge, UsageOf, TypeOK
<1>. HIDE DEF charge, reserved
<1>8. LedgerSlots' = [LedgerSlots EXCEPT ![k] =
                        [state |-> "settled", period |-> LedgerSlots[k].period, amount |-> charge]]
  <2>1. LedgerSlots[k].period = row[k].period
    BY <1>5
  <2>2. LedgerSlots' = [j \in Keys |-> LedgerSlot(j)']
    BY DEF LedgerSlots
  <2>. QED
    BY <1>6, <1>7, <2>1, <2>2 DEF LedgerSlots
<1>9. remaining' = [remaining EXCEPT ![LedgerSlots[k].period] =
                      @ + LedgerSlots[k].amount - charge]
  <2>1. LedgerSlots[k].period = row[k].period /\ LedgerSlots[k].amount = reserved
    BY <1>5
  <2>2. remaining[row[k].period] + (reserved - charge) = remaining[row[k].period] + reserved - charge
    BY <1>3, <1>4 DEF TypeOK, reserved
  <2>. QED
    BY <1>2, <1>4, <2>1, <2>2
<1>10. charge \in 0 .. LedgerSlots[k].amount /\ LedgerSlots[k].state = "held"
  BY <1>4, <1>5
<1>. QED
  BY <1>8, <1>9, <1>10 DEF Ledger!Settle

\* The gateway implements the abstract ledger: every step commits one hold, one
\* settlement, or leaves the ledger alone.
THEOREM GatewayImplementsLedger == Spec => ImplementsLedger
<1>1. GatewayInv /\ [Next]_vars => [Ledger!Next]_(Ledger!ledgerVars)
  <2>. SUFFICES ASSUME GatewayInv, [Next]_vars
                PROVE  Ledger!Next \/ UNCHANGED Ledger!ledgerVars
    OBVIOUS
  <2>1. \A r \in Requests : KeyOf(r) \in Keys
    BY DEF GatewayInv, TypeOK, KeyOf
  <2>2. CASE QuietStep
    BY <2>2, SlotsUnchanged DEF QuietStep
  <2>3. ASSUME NEW r \in Requests, ReserveAcquire(r) PROVE Ledger!Next
    BY <2>1, <2>3, AcquireHolds DEF Ledger!Next, ReserveAcquire
  <2>4. ASSUME NEW r \in Requests, SettleRow(r), SettlementCommits(r) PROVE Ledger!Next
    BY <2>1, <2>4, SettleSettles DEF Ledger!Next, SettleRow
  <2>. QED
    BY <2>2, <2>3, <2>4, StepCases DEF GatewayInv
<1>. QED
  BY LedgerInit, <1>1, GatewayInvariant, PTL DEF Spec, ImplementsLedger, Ledger!Spec

\* The instance that carries the ledger's theorems is the same specification.
LEMMA GatewayLedgerSpec == Spec => LedgerProofs!Spec
<1>1. Ledger!Spec <=> LedgerProofs!Spec
  BY DEF Ledger!Spec, LedgerProofs!Spec, Ledger!Init, LedgerProofs!Init,
         Ledger!Next, LedgerProofs!Next, Ledger!ledgerVars, LedgerProofs!ledgerVars,
         Ledger!Hold, LedgerProofs!Hold, Ledger!Settle, LedgerProofs!Settle
<1>. QED
  BY <1>1, GatewayImplementsLedger, PTL DEF ImplementsLedger

\* No money is created or lost: what remains of a period, its pending
\* reservations and its recorded charges add up to its allocation.
THEOREM GatewayConservesMoney == Spec => []MoneyConserved
<1>1. LedgerProofs!Spec => []LedgerProofs!Conservation
  BY LedgerAssumptions, LedgerProofs!LedgerConserves, PTL
<1>2. LedgerProofs!Conservation <=> MoneyConserved
  BY DEF MoneyConserved, Ledger!Conservation, LedgerProofs!Conservation,
         Ledger!SumOf, LedgerProofs!SumOf, Ledger!Taken, LedgerProofs!Taken,
         Ledger!PartialSums, LedgerProofs!PartialSums
<1>. QED
  BY <1>1, <1>2, GatewayLedgerSpec, PTL

\* A refund of a pending row fits: the row's reservation is one of the terms that
\* add up to the allocation with what remains, so SettlementIntegrityError is
\* never raised.
THEOREM GatewayRefundsFit == Spec => []RefundAlwaysFits
<1>1. GatewayInv /\ LedgerProofs!TypeOK /\ LedgerProofs!Conservation => RefundAlwaysFits
  <2>. SUFFICES ASSUME GatewayInv, LedgerProofs!TypeOK, LedgerProofs!Conservation,
                       NEW r \in Requests, pc[r] = "settle",
                       NEW k \in Keys, k = KeyOf(r)
                PROVE  RefundFits(RefundPeriod(k), Refund(row[k].reserved, cost[r]))
    BY DEF RefundAlwaysFits, GatewayInv, TypeOK, KeyOf
  <2>1. row[k].status = "pending"
    BY DEF GatewayInv, OwnerHoldsReservation, Owning
  <2>2. /\ row[k].reserved \in Nat /\ row[k].period \in Periods /\ cost[r] \in Nat
        /\ remaining[row[k].period] \in Nat
    BY <2>1 DEF GatewayInv, TypeOK, Rows, RowsBelong, RowBelongsTo
  <2>3. LedgerProofs!Taken(k, row[k].period) = row[k].reserved
    BY <2>1 DEF LedgerProofs!Taken, LedgerSlots, LedgerSlot
  <2>4. remaining[row[k].period] + row[k].reserved <= Alloc[row[k].period]
    BY <2>2, <2>3, LedgerAssumptions, LedgerProofs!LedgerNeverOverspends
  <2>5. Refund(row[k].reserved, cost[r]) \in 0 .. row[k].reserved
    BY <2>2 DEF Refund
  <2>. QED
    BY <2>2, <2>4, <2>5, GatewayAssumption DEF RefundFits, RefundPeriod
<1>2. Spec => [](LedgerProofs!TypeOK /\ LedgerProofs!Conservation)
  BY LedgerAssumptions, GatewayLedgerSpec, LedgerProofs!LedgerTypeSafe,
     LedgerProofs!LedgerConserves, PTL
<1>. QED
  BY <1>1, <1>2, GatewayInvariant, PTL

-----------------------------------------------------------------------------
(***************************************************************************)
(* The gateway implements the abstract idempotent execution.  Beside the   *)
(* invariant this needs that a success is claimed only after a call.       *)
(***************************************************************************)

CalledBeforeSuccess ==
  \A r \in Requests :
    pc[r] = "calling" \/ (pc[r] = "settle" /\ verdict[r] = "completed") =>
      r \in callers[KeyOf(r)]

\* No step forgets a call or changes what a request asks for.
LEMMA CallsStay ==
  ASSUME TypeOK, [Next]_vars
  PROVE  req' = req /\ \A k \in Keys : callers[k] \subseteq callers'[k]
<1>1. ASSUME NEW r \in Requests,
             \/ Arrive(r) \/ ReplayLookup(r) \/ Refuse(r) \/ Admit(r) \/ ReserveWithoutPeriod(r)
             \/ ReserveDuplicate(r) \/ ReserveTooLittle(r) \/ ReserveAcquire(r) \/ ReserveFails(r)
      PROVE  UNCHANGED <<req, callers>>
  BY <1>1 DEF Arrive, ReplayLookup, Refuse, Admit, ReserveWithoutPeriod, ReserveDuplicate,
              ReserveTooLittle, ReserveAcquire, ReserveFails
<1>2. ASSUME NEW r \in Requests,
             \/ CircuitOpen(r) \/ ProviderRetry(r) \/ ProviderGivesUp(r) \/ ProviderRaises(r)
             \/ ProviderAnswers(r) \/ SettleRow(r) \/ SettleFails(r) \/ Cancel(r) \/ Crash(r)
      PROVE  UNCHANGED <<req, callers>>
  BY <1>2 DEF CircuitOpen, ProviderRetry, ProviderGivesUp, ProviderRaises, ProviderAnswers,
              SettleRow, SettleFails, Cancel, Crash
<1>3. ASSUME NEW r \in Requests, CallProvider(r)
      PROVE  req' = req /\ \A k \in Keys : callers[k] \subseteq callers'[k]
  BY <1>3 DEF TypeOK, CallProvider
<1>4. CASE RollPeriod \/ (\E k \in Keys : ExpireLease(k)) \/ UNCHANGED vars
  BY <1>4 DEF RollPeriod, ExpireLease, vars, handler
<1>. QED
  BY <1>1, <1>2, <1>3, <1>4 DEF Next, Handle

\* A request comes to a call, or to a claim of success, only by its own step.
LEMMA CallMade ==
  ASSUME TypeOK, CalledBeforeSuccess, [Next]_vars, NEW r \in Requests,
         pc'[r] = "calling" \/ (pc'[r] = "settle" /\ verdict'[r] = "completed")
  PROVE  \/ r \in callers[KeyOf(r)]
         \/ CallProvider(r)
<1>. USE DEF handler, GoTo, Finish, AskToSettle
<1>1. ASSUME pc'[r] = pc[r], verdict'[r] = verdict[r] PROVE r \in callers[KeyOf(r)]
  BY <1>1 DEF CalledBeforeSuccess
<1>2. ASSUME NEW s \in Requests,
             \/ Arrive(s) \/ ReplayLookup(s) \/ Refuse(s) \/ Admit(s)
             \/ ReserveWithoutPeriod(s) \/ ReserveDuplicate(s) \/ ReserveTooLittle(s)
             \/ ReserveAcquire(s) \/ ReserveFails(s) \/ ProviderRetry(s)
             \/ SettleRow(s) \/ SettleFails(s) \/ Cancel(s) \/ Crash(s)
      PROVE  pc'[r] = pc[r] /\ verdict'[r] = verdict[r]
  BY <1>2 DEF TypeOK, Arrive, ReplayLookup, Refuse, Admit, ReserveWithoutPeriod,
              ReserveDuplicate, ReserveTooLittle, ReserveAcquire, ReserveFails, ProviderRetry,
              SettleRow, SettleFails, Cancel, Crash
<1>3. ASSUME NEW s \in Requests, CircuitOpen(s) \/ ProviderGivesUp(s) \/ ProviderRaises(s)
      PROVE  pc'[r] = pc[r] /\ verdict'[r] = verdict[r]
  BY <1>3 DEF TypeOK, CircuitOpen, ProviderGivesUp, ProviderRaises
<1>4. ASSUME NEW s \in Requests, ProviderAnswers(s) PROVE r \in callers[KeyOf(r)]
  <2>1. CASE s = r
    <3>1. pc[r] = "calling"
      BY <1>4, <2>1 DEF ProviderAnswers
    <3>. QED
      BY <3>1 DEF CalledBeforeSuccess
  <2>2. CASE s # r
    BY <1>1, <1>4, <2>2 DEF TypeOK, ProviderAnswers
  <2>. QED
    BY <2>1, <2>2
<1>5. ASSUME NEW s \in Requests, CallProvider(s), s # r
      PROVE  pc'[r] = pc[r] /\ verdict'[r] = verdict[r]
  BY <1>5 DEF TypeOK, CallProvider
<1>6. CASE RollPeriod \/ (\E k \in Keys : ExpireLease(k)) \/ UNCHANGED vars
  BY <1>1, <1>6 DEF RollPeriod, ExpireLease, vars
<1>. QED
  BY <1>1, <1>2, <1>3, <1>4, <1>5, <1>6 DEF Next, Handle

LEMMA CalledInit == Init => CalledBeforeSuccess
BY DEF Init, CalledBeforeSuccess

LEMMA CalledStep ==
  ASSUME TypeOK, CalledBeforeSuccess, [Next]_vars
  PROVE  CalledBeforeSuccess'
<1>. SUFFICES ASSUME NEW r \in Requests,
                     pc'[r] = "calling" \/ (pc'[r] = "settle" /\ verdict'[r] = "completed")
              PROVE  r \in (callers[KeyOf(r)])'
  BY DEF CalledBeforeSuccess
<1>1. KeyOf(r)' = KeyOf(r) /\ KeyOf(r) \in Keys /\ callers[KeyOf(r)] \subseteq callers'[KeyOf(r)]
  BY CallsStay DEF KeyOf, TypeOK
<1>2. CallProvider(r) => r \in callers'[KeyOf(r)]
  BY <1>1 DEF CallProvider, TypeOK
<1>. QED
  BY <1>1, <1>2, CallMade

\* What the abstract execution sees of a step that writes no row, calls nobody
\* and gives no result: nothing.
LEMMA NoResult ==
  ASSUME GatewayInv, NEW r \in Requests, pc[r] # "done", NEW a,
         a.kind \notin {"success", "replay"}, Finish(r, a)
  PROVE  UNCHANGED OnceGiven
<1>1. answer[r].kind = "none"
  BY DEF GatewayInv, AnsweredIsOver
<1>2. \A s \in Requests : answer'[s] = answer[s] \/ (s = r /\ answer'[s] = a)
  BY DEF Finish, GatewayInv, TypeOK
<1>. QED
  BY <1>1, <1>2 DEF OnceGiven

LEMMA EntriesUnchanged == UNCHANGED row => UNCHANGED OnceEntries
BY DEF OnceEntries, OnceEntry

LEMMA GivenUnchanged == UNCHANGED answer => UNCHANGED OnceGiven
BY DEF OnceGiven

\* A result reaches a client by the last step of its handler.
LEMMA ResultGiven ==
  ASSUME GatewayInv, NEW r \in Requests, pc[r] # "done", NEW a,
         a.kind \in {"success", "replay"}, Finish(r, a)
  PROVE  /\ OnceGiven[r] = None
         /\ \/ UNCHANGED OnceGiven
            \/ OnceGiven' = [OnceGiven EXCEPT ![r] = a.of]
<1>1. answer[r].kind = "none"
  BY DEF GatewayInv, AnsweredIsOver
<1>2. \A s \in Requests \ {r} : answer'[s] = answer[s]
  BY DEF Finish, GatewayInv, TypeOK
<1>3. CASE r \in cancelled
  BY <1>1, <1>2, <1>3 DEF Finish, OnceGiven, GatewayInv, TypeOK
<1>4. CASE r \notin cancelled
  <2>1. answer'[r] = a
    BY <1>4 DEF Finish, GatewayInv, TypeOK
  <2>. QED
    BY <1>1, <1>2, <2>1 DEF OnceGiven
<1>. QED
  BY <1>3, <1>4

\* Answering from an existing row gives its result again, or gives none.
LEMMA AnswerGives ==
  ASSUME GatewayInv, NEW r \in Requests, pc[r] # "done", row[KeyOf(r)].status # "absent",
         Finish(r, AnswerFromRow(r)), UNCHANGED <<row, req, callers>>
  PROVE  Once!Give(r) \/ UNCHANGED Once!onceVars
<1>. DEFINE k == KeyOf(r)
            a == AnswerFromRow(r)
<1>1. k \in Keys /\ UNCHANGED OnceEntries
  BY EntriesUnchanged DEF GatewayInv, TypeOK, KeyOf
<1>2. CASE a.kind \in {"success", "replay"}
  <2>1. row[k].status = "completed" /\ row[k].id = a.of /\ row[k].hash = req[r].hash
    BY <1>2, ReplayFromRow
  <2>2. OnceEntries[k] = [state |-> "succeeded", by |-> a.of]
    BY <1>1, <2>1 DEF OnceEntries, OnceEntry
  <2>3. req[a.of].hash = req[r].hash
    BY <1>1, <2>1 DEF GatewayInv, RowsBelong, RowBelongsTo
  <2>. HIDE DEF a
  <2>4. OnceGiven[r] = None /\ (UNCHANGED OnceGiven \/ OnceGiven' = [OnceGiven EXCEPT ![r] = a.of])
    BY <1>2, ResultGiven DEF a
  <2>. QED
    BY <1>1, <2>2, <2>3, <2>4 DEF Once!Give, Once!onceVars, KeyOf, k
<1>3. CASE a.kind \notin {"success", "replay"}
  <2>1. UNCHANGED OnceGiven
    BY <1>3, NoResult
  <2>. QED
    BY <1>1, <2>1 DEF Once!onceVars
<1>. QED
  BY <1>2, <1>3

\* The owner of a key, as the abstract execution sees it.
LEMMA OwnerOwns ==
  ASSUME GatewayInv, NEW r \in Requests, pc[r] \in Owning
  PROVE  Once!Owns(r)
BY DEF GatewayInv, TypeOK, OwnerHoldsReservation, Once!Owns, OnceEntries, OnceEntry, KeyOf

LEMMA AcquireOwns ==
  ASSUME GatewayInv, NEW r \in Requests, ReserveAcquire(r)
  PROVE  Once!Own(r)
<1>. USE DEF database, clock, handler
<1>1. KeyOf(r) \in Keys /\ row[KeyOf(r)].status = "absent" /\ pc[r] # "done"
  BY DEF GatewayInv, TypeOK, KeyOf, ReserveAcquire, KeyIsFree
<1>2. /\ row'[KeyOf(r)].status = "pending" /\ row'[KeyOf(r)].id = r
      /\ \A j \in Keys \ {KeyOf(r)} : row'[j] = row[j]
  BY <1>1 DEF ReserveAcquire, GatewayInv, TypeOK
<1>3. OnceEntries' = [OnceEntries EXCEPT ![KeyOf(r)] = [state |-> "running", by |-> r]]
  <2>1. PICK k \in Keys : k = KeyOf(r)
    BY <1>1
  <2>2. OnceEntry(k)' = [state |-> "running", by |-> r]
    BY <1>2, <2>1 DEF OnceEntry
  <2>3. \A j \in Keys \ {k} : OnceEntry(j)' = OnceEntry(j)
    BY <1>2, <2>1 DEF OnceEntry
  <2>4. OnceEntries' = [OnceEntries EXCEPT ![k] = [state |-> "running", by |-> r]]
    BY <2>2, <2>3 DEF OnceEntries
  <2>. QED
    BY <2>1, <2>4
<1>4. OnceEntries[KeyOf(r)].state = "free"
  BY <1>1 DEF OnceEntries, OnceEntry
<1>5. UNCHANGED OnceGiven
  <2>1. CASE UNCHANGED answer
    BY <2>1, GivenUnchanged
  <2>2. CASE Finish(r, Tell("server_error"))
    BY <1>1, <2>2, NoResult DEF Tell
  <2>. QED
    BY <2>1, <2>2 DEF ReserveAcquire
<1>. QED
  BY <1>3, <1>4, <1>5 DEF Once!Own, ReserveAcquire, KeyOf

LEMMA SettleRowSettles ==
  ASSUME GatewayInv, CalledBeforeSuccess, NEW r \in Requests, SettleRow(r), SettlementCommits(r)
  PROVE  \E outcome \in Once!Outcomes : Once!Settle(r, outcome)
<1>. DEFINE k       == KeyOf(r)
            status  == IF verdict[r] = "completed" THEN "completed" ELSE "failed"
            outcome == IF verdict[r] = "completed" THEN "succeeded" ELSE "failed"
<1>1. k \in Keys /\ pc[r] = "settle" /\ row[k].status = "pending" /\ row[k].id = r
  BY DEF GatewayInv, TypeOK, KeyOf, SettleRow, OwnerHoldsReservation, Owning
<1>2. UNCHANGED <<req, callers>>
  BY DEF SettleRow, handler
<1>3. Once!Owns(r)
  BY <1>1, OwnerOwns DEF Owning
<1>4. outcome = "succeeded" => r \in callers[k]
  BY <1>1 DEF CalledBeforeSuccess
<1>5. /\ row'[k].status = status /\ row'[k].id = r
      /\ \A j \in Keys \ {k} : row'[j] = row[j]
  BY <1>1 DEF SettlementCommits, GatewayInv, TypeOK, Rows
<1>6. OnceEntries' = [OnceEntries EXCEPT ![k] = [state |-> outcome, by |-> r]]
  <2>1. PICK key \in Keys, o \in {"succeeded", "failed"} :
          key = k /\ o = outcome /\ row'[key].id = r
            /\ (row'[key].status = "completed" => o = "succeeded")
            /\ (row'[key].status # "completed" => o = "failed")
            /\ row'[key].status \in {"completed", "failed"}
            /\ \A j \in Keys \ {key} : row'[j] = row[j]
    BY <1>1, <1>5
  <2>2. OnceEntry(key)' = [state |-> o, by |-> r]
    BY <2>1 DEF OnceEntry
  <2>3. \A j \in Keys \ {key} : OnceEntry(j)' = OnceEntry(j)
    BY <2>1 DEF OnceEntry
  <2>4. OnceEntries' = [OnceEntries EXCEPT ![key] = [state |-> o, by |-> r]]
    BY <2>2, <2>3 DEF OnceEntries
  <2>. QED
    BY <2>1, <2>4
<1>7. \/ UNCHANGED OnceGiven
      \/ outcome = "succeeded" /\ OnceGiven' = [OnceGiven EXCEPT ![r] = r]
  <2>1. \E a \in {VerdictAnswer(r), Tell("unresolved")} : Finish(r, a)
    BY <1>1 DEF SettleRow
  <2>2. CASE Finish(r, Tell("unresolved"))
    BY <1>1, <2>2, NoResult DEF Tell
  <2>3. CASE Finish(r, VerdictAnswer(r)) /\ verdict[r] = "completed"
    <3>1. Finish(r, [kind |-> "success", of |-> r])
      BY <2>3 DEF VerdictAnswer
    <3>2. UNCHANGED OnceGiven \/ OnceGiven' = [OnceGiven EXCEPT ![r] = r]
      BY <1>1, <3>1, ResultGiven
    <3>. QED
      BY <2>3, <3>2
  <2>4. CASE Finish(r, VerdictAnswer(r)) /\ verdict[r] # "completed"
    <3>1. VerdictAnswer(r).kind \notin {"success", "replay"}
      BY <2>4 DEF VerdictAnswer, Tell
    <3>. QED
      BY <1>1, <2>4, <3>1, NoResult
  <2>. QED
    BY <2>1, <2>2, <2>3, <2>4
<1>8. outcome \in Once!Outcomes
  BY DEF Once!Outcomes
<1>. HIDE DEF outcome, k
<1>. QED
  BY <1>2, <1>3, <1>4, <1>6, <1>7, <1>8 DEF Once!Settle, KeyOf, k

LEMMA CallRuns ==
  ASSUME GatewayInv, NEW r \in Requests, CallProvider(r)
  PROVE  Once!Run(r)
<1>1. Once!Owns(r)
  BY OwnerOwns DEF CallProvider, Owning
<1>2. UNCHANGED OnceEntries /\ UNCHANGED OnceGiven
  BY EntriesUnchanged, GivenUnchanged DEF CallProvider, database
<1>. QED
  BY <1>1, <1>2 DEF Once!Run, CallProvider, KeyOf

LEMMA OnceInit == Init => Once!Init
BY DEF Init, Once!Init, OnceEntries, OnceEntry, OnceGiven, NoRow

\* A step that writes no row, calls nobody and finishes nothing.
LEMMA OnceSilent ==
  ASSUME UNCHANGED <<row, req, callers, answer>>
  PROVE  UNCHANGED Once!onceVars
BY EntriesUnchanged, GivenUnchanged DEF Once!onceVars

\* A handler that finishes without a result.
LEMMA OnceRefused ==
  ASSUME GatewayInv, NEW r \in Requests, pc[r] # "done", NEW kind,
         kind \notin {"success", "replay"}, Finish(r, Tell(kind)),
         UNCHANGED <<row, req, callers>>
  PROVE  UNCHANGED Once!onceVars
<1>1. Tell(kind).kind \notin {"success", "replay"}
  BY DEF Tell
<1>2. UNCHANGED OnceGiven
  BY <1>1, NoResult
<1>. QED
  BY <1>2, EntriesUnchanged DEF Once!onceVars

\* The gateway implements the abstract idempotent execution: reserving owns the
\* key, a call of the provider runs, a committed settlement settles, an answer
\* from a stored row gives its result again, and every other step is a stutter.
THEOREM GatewayImplementsOnce == Spec => ImplementsOnce
<1>. DEFINE OnceStep == Once!Next \/ UNCHANGED Once!onceVars
<1>1. GatewayInv /\ CalledBeforeSuccess /\ [Next]_vars => OnceStep
  <2>. SUFFICES ASSUME GatewayInv, CalledBeforeSuccess, [Next]_vars PROVE OnceStep
    OBVIOUS
  <2>. USE DEF database, clock, handler
  <2>1. ASSUME NEW r \in Requests,
               Arrive(r) \/ Admit(r) \/ CircuitOpen(r) \/ ProviderRetry(r) \/ ProviderGivesUp(r)
                 \/ ProviderRaises(r) \/ ProviderAnswers(r) \/ Cancel(r) \/ Crash(r)
        PROVE  OnceStep
    BY <2>1, OnceSilent DEF Arrive, Admit, CircuitOpen, ProviderRetry, ProviderGivesUp,
                            ProviderRaises, ProviderAnswers, Cancel, Crash
  <2>2. ASSUME NEW r \in Requests, ReplayLookup(r) PROVE OnceStep
    <3>1. CASE row[KeyOf(r)].status = "absent"
      BY <2>2, <3>1, OnceSilent DEF ReplayLookup
    <3>2. CASE row[KeyOf(r)].status # "absent"
      BY <2>2, <3>2, AnswerGives DEF ReplayLookup, Once!Next
    <3>. QED
      BY <3>1, <3>2
  <2>3. ASSUME NEW r \in Requests,
               Refuse(r) \/ ReserveWithoutPeriod(r) \/ ReserveTooLittle(r) \/ ReserveFails(r)
                 \/ SettleFails(r)
        PROVE  OnceStep
    BY <2>3, OnceRefused DEF Refuse, ReserveWithoutPeriod, ReserveTooLittle, ReserveFails,
                             SettleFails
  <2>4. ASSUME NEW r \in Requests, ReserveDuplicate(r) PROVE OnceStep
    BY <2>4, AnswerGives DEF ReserveDuplicate, KeyIsFree, Once!Next
  <2>5. ASSUME NEW r \in Requests, ReserveAcquire(r) PROVE OnceStep
    BY <2>5, AcquireOwns DEF Once!Next
  <2>6. ASSUME NEW r \in Requests, CallProvider(r) PROVE OnceStep
    BY <2>6, CallRuns DEF Once!Next
  <2>7. ASSUME NEW r \in Requests, SettleRow(r) PROVE OnceStep
    <3>1. CASE SettlementCommits(r)
      BY <2>7, <3>1, SettleRowSettles DEF Once!Next
    <3>2. CASE ~SettlementCommits(r)
      <4>1. row[KeyOf(r)].status = "pending"
        BY <2>7 DEF SettleRow, GatewayInv, OwnerHoldsReservation, Owning
      <4>2. Finish(r, Tell("unresolved")) /\ UNCHANGED database
        BY <2>7, <3>2, <4>1 DEF SettleRow, SettlementCommits, RefundPeriod
      <4>. QED
        BY <2>7, <4>2, OnceRefused DEF SettleRow
    <3>. QED
      BY <3>1, <3>2
  <2>8. CASE RollPeriod \/ (\E k \in Keys : ExpireLease(k)) \/ UNCHANGED vars
    BY <2>8, OnceSilent DEF RollPeriod, ExpireLease, vars
  <2>. QED
    BY <2>1, <2>2, <2>3, <2>4, <2>5, <2>6, <2>7, <2>8 DEF Next, Handle
<1>2. GatewayInv /\ CalledBeforeSuccess /\ [Next]_vars => CalledBeforeSuccess'
  BY CalledStep DEF GatewayInv
<1>. QED
  BY OnceInit, CalledInit, <1>1, <1>2, GatewayInvariant, PTL DEF Spec, ImplementsOnce, Once!Spec

-----------------------------------------------------------------------------
(***************************************************************************)
(* The safety half of EveryRequestEnds: a request that arrived always has  *)
(* work left that its handler may do, and every step of its handler uses   *)
(* some up.  With the weak fairness of Handle(r) it ends.                  *)
(***************************************************************************)

\* Attempts are counted from the first call, and no call is made beyond the last.
AttemptsCounted ==
  \A r \in Requests :
    /\ pc[r] \in Early => tries[r] = 0
    /\ pc[r] = "execute" => tries[r] < MaxAttempts

\* Steps the handler of r can still take, at most.
WorkAt(location, tried) ==
  CASE location = "lookup"          -> 2 * MaxAttempts + 4
    [] location = "admit"           -> 2 * MaxAttempts + 3
    [] location = "reserve"         -> 2 * MaxAttempts + 2
    [] location = "execute"         -> 2 * (MaxAttempts - tried) + 1
    [] location = "calling"         -> 2 * (MaxAttempts - tried) + 2
    [] location = "settle"          -> 1
    [] OTHER                        -> 0

Work(r) == WorkAt(pc[r], tries[r])

\* A step of r's own handler uses work up, and no step of anybody adds to the
\* work of a request that has arrived.
WorkShrinks ==
  \A r \in Requests : pc[r] # "idle" =>
    /\ Work(r)' <= Work(r)
    /\ Handle(r) => Work(r)' < Work(r)

\* Where a step of r's handler takes it, and what it does to its count.
Advances(r) ==
  \/ pc[r] \in {"lookup", "admit", "reserve", "execute", "calling", "settle"}
     /\ pc'[r] \in {"done", "gone"} /\ tries'[r] = tries[r]
  \/ pc[r] = "lookup" /\ pc'[r] = "admit" /\ tries'[r] = tries[r]
  \/ pc[r] = "admit" /\ pc'[r] = "reserve" /\ tries'[r] = tries[r]
  \/ pc[r] = "reserve" /\ pc'[r] = "execute" /\ tries'[r] = tries[r]
  \/ pc[r] = "execute" /\ tries[r] < MaxAttempts
     /\ pc'[r] \in {"calling", "gone"} /\ tries'[r] = tries[r] + 1
  \/ pc[r] = "calling" /\ tries[r] < MaxAttempts
     /\ pc'[r] = "execute" /\ tries'[r] = tries[r]
  \/ pc[r] \in {"execute", "calling"} /\ pc'[r] = "settle" /\ tries'[r] = tries[r]

LEMMA HandleAdvances ==
  ASSUME TypeOK, NEW r \in Requests, Handle(r)
  PROVE  /\ Advances(r)
         /\ \A s \in Requests \ {r} : pc'[s] = pc[s] /\ tries'[s] = tries[s]
<1>. USE DEF TypeOK, handler, GoTo, Finish, AskToSettle, Advances
<1>1. CASE ReplayLookup(r)
  BY <1>1 DEF ReplayLookup
<1>2. CASE Refuse(r)
  BY <1>2 DEF Refuse
<1>3. CASE Admit(r)
  BY <1>3 DEF Admit
<1>4. CASE ReserveWithoutPeriod(r) \/ ReserveDuplicate(r) \/ ReserveTooLittle(r) \/ ReserveFails(r)
  BY <1>4 DEF ReserveWithoutPeriod, ReserveDuplicate, ReserveTooLittle, ReserveFails
<1>5. CASE ReserveAcquire(r)
  BY <1>5 DEF ReserveAcquire
<1>6. CASE CircuitOpen(r) \/ ProviderGivesUp(r) \/ ProviderRaises(r) \/ ProviderAnswers(r)
  BY <1>6 DEF CircuitOpen, ProviderGivesUp, ProviderRaises, ProviderAnswers
<1>7. CASE CallProvider(r)
  BY <1>7 DEF CallProvider
<1>8. CASE ProviderRetry(r)
  BY <1>8 DEF ProviderRetry
<1>9. CASE SettleRow(r)
  BY <1>9 DEF SettleRow
<1>10. CASE SettleFails(r)
  BY <1>10 DEF SettleFails
<1>. QED
  BY <1>1, <1>2, <1>3, <1>4, <1>5, <1>6, <1>7, <1>8, <1>9, <1>10 DEF Handle

\* Every request starts, advances by its own handler, is ended by a fault, or
\* stays where it is.
LEMMA EveryMove ==
  ASSUME TypeOK, [Next]_vars, NEW r \in Requests
  PROVE  \/ Handle(r) /\ Advances(r)
         \/ ~Handle(r) /\ tries'[r] = tries[r]
            /\ \/ pc[r] = "idle" /\ pc'[r] \in {"lookup", "gone"}
               \/ pc'[r] \in {pc[r], "gone"}
<1>1. CASE Handle(r)
  BY <1>1, HandleAdvances
<1>2. CASE ~Handle(r)
  <2>1. ASSUME NEW s \in Requests, Handle(s)
        PROVE  pc'[r] = pc[r] /\ tries'[r] = tries[r]
    BY <1>2, <2>1, HandleAdvances
  <2>2. ASSUME NEW s \in Requests, Arrive(s) \/ Cancel(s) \/ Crash(s)
        PROVE  tries'[r] = tries[r]
               /\ \/ pc[r] = "idle" /\ pc'[r] \in {"lookup", "gone"}
                  \/ pc'[r] \in {pc[r], "gone"}
    BY <2>2 DEF TypeOK, Arrive, Cancel, Crash, GoTo
  <2>3. CASE RollPeriod \/ (\E k \in Keys : ExpireLease(k)) \/ UNCHANGED vars
    BY <1>2, <2>3 DEF RollPeriod, ExpireLease, vars, handler
  <2>. QED
    BY <1>2, <2>1, <2>2, <2>3 DEF Next
<1>. QED
  BY <1>1, <1>2

LEMMA AttemptsCountedStep ==
  ASSUME TypeOK, AttemptsCounted, [Next]_vars
  PROVE  AttemptsCounted'
<1>. SUFFICES ASSUME NEW r \in Requests
              PROVE  /\ pc'[r] \in Early => tries'[r] = 0
                     /\ pc'[r] = "execute" => tries'[r] < MaxAttempts
  BY DEF AttemptsCounted
<1>1. MaxAttempts \in Nat \ {0} /\ tries[r] \in Nat
  BY GatewayAssumption DEF TypeOK
<1>. QED
  BY <1>1, EveryMove DEF AttemptsCounted, Advances, Early

\* A request that arrived and has not ended has work left, and an attempt left
\* when it is about to call: the guards of its handler never hold it up.
LEMMA AttemptsLeft == Spec => [](TypeOK /\ AttemptsCounted)
<1>1. Init => AttemptsCounted
  BY GatewayAssumption DEF Init, AttemptsCounted, Early
<1>. QED
  BY <1>1, AttemptsCountedStep, TypeInit, TypeStep, PTL DEF Spec

\* A handler takes at most 2 * MaxAttempts + 4 steps (_resolve_existing_row_sync,
\* the checks, Txn 1, every attempt and its backoff, Txn 2): nothing its own
\* steps or anybody else's do ever gives it more to do.
THEOREM GatewayWorkShrinks == Spec => [][WorkShrinks]_vars
<1>1. TypeOK /\ AttemptsCounted /\ [Next]_vars => WorkShrinks
  <2>. SUFFICES ASSUME TypeOK, AttemptsCounted, [Next]_vars,
                       NEW r \in Requests, pc[r] # "idle"
                PROVE  /\ Work(r)' <= Work(r)
                       /\ Handle(r) => Work(r)' < Work(r)
    BY DEF WorkShrinks
  <2>1. /\ MaxAttempts \in Nat \ {0} /\ tries[r] \in 0 .. MaxAttempts
        /\ pc[r] \in Early => tries[r] = 0
    BY GatewayAssumption DEF TypeOK, AttemptsCounted
  <2>2. Work(r) = WorkAt(pc[r], tries[r]) /\ Work(r)' = WorkAt(pc'[r], tries'[r])
    BY DEF Work
  <2>3. WorkAt(pc'[r], tries'[r]) \in Int /\ WorkAt(pc[r], tries[r]) \in Int
    <3>1. tries'[r] \in Int
      BY <2>1, EveryMove DEF Advances
    <3>. QED
      BY <2>1, <3>1 DEF WorkAt
  <2>4. ASSUME Advances(r) PROVE WorkAt(pc'[r], tries'[r]) < WorkAt(pc[r], tries[r])
    <3>1. CASE pc'[r] \in {"done", "gone"} /\ WorkAt(pc[r], tries[r]) >= 1
      <4>1. WorkAt(pc'[r], tries'[r]) = 0
        BY <3>1 DEF WorkAt
      <4>2. PICK n \in Int : n = WorkAt(pc[r], tries[r])
        BY <2>3
      <4>. QED
        BY <3>1, <4>1, <4>2
    <3>2. pc[r] \in {"lookup", "admit", "reserve", "execute", "calling", "settle"} =>
            WorkAt(pc[r], tries[r]) >= 1
      BY <2>1 DEF WorkAt
    <3>3. CASE pc'[r] = "admit" \/ pc'[r] = "reserve"
      BY <2>1, <2>4, <3>3 DEF Advances, WorkAt
    <3>4. CASE pc'[r] = "execute"
      BY <2>1, <2>4, <3>4 DEF Advances, WorkAt, Early
    <3>5. CASE pc'[r] = "calling"
      BY <2>1, <2>4, <3>5 DEF Advances, WorkAt
    <3>6. CASE pc'[r] = "settle"
      <4>1. WorkAt(pc'[r], tries'[r]) = 1
        BY <3>6 DEF WorkAt
      <4>2. pc[r] \in {"execute", "calling"} /\ (pc[r] = "execute" => tries[r] < MaxAttempts)
        BY <2>4, <3>6 DEF Advances, AttemptsCounted
      <4>3. WorkAt(pc[r], tries[r]) > 1
        BY <2>1, <4>2 DEF WorkAt
      <4>. QED
        BY <2>3, <4>1, <4>3
    <3>. QED
      BY <2>4, <3>1, <3>2, <3>3, <3>4, <3>5, <3>6 DEF Advances
  <2>5. ASSUME pc'[r] \in {pc[r], "gone"}, tries'[r] = tries[r]
        PROVE  WorkAt(pc'[r], tries'[r]) <= WorkAt(pc[r], tries[r])
    BY <2>1, <2>5 DEF WorkAt
  <2>. QED
    BY <2>2, <2>3, <2>4, <2>5, EveryMove
<1>. QED
  BY <1>1, AttemptsLeft, PTL DEF Spec

-----------------------------------------------------------------------------
(***************************************************************************)
(* The gateway implements the atomic transactions.  Beside the invariant   *)
(* this needs that a cancelled request waits for its database thread only, *)
(* so that it never asks for a transaction any more.                       *)
(***************************************************************************)

CancelledWaits == \A r \in cancelled : pc[r] \in {"reserve", "settle", "gone"}

LEMMA CancelledWaitsStep ==
  ASSUME TypeOK, CancelledWaits, [Next]_vars
  PROVE  CancelledWaits'
<1>. USE DEF CancelledWaits
<1>1. ASSUME NEW r \in Requests, NEW next, GoTo(r, next), UNCHANGED cancelled
      PROVE  CancelledWaits'
  BY <1>1 DEF TypeOK, GoTo
<1>2. ASSUME NEW r \in Requests, Handle(r) \/ Arrive(r)
      PROVE  UNCHANGED cancelled /\ \E next : GoTo(r, next)
  <2>1. CASE \/ Arrive(r) \/ ReplayLookup(r) \/ Refuse(r) \/ Admit(r) \/ ReserveWithoutPeriod(r)
             \/ ReserveDuplicate(r) \/ ReserveTooLittle(r) \/ ReserveFails(r) \/ SettleFails(r)
    BY <2>1 DEF handler, Finish, Arrive, ReplayLookup, Refuse, Admit, ReserveWithoutPeriod,
                ReserveDuplicate, ReserveTooLittle, ReserveFails, SettleFails
  <2>2. CASE \/ ReserveAcquire(r) \/ CircuitOpen(r) \/ CallProvider(r) \/ ProviderRetry(r)
             \/ ProviderGivesUp(r) \/ ProviderRaises(r) \/ ProviderAnswers(r)
    BY <2>2 DEF handler, Finish, AskToSettle, ReserveAcquire, CircuitOpen, CallProvider,
                ProviderRetry, ProviderGivesUp, ProviderRaises, ProviderAnswers
  <2>3. CASE SettleRow(r)
    BY <2>3 DEF Finish, SettleRow
  <2>. QED
    BY <1>2, <2>1, <2>2, <2>3 DEF Handle
<1>3. ASSUME NEW r \in Requests, Cancel(r) \/ Crash(r) PROVE CancelledWaits'
  BY <1>3 DEF TypeOK, Cancel, Crash
<1>4. CASE RollPeriod \/ (\E k \in Keys : ExpireLease(k)) \/ UNCHANGED vars
  BY <1>4 DEF RollPeriod, ExpireLease, vars, handler
<1>. QED
  BY <1>1, <1>2, <1>3, <1>4 DEF Next

LEMMA PlacesOfLocations ==
  /\ \A x \in {"idle", "lookup", "admit"} : PlaceOf(x) = "outside"
  /\ PlaceOf("reserve") = "asking"
  /\ \A x \in {"execute", "calling"} : PlaceOf(x) = "owner"
  /\ PlaceOf("settle") = "settling"
  /\ \A x \in {"done", "gone"} : PlaceOf(x) = "ended"
BY DEF PlaceOf

\* What the atomic transactions see of the database and of the requests' keys.
LEMMA EntriesStay ==
  ASSUME UNCHANGED <<row, usage, req>> PROVE Entries' = Entries /\ KeysWanted' = KeysWanted
<1>1. Entries' = Entries
  BY DEF Entries, EntryOf, UsageOf
<1>2. KeysWanted' = KeysWanted
  BY DEF KeysWanted, KeyOf
<1>. QED
  BY <1>1, <1>2

\* A step that commits nothing and gives no request a new place but its end is
\* a departure, of nobody perhaps.
LEMMA SomeLeave ==
  ASSUME UNCHANGED <<row, usage, remaining, req, quote, cost>>,
         \A r \in Requests : PlaceOf(pc'[r]) \in {PlaceOf(pc[r]), "ended"}
  PROVE  Atomic!Next
<1>. DEFINE S == {r \in Requests : PlaceOf(pc'[r]) # PlaceOf(pc[r])}
<1>1. \A r \in S : Places[r] # "ended"
  BY DEF Places
<1>2. Places' = [r \in Requests |-> IF r \in S THEN "ended" ELSE Places[r]]
  BY DEF Places
<1>3. S \in SUBSET Requests
  OBVIOUS
<1>. HIDE DEF S
<1>4. Atomic!Leave(S)
  BY <1>1, <1>2, EntriesStay DEF Atomic!Leave
<1>. QED
  BY <1>3, <1>4 DEF Atomic!Next

\* A step of r's coroutine moves r alone, to where it goes or out.
LEMMA OneMoves ==
  ASSUME TypeOK, NEW r \in Requests, NEW next, GoTo(r, next)
  PROVE  /\ pc'[r] = IF r \in cancelled THEN "gone" ELSE next
         /\ \A s \in Requests \ {r} : pc'[s] = pc[s]
         /\ Places[r] = PlaceOf(pc[r])
         /\ Places' = [Places EXCEPT ![r] = PlaceOf(pc'[r])]
<1>1. /\ pc'[r] = IF r \in cancelled THEN "gone" ELSE next
      /\ \A s \in Requests \ {r} : pc'[s] = pc[s]
  BY DEF TypeOK, GoTo
<1>2. Places' = [s \in Requests |-> PlaceOf(pc'[s])]
  BY DEF Places
<1>3. [Places EXCEPT ![r] = PlaceOf(pc'[r])]
        = [s \in Requests |-> IF s = r THEN PlaceOf(pc'[r]) ELSE PlaceOf(pc[s])]
  BY DEF Places
<1>. QED
  BY <1>1, <1>2, <1>3 DEF Places

LEMMA OneLeavesOrStays ==
  ASSUME TypeOK, UNCHANGED <<row, usage, remaining, req, quote, cost>>,
         NEW r \in Requests, NEW next, GoTo(r, next),
         PlaceOf(next) \in {PlaceOf(pc[r]), "ended"}
  PROVE  Atomic!Next
<1>1. PlaceOf(pc'[r]) \in {PlaceOf(pc[r]), "ended"}
  BY OneMoves, PlacesOfLocations
<1>2. \A s \in Requests \ {r} : pc'[s] = pc[s]
  BY OneMoves
<1>. QED
  BY <1>1, <1>2, SomeLeave

\* The checks pass: the handler asks for Txn 1 with its quote.
LEMMA AdmitAsks ==
  ASSUME TypeOK, CancelledWaits, NEW r \in Requests, Admit(r)
  PROVE  Atomic!Next
<1>1. pc[r] = "admit" /\ r \notin cancelled /\ GoTo(r, "reserve")
  BY DEF Admit, CancelledWaits
<1>2. Places[r] = "outside" /\ Places' = [Places EXCEPT ![r] = "asking"]
  <2>1. Places[r] = PlaceOf("admit") /\ Places' = [Places EXCEPT ![r] = PlaceOf("reserve")]
    BY <1>1, OneMoves
  <2>. QED
    BY <2>1, PlacesOfLocations
<1>3. quote'[r] \in Nat /\ quote' = [quote EXCEPT ![r] = quote'[r]]
  <2>1. PICK c \in Quotes : quote' = [quote EXCEPT ![r] = c]
    BY DEF Admit
  <2>2. c \in Nat /\ quote'[r] = c
    BY <2>1, GatewayAssumption DEF TypeOK
  <2>. QED
    BY <2>1, <2>2
<1>4. UNCHANGED <<row, usage, remaining, req, cost>>
  BY DEF Admit, database
<1>5. Atomic!Ask(r)
  BY <1>2, <1>3, <1>4, EntriesStay DEF Atomic!Ask, Atomic!GoTo
<1>. QED
  BY <1>5 DEF Atomic!Next

\* The execution is over: the handler asks for Txn 2 with its cost.
LEMMA ConclusionAsks ==
  ASSUME TypeOK, CancelledWaits, NEW r \in Requests, pc[r] \in {"execute", "calling"},
         NEW how, NEW c \in Nat, AskToSettle(r, how, c),
         UNCHANGED <<row, usage, remaining, req, quote>>
  PROVE  Atomic!Next
<1>1. r \notin cancelled /\ GoTo(r, "settle")
  BY DEF AskToSettle, CancelledWaits
<1>2. Places[r] = "owner" /\ Places' = [Places EXCEPT ![r] = "settling"]
  <2>1. Places[r] = PlaceOf(pc[r]) /\ Places' = [Places EXCEPT ![r] = PlaceOf("settle")]
    BY <1>1, OneMoves
  <2>. QED
    BY <2>1, PlacesOfLocations
<1>3. cost'[r] \in Nat /\ cost' = [cost EXCEPT ![r] = cost'[r]]
  <2>1. cost' = [cost EXCEPT ![r] = c] /\ cost'[r] = c
    BY DEF AskToSettle, TypeOK
  <2>. QED
    BY <2>1
<1>4. Atomic!Conclude(r)
  BY <1>2, <1>3, EntriesStay DEF Atomic!Conclude, Atomic!GoTo
<1>. QED
  BY <1>4 DEF Atomic!Next

\* Transaction 1 of the handler is an acquisition.
LEMMA AcquireAcquires ==
  ASSUME GatewayInv, NEW r \in Requests, ReserveAcquire(r)
  PROVE  Atomic!Next
<1>1. PICK k \in Keys : k = KeyOf(r)
  BY DEF GatewayInv, TypeOK, KeyOf
<1>2. /\ pc[r] = "reserve" /\ row[k].status = "absent" /\ period \in Periods
      /\ row' = [row EXCEPT ![k] =
                   [status |-> "pending", hash |-> req[r].hash, id |-> r,
                    reserved |-> quote[r], period |-> period]]
      /\ remaining' = [remaining EXCEPT ![period] = @ - quote[r]]
      /\ quote[r] <= remaining[period]
      /\ UNCHANGED <<usage, req, quote, cost>>
  <2>1. quote[r] \in Nat /\ remaining[period] \in Nat
    BY DEF ReserveAcquire, GatewayInv, TypeOK
  <2>. QED
    BY <1>1, <2>1 DEF ReserveAcquire, KeyIsFree, CanReserve
<1>3. KeysWanted[r] = k /\ KeysWanted' = KeysWanted
  BY <1>1, <1>2 DEF KeysWanted, KeyOf
<1>4. Entries[k] = [state |-> "free"]
  BY <1>2 DEF Entries, EntryOf
<1>5. Entries' = [Entries EXCEPT ![k] = [state |-> "held", owner |-> r, period |-> period,
                                         amount |-> quote[r]]]
  <2>1. EntryOf(k)' = [state |-> "held", owner |-> r, period |-> period, amount |-> quote[r]]
    BY <1>2 DEF EntryOf, GatewayInv, TypeOK
  <2>2. \A j \in Keys \ {k} : EntryOf(j)' = EntryOf(j)
    BY <1>2 DEF EntryOf, UsageOf, GatewayInv, TypeOK
  <2>. QED
    BY <2>1, <2>2 DEF Entries
<1>6. /\ Places[r] = "asking"
      /\ \E place \in {"owner", "ended"} : Places' = [Places EXCEPT ![r] = place]
  <2>1. PICK next \in {"execute", "done"} : GoTo(r, next)
    BY DEF ReserveAcquire, Finish
  <2>2. Places[r] = PlaceOf("reserve") /\ Places' = [Places EXCEPT ![r] = PlaceOf(pc'[r])]
    BY <1>2, <2>1, OneMoves DEF GatewayInv
  <2>3. pc'[r] \in {"execute", "done", "gone"}
    BY <2>1, OneMoves DEF GatewayInv
  <2>4. PlaceOf(pc'[r]) \in {"owner", "ended"} /\ PlaceOf("reserve") = "asking"
    BY <2>3, PlacesOfLocations
  <2>. QED
    BY <2>2, <2>4
<1>7. Atomic!Acquire(r)
  BY <1>2, <1>3, <1>4, <1>5, <1>6 DEF Atomic!Acquire, Atomic!GoTo
<1>. QED
  BY <1>7 DEF Atomic!Next

\* A committed transaction 2 of the handler is a settlement of its own row.
LEMMA SettlementIsAtomic ==
  ASSUME GatewayInv, NEW r \in Requests, SettleRow(r), SettlementCommits(r)
  PROVE  Atomic!Next
<1>1. PICK k \in Keys : k = KeyOf(r)
  BY DEF GatewayInv, TypeOK, KeyOf
<1>2. /\ pc[r] = "settle" /\ UNCHANGED <<req, quote, cost>>
      /\ \E a : Finish(r, a)
  BY DEF SettleRow
<1>3. PICK p \in Periods : p = row[k].period
  BY <1>1 DEF GatewayInv, SettlementCommits, RowsBelong, RowBelongsTo
<1>4. row[k].status = "pending" /\ row[k].id = r /\ row[k].reserved = quote[r]
  BY <1>1, <1>2 DEF GatewayInv, OwnerHoldsReservation, Owning
<1>5. KeysWanted[r] = k /\ KeysWanted' = KeysWanted
  BY <1>1, <1>2 DEF KeysWanted, KeyOf
<1>6. Entries[k] = [state |-> "held", owner |-> r, period |-> p, amount |-> quote[r]]
  BY <1>3, <1>4 DEF Entries, EntryOf
<1>7. Entries' = [Entries EXCEPT ![k] = [state |-> "settled", owner |-> r, period |-> p,
                                         amount |-> quote[r], cost |-> cost[r]]]
  <2>1. /\ row'[k].status \in {"completed", "failed"}
        /\ row'[k].id = r /\ row'[k].period = p /\ row'[k].reserved = quote[r]
        /\ UsageOf(k)'.cost = cost[r]
    BY <1>1, <1>3, <1>4, SettledRowKeeps
  <2>2. EntryOf(k)' = [state |-> "settled", owner |-> r, period |-> p, amount |-> quote[r],
                       cost |-> cost[r]]
    BY <2>1 DEF EntryOf
  <2>3. \A j \in Keys \ {k} : row'[j] = row[j] /\ usage'[j] = usage[j]
    BY <1>1 DEF SettlementCommits, GatewayInv, TypeOK
  <2>4. \A j \in Keys \ {k} : EntryOf(j)' = EntryOf(j)
    BY <2>3 DEF EntryOf, UsageOf
  <2>. QED
    BY <2>2, <2>4 DEF Entries
<1>8. remaining' = [remaining EXCEPT ![p] = @ + Atomic!Rest(quote[r], cost[r])]
  <2>1. quote[r] \in Nat /\ cost[r] \in Nat
    BY DEF GatewayInv, TypeOK
  <2>2. Atomic!Rest(quote[r], cost[r]) = Refund(quote[r], cost[r])
    BY <2>1 DEF Atomic!Rest, Refund
  <2>. QED
    BY <1>1, <1>3, <1>4, <2>2 DEF SettlementCommits
<1>9. Places[r] = "settling" /\ Places' = [Places EXCEPT ![r] = "ended"]
  <2>1. PICK next : next = "done" /\ GoTo(r, next)
    BY <1>2 DEF Finish
  <2>2. Places[r] = PlaceOf("settle") /\ Places' = [Places EXCEPT ![r] = PlaceOf(pc'[r])]
    BY <1>2, <2>1, OneMoves DEF GatewayInv
  <2>3. pc'[r] \in {"done", "gone"}
    BY <2>1, OneMoves DEF GatewayInv
  <2>. QED
    BY <2>2, <2>3, PlacesOfLocations
<1>10. Atomic!Settle(r)
  BY <1>2, <1>5, <1>6, <1>7, <1>8, <1>9 DEF Atomic!Settle, Atomic!GoTo
<1>. QED
  BY <1>10 DEF Atomic!Next

\* What a handler does besides shows nothing to the atomic transactions, or
\* ends its request.
LEMMA HandlerAtomic ==
  ASSUME GatewayInv, CancelledWaits, NEW r \in Requests, Handle(r)
  PROVE  Atomic!Next
<1>. USE DEF database
<1>1. TypeOK
  BY DEF GatewayInv
<1>2. CASE ReplayLookup(r) \/ Refuse(r)
  <2>1. PICK next \in {"admit", "done"} : GoTo(r, next)
    BY <1>2 DEF ReplayLookup, Refuse, Finish
  <2>2. pc[r] \in {"lookup", "admit"} /\ UNCHANGED <<row, usage, remaining, req, quote, cost>>
    BY <1>2 DEF ReplayLookup, Refuse
  <2>. QED
    BY <1>1, <2>1, <2>2, OneLeavesOrStays, PlacesOfLocations
<1>3. CASE \/ ReserveWithoutPeriod(r) \/ ReserveDuplicate(r) \/ ReserveTooLittle(r)
           \/ ReserveFails(r) \/ SettleFails(r)
  <2>1. GoTo(r, "done") /\ UNCHANGED <<row, usage, remaining, req, quote, cost>>
    BY <1>3 DEF ReserveWithoutPeriod, ReserveDuplicate, ReserveTooLittle, ReserveFails,
                SettleFails, Finish
  <2>. QED
    BY <1>1, <2>1, OneLeavesOrStays, PlacesOfLocations
<1>4. CASE CircuitOpen(r) \/ ProviderGivesUp(r) \/ ProviderRaises(r) \/ ProviderAnswers(r)
  <2>1. PICK how \in {"exhausted", "internal", "completed"}, c \in ActualCosts \cup {0} :
          AskToSettle(r, how, c)
    <3>1. CASE CircuitOpen(r) \/ ProviderGivesUp(r)
      BY <3>1 DEF CircuitOpen, ProviderGivesUp
    <3>2. CASE ProviderRaises(r)
      BY <3>2 DEF ProviderRaises
    <3>3. CASE ProviderAnswers(r)
      BY <3>3 DEF ProviderAnswers
    <3>. QED
      BY <1>4, <3>1, <3>2, <3>3
  <2>2. /\ pc[r] \in {"execute", "calling"} /\ c \in Nat
        /\ UNCHANGED <<row, usage, remaining, req, quote>>
    BY <1>4, GatewayAssumption DEF CircuitOpen, ProviderGivesUp, ProviderRaises, ProviderAnswers
  <2>. QED
    BY <1>1, <2>1, <2>2, ConclusionAsks
<1>5. CASE CallProvider(r) \/ ProviderRetry(r)
  <2>1. PICK next \in {"execute", "calling"} : GoTo(r, next)
    BY <1>5 DEF CallProvider, ProviderRetry
  <2>2. pc[r] \in {"execute", "calling"} /\ UNCHANGED <<row, usage, remaining, req, quote, cost>>
    BY <1>5 DEF CallProvider, ProviderRetry
  <2>. QED
    BY <1>1, <2>1, <2>2, OneLeavesOrStays, PlacesOfLocations
<1>6. CASE SettleRow(r)
  <2>1. CASE SettlementCommits(r)
    BY <1>6, <2>1, SettlementIsAtomic
  <2>2. CASE ~SettlementCommits(r)
    <3>1. UNCHANGED <<row, usage, remaining, req, quote, cost>>
      BY <1>6, <2>2, SettleRowCases DEF SettleRow
    <3>2. PICK next : next = "done" /\ GoTo(r, next)
      BY <1>6 DEF SettleRow, Finish
    <3>. QED
      BY <1>1, <3>1, <3>2, OneLeavesOrStays, PlacesOfLocations
  <2>. QED
    BY <2>1, <2>2
<1>. QED
  BY <1>1, <1>2, <1>3, <1>4, <1>5, <1>6, AdmitAsks, AcquireAcquires DEF Handle

\* The handler implements the atomic transactions: whatever interleaving,
\* cancellation, crash or lost commit it meets, a request becomes the owner of a
\* free key together with the money of its own quote, and settles that key at
\* the cost of its own execution, or leaves both alone (_run_txn1_sync,
\* settle_success, settle_failure).
THEOREM GatewayImplementsTransactions == Spec => ImplementsTransactions
<1>1. Init => Atomic!Init /\ CancelledWaits
  <2>. SUFFICES ASSUME Init PROVE Atomic!Init /\ CancelledWaits
    OBVIOUS
  <2>1. Entries = [k \in Keys |-> [state |-> "free"]]
    BY DEF Init, NoRow, Entries, EntryOf
  <2>2. Places = [r \in Requests |-> "outside"]
    BY PlacesOfLocations DEF Init, Places
  <2>3. KeysWanted \in [Requests -> Keys]
    BY DEF Init, KeysWanted, KeyOf
  <2>. QED
    BY <2>1, <2>2, <2>3 DEF Init, Atomic!Init, CancelledWaits
<1>2. GatewayInv /\ CancelledWaits /\ [Next]_vars
        => [Atomic!Next]_(Atomic!vars) /\ CancelledWaits'
  <2>. SUFFICES ASSUME GatewayInv, TypeOK, CancelledWaits, [Next]_vars PROVE Atomic!Next
    BY CancelledWaitsStep DEF GatewayInv
  <2>1. ASSUME NEW r \in Requests, Arrive(r) PROVE Atomic!Next
    <3>1. /\ pc[r] = "idle" /\ GoTo(r, "lookup")
          /\ UNCHANGED <<row, usage, remaining, req, quote, cost>>
      BY <2>1 DEF Arrive, database
    <3>. QED
      BY <3>1, OneLeavesOrStays, PlacesOfLocations
  <2>2. ASSUME NEW r \in Requests, Cancel(r) \/ Crash(r) PROVE Atomic!Next
    <3>1. /\ \A s \in Requests : pc'[s] \in {pc[s], "gone"}
          /\ UNCHANGED <<row, usage, remaining, req, quote, cost>>
      BY <2>2 DEF TypeOK, Cancel, Crash, database
    <3>. QED
      BY <3>1, SomeLeave, PlacesOfLocations
  <2>3. CASE RollPeriod \/ (\E k \in Keys : ExpireLease(k)) \/ UNCHANGED vars
    <3>1. UNCHANGED <<row, usage, remaining, req, quote, cost, pc>>
      BY <2>3 DEF RollPeriod, ExpireLease, vars, handler, database
    <3>. QED
      BY <3>1, SomeLeave
  <2>. QED
    BY <2>1, <2>2, <2>3, HandlerAtomic DEF Next
<1>. QED
  BY <1>1, <1>2, GatewayInvariant, PTL DEF Spec, ImplementsTransactions, Atomic!Spec
=============================================================================
