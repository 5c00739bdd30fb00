------------------------ MODULE GatewayProcessProofs ------------------------
(***************************************************************************)
(* Proofs about a process and its request, for every model of the catalog, *)
(* number of attempts, timeout, prompt and max_tokens: costs are monotone, *)
(* so the quote covers the cost of all that the provider bills, up to what *)
(* rounding call by call adds; the route fits the lease; and shutdown      *)
(* closes every client.                                                    *)
(***************************************************************************)
EXTENDS GatewayProcess, TLAPS

-----------------------------------------------------------------------------
(* Arithmetic of prices *)

\* A product grows with its factor.
LEMMA ProductMonotone ==
  ASSUME NEW a \in Nat, NEW b \in Nat, a <= b, NEW c \in Nat
  PROVE  a * c \in Nat /\ a * c <= b * c
<1>1. (b - a) * c \in Nat /\ a * c \in Nat /\ b * c \in Nat
  OBVIOUS
<1>2. b * c = a * c + (b - a) * c
  OBVIOUS
<1>. QED
  BY <1>1, <1>2

\* Prices of the catalog are positive for output.
LEMMA PriceOK ==
  Price \in Prices /\ Price.input \in Nat /\ Price.output \in Nat /\ Price.output >= 2
<1>1. Model[2] \in {"mock-small", "mock-large", "gpt-5-mini"}
  BY CallAssumption DEF Models
<1>2. Price = CASE Model[2] = "mock-small" -> [input |-> 1, output |-> 2]
                [] Model[2] = "mock-large" -> [input |-> 5, output |-> 10]
                [] Model[2] = "gpt-5-mini" -> [input |-> 25, output |-> 200]
  BY CallAssumption DEF Price, Catalog
<1>3. \/ Price = [input |-> 1, output |-> 2]
      \/ Price = [input |-> 5, output |-> 10]
      \/ Price = [input |-> 25, output |-> 200]
  BY <1>1, <1>2
<1>. QED
  BY <1>3 DEF Prices

\* Rounding up is monotone, and only nothing costs nothing.
LEMMA RoundMonotone ==
  ASSUME NEW x \in Nat, NEW y \in Nat, x <= y
  PROVE  /\ RoundCost(x) \in Nat /\ RoundCost(x) <= RoundCost(y)
         /\ RoundCost(0) = 0 /\ (x > 0 => RoundCost(x) > 0)
  BY DEF RoundCost, Scale

\* More tokens never cost less, and an output token costs something.
LEMMA CostMonotone ==
  ASSUME NEW i \in Nat, NEW j \in Nat, i <= j, NEW o \in Nat, NEW q \in Nat, o <= q
  PROVE  /\ Cost(Price, i, o) \in Nat /\ Cost(Price, i, o) <= Cost(Price, j, q)
         /\ Cost(Price, 0, 0) = 0 /\ (o > 0 => Cost(Price, i, o) > 0)
<1>1. /\ i * Price.input \in Nat /\ i * Price.input <= j * Price.input
      /\ o * Price.output \in Nat /\ o * Price.output <= q * Price.output
  BY PriceOK, ProductMonotone
<1>1a. j * Price.input \in Nat /\ q * Price.output \in Nat
  <2>1. j <= j /\ q <= q
    OBVIOUS
  <2>. QED
    BY <2>1, PriceOK, ProductMonotone
<1>2. o > 0 => o * Price.output > 0
  <2>1. o > 0 => 1 * Price.output <= o * Price.output
    BY PriceOK, ProductMonotone
  <2>. QED
    BY <1>1, <2>1, PriceOK
<1>3. Exact(Price, 0, 0) = 0
  BY PriceOK DEF Exact
<1>4. /\ Exact(Price, i, o) \in Nat /\ Exact(Price, j, q) \in Nat
      /\ Exact(Price, i, o) <= Exact(Price, j, q) /\ (o > 0 => Exact(Price, i, o) > 0)
  BY <1>1, <1>1a, <1>2 DEF Exact
<1>. QED
  BY <1>3, <1>4, RoundMonotone DEF Cost

\* A backoff is at most MaxBackoff.
LEMMA BackoffBounded == \A n : Backoff(n) \in 0 .. MaxBackoff
  BY CallAssumption DEF Backoff, ValidPolicy

-----------------------------------------------------------------------------
(* The request *)

\* The most that one execution within max_tokens costs
OneCall == Cost(Price, input, limit)

\* What the process of a route proves is that its executions stay within the
\* attempts begun, and attempts within the quote: n executions of the request.
Within(n) ==
  /\ billed.input <= input * n
  /\ ~billed.surplus => billed.output <= limit * n /\ billed.cost <= OneCall * n

\* Executions before the current attempt, and all of them
Executed == IF step = "call" THEN attempt - 1 ELSE attempt

\* What the route may have taken
RouteTime(n) == n * (Timeout + MaxBackoff)

\* The bill, the hold and the time of a request at each step
BillInv ==
  /\ step \in {"new", "quote", "route"} =>
       attempt = 0 /\ billed = NothingBilled
  /\ step = "call" => attempt >= 1
  /\ step \in {"call", "settle"} => Within(Executed)
  /\ step \in {"route", "call", "settle"} => held = Quote(Price, input, limit, MaxAttempts)
  /\ step \notin {"settle", "over"} => actual = 0 /\ code = "none"
  /\ step # "over" => charge = 0

\* The outcome of a request
OutcomeInv ==
  /\ actual <= BilledCost
  /\ charge <= actual /\ charge <= held
  /\ code = "CIRCUIT_OPEN_NO_ATTEMPT" =>
       attempt = 0 /\ billed = NothingBilled
  /\ code = "SUCCEEDED" => actual > 0
  /\ step = "settle" => code # "none"

\* The time of a route
TimeInv ==
  /\ step \in {"new", "quote", "route"} => elapsed = 0
  /\ step = "call" => elapsed <= RouteTime(attempt - 1)
  /\ step = "settle" /\ attempt = 0 => elapsed = 0
  /\ step = "settle" /\ attempt > 0 => elapsed <= RouteTime(attempt - 1) + Timeout

CallInv == CallTypeOK /\ BillInv /\ OutcomeInv /\ TimeInv

\* A quote, a cost and a bill are natural numbers.
LEMMA CallTyped ==
  ASSUME CallTypeOK
  PROVE  /\ billed.input \in Nat /\ billed.output \in Nat /\ billed.surplus \in BOOLEAN
         /\ billed.cost \in Nat
         /\ limit \in Nat /\ limit >= 1 /\ input \in Nat
         /\ MaxAttempts \in Nat /\ MaxAttempts >= 1 /\ Timeout \in Nat
         /\ attempt \in Nat /\ elapsed \in Nat
  BY CallAssumption DEF CallTypeOK, Bills, ValidPolicy

\* A cost of natural numbers of tokens
LEMMA CostTyped == \A i, o \in Nat : Cost(Price, i, o) \in Nat
<1>. TAKE i, o \in Nat
<1>1. i <= i /\ o <= o
  OBVIOUS
<1>. QED
  BY <1>1, CostMonotone

\* The cost of the bill and the quote are natural numbers.
LEMMA QuoteTyped ==
  ASSUME CallTypeOK
  PROVE  BilledCost \in Nat /\ Quote(Price, input, limit, MaxAttempts) \in Nat
<1>1. \A a, b \in Nat : a * b \in Nat
  OBVIOUS
<1>2. input * MaxAttempts \in Nat /\ limit * MaxAttempts \in Nat
  BY <1>1, CallTyped
<1>. QED
  BY <1>2, CallTyped, CostTyped DEF BilledCost, Quote

\* The initial state satisfies the invariant.
LEMMA CallInvInit == CallInit => CallInv
<1>. SUFFICES ASSUME CallInit PROVE CallInv
  OBVIOUS
<1>1. billed = NothingBilled /\ billed \in Bills
  BY DEF CallInit, Bills, NothingBilled
<1>2. CallTypeOK
  <2>1. 0 \in 0 .. MaxAttempts
    BY CallAssumption DEF ValidPolicy
  <2>. QED
    BY <1>1, <2>1 DEF CallInit, CallTypeOK, Steps, Codes
<1>3. BilledCost \in Nat
  BY <1>2, QuoteTyped
<1>4. BillInv
  BY <1>1 DEF CallInit, BillInv
<1>5. OutcomeInv
  <2>1. actual = 0 /\ charge = 0 /\ held = 0 /\ code = "none" /\ step = "new"
    BY DEF CallInit
  <2>2. actual <= BilledCost /\ charge <= actual /\ charge <= held
    BY <2>1, <1>3
  <2>. QED
    BY <2>1, <2>2 DEF OutcomeInv
<1>6. TimeInv
  BY DEF CallInit, TimeInv
<1>. QED
  BY <1>2, <1>4, <1>5, <1>6 DEF CallInv

\* The actions of a request leave alone what they do not name; an execution
\* adds the prompt and an output of at most max_tokens to the bill, or more.
LEMMA BillAdds ==
  ASSUME CallTypeOK, NEW o \in Nat, Bill(o)
  PROVE  /\ billed' \in Bills
         /\ billed'.input = billed.input + input /\ billed'.output = billed.output + o
         /\ billed'.cost = billed.cost + Cost(Price, input, o)
         /\ billed'.surplus = (billed.surplus \/ o > limit)
<1>1. PICK c \in Nat : c = Cost(Price, input, o)
  BY CallTyped, CostTyped
<1>. QED
  BY <1>1, CallTyped DEF Bill, Bills

\* A failed attempt adds nothing or one execution within max_tokens.
LEMMA UnknownAdds ==
  ASSUME CallTypeOK, NEW a, BillUnknown(a)
  PROVE  /\ billed' \in Bills
         /\ \/ UNCHANGED billed
            \/ /\ billed'.input = billed.input + input
               /\ billed'.output = billed.output + limit
               /\ billed'.cost = billed.cost + OneCall
               /\ billed'.surplus = billed.surplus
<1>1. CASE UNCHANGED billed
  BY <1>1 DEF CallTypeOK
<1>2. CASE Bill(limit)
  <2>1. ~(limit > limit) /\ limit \in Nat
    BY CallTyped
  <2>. QED
    BY <1>2, <2>1, BillAdds, CallTyped DEF OneCall
<1>. QED
  BY <1>1, <1>2 DEF BillUnknown

\* An attempt ends within its timeout.
LEMMA LastsBounded == \A a : \A d \in Lasts(a) : d \in Nat /\ d <= Timeout
  BY CallAssumption DEF Lasts

\* The types of a request are kept.
LEMMA CallTypeKept == CallTypeOK /\ CallNext => CallTypeOK'
<1>. SUFFICES ASSUME CallTypeOK, CallNext PROVE CallTypeOK'
  OBVIOUS
<1>1. CASE CountTokens \/ CountFails
  BY <1>1, CallAssumption DEF CountTokens, CountFails, CallTypeOK, Steps
<1>2. CASE HoldQuote
  BY <1>2, QuoteTyped DEF HoldQuote, CallTypeOK, Steps
<1>3. CASE QuoteTooLarge \/ SkipCircuitOpen \/ CancelCall \/ Settle
  BY <1>3 DEF QuoteTooLarge, SkipCircuitOpen, CancelCall, Settle, CallTypeOK, Steps, Codes
<1>4. CASE CallProvider
  <2>1. 1 \in 0 .. MaxAttempts
    BY CallTyped
  <2>. QED
    BY <1>4, <2>1 DEF CallProvider, CallTypeOK, Steps
<1>5. CASE Retry
  <2>1. PICK a \in CompleteAnswers :
          BillUnknown(a) /\ \E d \in Lasts(a) : elapsed' = elapsed + d + Backoff(attempt)
    BY <1>5 DEF Retry
  <2>2. billed' \in Bills
    BY <2>1, UnknownAdds
  <2>3. MaxBackoff \in Nat
    BY CallAssumption DEF ValidPolicy
  <2>4. elapsed' \in Nat
    BY <2>1, <2>3, LastsBounded, BackoffBounded, CallTyped
  <2>5. attempt < MaxAttempts /\ attempt' = attempt + 1
    BY <1>5 DEF Retry, AttemptsLeft
  <2>6. attempt' \in 0 .. MaxAttempts
    BY <2>5, CallTyped
  <2>. QED
    BY <1>5, <2>2, <2>4, <2>6 DEF Retry, CallTypeOK
<1>6. CASE GiveUp \/ RaiseInternal
  <2>1. PICK a \in CompleteAnswers : BillUnknown(a) /\ \E d \in Lasts(a) : elapsed' = elapsed + d
    BY <1>6 DEF GiveUp, RaiseInternal
  <2>2. billed' \in Bills
    BY <2>1, UnknownAdds
  <2>3. elapsed' \in Nat
    BY <2>1, LastsBounded, CallTyped
  <2>. QED
    BY <1>6, <2>2, <2>3 DEF GiveUp, RaiseInternal, CallTypeOK, Steps, Codes
<1>7. CASE Answer
  <2>1. PICK o \in {1, limit} \cup {limit + s : s \in Surplus} :
          Bill(o) /\ actual' \in {0, CostOfAnswer(o)}
    BY <1>7 DEF Answer
  <2>2. o \in Nat
    BY <2>1, CallTyped, CallAssumption
  <2>3. actual' \in Nat
    <3>1. CostOfAnswer(o) \in Nat
      BY <2>2, CallTyped, CostTyped DEF CostOfAnswer
    <3>. QED
      BY <2>1, <3>1
  <2>4. billed' \in Bills
    BY <2>1, <2>2, BillAdds
  <2>5. elapsed' \in Nat
    BY <1>7, LastsBounded, CallTyped DEF Answer
  <2>6. code' \in Codes /\ step' \in Steps
    BY <1>7 DEF Answer, Codes, Steps
  <2>. QED
    BY <1>7, <2>3, <2>4, <2>5, <2>6 DEF Answer, CallTypeOK
<1>. QED
  BY <1>1, <1>2, <1>3, <1>4, <1>5, <1>6, <1>7 DEF CallNext, Continue

\* The bill stays within the executions, and what is held within the quote.
LEMMA BillKept == CallTypeOK /\ BillInv /\ CallNext => BillInv'
<1>. SUFFICES ASSUME CallTypeOK, BillInv, CallNext PROVE BillInv'
  OBVIOUS
<1>1. CASE CountTokens \/ CountFails
  BY <1>1 DEF CountTokens, CountFails, BillInv
<1>2. CASE HoldQuote \/ QuoteTooLarge \/ CancelCall \/ Settle
  BY <1>2 DEF HoldQuote, QuoteTooLarge, CancelCall, Settle, BillInv
<1>3. \A n \in Nat : /\ input * n \in Nat /\ limit * n \in Nat
                     /\ input * (n + 1) = input * n + input
                     /\ limit * (n + 1) = limit * n + limit
  BY CallTyped
<1>3a. billed' \in Bills => billed'.output \in Nat /\ billed'.cost \in Nat
  BY DEF Bills
<1>3b. OneCall \in Nat
  BY CallTyped, CostTyped DEF OneCall
<1>3c. \A n \in Nat : OneCall * n \in Nat /\ OneCall * (n + 1) = OneCall * n + OneCall
  BY <1>3b
<1>4. CASE SkipCircuitOpen \/ CallProvider
  <2>1. Within(0)
    <3>1. billed = NothingBilled
      BY <1>4 DEF SkipCircuitOpen, CallProvider, BillInv
    <3>2. billed.input = 0 /\ billed.output = 0 /\ billed.cost = 0
      BY <3>1 DEF NothingBilled
    <3>. QED
      BY <1>3, <1>3c, <3>2 DEF Within
  <2>2. UNCHANGED <<input, limit, billed>> => Within(0)'
    BY <2>1 DEF Within, OneCall, Price
  <2>3. Executed' = 0
    BY <1>4 DEF SkipCircuitOpen, CallProvider, BillInv, Executed
  <2>4. Within(Executed)'
    BY <1>4, <2>2, <2>3 DEF SkipCircuitOpen, CallProvider, Within, OneCall, Price
  <2>. QED
    BY <1>4, <2>4 DEF SkipCircuitOpen, CallProvider, BillInv
<1>5. ASSUME step = "call", UNCHANGED <<input, limit>>, Executed' = attempt,
             billed'.output \in Nat, billed'.cost \in Nat,
             billed'.input \in {billed.input, billed.input + input},
             \/ billed'.surplus
             \/ ~billed.surplus /\ billed'.output = billed.output /\ billed'.cost = billed.cost
             \/ /\ ~billed.surplus
                /\ billed'.output <= billed.output + limit
                /\ billed'.cost <= billed.cost + OneCall
      PROVE  Within(Executed)'
  <2>1. attempt \in Nat /\ attempt - 1 \in Nat /\ Within(attempt - 1)
    BY <1>5, CallTyped DEF BillInv, Executed
  <2>2. /\ input * attempt = input * (attempt - 1) + input
        /\ limit * attempt = limit * (attempt - 1) + limit
        /\ input * (attempt - 1) \in Nat /\ limit * (attempt - 1) \in Nat
    BY <1>3, <2>1
  <2>3. billed'.input <= input * attempt
    BY <1>5, <2>1, <2>2, CallTyped DEF Within
  <2>4. ~billed'.surplus => billed'.output <= limit * attempt
    <3>1. SUFFICES ASSUME ~billed'.surplus PROVE billed'.output <= limit * attempt
      OBVIOUS
    <3>2. /\ ~billed.surplus
          /\ billed'.output = billed.output \/ billed'.output <= billed.output + limit
      BY <1>5, <3>1
    <3>3. billed.output <= limit * (attempt - 1)
      BY <2>1, <3>2 DEF Within
    <3>4. billed.output \in Nat /\ limit \in Nat
      BY CallTyped
    <3>5. PICK n \in Nat : n = limit * (attempt - 1)
      BY <2>2
    <3>6. limit * attempt = n + limit /\ billed.output <= n
      BY <2>2, <3>3, <3>5
    <3>7. billed'.output = billed.output \/ billed'.output <= billed.output + limit
      BY <3>2
    <3>8. billed'.output <= n + limit
      BY <1>5, <3>4, <3>6, <3>7
    <3>. QED
      BY <3>6, <3>8
  <2>5. ~billed'.surplus => billed'.cost <= OneCall * attempt
    <3>1. SUFFICES ASSUME ~billed'.surplus PROVE billed'.cost <= OneCall * attempt
      OBVIOUS
    <3>2. /\ ~billed.surplus
          /\ billed'.cost = billed.cost \/ billed'.cost <= billed.cost + OneCall
      BY <1>5, <3>1
    <3>3. billed.cost <= OneCall * (attempt - 1) /\ billed.cost \in Nat
      BY <2>1, <3>2, CallTyped DEF Within
    <3>4. PICK n \in Nat : n = OneCall * (attempt - 1)
      BY <1>3c, <2>1
    <3>5. OneCall * attempt = n + OneCall
      <4>1. (attempt - 1) + 1 = attempt
        BY <2>1
      <4>. QED
        BY <1>3c, <2>1, <3>4, <4>1
    <3>6. PICK c \in Nat : c = OneCall
      BY <1>3b
    <3>7. billed'.cost <= n + c
      BY <1>5, <3>2, <3>3, <3>4, <3>6
    <3>. QED
      BY <3>5, <3>6, <3>7
  <2>6. OneCall' = OneCall
    BY <1>5 DEF OneCall, Price
  <2>7. billed'.input <= input' * Executed'
    BY <1>5, <2>3
  <2>8. ~billed'.surplus => billed'.output <= limit' * Executed'
    BY <1>5, <2>4
  <2>9. ~billed'.surplus => billed'.cost <= OneCall' * Executed'
    BY <1>5, <2>5, <2>6
  <2>. QED
    BY <2>7, <2>8, <2>9 DEF Within
<1>6. CASE Retry
  <2>1. PICK a \in CompleteAnswers : BillUnknown(a)
    BY <1>6 DEF Retry
  <2>2. /\ step = "call" /\ attempt' = attempt + 1
        /\ UNCHANGED <<step, input, limit, held, actual, charge, code>>
    BY <1>6 DEF Retry
  <2>3. Executed' = attempt
    BY <2>2, CallTyped DEF Executed
  <2>4. Within(Executed)'
    <3>1. /\ billed' \in Bills
          /\ \/ UNCHANGED billed
             \/ /\ billed'.input = billed.input + input
                /\ billed'.output = billed.output + limit
                /\ billed'.cost = billed.cost + OneCall
                /\ billed'.surplus = billed.surplus
      BY <2>1, UnknownAdds
    <3>2. \/ billed'.surplus
          \/ ~billed.surplus /\ billed'.output = billed.output /\ billed'.cost = billed.cost
          \/ /\ ~billed.surplus
             /\ billed'.output <= billed.output + limit
             /\ billed'.cost <= billed.cost + OneCall
      BY <1>3b, <3>1, CallTyped
    <3>3. billed'.input \in {billed.input, billed.input + input}
      BY <3>1
    <3>. QED
      BY <1>3a, <1>5, <2>2, <2>3, <3>1, <3>2, <3>3
  <2>5. attempt' >= 1
    BY <2>2, CallTyped
  <2>. QED
    BY <2>2, <2>4, <2>5 DEF BillInv
<1>7. CASE GiveUp \/ RaiseInternal
  <2>1. PICK a \in CompleteAnswers : BillUnknown(a)
    BY <1>7 DEF GiveUp, RaiseInternal
  <2>2. /\ step = "call" /\ step' = "settle"
        /\ UNCHANGED <<input, limit, held, attempt, actual, charge>>
    BY <1>7 DEF GiveUp, RaiseInternal
  <2>3. Executed' = attempt
    BY <2>2 DEF Executed
  <2>4. Within(Executed)'
    <3>1. /\ billed' \in Bills
          /\ \/ UNCHANGED billed
             \/ /\ billed'.input = billed.input + input
                /\ billed'.output = billed.output + limit
                /\ billed'.cost = billed.cost + OneCall
                /\ billed'.surplus = billed.surplus
      BY <2>1, UnknownAdds
    <3>2. \/ billed'.surplus
          \/ ~billed.surplus /\ billed'.output = billed.output /\ billed'.cost = billed.cost
          \/ /\ ~billed.surplus
             /\ billed'.output <= billed.output + limit
             /\ billed'.cost <= billed.cost + OneCall
      BY <1>3b, <3>1, CallTyped
    <3>3. billed'.input \in {billed.input, billed.input + input}
      BY <3>1
    <3>. QED
      BY <1>3a, <1>5, <2>2, <2>3, <3>1, <3>2, <3>3
  <2>. QED
    BY <2>2, <2>4 DEF BillInv
<1>8. CASE Answer
  <2>1. PICK o \in {1, limit} \cup {limit + s : s \in Surplus} : Bill(o)
    BY <1>8 DEF Answer
  <2>2. o \in Nat
    BY <2>1, CallTyped, CallAssumption
  <2>3. /\ step = "call" /\ step' = "settle"
        /\ UNCHANGED <<input, limit, held, attempt, charge>>
    BY <1>8 DEF Answer
  <2>4. Executed' = attempt
    BY <2>3 DEF Executed
  <2>5. Within(Executed)'
    <3>1. /\ billed'.input = billed.input + input /\ billed'.output = billed.output + o
          /\ billed'.cost = billed.cost + Cost(Price, input, o)
          /\ billed'.surplus = (billed.surplus \/ o > limit)
          /\ billed' \in Bills
      BY <2>1, <2>2, BillAdds
    <3>2. ~billed'.surplus => ~billed.surplus /\ ~(o > limit)
      BY <3>1
    <3>3. ~(o > limit) => billed'.output <= billed.output + limit
      BY <2>2, <3>1, CallTyped
    <3>4. ~(o > limit) => billed'.cost <= billed.cost + OneCall
      <4>1. SUFFICES ASSUME ~(o > limit) PROVE billed'.cost <= billed.cost + OneCall
        OBVIOUS
      <4>2. input <= input /\ o <= limit
        BY <2>2, <4>1, CallTyped
      <4>3. Cost(Price, input, o) <= OneCall /\ Cost(Price, input, o) \in Nat
        BY <2>2, <4>2, CallTyped, CostMonotone DEF OneCall
      <4>. QED
        BY <1>3b, <3>1, <4>3, CallTyped
    <3>5. billed'.output \in Nat /\ billed'.cost \in Nat
      BY <1>3a, <3>1
    <3>6. \/ billed'.surplus
          \/ /\ ~billed.surplus
             /\ billed'.output <= billed.output + limit
             /\ billed'.cost <= billed.cost + OneCall
      BY <3>2, <3>3, <3>4
    <3>. QED
      BY <1>5, <2>3, <2>4, <3>1, <3>5, <3>6
  <2>. QED
    BY <2>3, <2>5 DEF BillInv
<1>. QED
  BY <1>1, <1>2, <1>4, <1>6, <1>7, <1>8 DEF CallNext, Continue

\* What a route is charged and what its outcome says follow its executions.
LEMMA OutcomeKept == CallTypeOK /\ BillInv /\ OutcomeInv /\ CallNext => OutcomeInv'
<1>. SUFFICES ASSUME CallTypeOK, BillInv, OutcomeInv, CallNext PROVE OutcomeInv'
  OBVIOUS
<1>1. BilledCost \in Nat /\ actual \in Nat /\ charge \in Nat /\ held \in Nat
  BY QuoteTyped DEF CallTypeOK
<1>2. CASE CountTokens \/ CountFails \/ QuoteTooLarge \/ CancelCall \/ CallProvider
  <2>1. UNCHANGED <<billed, actual, charge, held, code>>
    BY <1>2 DEF CountTokens, CountFails, QuoteTooLarge, CancelCall, CallProvider
  <2>2. UNCHANGED BilledCost
    BY <2>1 DEF BilledCost
  <2>3. CallProvider => code = "none"
    BY DEF CallProvider, BillInv
  <2>4. ~CallProvider => UNCHANGED attempt
    BY <1>2 DEF CountTokens, CountFails, QuoteTooLarge, CancelCall
  <2>5. step' # "settle"
    BY <1>2 DEF CountTokens, CountFails, QuoteTooLarge, CancelCall, CallProvider
  <2>. QED
    BY <2>1, <2>2, <2>3, <2>4, <2>5 DEF OutcomeInv
<1>3. CASE HoldQuote
  <2>1. /\ UNCHANGED <<billed, actual, charge, code, attempt>> /\ charge = 0
        /\ step' = "route" /\ held' = Quote(Price, input, limit, MaxAttempts)
    BY <1>3 DEF HoldQuote, BillInv
  <2>2. UNCHANGED BilledCost
    BY <2>1 DEF BilledCost
  <2>3. charge' <= held'
    BY <2>1, QuoteTyped
  <2>. QED
    BY <2>1, <2>2, <2>3 DEF OutcomeInv
<1>4. CASE SkipCircuitOpen
  <2>1. /\ UNCHANGED <<billed, actual, charge, held, attempt>>
        /\ code' = "CIRCUIT_OPEN_NO_ATTEMPT"
        /\ attempt = 0 /\ billed = NothingBilled
    BY <1>4 DEF SkipCircuitOpen, BillInv
  <2>2. UNCHANGED BilledCost
    BY <2>1 DEF BilledCost
  <2>. QED
    BY <2>1, <2>2 DEF OutcomeInv
<1>5. CASE Retry \/ GiveUp \/ RaiseInternal
  <2>1. PICK a \in CompleteAnswers : BillUnknown(a)
    BY <1>5 DEF Retry, GiveUp, RaiseInternal
  <2>2. /\ step = "call" /\ UNCHANGED <<held, actual, charge>>
        /\ \/ step' = "call" /\ UNCHANGED code
           \/ code' \in {"RETRIES_EXHAUSTED_COST_UNKNOWN", "INTERNAL_ERROR"}
    BY <1>5 DEF Retry, GiveUp, RaiseInternal
  <2>3. actual = 0 /\ charge = 0 /\ code = "none"
    BY <2>2 DEF BillInv
  <2>4. billed' \in Bills
    BY <2>1, UnknownAdds
  <2>5. BilledCost' \in Nat
    <3>1. billed'.input \in Nat /\ billed'.output \in Nat
      BY <2>4 DEF Bills
    <3>. QED
      BY <3>1, CostTyped DEF BilledCost, Price
  <2>6. actual' <= BilledCost' /\ charge' <= actual' /\ charge' <= held'
    BY <1>1, <2>2, <2>3, <2>5
  <2>. QED
    BY <2>2, <2>3, <2>6 DEF OutcomeInv
<1>6. CASE Answer
  <2>1. PICK o \in {1, limit} \cup {limit + s : s \in Surplus} :
          /\ Bill(o)
          /\ \/ actual' = CostOfAnswer(o) /\ code' = "SUCCEEDED"
             \/ actual' = 0 /\ code' = "COST_CALCULATION_FAILED"
    BY <1>6 DEF Answer
  <2>2. o \in Nat /\ o > 0
    BY <2>1, CallTyped, CallAssumption
  <2>3. UNCHANGED <<charge, held, attempt>> /\ step = "call" /\ charge = 0
    BY <1>6 DEF Answer, BillInv
  <2>4. /\ billed'.input = billed.input + input /\ billed'.output = billed.output + o
    BY <2>1, <2>2, BillAdds
  <2>5. /\ input <= billed'.input /\ o <= billed'.output
        /\ billed'.input \in Nat /\ billed'.output \in Nat
    BY <2>2, <2>4, CallTyped
  <2>6. /\ Cost(Price, input, o) <= Cost(Price, billed'.input, billed'.output)
        /\ Cost(Price, input, o) \in Nat /\ Cost(Price, input, o) > 0
        /\ Cost(Price, billed'.input, billed'.output) \in Nat
    BY <2>2, <2>5, CallTyped, CostMonotone, CostTyped
  <2>7. BilledCost' = Cost(Price, billed'.input, billed'.output)
    BY DEF BilledCost, Price
  <2>8. /\ actual' <= BilledCost' /\ actual' \in Nat
        /\ code' = "SUCCEEDED" => actual' > 0
    BY <2>1, <2>6, <2>7 DEF CostOfAnswer
  <2>9. charge' <= actual' /\ charge' <= held'
    BY <1>1, <2>3, <2>8
  <2>10. code' \in {"SUCCEEDED", "COST_CALCULATION_FAILED"}
    BY <2>1
  <2>. QED
    BY <2>8, <2>9, <2>10 DEF OutcomeInv
<1>7. CASE Settle
  <2>1. UNCHANGED <<billed, actual, held, code, attempt>> /\ step' = "over"
    BY <1>7 DEF Settle
  <2>2. UNCHANGED BilledCost
    BY <2>1 DEF BilledCost
  <2>3. charge' = IF actual < held THEN actual ELSE held
    BY <1>7 DEF Settle
  <2>4. charge' <= actual /\ charge' <= held
    BY <1>1, <2>3
  <2>. QED
    BY <2>1, <2>2, <2>4 DEF OutcomeInv
<1>. QED
  BY <1>2, <1>3, <1>4, <1>5, <1>6, <1>7 DEF CallNext, Continue

\* One more attempt takes at most its timeout and a backoff.
LEMMA RouteTimeSteps ==
  /\ RouteTime(0) = 0
  /\ \A n \in Nat : RouteTime(n) \in Nat /\ RouteTime(n + 1) = RouteTime(n) + Timeout + MaxBackoff
<1>1. Timeout \in Nat /\ MaxBackoff \in Nat
  BY CallAssumption DEF ValidPolicy
<1>2. PICK c \in Nat : c = Timeout + MaxBackoff
  BY <1>1
<1>3. \A n \in Nat : n * c \in Nat /\ (n + 1) * c = n * c + c
  OBVIOUS
<1>4. 0 * c = 0
  OBVIOUS
<1>. QED
  BY <1>1, <1>2, <1>3, <1>4 DEF RouteTime

\* The attempts of a route take their time one after the other.
LEMMA TimeKept == CallTypeOK /\ BillInv /\ TimeInv /\ CallNext => TimeInv'
<1>. SUFFICES ASSUME CallTypeOK, BillInv, TimeInv, CallNext PROVE TimeInv'
  OBVIOUS
<1>0. Timeout \in Nat /\ MaxBackoff \in Nat
  BY CallAssumption DEF ValidPolicy
<1>1. CASE CountTokens \/ CountFails \/ HoldQuote \/ QuoteTooLarge \/ CancelCall \/ Settle
  BY <1>1 DEF CountTokens, CountFails, HoldQuote, QuoteTooLarge, CancelCall, Settle, TimeInv
<1>2. CASE SkipCircuitOpen
  BY <1>2 DEF SkipCircuitOpen, TimeInv, BillInv
<1>3. CASE CallProvider
  <2>1. step' = "call" /\ attempt' = 1 /\ elapsed' = 0
    BY <1>3 DEF CallProvider, TimeInv
  <2>2. elapsed' <= RouteTime(attempt' - 1)
    BY <2>1, RouteTimeSteps
  <2>3. RouteTime(attempt - 1)' = RouteTime(attempt' - 1)
    BY DEF RouteTime
  <2>. QED
    BY <2>1, <2>2, <2>3 DEF TimeInv
<1>4. CASE Retry
  <2>1. step = "call" /\ step' = "call" /\ attempt' = attempt + 1
    BY <1>4 DEF Retry
  <2>2. PICK d \in Nat : d <= Timeout /\ elapsed' = elapsed + d + Backoff(attempt)
    BY <1>4, LastsBounded DEF Retry
  <2>3. Backoff(attempt) \in Nat /\ Backoff(attempt) <= MaxBackoff
    BY <1>0, BackoffBounded
  <2>4. attempt - 1 \in Nat /\ attempt' - 1 = attempt /\ (attempt - 1) + 1 = attempt
    BY <2>1, CallTyped DEF BillInv
  <2>5. /\ RouteTime(attempt - 1) \in Nat
        /\ RouteTime(attempt) = RouteTime(attempt - 1) + Timeout + MaxBackoff
    BY <2>4, RouteTimeSteps
  <2>6. elapsed <= RouteTime(attempt - 1) /\ elapsed \in Nat
    BY <2>1, CallTyped DEF TimeInv
  <2>7. elapsed' <= RouteTime(attempt)
    BY <1>0, <2>2, <2>3, <2>5, <2>6
  <2>8. RouteTime(attempt - 1)' = RouteTime(attempt' - 1)
    BY DEF RouteTime
  <2>. QED
    BY <2>1, <2>4, <2>7, <2>8 DEF TimeInv
<1>5. CASE GiveUp \/ RaiseInternal \/ Answer
  <2>1. step = "call" /\ step' = "settle" /\ attempt' = attempt
    BY <1>5 DEF GiveUp, RaiseInternal, Answer
  <2>2. PICK d \in Nat : d <= Timeout /\ elapsed' = elapsed + d
    BY <1>5, LastsBounded DEF GiveUp, RaiseInternal, Answer
  <2>3. attempt - 1 \in Nat /\ attempt >= 1
    BY <2>1, CallTyped DEF BillInv
  <2>4. RouteTime(attempt - 1) \in Nat
    BY <2>3, RouteTimeSteps
  <2>5. elapsed <= RouteTime(attempt - 1) /\ elapsed \in Nat
    BY <2>1, CallTyped DEF TimeInv
  <2>6. elapsed' <= RouteTime(attempt - 1) + Timeout
    BY <1>0, <2>2, <2>4, <2>5
  <2>7. (RouteTime(attempt - 1) + Timeout)' = RouteTime(attempt - 1) + Timeout
    BY <2>1 DEF RouteTime
  <2>8. attempt' # 0
    BY <2>1, <2>3, CallTyped
  <2>. QED
    BY <2>1, <2>6, <2>7, <2>8 DEF TimeInv
<1>. QED
  BY <1>1, <1>2, <1>3, <1>4, <1>5 DEF CallNext, Continue

\* The invariant of a request is inductive.
LEMMA CallInvKept == CallInv /\ (CallNext \/ UNCHANGED callVars) => CallInv'
<1>1. CallInv /\ CallNext => CallInv'
  BY CallTypeKept, BillKept, OutcomeKept, TimeKept DEF CallInv
<1>2. CallInv /\ UNCHANGED callVars => CallInv'
  BY DEF CallInv, CallTypeOK, BillInv, OutcomeInv, TimeInv, callVars, Within, Executed,
         BilledCost, RouteTime, OneCall, Price
<1>. QED
  BY <1>1, <1>2

\* Within the executions of the attempts, the bill is within the quote.
LEMMA BillWithinHold ==
  CallInv /\ step \in {"call", "settle"} /\ ~billed.surplus => BilledCost <= held
<1>. SUFFICES ASSUME CallInv, step \in {"call", "settle"}, ~billed.surplus
              PROVE  BilledCost <= held
  OBVIOUS
<1>1. CallTypeOK /\ Within(Executed) /\ held = Quote(Price, input, limit, MaxAttempts)
  BY DEF CallInv, BillInv
<1>2. PICK n \in Nat : n = Executed /\ n <= MaxAttempts
  <2>1. attempt \in Nat /\ attempt <= MaxAttempts
    BY <1>1 DEF CallTypeOK
  <2>2. step = "call" => attempt >= 1
    BY DEF CallInv, BillInv
  <2>3. CASE step = "call"
    BY <2>1, <2>2, <2>3, CallTyped, <1>1 DEF Executed
  <2>4. CASE step # "call"
    BY <2>1, <2>4 DEF Executed
  <2>. QED
    BY <2>3, <2>4
<1>3. n * input <= MaxAttempts * input /\ n * limit <= MaxAttempts * limit
  BY <1>1, <1>2, CallTyped, ProductMonotone
<1>4. \A a, b \in Nat : a * b = b * a /\ a * b \in Nat
  OBVIOUS
<1>5. /\ billed.input <= input * n /\ billed.output <= limit * n
  BY <1>1, <1>2 DEF Within
<1>6. /\ input * n = n * input /\ limit * n = n * limit
      /\ input * MaxAttempts = MaxAttempts * input /\ limit * MaxAttempts = MaxAttempts * limit
      /\ n * input \in Nat /\ n * limit \in Nat
      /\ MaxAttempts * input \in Nat /\ MaxAttempts * limit \in Nat
  BY <1>1, <1>4, CallTyped
<1>7. PICK i \in Nat : i = input * MaxAttempts
  BY <1>6
<1>8. PICK o \in Nat : o = limit * MaxAttempts
  BY <1>6
<1>9. billed.input <= i /\ billed.output <= o
  BY <1>1, <1>3, <1>5, <1>6, <1>7, <1>8, CallTyped
<1>10. Cost(Price, billed.input, billed.output) <= Cost(Price, i, o)
  BY <1>1, <1>9, CallTyped, CostMonotone
<1>. QED
  BY <1>1, <1>7, <1>8, <1>10 DEF BilledCost, Quote

\* Rounding n calls one by one adds less than n to rounding them together.
LEMMA RoundingAdds ==
  ASSUME NEW e \in Nat, NEW n \in Nat, NEW m \in Nat, 1 <= n, n <= m
  PROVE  RoundCost(e) * n < RoundCost(e * m) + n
<1>1. PICK c \in Nat : c = RoundCost(e) /\ 100 * c <= e + 99
  BY DEF RoundCost, Scale
<1>2. n * e <= m * e /\ n * e \in Nat /\ m * e \in Nat
  BY ProductMonotone
<1>3. PICK x \in Nat : x = e * m
  OBVIOUS
<1>4. PICK h \in Nat : h = RoundCost(x) /\ x <= 100 * h
  BY DEF RoundCost, Scale
<1>5. (100 * c) * n <= (e + 99) * n
  BY <1>1, ProductMonotone
<1>6. PICK p \in Nat : p = c * n
  BY <1>1
<1>7. (100 * c) * n = 100 * p
  BY <1>1, <1>6
<1>8. (e + 99) * n = n * e + 99 * n
  OBVIOUS
<1>9. e * m = m * e
  OBVIOUS
<1>10. PICK y \in Nat : y = n * e
  BY <1>2
<1>11. y <= x /\ 100 * p <= y + 99 * n
  BY <1>2, <1>3, <1>5, <1>7, <1>8, <1>9, <1>10
<1>12. 100 * p < 100 * h + 100 * n
  BY <1>4, <1>11
<1>13. p < h + n
  BY <1>12
<1>. QED
  BY <1>1, <1>3, <1>4, <1>6, <1>13

\* The price of the tokens of several calls is that many times the price of one.
LEMMA ExactScales ==
  ASSUME NEW i \in Nat, NEW o \in Nat, NEW m \in Nat
  PROVE  Exact(Price, i, o) \in Nat /\ Exact(Price, i * m, o * m) = Exact(Price, i, o) * m
<1>1. PICK a \in Nat : a = Price.input
  BY PriceOK
<1>2. PICK b \in Nat : b = Price.output
  BY PriceOK
<1>3. (i * m) * a + (o * m) * b = (i * a + o * b) * m
  OBVIOUS
<1>4. i * a + o * b \in Nat
  OBVIOUS
<1>. QED
  BY <1>1, <1>2, <1>3, <1>4 DEF Exact

\* Both ways of rounding the bill stay within the hold and its tolerance.
LEMMA CallInvCovers == CallInv => ReservationCoversBilling
<1>. SUFFICES ASSUME CallInv, step \in {"call", "settle"}, ~billed.surplus
              PROVE  BilledCost <= held /\ billed.cost < held + attempt
  BY DEF ReservationCoversBilling
<1>1. /\ CallTypeOK /\ held = Quote(Price, input, limit, MaxAttempts) /\ held \in Nat
      /\ billed.cost <= OneCall * Executed
  BY DEF CallInv, BillInv, Within, CallTypeOK
<1>2. attempt \in Nat /\ attempt <= MaxAttempts /\ billed.cost \in Nat /\ MaxAttempts \in Nat
  BY <1>1, CallTyped DEF CallTypeOK
<1>3. step = "call" => attempt >= 1
  BY DEF CallInv, BillInv
<1>4. Executed \in Nat /\ Executed <= attempt /\ Executed <= MaxAttempts
  BY <1>2, <1>3 DEF Executed
<1>5. PICK e \in Nat : /\ e = Exact(Price, input, limit)
                       /\ held = RoundCost(e * MaxAttempts) /\ OneCall = RoundCost(e)
  <2>1. input \in Nat /\ limit \in Nat
    BY <1>1, CallTyped
  <2>2. /\ Exact(Price, input, limit) \in Nat
        /\ Exact(Price, input * MaxAttempts, limit * MaxAttempts)
             = Exact(Price, input, limit) * MaxAttempts
    <3>1. PICK i, o, m : i = input /\ o = limit /\ m = MaxAttempts
      OBVIOUS
    <3>2. i \in Nat /\ o \in Nat /\ m \in Nat
      BY <1>2, <2>1, <3>1, Zenon
    <3>3. Exact(Price, i, o) \in Nat /\ Exact(Price, i * m, o * m) = Exact(Price, i, o) * m
      BY <3>2, ExactScales
    <3>. QED
      BY <3>1, <3>3, Zenon
  <2>3. held = RoundCost(Exact(Price, input, limit) * MaxAttempts)
    BY <1>1, <2>2, Zenon DEF Quote, Cost
  <2>4. OneCall = RoundCost(Exact(Price, input, limit))
    BY Zenon DEF OneCall, Cost
  <2>5. PICK x : x = Exact(Price, input, limit)
    OBVIOUS
  <2>6. x \in Nat /\ held = RoundCost(x * MaxAttempts) /\ OneCall = RoundCost(x)
    BY <2>2, <2>3, <2>4, <2>5, Zenon
  <2>. QED
    BY <2>5, <2>6, Zenon
<1>6. OneCall \in Nat
  BY <1>1, CallTyped, CostTyped DEF OneCall
<1>7. held > 0
  <2>1. PICK a \in Nat : a = input * MaxAttempts
    BY <1>1, <1>2, CallTyped
  <2>2. PICK b \in Nat : b = limit * MaxAttempts /\ b > 0
    <3>1. 1 * MaxAttempts <= limit * MaxAttempts /\ limit * MaxAttempts \in Nat
      BY <1>1, CallTyped, ProductMonotone
    <3>. QED
      BY <1>1, <1>2, <3>1, CallTyped
  <2>3. a <= a /\ b <= b
    OBVIOUS
  <2>. QED
    BY <1>1, <2>1, <2>2, <2>3, CostMonotone DEF Quote
<1>8. billed.cost < held + attempt
  <2>1. PICK n \in Nat : n = Executed
    BY <1>4
  <2>2. CASE n = 0
    <3>1. OneCall * 0 = 0
      BY <1>6
    <3>. QED
      BY <1>1, <1>2, <1>7, <2>1, <2>2, <3>1
  <2>3. CASE n >= 1
    <3>1. RoundCost(e) * n < RoundCost(e * MaxAttempts) + n
      BY <1>2, <1>4, <1>5, <2>1, <2>3, RoundingAdds
    <3>2. PICK x \in Nat : x = OneCall * n
      BY <1>6
    <3>3. x < held + n
      BY <1>5, <3>1, <3>2
    <3>4. billed.cost <= x /\ n <= attempt
      BY <1>1, <1>4, <2>1, <3>2
    <3>. QED
      BY <1>1, <1>2, <3>3, <3>4
  <2>. QED
    BY <2>2, <2>3
<1>. QED
  BY <1>1, <1>8, BillWithinHold

\* What is charged is honest.
LEMMA CallInvHonest == CallInv => ChargeIsHonest
<1>. SUFFICES ASSUME CallInv PROVE ChargeIsHonest
  OBVIOUS
<1>1. BilledCost \in Nat /\ actual \in Nat /\ charge \in Nat
  BY QuoteTyped DEF CallInv, CallTypeOK
<1>2. charge <= held /\ charge <= BilledCost
  BY <1>1 DEF CallInv, OutcomeInv
<1>3. code = "CIRCUIT_OPEN_NO_ATTEMPT" => attempt = 0 /\ BilledCost = 0
  <2>1. SUFFICES ASSUME code = "CIRCUIT_OPEN_NO_ATTEMPT" PROVE attempt = 0 /\ BilledCost = 0
    OBVIOUS
  <2>2. attempt = 0 /\ billed = NothingBilled
    BY <2>1 DEF CallInv, OutcomeInv
  <2>3. billed.input = 0 /\ billed.output = 0
    BY <2>2 DEF NothingBilled
  <2>4. 0 <= 0
    OBVIOUS
  <2>5. Cost(Price, 0, 0) = 0
    BY <2>4, CostMonotone
  <2>. QED
    BY <2>2, <2>3, <2>5 DEF BilledCost
<1>4. step = "settle" /\ actual = 0 /\ BilledCost > 0 =>
        code \in {"RETRIES_EXHAUSTED_COST_UNKNOWN", "INTERNAL_ERROR", "COST_CALCULATION_FAILED"}
  <2>1. step = "settle" /\ actual = 0 => code \notin {"none", "SUCCEEDED"}
    BY DEF CallInv, OutcomeInv
  <2>2. BilledCost > 0 => code # "CIRCUIT_OPEN_NO_ATTEMPT"
    BY <1>3
  <2>. QED
    BY <2>1, <2>2 DEF CallInv, CallTypeOK, Codes
<1>. QED
  BY <1>2, <1>3, <1>4 DEF ChargeIsHonest

\* All attempts at their timeouts, with the longest backoffs between them, end
\* before the lease does.
LeaseIsLongEnough == RouteTime(MaxAttempts - 1) + Timeout <= Lease

\* A route ends within its lease.
LEMMA CallInvInTime == CallInv /\ LeaseIsLongEnough => LeaseCoversRoute
<1>. SUFFICES ASSUME CallInv, LeaseIsLongEnough, step \in {"call", "settle"}
              PROVE  elapsed <= Lease
  BY DEF LeaseCoversRoute
<1>0. Timeout \in Nat /\ MaxBackoff \in Nat /\ Lease \in Nat
  BY CallAssumption DEF ValidPolicy
<1>1. attempt \in Nat /\ attempt <= MaxAttempts /\ elapsed \in Nat /\ MaxAttempts \in Nat
  BY CallTyped DEF CallInv, CallTypeOK
<1>2. CASE attempt = 0
  BY <1>0, <1>2 DEF CallInv, BillInv, TimeInv
<1>3. CASE attempt > 0
  <2>1. /\ attempt - 1 \in Nat /\ MaxAttempts - 1 \in Nat /\ attempt - 1 <= MaxAttempts - 1
        /\ Timeout + MaxBackoff \in Nat
    BY <1>0, <1>1, <1>3
  <2>2. RouteTime(attempt - 1) <= RouteTime(MaxAttempts - 1)
    BY <2>1, ProductMonotone DEF RouteTime
  <2>3. elapsed <= RouteTime(attempt - 1) \/ elapsed <= RouteTime(attempt - 1) + Timeout
    BY <1>1, <1>3 DEF CallInv, TimeInv
  <2>4. RouteTime(attempt - 1) \in Nat /\ RouteTime(MaxAttempts - 1) \in Nat
    BY <2>1, RouteTimeSteps
  <2>5. RouteTime(MaxAttempts - 1) + Timeout <= Lease
    BY DEF LeaseIsLongEnough
  <2>. QED
    BY <1>0, <1>1, <2>2, <2>3, <2>4, <2>5
<1>. QED
  BY <1>1, <1>2, <1>3

-----------------------------------------------------------------------------
(* The process *)

\* Every owned client has its callback ahead.
Scheduled == \A c \in owned : \E i \in 1 .. Len(callbacks) : callbacks[i] = c

\* What start-up built, shutdown is going to close.
LifeInv ==
  /\ phase # "tracing" /\ phase \notin {"closing", "stopped"} =>
       callbacks = <<"openai", "redis", "tracing">>
  /\ phase = "tracing" => callbacks = <<>> /\ owned = {}
  /\ phase \notin {"closing", "stopped"} => exit = "none" /\ raised = {} /\ open = owned
  /\ phase = "closing" => exit \in {"none", "startup failed", "close failed"}
  /\ exit # "killed" => open \subseteq owned \cup raised
  /\ exit # "killed" => Scheduled
  /\ exit # "killed" /\ phase = "stopped" => callbacks = <<>>
  /\ phase \in {"closing", "stopped"} /\ raised \ {"tracing"} # {} =>
       exit \notin {"none", "stopped"}

\* A request in flight has a serving process with an open provider.
FlightInv == InFlight => phase \in {"serving", "draining"} /\ "openai" \in owned

ProcessInv == LifespanTypeOK /\ LifeInv /\ FlightInv /\ CallInv

\* The types of a process are kept.
LEMMA LifeTypeKept ==
  LifespanTypeOK /\ (Start \/ StopSignal \/ Unwind \/ BeginClose \/ Kill) => LifespanTypeOK'
<1>. SUFFICES ASSUME LifespanTypeOK, Start \/ StopSignal \/ Unwind \/ BeginClose \/ Kill
              PROVE  LifespanTypeOK'
  OBVIOUS
<1>0. /\ <<"openai", "redis", "tracing">> \in Seq(Clients)
      /\ callbacks \in Seq(Clients)
      /\ callbacks # <<>> => Head(callbacks) \in Clients /\ Tail(callbacks) \in Seq(Clients)
  <2>1. callbacks \in Seq(Clients)
    BY DEF LifespanTypeOK
  <2>2. callbacks # <<>> => Head(callbacks) \in Clients /\ Tail(callbacks) \in Seq(Clients)
    BY <2>1
  <2>3. <<"openai", "redis", "tracing">> \in Seq(Clients)
    BY DEF Clients
  <2>. QED
    BY <2>1, <2>2, <2>3
<1>. USE DEF LifespanTypeOK, Phases, Starting
<1>1. CASE ConfigureTracing
  <2>1. /\ callbacks' = <<"openai", "redis", "tracing">> /\ phase' = "redis"
        /\ open' \subseteq open \cup {"tracing"} /\ owned' \subseteq owned \cup {"tracing"}
        /\ UNCHANGED <<settings, raised, exit>>
    BY <1>1 DEF ConfigureTracing, Construct
  <2>2. "tracing" \in Clients
    BY DEF Clients
  <2>. QED
    BY <1>0, <2>1, <2>2
<1>2. CASE BuildRedis \/ BuildProvider
  BY <1>2 DEF BuildRedis, BuildProvider, Construct, Clients
<1>3. CASE RefuseSettings \/ StopSignal \/ BeginClose \/ Kill \/ Stop
  BY <1>3 DEF RefuseSettings, StartupFails, StopSignal, BeginClose, Kill, Stop
<1>4. CASE RunCallback
  <2>1. callbacks' = Tail(callbacks) /\ callbacks # <<>>
    BY <1>4 DEF RunCallback, RestAfter
  <2>2. callbacks' \in Seq(Clients) /\ Head(callbacks) \in Clients
    BY <1>0, <2>1
  <2>3. /\ open' \subseteq open /\ owned' \subseteq owned
        /\ raised' \in {raised, raised \cup {Head(callbacks)}}
        /\ exit' \in {exit, "close failed"}
        /\ UNCHANGED <<settings, phase>>
    BY <1>4 DEF RunCallback
  <2>. QED
    BY <2>1, <2>2, <2>3
<1>. QED
  BY <1>1, <1>2, <1>3, <1>4 DEF Start, Unwind

\* Start-up and shutdown keep the obligations of the exit stack.
LEMMA LifeKept ==
  LifespanTypeOK /\ LifeInv /\ (Start \/ StopSignal \/ Unwind \/ BeginClose \/ Kill) => LifeInv'
<1>. SUFFICES ASSUME LifespanTypeOK, LifeInv, Start \/ StopSignal \/ Unwind \/ BeginClose \/ Kill
              PROVE  LifeInv'
  OBVIOUS
<1>1. CASE ConfigureTracing
  <2>1. /\ phase = "tracing" /\ phase' = "redis" /\ exit = "none" /\ raised = {}
        /\ callbacks' = <<"openai", "redis", "tracing">> /\ UNCHANGED <<raised, exit>>
        /\ owned' \subseteq {"tracing"} /\ open' = owned'
    BY <1>1 DEF ConfigureTracing, Construct, LifeInv
  <2>2. Len(callbacks') = 3 /\ callbacks'[3] = "tracing"
    BY <2>1
  <2>3. Scheduled'
    BY <2>1, <2>2 DEF Scheduled
  <2>. QED
    BY <2>1, <2>3 DEF LifeInv
<1>2. CASE BuildRedis \/ BuildProvider
  <2>1. /\ phase \in {"redis", "provider"} /\ phase' \in {"provider", "serving"}
        /\ UNCHANGED <<callbacks, raised, exit>>
        /\ owned' \subseteq owned \cup {"redis", "openai"}
        /\ callbacks = <<"openai", "redis", "tracing">> /\ exit = "none" /\ raised = {}
        /\ open' = owned'
    BY <1>2 DEF BuildRedis, BuildProvider, Construct, LifeInv
  <2>2. Len(callbacks) = 3 /\ callbacks[1] = "openai" /\ callbacks[2] = "redis"
    BY <2>1
  <2>3. Scheduled'
    BY <2>1, <2>2 DEF Scheduled, LifeInv
  <2>. QED
    BY <2>1, <2>3 DEF LifeInv
<1>3. CASE RefuseSettings \/ StopSignal \/ BeginClose
  <2>1. /\ UNCHANGED <<callbacks, open, owned, raised>>
        /\ phase \notin {"closing", "stopped"}
        /\ \/ phase' = "closing" /\ exit' \in {exit, "startup failed"}
           \/ phase # "tracing" /\ phase' = "draining" /\ exit' = exit
    BY <1>3 DEF RefuseSettings, StartupFails, StopSignal, BeginClose
  <2>2. UNCHANGED Scheduled
    BY <2>1 DEF Scheduled
  <2>. QED
    BY <2>1, <2>2 DEF LifeInv
<1>4. CASE Kill
  BY <1>4 DEF Kill, LifeInv, Scheduled
<1>5. CASE Stop
  <2>1. /\ phase = "closing" /\ callbacks = <<>> /\ phase' = "stopped"
        /\ exit' = IF exit = "none" THEN "stopped" ELSE exit
        /\ UNCHANGED <<callbacks, open, owned, raised>>
    BY <1>5 DEF Stop
  <2>2. UNCHANGED Scheduled
    BY <2>1 DEF Scheduled
  <2>. QED
    BY <2>1, <2>2 DEF LifeInv
<1>6. CASE RunCallback
  <2>. DEFINE c == Head(callbacks)
  <2>1. /\ owned' = owned \ {c}
        /\ \/ /\ open' = open \ (owned \cap {c}) /\ raised' = raised /\ exit' = exit
           \/ /\ open' = open /\ raised' = raised \cup {c}
              /\ exit' = IF c # "tracing" /\ exit = "none" THEN "close failed" ELSE exit
    <3>1. PICK fails \in {FALSE} \cup {Head(callbacks) \in owned} :
            /\ open' = IF fails THEN open ELSE open \ (owned \cap {c})
            /\ raised' = IF fails THEN raised \cup {c} ELSE raised
            /\ exit' = IF fails /\ c # "tracing" /\ exit = "none" THEN "close failed" ELSE exit
            /\ owned' = owned \ {c}
      BY <1>6, Zenon DEF RunCallback
    <3>2. CASE fails
      BY <3>1, <3>2
    <3>3. CASE ~fails
      BY <3>1, <3>3
    <3>. QED
      BY <3>2, <3>3
  <2>2. /\ phase = "closing" /\ phase' = "closing" /\ callbacks # <<>>
        /\ callbacks' = Tail(callbacks) /\ callbacks \in Seq(Clients)
    BY <1>6 DEF RunCallback, RestAfter, LifespanTypeOK
  <2>3. exit \in {"none", "startup failed", "close failed"} /\ open \subseteq owned \cup raised
    BY <2>2 DEF LifeInv
  <2>4. Scheduled'
    <3>1. ASSUME NEW d \in owned, d # c
          PROVE  \E i \in 1 .. Len(callbacks') : callbacks'[i] = d
      <4>1. PICK i \in 1 .. Len(callbacks) : callbacks[i] = d
        BY <2>2, <3>1 DEF LifeInv, Scheduled
      <4>2. i # 1
        BY <2>2, <3>1, <4>1
      <4>3. i - 1 \in 1 .. Len(callbacks') /\ callbacks'[i - 1] = d
        BY <2>2, <4>1, <4>2
      <4>. QED
        BY <4>3
    <3>. QED
      BY <2>1, <3>1 DEF Scheduled
  <2>5. open' \subseteq owned' \cup raised'
    BY <2>1, <2>3
  <2>6. exit' \in {"none", "startup failed", "close failed"}
    BY <2>1, <2>3
  <2>7. raised' \ {"tracing"} # {} => exit' \notin {"none", "stopped"}
    <3>1. raised \ {"tracing"} # {} => exit # "none"
      BY <2>2 DEF LifeInv
    <3>. QED
      BY <2>1, <2>3, <3>1
  <2>. QED
    BY <2>2, <2>4, <2>5, <2>6, <2>7 DEF LifeInv
<1>. QED
  BY <1>1, <1>2, <1>3, <1>4, <1>5, <1>6 DEF Start, Unwind

\* The request of a process is in flight only while the process serves it.
LEMMA FlightKept == ProcessInv /\ Next => FlightInv'
<1>. SUFFICES ASSUME ProcessInv, Next PROVE FlightInv'
  OBVIOUS
<1>1. CASE (Start \/ StopSignal \/ Unwind) /\ UNCHANGED callVars
  <2>1. UNCHANGED InFlight
    BY <1>1 DEF InFlight, callVars
  <2>2. StopSignal => phase' = "draining" /\ UNCHANGED owned /\ phase = "serving"
    BY DEF StopSignal
  <2>3. Start \/ Unwind => phase \notin {"serving", "draining"}
    BY DEF Start, Unwind, ConfigureTracing, BuildRedis, BuildProvider, RefuseSettings,
           RunCallback, Stop
  <2>. QED
    BY <1>1, <2>1, <2>2, <2>3 DEF ProcessInv, FlightInv
<1>2. CASE Begin
  BY <1>2 DEF Begin, lifeVars, FlightInv
<1>3. CASE (Continue \/ CancelCall) /\ UNCHANGED lifeVars
  <2>1. InFlight
    BY <1>3 DEF Continue, CancelCall, InFlight, HoldQuote, QuoteTooLarge, SkipCircuitOpen,
           CallProvider, Retry, GiveUp, RaiseInternal, Answer, Settle
  <2>2. UNCHANGED <<phase, owned>>
    BY <1>3 DEF lifeVars
  <2>. QED
    BY <2>1, <2>2 DEF ProcessInv, FlightInv
<1>4. CASE Shutdown
  <2>1. ~InFlight /\ UNCHANGED step
    BY <1>4 DEF Shutdown, Drained, callVars
  <2>. QED
    BY <2>1 DEF FlightInv, InFlight
<1>5. CASE Die
  BY <1>5 DEF Die, FlightInv, InFlight, CancelCall, callVars
<1>. QED
  BY <1>1, <1>2, <1>3, <1>4, <1>5 DEF Next

\* The invariant of the process is inductive.
LEMMA ProcessInvInit == Init => ProcessInv
<1>. SUFFICES ASSUME Init PROVE ProcessInv
  OBVIOUS
<1>1. LifespanTypeOK
  BY DEF Init, LifespanInit, LifespanTypeOK, Phases, Starting, Clients
<1>2. LifeInv
  BY DEF Init, LifespanInit, LifeInv, Scheduled
<1>3. FlightInv
  BY DEF Init, CallInit, FlightInv, InFlight
<1>. QED
  BY <1>1, <1>2, <1>3, CallInvInit DEF Init, ProcessInv

\* Every step keeps it.
LEMMA ProcessInvKept == ProcessInv /\ [Next]_vars => ProcessInv'
<1>1. ASSUME ProcessInv, Next PROVE ProcessInv'
  <2>1. \/ Start \/ StopSignal \/ Unwind \/ BeginClose \/ Kill
        \/ UNCHANGED lifeVars
    BY <1>1 DEF Next, Begin, Shutdown, Die
  <2>2. UNCHANGED lifeVars /\ LifespanTypeOK => LifespanTypeOK'
    BY DEF lifeVars, LifespanTypeOK
  <2>3. UNCHANGED lifeVars /\ LifeInv => LifeInv'
    BY DEF lifeVars, LifeInv, Scheduled
  <2>4. CallNext \/ UNCHANGED callVars
    BY <1>1 DEF Next, Begin, Shutdown, Die, CallNext
  <2>. QED
    BY <1>1, <2>1, <2>2, <2>3, <2>4, LifeTypeKept, LifeKept, FlightKept, CallInvKept
    DEF ProcessInv
<1>2. ASSUME ProcessInv, UNCHANGED vars PROVE ProcessInv'
  <2>1. UNCHANGED lifeVars /\ UNCHANGED callVars
    BY <1>2 DEF vars
  <2>. QED
    BY <1>2, <2>1, CallInvKept DEF ProcessInv, lifeVars, LifespanTypeOK, LifeInv, Scheduled,
       FlightInv, InFlight, callVars
<1>. QED
  BY <1>1, <1>2

-----------------------------------------------------------------------------
(* What holds of every process *)

\* ProcessInv holds in every reachable state.
THEOREM ProcessInvariant == Spec => []ProcessInv
  BY ProcessInvInit, ProcessInvKept, PTL DEF Spec

\* The types of process and request are kept.
THEOREM ProcessTypeSafe == Spec => []TypeOK
<1>1. ProcessInv => TypeOK
  BY DEF ProcessInv, CallInv, TypeOK
<1>. QED
  BY <1>1, ProcessInvariant, PTL

\* For every model of the catalog, prompt, max_tokens and number of attempts:
\* what the provider bills, lost answers included, is within what was held when it
\* is rounded once, and less than a micro-dollar per attempt above it when every
\* call is rounded.
THEOREM QuoteCoversBilling == Spec => []ReservationCoversBilling
<1>1. ProcessInv => ReservationCoversBilling
  BY CallInvCovers DEF ProcessInv
<1>. QED
  BY <1>1, ProcessInvariant, PTL

\* The charge is at most the bill and the hold, and its code tells the truth.
THEOREM HonestCharge == Spec => []ChargeIsHonest
<1>1. ProcessInv => ChargeIsHonest
  BY CallInvHonest DEF ProcessInv
<1>. QED
  BY <1>1, ProcessInvariant, PTL

\* If all attempts and backoffs fit into the lease, no route outlives it.
THEOREM RouteWithinLease == ASSUME LeaseIsLongEnough PROVE Spec => []LeaseCoversRoute
<1>1. ProcessInv => LeaseCoversRoute
  BY CallInvInTime DEF ProcessInv
<1>. QED
  BY <1>1, ProcessInvariant, PTL

\* No client is closed under a request, and every client is closed at the end.
THEOREM ShutdownClosesClients == Spec => []ClientsOutliveCalls
<1>1. ProcessInv => ClientsOutliveCalls
  <2>1. SUFFICES ASSUME ProcessInv PROVE ClientsOutliveCalls
    OBVIOUS
  <2>2. phase = "stopped" /\ exit # "killed" => owned = {} /\ open \subseteq raised
    <3>1. SUFFICES ASSUME phase = "stopped", exit # "killed"
                   PROVE  owned = {} /\ open \subseteq raised
      OBVIOUS
    <3>2. callbacks = <<>> /\ Scheduled /\ open \subseteq owned \cup raised
      BY <2>1, <3>1 DEF ProcessInv, LifeInv
    <3>3. owned = {}
      BY <3>2 DEF Scheduled
    <3>. QED
      BY <3>2, <3>3
  <2>3. phase = "stopped" /\ raised \ {"tracing"} # {} => exit # "stopped"
    BY <2>1 DEF ProcessInv, LifeInv
  <2>4. InFlight => "openai" \in open
    BY <2>1 DEF ProcessInv, LifeInv, FlightInv
  <2>. QED
    BY <2>2, <2>3, <2>4 DEF ClientsOutliveCalls, UnwindsCompletely
<1>. QED
  BY <1>1, ProcessInvariant, PTL

\* The deployed timeouts, 30 seconds an attempt and 2 seconds between two at most,
\* leave room for nine attempts in a lease of five minutes.
THEOREM DeployedRouteWithinLease ==
  ASSUME Timeout = 300, MaxBackoff = 20, Lease = 3000, MaxAttempts <= 9
  PROVE  Spec => []LeaseCoversRoute
<1>1. MaxAttempts - 1 \in Nat /\ MaxAttempts - 1 <= 8
  BY CallAssumption DEF ValidPolicy
<1>2. RouteTime(MaxAttempts - 1) + Timeout <= Lease
  BY <1>1 DEF RouteTime
<1>. QED
  BY <1>2, RouteWithinLease DEF LeaseIsLongEnough

-----------------------------------------------------------------------------
(* Rounding *)

\* A cost is the exact price rounded up: never below it, less than one
\* micro-dollar above; and rounding once never costs more than rounding parts,
\* so the one quote for all attempts is at most the sum of their estimates.
THEOREM CostIsCeiling ==
  \A x, y \in Nat :
    /\ Scale * RoundCost(x) >= x /\ Scale * RoundCost(x) < x + Scale
    /\ RoundCost(x + y) <= RoundCost(x) + RoundCost(y)
    /\ RoundCost(x) + RoundCost(y) <= RoundCost(x + y) + 1
<1>. TAKE x, y \in Nat
<1>1. \A z \in Nat : /\ RoundCost(z) \in Nat
                     /\ 100 * RoundCost(z) >= z /\ 100 * RoundCost(z) < z + 100
  BY DEF RoundCost, Scale
<1>2. PICK a \in Nat : a = RoundCost(x) /\ 100 * a >= x /\ 100 * a < x + 100
  BY <1>1
<1>3. PICK b \in Nat : b = RoundCost(y) /\ 100 * b >= y /\ 100 * b < y + 100
  BY <1>1
<1>4. x + y \in Nat
  OBVIOUS
<1>5. PICK c \in Nat : c = RoundCost(x + y) /\ 100 * c >= x + y /\ 100 * c < x + y + 100
  BY <1>1, <1>4
<1>6. c <= a + b /\ a + b <= c + 1
  BY <1>2, <1>3, <1>5
<1>. QED
  BY <1>2, <1>3, <1>5, <1>6 DEF Scale

-----------------------------------------------------------------------------
(* The order of shutdown *)

\* A client that is still to be closed has those it was built after: the OpenAI
\* client its Redis client, and both the tracing that records their closing.
ReverseOrder ==
  /\ "openai" \in owned => "redis" \in owned
  /\ "redis" \in owned /\ settings.tracing = "on" => "tracing" \in owned

AllCallbacks == <<"openai", "redis", "tracing">>
Stacks == {AllCallbacks, <<"redis", "tracing">>, <<"tracing">>, <<>>}

\* Whose callback has run is no longer owned.
OrderInv ==
  /\ callbacks \in Stacks
  /\ "openai" \in owned => callbacks = AllCallbacks /\ "redis" \in owned
  /\ "redis" \in owned => callbacks \in {AllCallbacks, <<"redis", "tracing">>}
  /\ settings.tracing = "on" /\ callbacks # <<>> => "tracing" \in owned
  /\ phase \in {"provider", "serving", "draining"} => "redis" \in owned

\* The stacks, one after the other
LEMMA StacksShrink ==
  /\ Len(AllCallbacks) = 3 /\ Head(AllCallbacks) = "openai"
  /\ Tail(AllCallbacks) = <<"redis", "tracing">>
  /\ Len(<<"redis", "tracing">>) = 2 /\ Head(<<"redis", "tracing">>) = "redis"
  /\ Tail(<<"redis", "tracing">>) = <<"tracing">>
  /\ Len(<<"tracing">>) = 1 /\ Head(<<"tracing">>) = "tracing"
  /\ Tail(<<"tracing">>) = <<>> /\ Len(<<>>) = 0
<1>1. Tail(AllCallbacks) = <<"redis", "tracing">>
  BY DEF AllCallbacks
<1>2. Tail(<<"redis", "tracing">>) = <<"tracing">>
  OBVIOUS
<1>3. Tail(<<"tracing">>) = <<>>
  OBVIOUS
<1>. QED
  BY <1>1, <1>2, <1>3 DEF AllCallbacks

\* They differ in their length.
LEMMA StacksDiffer ==
  /\ AllCallbacks # <<"redis", "tracing">> /\ AllCallbacks # <<"tracing">> /\ AllCallbacks # <<>>
  /\ <<"redis", "tracing">> # <<"tracing">> /\ <<"redis", "tracing">> # <<>>
  /\ <<"tracing">> # <<>>
<1>1. AllCallbacks # <<"redis", "tracing">>
  BY StacksShrink
<1>2. AllCallbacks # <<"tracing">>
  BY StacksShrink
<1>3. AllCallbacks # <<>>
  BY StacksShrink
<1>4. <<"redis", "tracing">> # <<"tracing">>
  BY StacksShrink
<1>5. <<"redis", "tracing">> # <<>>
  BY StacksShrink
<1>6. <<"tracing">> # <<>>
  BY StacksShrink
<1>. QED
  BY <1>1, <1>2, <1>3, <1>4, <1>5, <1>6

\* Start-up and shutdown keep the order.
LEMMA OrderKept ==
  LifeInv /\ OrderInv /\ (Start \/ StopSignal \/ Unwind \/ BeginClose \/ Kill) => OrderInv'
<1>. SUFFICES ASSUME LifeInv, OrderInv, Start \/ StopSignal \/ Unwind \/ BeginClose \/ Kill
              PROVE  OrderInv'
  OBVIOUS
<1>1. CASE ConfigureTracing
  <2>1. /\ phase = "tracing" /\ owned = {} /\ callbacks' = AllCallbacks /\ phase' = "redis"
        /\ settings' = settings
        /\ owned' = IF settings.tracing = "on" THEN {"tracing"} ELSE {}
    BY <1>1 DEF ConfigureTracing, Construct, LifeInv, AllCallbacks
  <2>. QED
    BY <2>1 DEF OrderInv, Stacks
<1>2. CASE BuildRedis
  <2>1. /\ callbacks' = AllCallbacks /\ phase' = "provider" /\ callbacks = AllCallbacks
        /\ settings' = settings /\ owned' = owned \cup {"redis"}
    BY <1>2 DEF BuildRedis, Construct, LifeInv, AllCallbacks
  <2>. QED
    BY <2>1 DEF OrderInv
<1>3. CASE BuildProvider
  <2>1. /\ callbacks' = AllCallbacks /\ callbacks = AllCallbacks
        /\ phase = "provider" /\ phase' = "serving"
        /\ settings' = settings /\ owned' \in {owned, owned \cup {"openai"}}
    BY <1>3 DEF BuildProvider, Construct, LifeInv, AllCallbacks
  <2>. QED
    BY <2>1 DEF OrderInv
<1>4. CASE RefuseSettings \/ StopSignal \/ BeginClose \/ Stop \/ Kill
  <2>1. /\ UNCHANGED <<settings, callbacks, owned>>
        /\ phase' \in {"closing", "stopped"} \/ (phase = "serving" /\ phase' = "draining")
    BY <1>4 DEF RefuseSettings, StartupFails, StopSignal, BeginClose, Stop, Kill
  <2>. QED
    BY <2>1 DEF OrderInv
<1>5. CASE RunCallback
  <2>1. /\ phase = "closing" /\ callbacks # <<>> /\ callbacks' = Tail(callbacks)
        /\ owned' = owned \ {Head(callbacks)} /\ UNCHANGED <<settings, phase>>
    BY <1>5 DEF RunCallback, RestAfter
  <2>2. CASE callbacks = AllCallbacks
    BY <2>1, <2>2, StacksShrink, StacksDiffer DEF OrderInv, Stacks
  <2>3. CASE callbacks = <<"redis", "tracing">>
    BY <2>1, <2>3, StacksShrink, StacksDiffer DEF OrderInv, Stacks
  <2>4. CASE callbacks = <<"tracing">>
    BY <2>1, <2>4, StacksShrink, StacksDiffer DEF OrderInv, Stacks
  <2>. QED
    BY <2>1, <2>2, <2>3, <2>4 DEF OrderInv, Stacks
<1>. QED
  BY <1>1, <1>2, <1>3, <1>4, <1>5 DEF Start, Unwind

\* OrderInv holds in every reachable state.
LEMMA OrderInvariant == Spec => []OrderInv
<1>1. Init => OrderInv
  BY StacksDiffer DEF Init, LifespanInit, OrderInv, Stacks
<1>2. ProcessInv /\ OrderInv /\ [Next]_vars => OrderInv'
  <2>1. UNCHANGED lifeVars /\ OrderInv => OrderInv'
    BY DEF lifeVars, OrderInv
  <2>2. Next => \/ Start \/ StopSignal \/ Unwind \/ BeginClose \/ Kill
                \/ UNCHANGED lifeVars
    BY DEF Next, Begin, Shutdown, Die
  <2>3. UNCHANGED vars => UNCHANGED lifeVars
    BY DEF vars
  <2>. QED
    BY <2>1, <2>2, <2>3, OrderKept DEF ProcessInv
<1>. QED
  BY <1>1, <1>2, ProcessInvariant, PTL DEF Spec

\* Clients are closed in the reverse of the order in which they were built,
\* whichever step of start-up or shutdown failed on the way.
THEOREM ClosesInReverseOrder == Spec => []ReverseOrder
<1>1. OrderInv => ReverseOrder
  BY StacksDiffer DEF OrderInv, ReverseOrder
<1>. QED
  BY <1>1, OrderInvariant, PTL

-----------------------------------------------------------------------------
(* A process comes to its end *)

\* How far the process is, and its request
LifeRank ==
  CASE phase = "tracing" -> 0
    [] phase = "redis" -> 1
    [] phase = "provider" -> 2
    [] phase = "serving" -> 3
    [] phase = "draining" -> 4
    [] phase = "closing" -> 8 - Len(callbacks)
    [] phase = "stopped" -> 9

CallRank ==
  CASE step = "new" -> 0
    [] step = "quote" -> 1
    [] step = "route" -> 2
    [] step = "call" -> 2 + attempt
    [] step = "settle" -> 3 + MaxAttempts
    [] step = "over" -> 4 + MaxAttempts

\* No step takes either back, and every step takes one of them on.
ProcessAdvances ==
  LifeRank <= LifeRank' /\ CallRank <= CallRank' /\ LifeRank + CallRank < LifeRank' + CallRank'

\* There are that many steps in the life of a process with its request.
RanksBounded == LifeRank \in 0 .. 9 /\ CallRank \in 0 .. 4 + MaxAttempts

\* A stack has at most three callbacks.
LEMMA StackLength == OrderInv => Len(callbacks) \in 0 .. 3
  BY StacksShrink DEF OrderInv, Stacks

\* A step of the process takes it on.
LEMMA LifeAdvances ==
  ASSUME LifespanTypeOK, LifeInv, OrderInv, Start \/ StopSignal \/ Unwind \/ BeginClose \/ Kill
  PROVE  LifeRank \in 0 .. 9 /\ LifeRank' \in 0 .. 9 /\ LifeRank < LifeRank'
<1>1. PICK n \in 0 .. 3 : n = Len(callbacks)
  BY StackLength
<1>2. CASE ConfigureTracing
  <2>1. phase = "tracing" /\ phase' = "redis"
    BY <1>2 DEF ConfigureTracing
  <2>2. LifeRank = 0 /\ LifeRank' = 1
    BY <2>1 DEF LifeRank
  <2>. QED
    BY <2>2
<1>3. CASE BuildRedis
  <2>1. phase = "redis" /\ phase' = "provider"
    BY <1>3 DEF BuildRedis
  <2>2. LifeRank = 1 /\ LifeRank' = 2
    BY <2>1 DEF LifeRank
  <2>. QED
    BY <2>2
<1>4. CASE BuildProvider
  <2>1. phase = "provider" /\ phase' = "serving"
    BY <1>4 DEF BuildProvider
  <2>2. LifeRank = 2 /\ LifeRank' = 3
    BY <2>1 DEF LifeRank
  <2>. QED
    BY <2>2
<1>5. CASE RefuseSettings \/ BeginClose
  <2>1. /\ phase \in {"tracing", "redis", "provider", "draining"} /\ phase' = "closing"
        /\ callbacks' = callbacks
    BY <1>5 DEF RefuseSettings, StartupFails, BeginClose
  <2>2. LifeRank \in 0 .. 4 /\ LifeRank' = 8 - n
    BY <1>1, <2>1 DEF LifeRank
  <2>. QED
    BY <2>2
<1>6. CASE StopSignal
  <2>1. phase = "serving" /\ phase' = "draining"
    BY <1>6 DEF StopSignal
  <2>2. LifeRank = 3 /\ LifeRank' = 4
    BY <2>1 DEF LifeRank
  <2>. QED
    BY <2>2
<1>7. CASE RunCallback
  <2>1. /\ phase = "closing" /\ phase' = "closing"
        /\ callbacks # <<>> /\ callbacks' = Tail(callbacks) /\ callbacks \in Seq(Clients)
    BY <1>7 DEF RunCallback, RestAfter, LifespanTypeOK
  <2>2. n >= 1 /\ Len(callbacks') = n - 1
    BY <1>1, <2>1
  <2>3. LifeRank = 8 - n /\ LifeRank' = 8 - (n - 1)
    BY <1>1, <2>1, <2>2 DEF LifeRank
  <2>. QED
    BY <2>2, <2>3
<1>8. CASE Stop
  <2>1. phase = "closing" /\ phase' = "stopped"
    BY <1>8 DEF Stop
  <2>2. LifeRank = 8 - n /\ LifeRank' = 9
    BY <1>1, <2>1 DEF LifeRank
  <2>. QED
    BY <2>2
<1>9. CASE Kill
  <2>1. phase \in Phases \ {"stopped"} /\ phase' = "stopped"
    BY <1>9 DEF Kill, LifespanTypeOK
  <2>2. LifeRank' = 9
    BY <2>1 DEF LifeRank
  <2>3. LifeRank \in 0 .. 8
    <3>1. CASE phase = "closing"
      <4>1. LifeRank = 8 - n
        BY <1>1, <3>1 DEF LifeRank
      <4>. QED
        BY <4>1
    <3>2. CASE phase # "closing"
      <4>1. phase \in {"tracing", "redis", "provider", "serving", "draining"}
        BY <2>1, <3>2 DEF Phases, Starting
      <4>2. LifeRank \in {0, 1, 2, 3, 4}
        BY <4>1 DEF LifeRank
      <4>. QED
        BY <4>2
    <3>. QED
      BY <3>1, <3>2
  <2>. QED
    BY <2>2, <2>3
<1>. QED
  BY <1>2, <1>3, <1>4, <1>5, <1>6, <1>7, <1>8, <1>9 DEF Start, Unwind

\* A step of the request takes it on.
LEMMA CallAdvances ==
  ASSUME CallTypeOK, BillInv, CallNext
  PROVE  CallRank \in 0 .. 4 + MaxAttempts /\ CallRank' \in 0 .. 4 + MaxAttempts
         /\ CallRank < CallRank'
<1>0. MaxAttempts \in Nat /\ MaxAttempts >= 1
  BY CallTyped
<1>1. PICK n \in Nat : n = attempt /\ n <= MaxAttempts
  BY DEF CallTypeOK
<1>2. CASE CountTokens
  <2>1. step = "new" /\ step' = "quote"
    BY <1>2 DEF CountTokens
  <2>2. CallRank = 0 /\ CallRank' = 1
    BY <2>1 DEF CallRank
  <2>. QED
    BY <1>0, <2>2
<1>3. CASE HoldQuote
  <2>1. step = "quote" /\ step' = "route"
    BY <1>3 DEF HoldQuote
  <2>2. CallRank = 1 /\ CallRank' = 2
    BY <2>1 DEF CallRank
  <2>. QED
    BY <1>0, <2>2
<1>4. CASE CountFails \/ QuoteTooLarge \/ CancelCall \/ Settle
  <2>1. step \in Steps \ {"over"} /\ step' = "over"
    BY <1>4 DEF CountFails, QuoteTooLarge, CancelCall, Settle, CallTypeOK, Steps
  <2>2. CallRank' = 4 + MaxAttempts /\ CallRank \in {0, 1, 2, 2 + n, 3 + MaxAttempts}
    BY <1>1, <2>1 DEF CallRank, Steps
  <2>. QED
    BY <1>0, <1>1, <2>2
<1>5. CASE SkipCircuitOpen
  <2>1. step = "route" /\ step' = "settle"
    BY <1>5 DEF SkipCircuitOpen
  <2>2. CallRank = 2 /\ CallRank' = 3 + MaxAttempts
    BY <2>1 DEF CallRank
  <2>. QED
    BY <1>0, <2>2
<1>6. CASE CallProvider
  <2>1. step = "route" /\ step' = "call" /\ attempt' = 1
    BY <1>6 DEF CallProvider
  <2>2. CallRank = 2 /\ CallRank' = 2 + 1
    BY <2>1 DEF CallRank
  <2>. QED
    BY <1>0, <2>2
<1>7. CASE Retry
  <2>1. step = "call" /\ step' = "call" /\ attempt' = n + 1 /\ n < MaxAttempts
    BY <1>1, <1>7 DEF Retry, AttemptsLeft
  <2>2. CallRank = 2 + n /\ CallRank' = 2 + (n + 1)
    BY <1>1, <2>1 DEF CallRank
  <2>. QED
    BY <1>0, <2>1, <2>2
<1>8. CASE GiveUp \/ RaiseInternal \/ Answer
  <2>1. step = "call" /\ step' = "settle"
    BY <1>8 DEF GiveUp, RaiseInternal, Answer
  <2>2. CallRank = 2 + n /\ CallRank' = 3 + MaxAttempts
    BY <1>1, <2>1 DEF CallRank
  <2>. QED
    BY <1>0, <1>1, <2>2
<1>. QED
  BY <1>2, <1>3, <1>4, <1>5, <1>6, <1>7, <1>8 DEF CallNext, Continue

\* The ranks are numbers.
LEMMA RanksTyped ==
  ASSUME ProcessInv, OrderInv
  PROVE  RanksBounded
<1>1. PICK n \in 0 .. 3 : n = Len(callbacks)
  BY StackLength
<1>2. phase \in Phases /\ step \in Steps /\ attempt \in 0 .. MaxAttempts /\ MaxAttempts \in Nat
  BY CallTyped DEF ProcessInv, LifespanTypeOK, CallInv, CallTypeOK
<1>3. LifeRank \in {0, 1, 2, 3, 4, 8 - n, 9}
  BY <1>1, <1>2 DEF LifeRank, Phases, Starting
<1>4. PICK m \in Nat : m = attempt /\ m <= MaxAttempts
  BY <1>2
<1>5. CallRank \in {0, 1, 2, 2 + m, 3 + MaxAttempts, 4 + MaxAttempts}
  BY <1>2, <1>4 DEF CallRank, Steps
<1>6. LifeRank \in 0 .. 9
  BY <1>3
<1>7. CallRank \in 0 .. 4 + MaxAttempts
  BY <1>2, <1>4, <1>5
<1>. QED
  BY <1>6, <1>7 DEF RanksBounded

\* Whatever fails, is retried or is cancelled: no step goes back or in circles, so a
\* process whose steps are taken stops after boundedly many of them.
THEOREM ProcessAlwaysAdvances == Spec => [][ProcessAdvances]_vars /\ []RanksBounded
<1>1. ProcessInv /\ OrderInv /\ Next => ProcessAdvances
  <2>. SUFFICES ASSUME ProcessInv, OrderInv, Next PROVE ProcessAdvances
    OBVIOUS
  <2>0. LifespanTypeOK /\ LifeInv /\ CallTypeOK /\ BillInv
    BY DEF ProcessInv, CallInv
  <2>1. \/ (Start \/ StopSignal \/ Unwind \/ BeginClose \/ Kill) /\ (CallNext \/ UNCHANGED callVars)
        \/ UNCHANGED lifeVars /\ CallNext
    BY DEF Next, Begin, Shutdown, Die, CallNext
  <2>2. LifeRank \in Int /\ CallRank \in Int
    BY RanksTyped DEF RanksBounded, ProcessInv
  <2>3. UNCHANGED lifeVars => LifeRank' = LifeRank
    BY DEF lifeVars, LifeRank
  <2>4. UNCHANGED callVars => CallRank' = CallRank
    BY DEF callVars, CallRank
  <2>5. (Start \/ StopSignal \/ Unwind \/ BeginClose \/ Kill) => LifeRank < LifeRank' /\ LifeRank' \in Int
    BY <2>0, LifeAdvances
  <2>6. CallNext => CallRank < CallRank' /\ CallRank' \in Int
    BY <2>0, CallAdvances, CallTyped
  <2>. QED
    BY <2>1, <2>2, <2>3, <2>4, <2>5, <2>6 DEF ProcessAdvances
<1>2. ProcessInv /\ OrderInv => RanksBounded
  BY RanksTyped
<1>. QED
  BY <1>1, <1>2, OrderInvariant, ProcessInvariant, PTL DEF Spec
=============================================================================
