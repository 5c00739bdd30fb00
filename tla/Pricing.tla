------------------------------ MODULE Pricing ------------------------------
(***************************************************************************)
(* Prices and costs.  Prices are whole cents per million tokens (every     *)
(* entry of the catalog is) and costs are whole micro-dollars, the six     *)
(* decimals of NUMERIC(12,6): a hundred price units times tokens are one   *)
(* micro-dollar.  Decimal arithmetic is exact at these sizes, so only the  *)
(* rounding is left.                                                       *)
(***************************************************************************)
EXTENDS Integers

CONSTANT MaxAmount  \* largest amount of NUMERIC(12,6), in micro-dollars

ASSUME PricingAssumption == MaxAmount \in Nat

Scale == 100

Prices == [input: Nat, output: Nat]

Models == {<<"mock", "mock-small">>, <<"mock", "mock-large">>, <<"openai", "gpt-5-mini">>}

\* get_model_pricing of a known model.  The entries have different keys, which
\* build_pricing_catalog insists on.
Catalog ==
  [m \in Models |->
     CASE m[2] = "mock-small" -> [input |-> 1, output |-> 2]
       [] m[2] = "mock-large" -> [input |-> 5, output |-> 10]
       [] m[2] = "gpt-5-mini" -> [input |-> 25, output |-> 200]]

\* _round_cost: up to the next micro-dollar
RoundCost(exact) == (exact + Scale - 1) \div Scale

\* A cost above the largest amount raises PricingValidationError.
Storable(amount) == amount <= MaxAmount

\* The price of the tokens before rounding
Exact(price, input, output) == input * price.input + output * price.output

\* calculate_cost_for_pricing
Cost(price, input, output) == RoundCost(Exact(price, input, output))

\* Mutant of Quote: the reservation is for one attempt only.
QuoteOneAttempt(price, input, maxTokens, attempts) == Cost(price, input, maxTokens)

\* What the handler reserves: every attempt may be run and use max_tokens.
Quote(price, input, maxTokens, attempts) == Cost(price, input * attempts, maxTokens * attempts)
=============================================================================
