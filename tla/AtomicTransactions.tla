------------------------- MODULE AtomicTransactions -------------------------
(***************************************************************************)
(* What the two database transactions of a request promise, each as one    *)
(* step: Txn 1 (chat_completions._run_txn1_sync) makes its request the     *)
(* owner of a free key together with the money it reserves, Txn 2          *)
(* (settlement.py) settles a key its request still owns at the cost that   *)
(* request reports, together with the refund.  Whatever else happens to    *)
(* requests, many at a time if their process dies, leaves keys and money   *)
(* alone.                                                                  *)
(*                                                                         *)
(* SqlTxn implements it statement by statement, and ChatGateway as the     *)
(* handler that runs the two transactions.                                 *)
(***************************************************************************)
EXTENDS Integers

CONSTANTS
  Requests,  \* requests of one team
  Keys,      \* their idempotency keys
  Periods,   \* budget periods
  Alloc      \* allocation of each period

VARIABLES
  key,      \* the key of each request
  at,       \* how far each request is
  quote,    \* what its Txn 1 reserves
  cost,     \* what its Txn 2 settles it at
  entry,    \* what is committed under each key
  balance   \* committed balance of each period

vars == <<key, at, quote, cost, entry, balance>>

Init ==
  /\ key \in [Requests -> Keys]
  /\ at = [r \in Requests |-> "outside"]
  /\ quote \in [Requests -> Nat]
  /\ cost = [r \in Requests |-> 0]
  /\ entry = [k \in Keys |-> [state |-> "free"]]
  /\ balance = Alloc

GoTo(r, place) == at' = [at EXCEPT ![r] = place]

\* The handler admits r: its reservation is computed, and Txn 1 is asked for.
Ask(r) ==
  /\ at[r] = "outside"
  /\ GoTo(r, "asking")
  /\ quote'[r] \in Nat
  /\ quote' = [quote EXCEPT ![r] = quote'[r]]
  /\ UNCHANGED <<key, cost, entry, balance>>

\* Txn 1 commits.  Its request may never learn of it.
Acquire(r) ==
  /\ at[r] = "asking"
  /\ entry[key[r]] = [state |-> "free"]
  /\ \E p \in Periods :
       /\ quote[r] <= balance[p]
       /\ entry' = [entry EXCEPT ![key[r]] =
                      [state |-> "held", owner |-> r, period |-> p, amount |-> quote[r]]]
       /\ balance' = [balance EXCEPT ![p] = @ - quote[r]]
  /\ \E place \in {"owner", "ended"} : GoTo(r, place)
  /\ UNCHANGED <<key, quote, cost>>

\* The execution of r is over: it asks for Txn 2.
Conclude(r) ==
  /\ at[r] = "owner"
  /\ GoTo(r, "settling")
  /\ cost'[r] \in Nat
  /\ cost' = [cost EXCEPT ![r] = cost'[r]]
  /\ UNCHANGED <<key, quote, entry, balance>>

\* What is left of an amount after a cost; an overrun leaves nothing.
Rest(amount, c) == IF c < amount THEN amount - c ELSE 0

\* Txn 2 commits: nobody else settles a key, and it is settled at most once.
Settle(r) ==
  /\ at[r] = "settling"
  /\ \E p \in Periods :
       /\ entry[key[r]] = [state |-> "held", owner |-> r, period |-> p, amount |-> quote[r]]
       /\ entry' = [entry EXCEPT ![key[r]] =
                      [state |-> "settled", owner |-> r, period |-> p, amount |-> quote[r],
                       cost |-> cost[r]]]
       /\ balance' = [balance EXCEPT ![p] = @ + Rest(quote[r], cost[r])]
  /\ GoTo(r, "ended")
  /\ UNCHANGED <<key, quote, cost>>

\* Requests end with no transaction of theirs committed: refused, answered by
\* another request's row, failed, cancelled, or with the process that serves them.
Leave(S) ==
  /\ \A r \in S : at[r] # "ended"
  /\ at' = [r \in Requests |-> IF r \in S THEN "ended" ELSE at[r]]
  /\ UNCHANGED <<key, quote, cost, entry, balance>>

Next ==
  \/ \E r \in Requests : Ask(r) \/ Acquire(r) \/ Conclude(r) \/ Settle(r)
  \/ \E S \in SUBSET Requests : Leave(S)

Spec == Init /\ [][Next]_vars
=============================================================================
