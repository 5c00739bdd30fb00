------------------------ MODULE IdempotentExecution ------------------------
(***************************************************************************)
(* What an Idempotency-Key promises the clients of a team, whatever        *)
(* becomes of their requests: one request owns the key for good, only it   *)
(* runs, and it runs before it succeeds; a result is the owner's own, or   *)
(* it is given again to a request with the same payload.  ChatGateway      *)
(* implements this with the rows of idempotency_keys, the calls of the     *)
(* provider and the answers of its handlers.                               *)
(***************************************************************************)
CONSTANTS
  Requests,  \* requests of the team
  Keys,      \* its idempotency keys
  Hashes,    \* fingerprints of request payloads
  None       \* no request

VARIABLES
  wants,  \* key and fingerprint each request carries
  entry,  \* who owns each key, and how its execution ended
  runs,   \* requests that called the provider under each key
  given   \* whose result each request's client was given

onceVars == <<wants, entry, runs, given>>

Outcomes == {"succeeded", "failed"}

Init ==
  /\ wants \in [Requests -> [key: Keys, hash: Hashes]]
  /\ entry = [k \in Keys |-> [state |-> "free", by |-> None]]
  /\ runs = [k \in Keys |-> {}]
  /\ given = [r \in Requests |-> None]

Owns(r) == entry[wants[r].key] = [state |-> "running", by |-> r]

\* r becomes the owner of its key.
Own(r) ==
  /\ entry[wants[r].key].state = "free"
  /\ entry' = [entry EXCEPT ![wants[r].key] = [state |-> "running", by |-> r]]
  /\ UNCHANGED <<wants, runs, given>>

\* The owner calls the provider.
Run(r) ==
  /\ Owns(r)
  /\ runs' = [runs EXCEPT ![wants[r].key] = @ \cup {r}]
  /\ UNCHANGED <<wants, entry, given>>

\* The owner stores the outcome, and its client may or may not learn of it.
Settle(r, outcome) ==
  /\ Owns(r)
  /\ outcome = "succeeded" => r \in runs[wants[r].key]
  /\ entry' = [entry EXCEPT ![wants[r].key] = [state |-> outcome, by |-> r]]
  /\ \/ UNCHANGED given
     \/ outcome = "succeeded" /\ given' = [given EXCEPT ![r] = r]
  /\ UNCHANGED <<wants, runs>>

\* The stored result is given to a request with the payload that was run.
Give(r) ==
  LET x == entry[wants[r].key] IN
  /\ given[r] = None
  /\ x.state = "succeeded"
  /\ wants[x.by].hash = wants[r].hash
  /\ given' = [given EXCEPT ![r] = x.by]
  /\ UNCHANGED <<wants, entry, runs>>

Next ==
  \E r \in Requests :
    Own(r) \/ Run(r) \/ Give(r) \/ \E outcome \in Outcomes : Settle(r, outcome)

Spec == Init /\ [][Next]_onceVars
=============================================================================
