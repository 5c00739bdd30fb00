---------------------------- MODULE RateLimiter ----------------------------
(***************************************************************************)
(* The sliding-window rate limiter of one team (app/services/rate_limit.py)*)
(* A Lua script evicts, counts and adds in one step of the Redis server;   *)
(* requests of any number of gateway processes call it, and its reply may  *)
(* be late, be lost, or make the Redis client send the script again.       *)
(*                                                                         *)
(* Time is the server's clock in ticks.  The script turns the start of the *)
(* window into a string of 14 digits, which rounds it to a multiple of     *)
(* Grain; the scores themselves keep every digit.                          *)
(***************************************************************************)
EXTENDS Integers, FiniteSets, FiniteSetsExt

CONSTANTS
  Requests,  \* HTTP requests of the team
  MemberOf,  \* the correlation ID each one carries (X-Request-ID or a fresh one)
  Limit,     \* rate_limit_max_requests
  Window,    \* rate_limit_window_seconds, in ticks
  Second,    \* ticks of a second
  Grain,     \* ticks between two values that tostring() tells apart
  Horizon    \* bound: the clock stops there

ASSUME RateLimiterAssumption ==
  /\ IsFiniteSet(Requests)
  /\ Limit \in Nat \ {0}
  /\ Second \in Nat \ {0}
  /\ Window \in Nat \ {0} /\ Window % Second = 0
  /\ Grain \in 1 .. Second
  /\ Horizon \in Nat

Members == {MemberOf[r] : r \in Requests}

VARIABLES
  now,        \* TIME
  log,        \* the team's sorted set
  expiresAt,  \* when its key expires (PEXPIRE)
  pc,         \* where the check of each request is
  reply       \* what the script last answered to it

redis  == <<log, expiresAt>>
vars   == <<now, redis, pc, reply>>

Entries == [member: Members, score: Nat]

\* at: when the script ran; retryAt: when the client is told to come back.
Replies == [allowed: BOOLEAN, at: Nat, retryAt: Nat]
NoReply == [allowed |-> FALSE, at |-> 0, retryAt |-> 0]

TypeOK ==
  /\ now \in 0 .. Horizon
  /\ log \subseteq Entries
  /\ \A e, f \in log : e.member = f.member => e = f
  /\ expiresAt \in Nat
  /\ pc \in [Requests -> {"sent", "ran", "allowed", "rejected", "unavailable"}]
  /\ reply \in [Requests -> Replies]

Init ==
  /\ now = 0
  /\ log = {}
  /\ expiresAt = 0
  /\ pc = [r \in Requests |-> "sent"]
  /\ reply = [r \in Requests |-> NoReply]

-----------------------------------------------------------------------------
\* Half of a grain: how far tostring() moves the start of the window.
Slack == Grain \div 2

\* tostring(now - window_seconds).
WindowStarts == {x \in now - Window - Slack .. now - Window + Slack : x % Grain = 0}

\* Mutant of Kept: a fixed window, counted from its last multiple.
KeptFixedWindow(start) == {e \in log : e.score >= (now \div Window) * Window}

\* ZREMRANGEBYSCORE: the start itself is not evicted.
Kept(start) == {e \in log : e.score >= start}

\* Mutant of Added: a list instead of a sorted set.
AddedTwice(entries, m) == entries \cup {[member |-> m, score |-> now]}

\* ZADD: a member has one score, the latest.
Added(entries, m) ==
  {e \in entries : e.member # m} \cup {[member |-> m, score |-> now]}

\* Mutant of RetryAfter: rounded down to whole seconds.
RetryAfterFloor(oldest) ==
  Max({((oldest + Window - now) \div Second) * Second, 0})

\* Whole seconds, rounded up, until the oldest entry leaves the window.
RetryAfter(oldest) ==
  Max({((oldest + Window - now + Second - 1) \div Second) * Second, 0})

-----------------------------------------------------------------------------
\* The script that RedisRateLimiter.check sent runs on the server.
RunScript(r) ==
  /\ pc[r] = "sent"
  /\ pc' = [pc EXCEPT ![r] = "ran"]
  /\ \E start \in WindowStarts :
       LET kept == Kept(start) IN
       \/ /\ Cardinality(kept) < Limit
          /\ log' = Added(kept, MemberOf[r])
          /\ expiresAt' = now + Window + Second
          /\ reply' = [reply EXCEPT ![r] = [allowed |-> TRUE, at |-> now, retryAt |-> now]]
       \/ /\ Cardinality(kept) >= Limit
          /\ log' = kept
          /\ \E oldest \in kept :
               /\ \A e \in kept : oldest.score <= e.score
               /\ reply' = [reply EXCEPT ![r] =
                    [allowed |-> FALSE, at |-> now, retryAt |-> now + RetryAfter(oldest.score)]]
          /\ UNCHANGED expiresAt
  /\ UNCHANGED now

\* The reply reaches the gateway: the request goes on, or gets a 429.
Deliver(r) ==
  /\ pc[r] = "ran"
  /\ pc' = [pc EXCEPT ![r] = IF reply[r].allowed THEN "allowed" ELSE "rejected"]
  /\ UNCHANGED <<now, redis, reply>>

\* The connection fails before or after the script ran, or the client goes away:
\* RateLimitUnavailableError, a 503.
Fail(r) ==
  /\ pc[r] \in {"sent", "ran"}
  /\ pc' = [pc EXCEPT ![r] = "unavailable"]
  /\ reply' = [reply EXCEPT ![r] = NoReply]
  /\ UNCHANGED <<now, redis>>

\* The reply is lost and the Redis client sends the same script again.
Resend(r) ==
  /\ pc[r] = "ran"
  /\ pc' = [pc EXCEPT ![r] = "sent"]
  /\ reply' = [reply EXCEPT ![r] = NoReply]
  /\ UNCHANGED <<now, redis>>

\* Time passes; an expired key is gone.
Tick ==
  /\ now < Horizon
  /\ now' = now + 1
  /\ log' = IF now' > expiresAt THEN {} ELSE log
  /\ UNCHANGED <<expiresAt, pc, reply>>

Next ==
  \/ \E r \in Requests : RunScript(r) \/ Deliver(r) \/ Fail(r) \/ Resend(r)
  \/ Tick

Spec == Init /\ [][Next]_vars

-----------------------------------------------------------------------------
(***************************************************************************)
(* Properties.                                                             *)
(***************************************************************************)

\* The requests let through by scripts that ran at or after time t.
AllowedSince(t) == {r \in Requests : pc[r] = "allowed" /\ reply[r].at >= t}

\* A true sliding window: wherever a window ends, at most Limit requests were let
\* through in it, up to the rounding of its start; late replies, repeated scripts
\* and the expiry of the key change nothing about that.
TrueSlidingWindow ==
  \A r \in Requests : pc[r] = "allowed" =>
    LET start == reply[r].at - Window + Slack IN
    Cardinality({q \in AllowedSince(start) : reply[q].at <= reply[r].at}) <= Limit

\* Whoever was rejected and waited for Retry-After finds room, up to the rounding
\* and unless others were let through since.
RetryAfterSuffices ==
  \A r \in Requests :
    /\ pc[r] = "rejected"
    /\ now > reply[r].retryAt + Slack
    /\ \A e \in log : e.score < reply[r].at
    => \A start \in WindowStarts : Cardinality(Kept(start)) < Limit
=============================================================================
