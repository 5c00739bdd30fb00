------------------------- MODULE RateLimiterProofs -------------------------
(***************************************************************************)
(* Proofs about the rate limiter, for any number of requests and any       *)
(* limit, window and rounding.  A request let through keeps its entry in   *)
(* the sorted set for as long as a window can reach back to it, so the     *)
(* entries a script counts are at least the requests of its window.        *)
(***************************************************************************)
EXTENDS RateLimiter, FiniteSetTheorems, TLAPS

\* Every request has a correlation ID of its own.
DistinctIds == \A q, r \in Requests : MemberOf[q] = MemberOf[r] => q = r

\* Requests the script let through, or refused, whether or not they know
Let(r) == pc[r] \in {"ran", "allowed"} /\ reply[r].allowed
Refused(r) == pc[r] \in {"ran", "rejected"} /\ ~reply[r].allowed

\* The entry of a request let through
Answered(r) == [member |-> MemberOf[r], score |-> reply[r].at]

\* Entries are of the past and outlived by the key.
LogInv ==
  /\ IsFiniteSet(log)
  /\ \A e \in log : e.score <= now /\ e.score + Window + Second <= expiresAt
  /\ Cardinality(log) <= Limit

\* An entry is there until no window reaches back to it.
EntryInv ==
  \A r \in Requests : Let(r) =>
    /\ reply[r].at <= now
    /\ reply[r].at >= now - Window + Slack => Answered(r) \in log

\* The requests let through in the window that ends at t
InWindow(t) ==
  {q \in Requests : Let(q) /\ reply[q].at >= t - Window + Slack /\ reply[q].at <= t}

WindowInv == \A r \in Requests : Let(r) => Cardinality(InWindow(reply[r].at)) <= Limit

ReplyInv ==
  \A r \in Requests :
    /\ pc[r] = "allowed" => reply[r].allowed
    /\ pc[r] = "rejected" => ~reply[r].allowed

\* The entries before r's refusal that are still there when r may come back
Older(r) == {e \in log : e.score < reply[r].at /\ e.score + Window > reply[r].retryAt}

RoomInv ==
  \A r \in Requests : Refused(r) => reply[r].at <= now /\ Cardinality(Older(r)) < Limit

\* What holds however the IDs are chosen, and what needs them distinct
RefuseInv == TypeOK /\ LogInv /\ ReplyInv /\ RoomInv
RateInv == RefuseInv /\ EntryInv /\ WindowInv

-----------------------------------------------------------------------------
(* Numbers and sets *)

\* The constants, and how far the start of a window is rounded
LEMMA ConstantsTyped ==
  /\ Limit \in Nat /\ Limit > 0 /\ Second \in Nat /\ Second > 0 /\ Window \in Nat
  /\ Slack \in Nat /\ Slack <= Second
<1>1. Limit \in Nat /\ Limit > 0 /\ Second \in Nat /\ Second > 0 /\ Window \in Nat
  BY RateLimiterAssumption
<1>2. Grain \in Nat /\ Grain <= Second
  BY <1>1, RateLimiterAssumption
<1>3. Slack \in Nat /\ Slack <= Grain
  BY <1>2 DEF Slack
<1>. QED
  BY <1>1, <1>2, <1>3

\* The larger of a number and zero
LEMMA MaxWithZero == ASSUME NEW x \in Int PROVE Max({x, 0}) \in Nat /\ Max({x, 0}) >= x
<1>1. \E m \in {x, 0} : \A y \in {x, 0} : m >= y
  <2>1. CASE x >= 0
    BY <2>1
  <2>2. CASE ~(x >= 0)
    BY <2>2
  <2>. QED
    BY <2>1, <2>2
<1>2. Max({x, 0}) \in {x, 0} /\ \A y \in {x, 0} : Max({x, 0}) >= y
  BY <1>1 DEF Max
<1>. QED
  BY <1>2

\* Rounding up to whole seconds gives at least what was rounded.
LEMMA RoundsUp ==
  ASSUME NEW x \in Int, NEW s \in Nat, s > 0
  PROVE  ((x + s - 1) \div s) * s \in Int /\ ((x + s - 1) \div s) * s >= x
<1>1. PICK y \in Int : y = x + s - 1
  OBVIOUS
<1>2. y \div s \in Int /\ s * (y \div s) > y - s
  OBVIOUS
<1>3. PICK q \in Int : q = y \div s
  BY <1>2
<1>4. s * q > y - s /\ s * q = q * s /\ q * s \in Int
  BY <1>2, <1>3
<1>5. q * s >= x
  BY <1>1, <1>4
<1>. QED
  BY <1>1, <1>3, <1>4, <1>5

\* Whoever is refused is sent away for long enough.
LEMMA RetryLongEnough ==
  ASSUME now \in Nat, NEW o \in Nat
  PROVE  RetryAfter(o) \in Nat /\ now + RetryAfter(o) >= o + Window
<1>1. PICK x \in Int : x = o + Window - now
  BY ConstantsTyped
<1>2. PICK y \in Int : y = ((x + Second - 1) \div Second) * Second /\ y >= x
  BY RoundsUp, ConstantsTyped
<1>3. RetryAfter(o) = Max({y, 0})
  BY <1>1, <1>2 DEF RetryAfter
<1>4. Max({y, 0}) \in Nat /\ Max({y, 0}) >= y
  BY MaxWithZero
<1>. QED
  BY <1>1, <1>2, <1>3, <1>4, ConstantsTyped

\* The start of a window, as the script sees it
LEMMA StartBounds ==
  ASSUME now \in Nat, NEW start \in WindowStarts
  PROVE  start \in Int /\ start >= now - Window - Slack /\ start <= now - Window + Slack
  BY ConstantsTyped DEF WindowStarts

\* A part of a finite set is finite and not larger.
LEMMA PartOf ==
  ASSUME NEW S, IsFiniteSet(S), NEW T, T \subseteq S
  PROVE  /\ IsFiniteSet(T) /\ Cardinality(T) \in Nat /\ Cardinality(S) \in Nat
         /\ Cardinality(T) <= Cardinality(S)
  BY FS_Subset, FS_CardinalityType

\* What is typed of the log and of one request
LEMMA RateTyped ==
  ASSUME TypeOK
  PROVE  /\ now \in Nat /\ expiresAt \in Nat
         /\ \A e \in log : e \in Entries /\ e.score \in Nat /\ e.member \in Members
         /\ \A r \in Requests : /\ reply[r] \in Replies /\ reply[r].at \in Nat
                                /\ reply[r].retryAt \in Nat /\ reply[r].allowed \in BOOLEAN
<1>1. now \in Nat /\ expiresAt \in Nat
  BY RateLimiterAssumption DEF TypeOK
<1>2. ASSUME NEW e \in log
      PROVE  e \in Entries /\ e.score \in Nat /\ e.member \in Members
  BY DEF TypeOK, Entries
<1>3. ASSUME NEW r \in Requests
      PROVE  /\ reply[r] \in Replies /\ reply[r].at \in Nat
             /\ reply[r].retryAt \in Nat /\ reply[r].allowed \in BOOLEAN
  BY DEF TypeOK, Replies
<1>. QED
  BY <1>1, <1>2, <1>3

\* The initial state satisfies the invariant.
LEMMA RateInvInit == Init => RateInv
<1>. SUFFICES ASSUME Init PROVE RateInv
  OBVIOUS
<1>1. NoReply \in Replies /\ ~NoReply.allowed
  BY DEF NoReply, Replies
<1>2. TypeOK
  BY <1>1, RateLimiterAssumption DEF Init, TypeOK
<1>3. \A r \in Requests : pc[r] = "sent" /\ ~Let(r) /\ ~Refused(r)
  BY DEF Init, Let, Refused
<1>4. LogInv
  BY FS_EmptySet, ConstantsTyped DEF Init, LogInv
<1>. QED
  BY <1>2, <1>3, <1>4 DEF RateInv, RefuseInv, EntryInv, WindowInv, ReplyInv, RoomInv

-----------------------------------------------------------------------------
(* Steps of the script *)

\* The entry a script adds
NewEntry(r) == [member |-> MemberOf[r], score |-> now]

\* The two outcomes of RunScript
Lets(r, start) ==
  /\ Cardinality(Kept(start)) < Limit
  /\ log' = Added(Kept(start), MemberOf[r])
  /\ expiresAt' = now + Window + Second
  /\ reply' = [reply EXCEPT ![r] = [allowed |-> TRUE, at |-> now, retryAt |-> now]]

Refuses(r, start, oldest) ==
  /\ \A e \in Kept(start) : oldest.score <= e.score
  /\ log' = Kept(start)
  /\ reply' = [reply EXCEPT ![r] =
                 [allowed |-> FALSE, at |-> now, retryAt |-> now + RetryAfter(oldest.score)]]
  /\ UNCHANGED expiresAt

\* A script lets its request through or refuses it.
LEMMA ScriptOutcomes ==
  ASSUME NEW r \in Requests, RunScript(r)
  PROVE  /\ pc[r] = "sent" /\ pc' = [pc EXCEPT ![r] = "ran"] /\ UNCHANGED now
         /\ \E start \in WindowStarts :
              Lets(r, start) \/ \E oldest \in Kept(start) : Refuses(r, start, oldest)
<1>1. pc[r] = "sent" /\ pc' = [pc EXCEPT ![r] = "ran"] /\ UNCHANGED now
  BY DEF RunScript
<1>2. PICK start \in WindowStarts :
        \/ Lets(r, start)
        \/ /\ log' = Kept(start) /\ UNCHANGED expiresAt
           /\ \E oldest \in Kept(start) :
                /\ \A e \in Kept(start) : oldest.score <= e.score
                /\ reply' = [reply EXCEPT ![r] =
                     [allowed |-> FALSE, at |-> now, retryAt |-> now + RetryAfter(oldest.score)]]
  BY Zenon DEF RunScript, Lets
<1>3. Lets(r, start) \/ \E oldest \in Kept(start) : Refuses(r, start, oldest)
  BY <1>2 DEF Refuses
<1>. QED
  BY <1>1, <1>3

\* What a script keeps is part of the log.
LEMMA KeptPart ==
  ASSUME LogInv, NEW start
  PROVE  /\ Kept(start) \subseteq log /\ IsFiniteSet(Kept(start))
         /\ Cardinality(Kept(start)) \in Nat /\ Cardinality(Kept(start)) <= Limit
<1>1. Kept(start) \subseteq log
  BY DEF Kept
<1>2. /\ IsFiniteSet(Kept(start)) /\ Cardinality(Kept(start)) \in Nat
      /\ Cardinality(log) \in Nat /\ Cardinality(Kept(start)) <= Cardinality(log)
  BY <1>1, PartOf DEF LogInv
<1>. QED
  BY <1>1, <1>2, ConstantsTyped DEF LogInv

\* The log after a request was let through
LEMMA LogGrows ==
  ASSUME RefuseInv, NEW r \in Requests, NEW start, Lets(r, start)
  PROVE  /\ NewEntry(r) \in log' /\ log' \subseteq log \cup {NewEntry(r)}
         /\ \A e \in Kept(start) : e.member # MemberOf[r] => e \in log'
         /\ \A e \in log' : e # NewEntry(r) => e.member # MemberOf[r]
         /\ IsFiniteSet(log') /\ Cardinality(log') <= Limit
<1>. DEFINE rest == {e \in Kept(start) : e.member # MemberOf[r]}
<1>1. log' = rest \cup {NewEntry(r)}
  BY DEF Lets, Added, NewEntry
<1>2. rest \subseteq Kept(start)
  OBVIOUS
<1>3. /\ Kept(start) \subseteq log /\ IsFiniteSet(Kept(start))
      /\ Cardinality(Kept(start)) \in Nat /\ Cardinality(Kept(start)) < Limit
  BY KeptPart DEF RefuseInv, Lets
<1>. HIDE DEF rest
<1>4. IsFiniteSet(rest) /\ Cardinality(rest) \in Nat /\ Cardinality(rest) < Limit
  BY <1>2, <1>3, PartOf, ConstantsTyped
<1>5. IsFiniteSet(log') /\ Cardinality(log') <= Cardinality(rest) + 1
  BY <1>1, <1>4, FS_AddElement
<1>6. Cardinality(log') <= Limit
  <2>1. Cardinality(log') \in Nat
    BY <1>5, FS_CardinalityType
  <2>. QED
    BY <1>4, <1>5, <2>1, ConstantsTyped
<1>7. \A e \in rest : e \in Kept(start) /\ e.member # MemberOf[r]
  BY DEF rest
<1>8. \A e \in Kept(start) : e.member # MemberOf[r] => e \in rest
  BY DEF rest
<1>. QED
  BY <1>1, <1>2, <1>3, <1>5, <1>6, <1>7, <1>8

\* An entry that is there before r's refusal was there all the time.
LEMMA OlderShrinks ==
  ASSUME RefuseInv, NEW q \in Requests, Refused(q), reply'[q] = reply[q],
         \A e \in log' : e \in log \/ e.score = now
  PROVE  Cardinality(Older(q)') < Limit
<1>1. reply[q].at <= now /\ Cardinality(Older(q)) < Limit /\ reply[q].at \in Nat /\ now \in Nat
  BY RateTyped DEF RefuseInv, RoomInv
<1>2. ~(now < reply[q].at)
  BY <1>1
<1>3. Older(q)' \subseteq Older(q)
  BY <1>2 DEF Older
<1>4. Older(q) \subseteq log
  BY DEF Older
<1>5. /\ IsFiniteSet(Older(q)) /\ Cardinality(Older(q)) \in Nat
  BY <1>4, PartOf DEF RefuseInv, LogInv
<1>6. Cardinality(Older(q)') \in Nat /\ Cardinality(Older(q)') <= Cardinality(Older(q))
  BY <1>3, <1>5, PartOf
<1>. QED
  BY <1>1, <1>5, <1>6, ConstantsTyped

\* A request that is let through leaves room for those refused before.
LEMMA LetsKeepsRefuse ==
  ASSUME RefuseInv, NEW r \in Requests, NEW start \in WindowStarts, Lets(r, start),
         pc' = [pc EXCEPT ![r] = "ran"], UNCHANGED now
  PROVE  RefuseInv'
<1>0. TypeOK /\ LogInv /\ now \in Nat
  BY RateTyped DEF RefuseInv
<1>1. /\ NewEntry(r) \in log' /\ log' \subseteq log \cup {NewEntry(r)}
      /\ \A e \in log' : e # NewEntry(r) => e.member # MemberOf[r]
      /\ IsFiniteSet(log') /\ Cardinality(log') <= Limit
  BY LogGrows
<1>2. /\ NewEntry(r) \in Entries /\ NewEntry(r).score = now
      /\ NewEntry(r).member = MemberOf[r]
  BY <1>0 DEF NewEntry, Entries, Members
<1>3. /\ expiresAt' = now + Window + Second
      /\ reply' = [reply EXCEPT ![r] = [allowed |-> TRUE, at |-> now, retryAt |-> now]]
  BY DEF Lets
<1>4. [allowed |-> TRUE, at |-> now, retryAt |-> now] \in Replies
  BY <1>0 DEF Replies
<1>5. TypeOK'
  <2>1. log' \subseteq Entries
    BY <1>0, <1>1, <1>2 DEF TypeOK
  <2>2. \A e, f \in log' : e.member = f.member => e = f
    BY <1>0, <1>1, <1>2 DEF TypeOK
  <2>3. expiresAt' \in Nat
    BY <1>0, <1>3, ConstantsTyped
  <2>. QED
    BY <1>0, <1>3, <1>4, <2>1, <2>2, <2>3 DEF TypeOK
<1>6. LogInv'
  <2>1. ASSUME NEW e \in log'
        PROVE  e.score <= now /\ e.score + Window + Second <= now + Window + Second
    <3>1. e.score <= now /\ e.score \in Nat
      BY <1>0, <1>1, <1>2, RateTyped DEF LogInv
    <3>. QED
      BY <1>0, <3>1, ConstantsTyped
  <2>. QED
    BY <1>1, <1>3, <2>1 DEF LogInv
<1>7. reply'[r].allowed /\ \A q \in Requests \ {r} : reply'[q] = reply[q] /\ pc'[q] = pc[q]
  BY <1>0, <1>3 DEF TypeOK
<1>8. pc'[r] = "ran"
  BY <1>0 DEF TypeOK
<1>9. ReplyInv'
  BY <1>7, <1>8 DEF RefuseInv, ReplyInv
<1>10. RoomInv'
  <2>1. SUFFICES ASSUME NEW q \in Requests, Refused(q)'
                 PROVE  reply'[q].at <= now' /\ Cardinality(Older(q)') < Limit
    BY DEF RoomInv
  <2>2. q # r
    BY <2>1, <1>7 DEF Refused
  <2>3. Refused(q) /\ reply'[q] = reply[q]
    BY <1>7, <2>1, <2>2 DEF Refused
  <2>4. \A e \in log' : e \in log \/ e.score = now
    BY <1>1, <1>2
  <2>5. Cardinality(Older(q)') < Limit
    BY <2>3, <2>4, OlderShrinks
  <2>. QED
    BY <2>3, <2>5 DEF RefuseInv, RoomInv
<1>. QED
  BY <1>5, <1>6, <1>9, <1>10 DEF RefuseInv

\* A refusal makes known when the oldest entry has left the window.
LEMMA RefusesKeepsRefuse ==
  ASSUME RefuseInv, NEW r \in Requests, NEW start \in WindowStarts, NEW oldest \in Kept(start),
         Refuses(r, start, oldest), pc' = [pc EXCEPT ![r] = "ran"], UNCHANGED now
  PROVE  RefuseInv'
<1>0. TypeOK /\ LogInv /\ now \in Nat
  BY RateTyped DEF RefuseInv
<1>1. /\ log' = Kept(start) /\ UNCHANGED expiresAt
      /\ reply' = [reply EXCEPT ![r] =
                     [allowed |-> FALSE, at |-> now, retryAt |-> now + RetryAfter(oldest.score)]]
  BY DEF Refuses
<1>2. /\ Kept(start) \subseteq log /\ IsFiniteSet(Kept(start))
      /\ Cardinality(Kept(start)) \in Nat /\ Cardinality(Kept(start)) <= Limit
  BY <1>0, KeptPart
<1>3. oldest \in log /\ oldest.score \in Nat
  BY <1>0, <1>2, RateTyped
<1>4. /\ RetryAfter(oldest.score) \in Nat
      /\ now + RetryAfter(oldest.score) >= oldest.score + Window
  BY <1>0, <1>3, RetryLongEnough
<1>5. PICK back \in Nat : back = now + RetryAfter(oldest.score) /\ back >= oldest.score + Window
  BY <1>0, <1>4
<1>6. [allowed |-> FALSE, at |-> now, retryAt |-> back] \in Replies
  BY <1>0 DEF Replies
<1>7. TypeOK'
  <2>1. log' \subseteq Entries /\ \A e, f \in log' : e.member = f.member => e = f
    BY <1>0, <1>1, <1>2 DEF TypeOK
  <2>. QED
    BY <1>0, <1>1, <1>5, <1>6, <2>1 DEF TypeOK
<1>8. LogInv'
  BY <1>0, <1>1, <1>2 DEF LogInv
<1>9. /\ ~reply'[r].allowed /\ reply'[r].at = now /\ reply'[r].retryAt = back
      /\ \A q \in Requests \ {r} : reply'[q] = reply[q] /\ pc'[q] = pc[q]
  BY <1>0, <1>1, <1>5 DEF TypeOK
<1>10. pc'[r] = "ran"
  BY <1>0 DEF TypeOK
<1>11. ReplyInv'
  BY <1>9, <1>10 DEF RefuseInv, ReplyInv
<1>12. Cardinality(Older(r)') < Limit
  <2>1. ~(oldest.score + Window > back)
    BY <1>3, <1>5, ConstantsTyped
  <2>2. Older(r)' \subseteq Kept(start) \ {oldest}
    BY <1>1, <1>9, <2>1 DEF Older
  <2>3. /\ IsFiniteSet(Kept(start) \ {oldest})
        /\ Cardinality(Kept(start) \ {oldest}) = Cardinality(Kept(start)) - 1
    BY <1>2, FS_RemoveElement
  <2>4. /\ Cardinality(Older(r)') \in Nat
        /\ Cardinality(Older(r)') <= Cardinality(Kept(start) \ {oldest})
    BY <2>2, <2>3, PartOf
  <2>. QED
    BY <1>2, <2>3, <2>4, ConstantsTyped
<1>13. RoomInv'
  <2>1. SUFFICES ASSUME NEW q \in Requests, Refused(q)'
                 PROVE  reply'[q].at <= now' /\ Cardinality(Older(q)') < Limit
    BY DEF RoomInv
  <2>2. CASE q = r
    BY <1>0, <1>9, <1>12, <2>2
  <2>3. CASE q # r
    <3>1. Refused(q) /\ reply'[q] = reply[q]
      BY <1>9, <2>1, <2>3 DEF Refused
    <3>2. Cardinality(Older(q)') < Limit
      BY <1>1, <1>2, <3>1, OlderShrinks
    <3>. QED
      BY <3>1, <3>2 DEF RefuseInv, RoomInv
  <2>. QED
    BY <2>2, <2>3
<1>. QED
  BY <1>7, <1>8, <1>11, <1>13 DEF RefuseInv

-----------------------------------------------------------------------------
(* The window *)

\* The requests of a window are finitely many.
LEMMA InWindowFinite ==
  \A t : InWindow(t) \subseteq Requests /\ IsFiniteSet(InWindow(t))
         /\ Cardinality(InWindow(t)) \in Nat
<1>. TAKE t
<1>1. InWindow(t) \subseteq Requests
  BY DEF InWindow
<1>. QED
  BY <1>1, PartOf, RateLimiterAssumption

\* The entries that a script counts are at least the requests of its window.
LEMMA WindowCounted ==
  ASSUME DistinctIds, RateInv, NEW start \in WindowStarts
  PROVE  Cardinality(InWindow(now)) <= Cardinality(Kept(start))
<1>. DEFINE f == [q \in InWindow(now) |-> Answered(q)]
<1>0. TypeOK /\ LogInv /\ EntryInv /\ now \in Nat
  BY RateTyped DEF RateInv, RefuseInv
<1>1. ASSUME NEW q \in InWindow(now) PROVE Answered(q) \in Kept(start)
  <2>1. q \in Requests /\ Let(q) /\ reply[q].at >= now - Window + Slack /\ reply[q].at \in Nat
    BY <1>0, RateTyped DEF InWindow
  <2>2. Answered(q) \in log
    BY <1>0, <2>1 DEF EntryInv
  <2>3. start \in Int /\ start <= now - Window + Slack
    BY <1>0, StartBounds
  <2>4. reply[q].at >= start
    BY <1>0, <2>1, <2>3, ConstantsTyped
  <2>. QED
    BY <2>2, <2>4 DEF Kept, Answered
<1>2. f \in [InWindow(now) -> Kept(start)]
  BY <1>1
<1>3. ASSUME NEW q \in InWindow(now), NEW u \in InWindow(now), f[q] = f[u] PROVE q = u
  <2>1. Answered(q).member = Answered(u).member
    BY <1>3
  <2>2. MemberOf[q] = MemberOf[u] /\ q \in Requests /\ u \in Requests
    BY <2>1, InWindowFinite DEF Answered
  <2>. QED
    BY <2>2 DEF DistinctIds
<1>. HIDE DEF f
<1>4. f \in Injection(InWindow(now), Kept(start))
  BY <1>2, <1>3 DEF Injection, IsInjective
<1>. QED
  BY <1>0, <1>4, KeptPart, FS_Injection

\* A script's entries after the start of the window stay.
LEMMA EntriesStay ==
  ASSUME RateInv, NEW start \in WindowStarts, NEW q \in Requests, Let(q),
         reply[q].at >= now - Window + Slack
  PROVE  Answered(q) \in Kept(start)
<1>0. TypeOK /\ EntryInv /\ now \in Nat
  BY RateTyped DEF RateInv, RefuseInv
<1>1. Answered(q) \in log /\ reply[q].at \in Nat
  BY <1>0, RateTyped DEF EntryInv
<1>2. start \in Int /\ start <= now - Window + Slack
  BY <1>0, StartBounds
<1>3. reply[q].at >= start
  BY <1>0, <1>1, <1>2, ConstantsTyped
<1>. QED
  BY <1>1, <1>3 DEF Kept, Answered

\* Letting a request through keeps every window within the limit.
LEMMA LetsKeeps ==
  ASSUME DistinctIds, RateInv, NEW r \in Requests, pc[r] = "sent",
         NEW start \in WindowStarts, Lets(r, start),
         pc' = [pc EXCEPT ![r] = "ran"], UNCHANGED now
  PROVE  RateInv'
<1>0. TypeOK /\ LogInv /\ RefuseInv /\ EntryInv /\ now \in Nat /\ ~Let(r)
  BY RateTyped DEF RateInv, RefuseInv, Let
<1>1. RefuseInv'
  BY <1>0, LetsKeepsRefuse
<1>2. reply' = [reply EXCEPT ![r] = [allowed |-> TRUE, at |-> now, retryAt |-> now]]
  BY DEF Lets
<1>3. /\ reply'[r].at = now /\ reply'[r].allowed /\ pc'[r] = "ran"
      /\ \A q \in Requests \ {r} : reply'[q] = reply[q] /\ pc'[q] = pc[q]
  BY <1>0, <1>2 DEF TypeOK
<1>4. Let(r)' /\ \A q \in Requests \ {r} : Let(q)' <=> Let(q)
  BY <1>3 DEF Let
<1>5. EntryInv'
  <2>1. SUFFICES ASSUME NEW q \in Requests, Let(q)'
                 PROVE  /\ reply'[q].at <= now
                        /\ reply'[q].at >= now - Window + Slack => Answered(q)' \in log'
    BY DEF EntryInv
  <2>2. CASE q = r
    <3>1. Answered(q)' = NewEntry(r)
      BY <1>3, <2>2 DEF Answered, NewEntry
    <3>. QED
      BY <1>0, <1>3, <2>2, <3>1, LogGrows
  <2>3. CASE q # r
    <3>1. Let(q) /\ reply'[q] = reply[q] /\ reply[q].at <= now /\ Answered(q)' = Answered(q)
      BY <1>0, <1>3, <1>4, <2>1, <2>3 DEF EntryInv, Answered
    <3>2. Answered(q).member # MemberOf[r]
      BY <2>3 DEF Answered, DistinctIds
    <3>3. reply[q].at >= now - Window + Slack => Answered(q) \in Kept(start)
      BY <3>1, EntriesStay
    <3>. QED
      BY <1>0, <3>1, <3>2, <3>3, LogGrows
  <2>. QED
    BY <2>2, <2>3
<1>6. WindowInv'
  <2>1. SUFFICES ASSUME NEW q \in Requests, Let(q)'
                 PROVE  Cardinality(InWindow(reply[q].at)') <= Limit
    BY DEF WindowInv
  <2>2. PICK t \in Nat : t = reply'[q].at
    BY <1>1, RateTyped, <1>3, <1>0
  <2>3. InWindow(reply[q].at)' = InWindow(t)'
    BY <2>2 DEF InWindow
  <2>4. t <= now
    BY <1>5, <2>1, <2>2 DEF EntryInv
  <2>5. CASE t < now
    <3>1. q # r /\ Let(q) /\ reply[q].at = t
      BY <1>0, <1>3, <1>4, <2>1, <2>2, <2>5
    <3>2. r \notin InWindow(t)'
      BY <1>0, <1>3, <2>5 DEF InWindow
    <3>3. InWindow(t)' \subseteq InWindow(t)
      BY <1>3, <1>4, <3>2 DEF InWindow
    <3>4. /\ Cardinality(InWindow(t)') <= Cardinality(InWindow(t))
          /\ Cardinality(InWindow(t)') \in Nat
      BY <3>3, InWindowFinite, PartOf
    <3>5. Cardinality(InWindow(t)) <= Limit
      BY <3>1 DEF RateInv, WindowInv
    <3>. QED
      BY <2>3, <3>4, <3>5, InWindowFinite, ConstantsTyped
  <2>6. CASE t = now
    <3>1. InWindow(t)' \subseteq InWindow(now) \cup {r}
      BY <1>3, <1>4, <2>6 DEF InWindow
    <3>2. /\ IsFiniteSet(InWindow(now) \cup {r})
          /\ Cardinality(InWindow(now) \cup {r}) <= Cardinality(InWindow(now)) + 1
      <4>1. IsFiniteSet(InWindow(now)) /\ Cardinality(InWindow(now)) \in Nat
        BY InWindowFinite
      <4>2. /\ IsFiniteSet(InWindow(now) \cup {r})
            /\ Cardinality(InWindow(now) \cup {r}) =
                 IF r \in InWindow(now) THEN Cardinality(InWindow(now))
                                        ELSE Cardinality(InWindow(now)) + 1
        BY <4>1, FS_AddElement
      <4>. QED
        BY <4>1, <4>2
    <3>3. /\ Cardinality(InWindow(t)') <= Cardinality(InWindow(now) \cup {r})
          /\ Cardinality(InWindow(t)') \in Nat /\ Cardinality(InWindow(now) \cup {r}) \in Nat
      BY <3>1, <3>2, PartOf
    <3>4. Cardinality(InWindow(now)) <= Cardinality(Kept(start))
      BY WindowCounted
    <3>5. Cardinality(Kept(start)) < Limit /\ Cardinality(Kept(start)) \in Nat
      BY <1>0, KeptPart DEF Lets
    <3>. QED
      BY <2>3, <3>2, <3>3, <3>4, <3>5, InWindowFinite, ConstantsTyped
  <2>. QED
    BY <1>0, <2>2, <2>4, <2>5, <2>6
<1>. QED
  BY <1>1, <1>5, <1>6 DEF RateInv

\* A step that lets nobody else through keeps the windows as they are.
LEMMA WindowsShrink ==
  ASSUME RateInv, \A q \in Requests : Let(q)' => Let(q) /\ reply'[q] = reply[q]
  PROVE  WindowInv'
<1>1. SUFFICES ASSUME NEW q \in Requests, Let(q)'
               PROVE  Cardinality(InWindow(reply[q].at)') <= Limit
  BY DEF WindowInv
<1>2. Let(q) /\ reply'[q] = reply[q]
  BY <1>1
<1>3. PICK t \in Nat : t = reply[q].at
  BY RateTyped DEF RateInv, RefuseInv
<1>4. InWindow(reply[q].at)' = InWindow(t)'
  BY <1>2, <1>3 DEF InWindow
<1>5. InWindow(t)' \subseteq InWindow(t)
  BY DEF InWindow
<1>6. /\ Cardinality(InWindow(t)') <= Cardinality(InWindow(t))
      /\ Cardinality(InWindow(t)') \in Nat
  BY <1>5, InWindowFinite, PartOf
<1>7. Cardinality(InWindow(t)) <= Limit
  BY <1>2, <1>3 DEF RateInv, WindowInv
<1>. QED
  BY <1>4, <1>6, <1>7, InWindowFinite, ConstantsTyped

\* A refusal lets nobody through.
LEMMA RefusesKeeps ==
  ASSUME RateInv, NEW r \in Requests, NEW start \in WindowStarts, NEW oldest \in Kept(start),
         Refuses(r, start, oldest), pc' = [pc EXCEPT ![r] = "ran"], UNCHANGED now
  PROVE  RateInv'
<1>0. TypeOK /\ RefuseInv /\ EntryInv /\ now \in Nat
  BY RateTyped DEF RateInv, RefuseInv
<1>1. RefuseInv'
  BY <1>0, RefusesKeepsRefuse
<1>2. /\ ~reply'[r].allowed /\ log' = Kept(start)
      /\ \A q \in Requests \ {r} : reply'[q] = reply[q] /\ pc'[q] = pc[q]
  BY <1>0 DEF Refuses, TypeOK
<1>3. \A q \in Requests : Let(q)' => Let(q) /\ reply'[q] = reply[q]
  BY <1>2 DEF Let
<1>4. EntryInv'
  <2>1. SUFFICES ASSUME NEW q \in Requests, Let(q)'
                 PROVE  /\ reply'[q].at <= now
                        /\ reply'[q].at >= now - Window + Slack => Answered(q)' \in log'
    BY DEF EntryInv
  <2>2. Let(q) /\ reply'[q] = reply[q] /\ reply[q].at <= now /\ Answered(q)' = Answered(q)
    BY <1>0, <1>3, <2>1 DEF EntryInv, Answered
  <2>. QED
    BY <1>2, <2>2, EntriesStay
<1>. QED
  BY <1>1, <1>3, <1>4, WindowsShrink DEF RateInv

-----------------------------------------------------------------------------
(* The other steps *)

\* A step of a client changes nothing in Redis.
LEMMA ClientKeepsRefuse ==
  ASSUME RefuseInv, NEW r \in Requests, Deliver(r) \/ Fail(r) \/ Resend(r)
  PROVE  /\ RefuseInv' /\ UNCHANGED <<now, redis>>
         /\ \A q \in Requests : Let(q)' => Let(q) /\ reply'[q] = reply[q]
<1>0. TypeOK /\ LogInv /\ ReplyInv /\ RoomInv
  BY DEF RefuseInv
<1>1. NoReply \in Replies /\ ~NoReply.allowed
  BY DEF NoReply, Replies
<1>2. UNCHANGED <<now, redis>>
  BY DEF Deliver, Fail, Resend
<1>3. UNCHANGED <<now, log, expiresAt>>
  BY <1>2 DEF redis
<1>4. CASE Deliver(r)
  <2>1. /\ pc[r] = "ran" /\ UNCHANGED reply
        /\ pc' = [pc EXCEPT ![r] = IF reply[r].allowed THEN "allowed" ELSE "rejected"]
    BY <1>4 DEF Deliver
  <2>2. /\ pc'[r] = IF reply[r].allowed THEN "allowed" ELSE "rejected"
        /\ \A q \in Requests \ {r} : pc'[q] = pc[q]
    BY <1>0, <2>1 DEF TypeOK
  <2>3. TypeOK'
    BY <1>0, <1>3, <2>1 DEF TypeOK
  <2>4. ReplyInv'
    BY <1>0, <2>1, <2>2 DEF ReplyInv
  <2>5. \A q \in Requests : (Let(q)' => Let(q)) /\ (Refused(q)' => Refused(q))
    BY <2>1, <2>2 DEF Let, Refused
  <2>6. RoomInv'
    BY <1>0, <1>3, <2>1, <2>5 DEF RoomInv, Older
  <2>7. LogInv'
    BY <1>0, <1>3 DEF LogInv
  <2>. QED
    BY <1>2, <2>1, <2>3, <2>4, <2>5, <2>6, <2>7 DEF RefuseInv
<1>5. CASE Fail(r) \/ Resend(r)
  <2>1. PICK x \in {"sent", "unavailable"} :
          pc' = [pc EXCEPT ![r] = x] /\ reply' = [reply EXCEPT ![r] = NoReply]
    BY <1>5 DEF Fail, Resend
  <2>2. /\ pc'[r] = x
        /\ \A q \in Requests \ {r} : pc'[q] = pc[q] /\ reply'[q] = reply[q]
    BY <1>0, <2>1 DEF TypeOK
  <2>3. TypeOK'
    BY <1>0, <1>1, <1>3, <2>1 DEF TypeOK
  <2>4. ReplyInv'
    BY <1>0, <2>2 DEF ReplyInv
  <2>5. \A q \in Requests : /\ Let(q)' => Let(q) /\ reply'[q] = reply[q]
                            /\ Refused(q)' => Refused(q) /\ reply'[q] = reply[q]
    BY <2>2 DEF Let, Refused
  <2>6. RoomInv'
    BY <1>0, <1>3, <2>5 DEF RoomInv, Older
  <2>7. LogInv'
    BY <1>0, <1>3 DEF LogInv
  <2>. QED
    BY <1>2, <2>3, <2>4, <2>5, <2>6, <2>7 DEF RefuseInv
<1>. QED
  BY <1>4, <1>5

\* So entries and windows stay what they are.
LEMMA ClientKeeps ==
  ASSUME RateInv, NEW r \in Requests, Deliver(r) \/ Fail(r) \/ Resend(r)
  PROVE  RateInv'
<1>1. /\ RefuseInv' /\ UNCHANGED <<now, redis>>
      /\ \A q \in Requests : Let(q)' => Let(q) /\ reply'[q] = reply[q]
  BY ClientKeepsRefuse DEF RateInv
<1>2. EntryInv'
  BY <1>1 DEF RateInv, EntryInv, Answered, redis
<1>. QED
  BY <1>1, <1>2, WindowsShrink DEF RateInv

\* Time passes; the key expires when no window reaches its entries.
LEMMA TickKeepsRefuse == ASSUME RefuseInv, Tick PROVE RefuseInv'
<1>0. TypeOK /\ LogInv /\ ReplyInv /\ RoomInv /\ now \in Nat
  BY RateTyped DEF RefuseInv
<1>1. /\ now' = now + 1 /\ now' \in 0 .. Horizon /\ UNCHANGED <<expiresAt, pc, reply>>
      /\ log' \in {{}, log}
  BY <1>0, RateLimiterAssumption DEF Tick
<1>2. TypeOK'
  BY <1>0, <1>1 DEF TypeOK
<1>3. LogInv'
  <2>1. IsFiniteSet(log') /\ Cardinality(log') <= Limit
    BY <1>0, <1>1, FS_EmptySet, ConstantsTyped DEF LogInv
  <2>2. ASSUME NEW e \in log'
        PROVE  e.score <= now' /\ e.score + Window + Second <= expiresAt'
    <3>1. e \in log /\ e.score \in Nat /\ e.score <= now
      BY <1>0, <1>1, RateTyped DEF LogInv
    <3>. QED
      BY <1>0, <1>1, <3>1 DEF LogInv
  <2>. QED
    BY <2>1, <2>2 DEF LogInv
<1>4. ReplyInv'
  BY <1>0, <1>1 DEF ReplyInv
<1>5. RoomInv'
  <2>1. SUFFICES ASSUME NEW q \in Requests, Refused(q)'
                 PROVE  reply'[q].at <= now' /\ Cardinality(Older(q)') < Limit
    BY DEF RoomInv
  <2>2. /\ reply'[q] = reply[q] /\ reply[q].at \in Nat /\ reply[q].at <= now
        /\ Cardinality(Older(q)) < Limit
    BY <1>0, <1>1, <2>1, RateTyped DEF RoomInv, Refused
  <2>3. Older(q)' \subseteq Older(q) /\ Older(q) \subseteq log
    BY <1>1, <2>2 DEF Older
  <2>4. IsFiniteSet(Older(q)) /\ Cardinality(Older(q)) \in Nat
    BY <1>0, <2>3, PartOf DEF LogInv
  <2>5. Cardinality(Older(q)') \in Nat /\ Cardinality(Older(q)') <= Cardinality(Older(q))
    BY <2>3, <2>4, PartOf
  <2>. QED
    BY <1>0, <1>1, <2>2, <2>4, <2>5, ConstantsTyped
<1>. QED
  BY <1>2, <1>3, <1>4, <1>5 DEF RefuseInv

\* An entry that a window may still count has not expired.
LEMMA TickKeeps == ASSUME RateInv, Tick PROVE RateInv'
<1>0. TypeOK /\ LogInv /\ EntryInv /\ RefuseInv /\ now \in Nat /\ expiresAt \in Nat
  BY RateTyped DEF RateInv, RefuseInv
<1>1. /\ now' = now + 1 /\ UNCHANGED <<expiresAt, pc, reply>>
      /\ log' = IF now + 1 > expiresAt THEN {} ELSE log
  BY DEF Tick
<1>2. \A q \in Requests : Let(q)' => Let(q) /\ reply'[q] = reply[q]
  BY <1>1 DEF Let
<1>3. EntryInv'
  <2>1. SUFFICES ASSUME NEW q \in Requests, Let(q)'
                 PROVE  /\ reply'[q].at <= now'
                        /\ reply'[q].at >= now' - Window + Slack => Answered(q)' \in log'
    BY DEF EntryInv
  <2>2. PICK at \in Nat : at = reply[q].at
    BY <1>0, RateTyped
  <2>3. /\ Let(q) /\ reply'[q].at = at /\ at <= now
        /\ at >= now - Window + Slack => Answered(q) \in log
        /\ Answered(q)' = Answered(q) /\ Answered(q).score = at
    BY <1>0, <1>2, <2>1, <2>2 DEF EntryInv, Answered
  <2>4. SUFFICES ASSUME at >= now' - Window + Slack PROVE Answered(q) \in log'
    BY <1>0, <1>1, <2>3
  <2>5. Answered(q) \in log
    BY <1>0, <1>1, <2>3, <2>4, ConstantsTyped
  <2>6. at + Window + Second <= expiresAt
    BY <1>0, <2>3, <2>5 DEF LogInv
  <2>7. ~(now + 1 > expiresAt)
    BY <1>0, <1>1, <2>4, <2>6, ConstantsTyped
  <2>. QED
    BY <1>1, <2>5, <2>7
<1>. QED
  BY <1>0, <1>2, <1>3, TickKeepsRefuse, WindowsShrink DEF RateInv

\* Every step keeps what does not depend on the IDs.
LEMMA RefuseInvKept == RefuseInv /\ [Next]_vars => RefuseInv'
<1>1. ASSUME RefuseInv, NEW r \in Requests, RunScript(r) PROVE RefuseInv'
  BY <1>1, ScriptOutcomes, LetsKeepsRefuse, RefusesKeepsRefuse
<1>2. ASSUME RefuseInv, NEW r \in Requests, Deliver(r) \/ Fail(r) \/ Resend(r) PROVE RefuseInv'
  BY <1>2, ClientKeepsRefuse
<1>3. ASSUME RefuseInv, UNCHANGED vars PROVE RefuseInv'
  BY <1>3 DEF RefuseInv, vars, redis, TypeOK, LogInv, ReplyInv, RoomInv, Refused, Older
<1>. QED
  BY <1>1, <1>2, <1>3, TickKeepsRefuse DEF Next

\* Every step keeps all of it if the IDs are distinct.
LEMMA RateInvKept == ASSUME DistinctIds PROVE RateInv /\ [Next]_vars => RateInv'
<1>1. ASSUME RateInv, NEW r \in Requests, RunScript(r) PROVE RateInv'
  BY <1>1, ScriptOutcomes, LetsKeeps, RefusesKeeps
<1>2. ASSUME RateInv, NEW r \in Requests, Deliver(r) \/ Fail(r) \/ Resend(r) PROVE RateInv'
  BY <1>2, ClientKeeps
<1>3. ASSUME RateInv, UNCHANGED vars PROVE RateInv'
  <2>1. RefuseInv'
    BY <1>3, RefuseInvKept DEF RateInv
  <2>2. EntryInv'
    BY <1>3 DEF RateInv, vars, redis, EntryInv, Let, Answered
  <2>3. WindowInv'
    BY <1>3 DEF RateInv, vars, WindowInv, Let, InWindow
  <2>. QED
    BY <2>1, <2>2, <2>3 DEF RateInv
<1>. QED
  BY <1>1, <1>2, <1>3, TickKeeps DEF Next

-----------------------------------------------------------------------------
(* What holds of every limit and window *)

\* RefuseInv holds in every reachable state.
THEOREM RefuseInvariant == Spec => []RefuseInv
<1>1. Init => RefuseInv
  BY RateInvInit DEF RateInv
<1>. QED
  BY <1>1, RefuseInvKept, PTL DEF Spec

\* The types are kept, and no member is in the sorted set twice.
THEOREM RateTypeSafe == Spec => []TypeOK
<1>1. RefuseInv => TypeOK
  BY DEF RefuseInv
<1>. QED
  BY <1>1, RefuseInvariant, PTL

\* Requests with IDs of their own: at most Limit are let through in any window,
\* up to the rounding of its start, whatever is lost, repeated or late.
THEOREM SlidingWindow == ASSUME DistinctIds PROVE Spec => []TrueSlidingWindow
<1>1. RateInv => TrueSlidingWindow
  <2>1. SUFFICES ASSUME RateInv, NEW r \in Requests, pc[r] = "allowed"
                 PROVE  LET start == reply[r].at - Window + Slack IN
                        Cardinality({q \in AllowedSince(start) : reply[q].at <= reply[r].at}) <= Limit
    BY DEF TrueSlidingWindow
  <2>. DEFINE W == {q \in AllowedSince(reply[r].at - Window + Slack) : reply[q].at <= reply[r].at}
  <2>2. \A q \in Requests : pc[q] = "allowed" => Let(q)
    BY <2>1 DEF RateInv, RefuseInv, ReplyInv, Let
  <2>3. W \subseteq InWindow(reply[r].at)
    BY <2>2 DEF AllowedSince, InWindow
  <2>4. Cardinality(InWindow(reply[r].at)) <= Limit
    BY <2>1, <2>2 DEF RateInv, WindowInv
  <2>. HIDE DEF W
  <2>5. Cardinality(W) \in Nat /\ Cardinality(W) <= Cardinality(InWindow(reply[r].at))
    BY <2>3, InWindowFinite, PartOf
  <2>6. Cardinality(W) <= Limit
    BY <2>4, <2>5, InWindowFinite, ConstantsTyped
  <2>. QED
    BY <2>6 DEF W
<1>2. RateInv /\ [Next]_vars => RateInv'
  BY RateInvKept
<1>. QED
  BY <1>1, <1>2, RateInvInit, PTL DEF Spec

\* Whoever waited for Retry-After finds room unless others came, also when
\* requests share an ID.
THEOREM RetryAfterIsEnough == Spec => []RetryAfterSuffices
<1>1. RefuseInv => RetryAfterSuffices
  <2>1. SUFFICES ASSUME RefuseInv, NEW r \in Requests, pc[r] = "rejected",
                        now > reply[r].retryAt + Slack,
                        \A e \in log : e.score < reply[r].at,
                        NEW start \in WindowStarts
                 PROVE  Cardinality(Kept(start)) < Limit
    BY DEF RetryAfterSuffices
  <2>2. Refused(r)
    BY <2>1 DEF RefuseInv, ReplyInv, Refused
  <2>3. PICK back \in Nat : back = reply[r].retryAt
    BY <2>1, RateTyped DEF RefuseInv
  <2>4. now \in Nat /\ start \in Int /\ start >= now - Window - Slack
    BY <2>1, RateTyped, StartBounds DEF RefuseInv
  <2>5. ASSUME NEW e \in Kept(start) PROVE e \in Older(r)
    <3>1. e \in log /\ e.score >= start
      BY DEF Kept
    <3>2. e.score \in Nat
      BY <2>1, <3>1, RateTyped DEF RefuseInv
    <3>3. e.score + Window > back
      BY <2>1, <2>3, <2>4, <3>1, <3>2, ConstantsTyped
    <3>. QED
      BY <2>1, <2>3, <3>1, <3>3 DEF Older
  <2>6. Older(r) \subseteq log /\ IsFiniteSet(log)
    BY <2>1 DEF Older, RefuseInv, LogInv
  <2>7. /\ IsFiniteSet(Older(r)) /\ Cardinality(Older(r)) \in Nat
    BY <2>6, PartOf
  <2>8. /\ Cardinality(Kept(start)) \in Nat
        /\ Cardinality(Kept(start)) <= Cardinality(Older(r))
    BY <2>5, <2>7, PartOf
  <2>9. Cardinality(Older(r)) < Limit
    BY <2>1, <2>2 DEF RefuseInv, RoomInv
  <2>. QED
    BY <2>7, <2>8, <2>9, ConstantsTyped
<1>. QED
  BY <1>1, RefuseInvariant, PTL

-----------------------------------------------------------------------------
(* Requests that share an ID *)

\* The correlation IDs let through in the window that ends at t
IdsIn(t) == {MemberOf[q] : q \in InWindow(t)}

\* At most Limit of them: what the sorted set counts are IDs, not requests.
SlidingWindowOfIds ==
  \A r \in Requests : pc[r] = "allowed" => Cardinality(IdsIn(reply[r].at)) <= Limit

\* A request let through leaves an entry of its ID that is as young as itself,
\* until no window reaches back to it.
IdEntryInv ==
  \A r \in Requests : Let(r) =>
    /\ reply[r].at <= now
    /\ reply[r].at >= now - Window + Slack =>
         \E e \in log : e.member = MemberOf[r] /\ e.score >= reply[r].at

IdWindowInv == \A r \in Requests : Let(r) => Cardinality(IdsIn(reply[r].at)) <= Limit

IdInv == RefuseInv /\ IdEntryInv /\ IdWindowInv

\* As many IDs as entries, at most
LEMMA MembersOfEntries ==
  ASSUME NEW S, IsFiniteSet(S), NEW T, \A m \in T : \E e \in S : e.member = m
  PROVE  IsFiniteSet(T) /\ Cardinality(T) \in Nat /\ Cardinality(T) <= Cardinality(S)
<1>. DEFINE U == {e \in S : e.member \in T}
            f == [e \in U |-> e.member]
<1>1. U \subseteq S
  OBVIOUS
<1>2. f \in [U -> T]
  OBVIOUS
<1>3. ASSUME NEW m \in T PROVE \E e \in U : f[e] = m
  OBVIOUS
<1>4. \A e \in U : f[e] = e.member
  OBVIOUS
<1>. HIDE DEF U, f
<1>5. f \in Surjection(U, T)
  BY <1>2, <1>3 DEF Surjection
<1>6. IsFiniteSet(U) /\ Cardinality(U) <= Cardinality(S)
      /\ Cardinality(U) \in Nat /\ Cardinality(S) \in Nat
  BY <1>1, PartOf
<1>7. IsFiniteSet(T) /\ Cardinality(T) <= Cardinality(U)
  BY <1>5, <1>6, FS_Surjection
<1>8. Cardinality(T) \in Nat
  BY <1>7, FS_CardinalityType
<1>. QED
  BY <1>6, <1>7, <1>8

\* The IDs of any window are finitely many.
LEMMA IdsFinite == \A t : IsFiniteSet(IdsIn(t)) /\ Cardinality(IdsIn(t)) \in Nat
<1>. TAKE t
<1>1. IsFiniteSet(InWindow(t))
  BY InWindowFinite
<1>2. PICK f : f = [q \in InWindow(t) |-> MemberOf[q]]
  OBVIOUS
<1>3. f \in Surjection(InWindow(t), IdsIn(t))
  BY <1>2 DEF Surjection, IdsIn
<1>4. IsFiniteSet(IdsIn(t))
  BY <1>1, <1>3, FS_Surjection
<1>. QED
  BY <1>4, FS_CardinalityType

\* A step that lets nobody else through adds no ID to a window.
LEMMA IdWindowsShrink ==
  ASSUME IdInv, \A q \in Requests : Let(q)' => Let(q) /\ reply'[q] = reply[q]
  PROVE  IdWindowInv'
<1>1. SUFFICES ASSUME NEW q \in Requests, Let(q)'
               PROVE  Cardinality(IdsIn(reply[q].at)') <= Limit
  BY DEF IdWindowInv
<1>2. Let(q) /\ reply'[q] = reply[q]
  BY <1>1
<1>3. PICK t \in Nat : t = reply[q].at
  BY RateTyped DEF IdInv, RefuseInv
<1>4. IdsIn(reply[q].at)' = IdsIn(t)'
  BY <1>2, <1>3 DEF IdsIn, InWindow
<1>5. IdsIn(t)' \subseteq IdsIn(t)
  BY DEF InWindow, IdsIn
<1>6. Cardinality(IdsIn(t)') \in Nat /\ Cardinality(IdsIn(t)') <= Cardinality(IdsIn(t))
  BY <1>5, IdsFinite, PartOf
<1>7. Cardinality(IdsIn(t)) <= Limit
  BY <1>2, <1>3 DEF IdInv, IdWindowInv
<1>. QED
  BY <1>4, <1>6, <1>7, IdsFinite, ConstantsTyped

\* A script's eviction leaves an ID's entry while a window reaches back to it.
LEMMA IdEntriesStay ==
  ASSUME IdInv, NEW start \in WindowStarts, NEW q \in Requests, Let(q),
         reply[q].at >= now - Window + Slack
  PROVE  \E e \in Kept(start) : e.member = MemberOf[q] /\ e.score >= reply[q].at
<1>0. TypeOK /\ IdEntryInv /\ now \in Nat /\ reply[q].at \in Nat
  BY RateTyped DEF IdInv, RefuseInv
<1>1. PICK e \in log : e.member = MemberOf[q] /\ e.score >= reply[q].at
  BY <1>0 DEF IdEntryInv
<1>2. start \in Int /\ start <= now - Window + Slack /\ e.score \in Nat
  BY <1>0, StartBounds, RateTyped
<1>3. e.score >= start
  BY <1>0, <1>1, <1>2, ConstantsTyped
<1>. QED
  BY <1>1, <1>3 DEF Kept

\* Letting a request through: its entry replaces the one of its ID, and what the
\* window counts are entries.
LEMMA LetsKeepsIds ==
  ASSUME IdInv, NEW r \in Requests, pc[r] = "sent",
         NEW start \in WindowStarts, Lets(r, start),
         pc' = [pc EXCEPT ![r] = "ran"], UNCHANGED now
  PROVE  IdInv'
<1>0. TypeOK /\ LogInv /\ RefuseInv /\ IdEntryInv /\ now \in Nat /\ ~Let(r)
  BY RateTyped DEF IdInv, RefuseInv, Let
<1>1. RefuseInv'
  BY <1>0, LetsKeepsRefuse
<1>2. reply' = [reply EXCEPT ![r] = [allowed |-> TRUE, at |-> now, retryAt |-> now]]
  BY DEF Lets
<1>3. /\ reply'[r].at = now /\ reply'[r].allowed /\ pc'[r] = "ran"
      /\ \A q \in Requests \ {r} : reply'[q] = reply[q] /\ pc'[q] = pc[q]
  BY <1>0, <1>2 DEF TypeOK
<1>4. Let(r)' /\ \A q \in Requests \ {r} : Let(q)' <=> Let(q)
  BY <1>3 DEF Let
<1>5. NewEntry(r) \in log' /\ NewEntry(r).member = MemberOf[r] /\ NewEntry(r).score = now
  BY <1>0, LogGrows DEF NewEntry
<1>6. IdEntryInv'
  <2>1. SUFFICES ASSUME NEW q \in Requests, Let(q)'
                 PROVE  /\ reply'[q].at <= now
                        /\ reply'[q].at >= now - Window + Slack =>
                             \E e \in log' : e.member = MemberOf[q] /\ e.score >= reply'[q].at
    BY DEF IdEntryInv
  <2>2. CASE q = r
    BY <1>0, <1>3, <1>5, <2>2
  <2>3. CASE q # r
    <3>1. Let(q) /\ reply'[q] = reply[q] /\ reply[q].at <= now
      BY <1>0, <1>3, <1>4, <2>1, <2>3 DEF IdEntryInv
    <3>2. ASSUME reply[q].at >= now - Window + Slack
          PROVE  \E e \in log' : e.member = MemberOf[q] /\ e.score >= reply[q].at
      <4>1. PICK e \in Kept(start) : e.member = MemberOf[q] /\ e.score >= reply[q].at
        BY <3>1, <3>2, IdEntriesStay
      <4>2. CASE e.member = MemberOf[r]
        BY <1>5, <3>1, <4>1, <4>2
      <4>3. CASE e.member # MemberOf[r]
        BY <1>0, <4>1, <4>3, LogGrows
      <4>. QED
        BY <4>2, <4>3
    <3>. QED
      BY <3>1, <3>2
  <2>. QED
    BY <2>2, <2>3
<1>7. IdWindowInv'
  <2>1. SUFFICES ASSUME NEW q \in Requests, Let(q)'
                 PROVE  Cardinality(IdsIn(reply[q].at)') <= Limit
    BY DEF IdWindowInv
  <2>2. PICK t \in Nat : t = reply'[q].at
    BY <1>1, RateTyped, <1>3, <1>0
  <2>3. IdsIn(reply[q].at)' = IdsIn(t)'
    BY <2>2 DEF IdsIn, InWindow
  <2>4. t <= now
    BY <1>6, <2>1, <2>2 DEF IdEntryInv
  <2>5. CASE t < now
    <3>1. q # r /\ Let(q) /\ reply[q].at = t
      BY <1>0, <1>3, <1>4, <2>1, <2>2, <2>5
    <3>2. r \notin InWindow(t)'
      BY <1>0, <1>3, <2>5 DEF InWindow
    <3>3. InWindow(t)' \subseteq InWindow(t)
      BY <1>3, <1>4, <3>2 DEF InWindow
    <3>4. IdsIn(t)' \subseteq IdsIn(t)
      BY <3>3 DEF IdsIn
    <3>5. Cardinality(IdsIn(t)') <= Cardinality(IdsIn(t)) /\ Cardinality(IdsIn(t)') \in Nat
      BY <3>4, IdsFinite, PartOf
    <3>6. Cardinality(IdsIn(t)) <= Limit
      BY <3>1 DEF IdInv, IdWindowInv
    <3>. QED
      BY <2>3, <3>5, <3>6, IdsFinite, ConstantsTyped
  <2>6. CASE t = now
    <3>1. ASSUME NEW m \in IdsIn(t)' PROVE \E e \in log' : e.member = m
      <4>1. PICK u \in InWindow(t)' : m = MemberOf[u]
        BY DEF IdsIn
      <4>2. u \in Requests /\ Let(u)' /\ reply'[u].at >= now' - Window + Slack
        BY <2>6, <4>1 DEF InWindow
      <4>. QED
        BY <1>6, <4>1, <4>2 DEF IdEntryInv
    <3>2. IsFiniteSet(log') /\ Cardinality(log') <= Limit
      BY <1>0, LogGrows
    <3>3. PICK L : L = log'
      OBVIOUS
    <3>4. PICK T : T = IdsIn(t)'
      OBVIOUS
    <3>5. Cardinality(T) \in Nat /\ Cardinality(T) <= Cardinality(L) /\ Cardinality(L) \in Nat
      BY <3>1, <3>2, <3>3, <3>4, MembersOfEntries, FS_CardinalityType
    <3>. QED
      BY <2>3, <3>2, <3>3, <3>4, <3>5, ConstantsTyped
  <2>. QED
    BY <1>0, <2>2, <2>4, <2>5, <2>6
<1>. QED
  BY <1>1, <1>6, <1>7 DEF IdInv

\* A refusal lets nobody through.
LEMMA RefusesKeepsIds ==
  ASSUME IdInv, NEW r \in Requests, NEW start \in WindowStarts, NEW oldest \in Kept(start),
         Refuses(r, start, oldest), pc' = [pc EXCEPT ![r] = "ran"], UNCHANGED now
  PROVE  IdInv'
<1>0. TypeOK /\ RefuseInv /\ IdEntryInv /\ now \in Nat
  BY RateTyped DEF IdInv, RefuseInv
<1>1. RefuseInv'
  BY <1>0, RefusesKeepsRefuse
<1>2. /\ ~reply'[r].allowed /\ log' = Kept(start)
      /\ \A q \in Requests \ {r} : reply'[q] = reply[q] /\ pc'[q] = pc[q]
  BY <1>0 DEF Refuses, TypeOK
<1>3. \A q \in Requests : Let(q)' => Let(q) /\ reply'[q] = reply[q]
  BY <1>2 DEF Let
<1>4. IdEntryInv'
  BY <1>0, <1>2, <1>3, IdEntriesStay DEF IdEntryInv
<1>. QED
  BY <1>1, <1>3, <1>4, IdWindowsShrink DEF IdInv

\* Time passes; the key expires when no window reaches its entries.
LEMMA TickKeepsIds == ASSUME IdInv, Tick PROVE IdInv'
<1>0. TypeOK /\ LogInv /\ IdEntryInv /\ RefuseInv /\ now \in Nat /\ expiresAt \in Nat
  BY RateTyped DEF IdInv, RefuseInv
<1>1. /\ now' = now + 1 /\ UNCHANGED <<expiresAt, pc, reply>>
      /\ log' = IF now + 1 > expiresAt THEN {} ELSE log
  BY DEF Tick
<1>2. \A q \in Requests : Let(q)' => Let(q) /\ reply'[q] = reply[q]
  BY <1>1 DEF Let
<1>3. IdEntryInv'
  <2>1. SUFFICES ASSUME NEW q \in Requests, Let(q)'
                 PROVE  /\ reply'[q].at <= now'
                        /\ reply'[q].at >= now' - Window + Slack =>
                             \E e \in log' : e.member = MemberOf[q] /\ e.score >= reply'[q].at
    BY DEF IdEntryInv
  <2>2. PICK at \in Nat : at = reply[q].at
    BY <1>0, RateTyped
  <2>3. /\ Let(q) /\ reply'[q].at = at /\ at <= now
        /\ at >= now - Window + Slack =>
             \E e \in log : e.member = MemberOf[q] /\ e.score >= at
    BY <1>0, <1>2, <2>1, <2>2 DEF IdEntryInv
  <2>4. ASSUME at >= now' - Window + Slack
        PROVE  \E e \in log' : e.member = MemberOf[q] /\ e.score >= at
    <3>1. at >= now - Window + Slack
      BY <1>0, <1>1, <2>4, ConstantsTyped
    <3>2. PICK e \in log : e.member = MemberOf[q] /\ e.score >= at
      BY <2>3, <3>1
    <3>3. e.score \in Nat /\ e.score + Window + Second <= expiresAt
      BY <1>0, RateTyped DEF LogInv
    <3>4. ~(now + 1 > expiresAt)
      BY <1>0, <1>1, <2>4, <3>2, <3>3, ConstantsTyped
    <3>. QED
      BY <1>1, <3>2, <3>4
  <2>. QED
    BY <1>0, <1>1, <2>3, <2>4
<1>. QED
  BY <1>0, <1>2, <1>3, TickKeepsRefuse, IdWindowsShrink DEF IdInv

\* Every step keeps it.
LEMMA IdInvKept == IdInv /\ [Next]_vars => IdInv'
<1>1. ASSUME IdInv, NEW r \in Requests, RunScript(r) PROVE IdInv'
  BY <1>1, ScriptOutcomes, LetsKeepsIds, RefusesKeepsIds
<1>2. ASSUME IdInv, NEW r \in Requests, Deliver(r) \/ Fail(r) \/ Resend(r) PROVE IdInv'
  <2>1. /\ RefuseInv' /\ UNCHANGED <<now, redis>>
        /\ \A q \in Requests : Let(q)' => Let(q) /\ reply'[q] = reply[q]
    BY <1>2, ClientKeepsRefuse DEF IdInv
  <2>2. IdEntryInv'
    BY <1>2, <2>1 DEF IdInv, IdEntryInv, redis
  <2>. QED
    BY <1>2, <2>1, <2>2, IdWindowsShrink DEF IdInv
<1>3. ASSUME IdInv, UNCHANGED vars PROVE IdInv'
  <2>1. RefuseInv'
    BY <1>3, RefuseInvKept DEF IdInv
  <2>2. IdEntryInv'
    BY <1>3 DEF IdInv, vars, redis, IdEntryInv, Let
  <2>3. IdWindowInv'
    BY <1>3 DEF IdInv, vars, IdWindowInv, Let, InWindow, IdsIn
  <2>. QED
    BY <2>1, <2>2, <2>3 DEF IdInv
<1>. QED
  BY <1>1, <1>2, <1>3, TickKeepsIds DEF Next

\* However clients choose their X-Request-ID: at most Limit IDs are let through in
\* any window.  What TrueSlidingWindow's counterexample exploits is exactly that
\* requests of one ID share an entry.
THEOREM SlidingWindowCountsIds == Spec => []SlidingWindowOfIds
<1>1. Init => IdInv
  <2>. SUFFICES ASSUME Init PROVE IdInv
    OBVIOUS
  <2>1. RefuseInv
    BY RateInvInit DEF RateInv
  <2>2. \A r \in Requests : ~Let(r)
    BY DEF Init, Let
  <2>. QED
    BY <2>1, <2>2 DEF IdInv, IdEntryInv, IdWindowInv
<1>2. IdInv => SlidingWindowOfIds
  BY DEF IdInv, IdWindowInv, SlidingWindowOfIds, RefuseInv, ReplyInv, Let
<1>. QED
  BY <1>1, <1>2, IdInvKept, PTL DEF Spec
=============================================================================
