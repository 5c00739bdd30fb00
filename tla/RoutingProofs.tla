--------------------------- MODULE RoutingProofs ---------------------------
(***************************************************************************)
(* Proofs about the routing loop and its breakers, for any number of       *)
(* concurrent requests, route, threshold and number of attempts.           *)
(***************************************************************************)
EXTENDS Routing, FiniteSetTheorems, TLAPS

-----------------------------------------------------------------------------
(* Records of attempts *)

\* The attempts that called the adapter, and their number
Called(s) == {i \in DOMAIN s : s[i] # "skipped"}
Recorded(s) == Cardinality(Called(s))

\* A list of records has a number of calls.
LEMMA CalledFinite ==
  ASSUME NEW s \in Seq(Outcomes)
  PROVE  IsFiniteSet(Called(s)) /\ Recorded(s) \in Nat
<1>1. PICK n \in Nat : n = Len(s)
  OBVIOUS
<1>2. Called(s) \in SUBSET (1 .. n)
  BY <1>1 DEF Called
<1>3. IsFiniteSet(1 .. n)
  BY FS_Interval
<1>4. IsFiniteSet(Called(s))
  BY <1>2, <1>3, FS_Subset
<1>. QED
  BY <1>4, FS_CardinalityType DEF Recorded

\* No record, no call
LEMMA NothingRecorded == <<>> \in Seq(Outcomes) /\ Recorded(<<>>) = 0
<1>1. Called(<<>>) = {}
  BY DEF Called
<1>. QED
  BY <1>1, FS_EmptySet DEF Recorded

\* An attempt that called the adapter adds one to the calls recorded.
LEMMA AppendRecorded ==
  ASSUME NEW s \in Seq(Outcomes), NEW o \in Outcomes, o # "skipped"
  PROVE  Append(s, o) \in Seq(Outcomes) /\ Recorded(Append(s, o)) = Recorded(s) + 1
<1>1. PICK n \in Nat : n = Len(s)
  OBVIOUS
<1>2. /\ Append(s, o) \in Seq(Outcomes) /\ DOMAIN Append(s, o) = 1 .. (n + 1)
      /\ \A i \in 1 .. n : Append(s, o)[i] = s[i]
      /\ Append(s, o)[n + 1] = o /\ DOMAIN s = 1 .. n
  BY <1>1
<1>3. Called(Append(s, o)) = Called(s) \cup {n + 1}
  BY <1>2 DEF Called
<1>4. n + 1 \notin Called(s)
  BY <1>2 DEF Called
<1>. QED
  BY <1>2, <1>3, <1>4, CalledFinite, FS_AddElement DEF Recorded

\* Skipped candidates add nothing.
LEMMA SkipsRecorded ==
  ASSUME NEW s \in Seq(Outcomes), NEW m \in Nat,
         NEW skips, skips = [j \in 1 .. m |-> "skipped"]
  PROVE  s \o skips \in Seq(Outcomes) /\ Recorded(s \o skips) = Recorded(s)
<1>1. PICK n \in Nat : n = Len(s)
  OBVIOUS
<1>2. skips \in Seq(Outcomes) /\ Len(skips) = m /\ \A j \in 1 .. m : skips[j] = "skipped"
  BY DEF Outcomes
<1>3. /\ s \o skips \in Seq(Outcomes) /\ DOMAIN (s \o skips) = 1 .. (n + m)
      /\ DOMAIN s = 1 .. n
  BY <1>1, <1>2
<1>4. \A i \in 1 .. n : (s \o skips)[i] = s[i]
  BY <1>1, <1>2
<1>5. \A i \in 1 .. (n + m) : i > n => (s \o skips)[i] = "skipped"
  BY <1>1, <1>2
<1>6. Called(s \o skips) = Called(s)
  <2>1. PICK c : c = s \o skips
    OBVIOUS
  <2>2. PICK d \in Nat : d = n + m /\ n <= d
    OBVIOUS
  <2>3. /\ DOMAIN c = 1 .. d /\ DOMAIN s = 1 .. n
        /\ \A i \in 1 .. n : i \in 1 .. d /\ c[i] = s[i]
        /\ \A i \in 1 .. d : i \in 1 .. n \/ c[i] = "skipped"
    <3>1. DOMAIN c = 1 .. d /\ DOMAIN s = 1 .. n
      BY <1>3, <2>1, <2>2
    <3>2. \A i \in 1 .. n : i \in 1 .. d
      BY <2>2
    <3>3. \A i \in 1 .. n : c[i] = s[i]
      BY <1>4, <2>1
    <3>4. \A i \in 1 .. d : i > n => c[i] = "skipped"
      BY <1>5, <2>1, <2>2
    <3>5. \A i \in 1 .. d : i > n \/ i \in 1 .. n
      OBVIOUS
    <3>. QED
      BY <3>1, <3>2, <3>3, <3>4, <3>5
  <2>4. Called(c) = Called(s)
    BY <2>3 DEF Called
  <2>. QED
    BY <2>1, <2>4
<1>. QED
  BY <1>3, <1>6 DEF Recorded

-----------------------------------------------------------------------------
(* Breakers *)

States == {"closed", "open", "half_open"}

\* Breakers that are closed exactly below the threshold
BreakersOK(b) ==
  /\ b.state \in [Providers -> States]
  /\ b.failures \in [Providers -> 0 .. Threshold]
  /\ b.cooled \in [Providers -> BOOLEAN]
  /\ \A p \in Providers : b.state[p] = "closed" <=> b.failures[p] < Threshold

\* The invariant of a task's route.  An attempt in flight has no record yet.
RouteInv(t) ==
  /\ pc[t] = "calling" => calls[t] = Recorded(attempts[t]) + 1
  /\ pc[t] = "sleeping" => calls[t] = Recorded(attempts[t]) /\ tries[t] < MaxAttempts
  /\ pc[t] = "idle" /\ result[t] \in {"success", "failed"} => calls[t] = Recorded(attempts[t])
  /\ pc[t] # "idle" => tries[t] >= 1 /\ calls[t] <= MaxAttempts * (candidate[t] - 1) + tries[t]
  /\ calls[t] <= MaxAttempts * Len(Route)

RoutingInv == TypeOK /\ BreakersOK(Unchanged) /\ \A t \in Tasks : RouteInv(t)

\* The fields of an unchanged set of breakers
LEMMA UnchangedFields ==
  Unchanged.state = state /\ Unchanged.failures = failures /\ Unchanged.cooled = cooled
  BY DEF Unchanged

\* What is typed of the breakers
LEMMA BreakersTyped ==
  ASSUME BreakersOK(Unchanged)
  PROVE  /\ state \in [Providers -> States] /\ failures \in [Providers -> 0 .. Threshold]
         /\ cooled \in [Providers -> BOOLEAN]
         /\ \A p \in Providers : state[p] = "closed" <=> failures[p] < Threshold
  BY UnchangedFields DEF BreakersOK

\* Breakers are good when what they hold is.
LEMMA BreakersFrom ==
  ASSUME NEW s \in [Providers -> States], NEW f \in [Providers -> 0 .. Threshold],
         NEW c \in [Providers -> BOOLEAN],
         \A p \in Providers : s[p] = "closed" <=> f[p] < Threshold
  PROVE  BreakersOK([state |-> s, failures |-> f, cooled |-> c])
  BY DEF BreakersOK

\* The candidates of a route
LEMMA RouteTyped ==
  /\ Len(Route) \in Nat /\ Len(Route) >= 1 /\ MaxAttempts \in Nat /\ MaxAttempts >= 1
  /\ Threshold \in Nat /\ Threshold >= 1
  /\ \A i \in 1 .. Len(Route) : Route[i].provider \in Providers
<1>1. Route \in Seq([provider: STRING, model: STRING]) /\ Len(Route) \in 1 .. 10
  BY RoutingAssumption DEF WellFormed
<1>2. DOMAIN Route = 1 .. Len(Route)
  BY <1>1
<1>3. \A i \in 1 .. Len(Route) : Route[i].provider \in Providers
  BY <1>2 DEF Providers
<1>4. Threshold \in 1 .. 100 /\ MaxAttempts \in 1 .. 10
  BY RoutingAssumption
<1>5. Len(Route) \in Nat /\ Len(Route) >= 1
  <2>1. Len(Route) \in 1 .. 10
    BY <1>1
  <2>2. \A n \in 1 .. 10 : n \in Nat /\ n >= 1
    OBVIOUS
  <2>. QED
    BY <2>1, <2>2
<1>6. MaxAttempts \in Nat /\ MaxAttempts >= 1 /\ Threshold \in Nat /\ Threshold >= 1
  BY <1>4
<1>. QED
  BY <1>3, <1>5, <1>6

\* A failure leaves a breaker closed exactly below the threshold.
LEMMA AfterFailureOK ==
  ASSUME BreakersOK(Unchanged), NEW p \in Providers
  PROVE  BreakersOK(AfterFailure(p))
<1>. DEFINE n == Saturated(failures[p] + 1)
            opens == state[p] = "half_open" \/ n = Threshold
            s == [state EXCEPT ![p] = IF opens THEN "open" ELSE @]
            f == [failures EXCEPT ![p] = IF state[p] = "half_open" THEN @ ELSE n]
            c == [cooled EXCEPT ![p] = IF opens THEN FALSE ELSE @]
<1>1. AfterFailure(p) = [state |-> s, failures |-> f, cooled |-> c]
  BY DEF AfterFailure
<1>2. /\ state \in [Providers -> States] /\ failures \in [Providers -> 0 .. Threshold]
      /\ cooled \in [Providers -> BOOLEAN]
      /\ \A q \in Providers : state[q] = "closed" <=> failures[q] < Threshold
  BY BreakersTyped
<1>3. failures[p] \in 0 .. Threshold /\ Threshold \in Nat
  BY <1>2, RouteTyped
<1>4. n \in 0 .. Threshold
  BY <1>3 DEF Saturated
<1>5. s \in [Providers -> States]
  BY <1>2 DEF States
<1>6. f \in [Providers -> 0 .. Threshold]
  BY <1>2, <1>4
<1>7. c \in [Providers -> BOOLEAN]
  BY <1>2
<1>8. \A q \in Providers : s[q] = "closed" <=> f[q] < Threshold
  <2>1. ASSUME NEW q \in Providers, q # p PROVE s[q] = state[q] /\ f[q] = failures[q]
    BY <1>2, <2>1
  <2>2. /\ s[p] = IF opens THEN "open" ELSE state[p]
        /\ f[p] = IF state[p] = "half_open" THEN failures[p] ELSE n
    BY <1>2
  <2>3. CASE state[p] = "half_open"
    <3>1. s[p] = "open" /\ f[p] = failures[p] /\ ~(failures[p] < Threshold)
      BY <1>2, <2>2, <2>3
    <3>. QED
      BY <1>2, <2>1, <3>1
  <2>4. CASE state[p] # "half_open" /\ n = Threshold
    <3>1. s[p] = "open" /\ f[p] = Threshold
      BY <2>2, <2>4
    <3>2. ~(Threshold < Threshold)
      BY <1>3
    <3>. QED
      BY <1>2, <2>1, <3>1, <3>2
  <2>5. CASE state[p] # "half_open" /\ n # Threshold
    <3>1. s[p] = state[p] /\ f[p] = n
      BY <2>2, <2>5
    <3>2. n < Threshold /\ failures[p] < Threshold
      BY <1>3, <1>4, <2>5 DEF Saturated
    <3>. QED
      BY <1>2, <2>1, <3>1, <3>2
  <2>. QED
    BY <2>3, <2>4, <2>5
<1>. HIDE DEF s, f, c
<1>. QED
  BY <1>1, <1>5, <1>6, <1>7, <1>8, BreakersFrom

-----------------------------------------------------------------------------
(* The route *)

\* Multiples of the attempts of a candidate
LEMMA Multiples ==
  \A i, j \in Nat : i <= j => /\ MaxAttempts * i \in Nat /\ MaxAttempts * j \in Nat
                              /\ MaxAttempts * i <= MaxAttempts * j
                              /\ MaxAttempts * (i + 1) = MaxAttempts * i + MaxAttempts
<1>. TAKE i, j \in Nat
<1>. HAVE i <= j
<1>1. PICK m \in Nat : m = MaxAttempts
  BY RouteTyped
<1>2. m * i \in Nat /\ m * j \in Nat /\ m * (j - i) \in Nat /\ m * (i + 1) = m * i + m
  OBVIOUS
<1>3. m * j = m * i + m * (j - i)
  OBVIOUS
<1>. QED
  BY <1>1, <1>2, <1>3

\* A task that goes on at candidate i, having made at most the calls of the
\* candidates before it, keeps the invariant of its route and of the breakers.
LEMMA GoOnKeeps ==
  ASSUME RoutingInv, NEW t \in Tasks, NEW i \in 1 .. Len(Route) + 1, NEW b, BreakersOK(b),
         NEW records \in Seq(Outcomes), NEW made \in Nat,
         made = Recorded(records), made <= MaxAttempts * (i - 1),
         GoOn(t, i, b, records, made)
  PROVE  RoutingInv'
<1>. DEFINE allowed == {j \in i .. Len(Route) :
                          Allows(b.state[Route[j].provider], b.cooled[Route[j].provider])}
            Skipping(n) == records \o [j \in 1 .. n |-> "skipped"]
<1>1. \A n \in Nat : Skipping(n) \in Seq(Outcomes) /\ Recorded(Skipping(n)) = made
  BY SkipsRecorded
<1>2. /\ b.state \in [Providers -> States] /\ b.failures \in [Providers -> 0 .. Threshold]
      /\ b.cooled \in [Providers -> BOOLEAN]
      /\ \A p \in Providers : b.state[p] = "closed" <=> b.failures[p] < Threshold
  BY DEF BreakersOK
<1>3. failures' = b.failures
  BY DEF GoOn
<1>4. ASSUME NEW s \in [Providers -> States], NEW c \in [Providers -> BOOLEAN],
             \A p \in Providers : s[p] = "closed" <=> b.state[p] = "closed",
             state' = s, cooled' = c
      PROVE  BreakersOK(Unchanged)'
  <2>1. Unchanged' = [state |-> s, failures |-> b.failures, cooled |-> c]
    BY <1>3, <1>4 DEF Unchanged
  <2>2. BreakersOK([state |-> s, failures |-> b.failures, cooled |-> c])
    BY <1>2, <1>4, BreakersFrom
  <2>3. BreakersOK(Unchanged)' <=> BreakersOK(Unchanged')
    BY DEF BreakersOK
  <2>. QED
    BY <2>1, <2>2, <2>3
<1>5. ASSUME NEW x \in {"idle", "calling"}, NEW n \in 1 .. Len(Route), NEW m \in 0 .. 1,
             NEW y \in {"none", "failed"}, NEW z \in BOOLEAN, NEW k \in Nat,
             m = 0 <=> x = "idle",
             made + m <= MaxAttempts * Len(Route),
             x = "calling" => made <= MaxAttempts * (n - 1),
             pc' = [pc EXCEPT ![t] = x], candidate' = [candidate EXCEPT ![t] = n],
             tries' = [tries EXCEPT ![t] = m], calls' = [calls EXCEPT ![t] = made + m],
             result' = [result EXCEPT ![t] = y], trial' = [trial EXCEPT ![t] = z],
             attempts' = [attempts EXCEPT ![t] = Skipping(k)],
             BreakersOK(Unchanged)'
      PROVE  RoutingInv'
  <2>. HIDE DEF Skipping
  <2>0. TypeOK
    BY DEF RoutingInv
  <2>1. Skipping(k) \in Seq(Outcomes) /\ Recorded(Skipping(k)) = made
    BY <1>1
  <2>2. m \in 0 .. MaxAttempts /\ made + m \in Nat
    BY RouteTyped
  <2>3. state' \in [Providers -> States] /\ failures' \in [Providers -> 0 .. Threshold]
        /\ cooled' \in [Providers -> BOOLEAN]
    BY <1>5, BreakersTyped DEF BreakersOK, Unchanged
  <2>4. TypeOK'
    BY <1>5, <2>0, <2>1, <2>2, <2>3 DEF TypeOK, States
  <2>5. /\ pc'[t] = x /\ candidate'[t] = n /\ tries'[t] = m /\ calls'[t] = made + m
        /\ result'[t] = y /\ attempts'[t] = Skipping(k)
    BY <1>5, <2>0 DEF TypeOK
  <2>6. Recorded(attempts[t])' = made
    BY <2>1, <2>5 DEF Recorded, Called
  <2>7. calls'[t] = made + m /\ (x = "idle" => calls'[t] = made)
        /\ (x = "calling" => m = 1 /\ calls'[t] = made + 1)
    BY <1>5, <2>5
  <2>8. x = "calling" => calls'[t] <= MaxAttempts * (n - 1) + m
    <3>1. n - 1 \in Nat
      OBVIOUS
    <3>2. PICK q \in Nat : q = MaxAttempts * (n - 1)
      BY <3>1, Multiples
    <3>. QED
      BY <1>5, <2>7, <3>2
  <2>9. RouteInv(t)'
    BY <1>5, <2>5, <2>6, <2>7, <2>8 DEF RouteInv
  <2>10. ASSUME NEW u \in Tasks \ {t} PROVE RouteInv(u)'
    <3>1. /\ pc'[u] = pc[u] /\ candidate'[u] = candidate[u] /\ tries'[u] = tries[u]
          /\ calls'[u] = calls[u] /\ result'[u] = result[u] /\ attempts'[u] = attempts[u]
      BY <1>5, <2>0 DEF TypeOK
    <3>2. Recorded(attempts[u])' = Recorded(attempts[u])
      BY <3>1 DEF Recorded, Called
    <3>. QED
      BY <3>1, <3>2 DEF RoutingInv, RouteInv
  <2>. QED
    BY <1>5, <2>4, <2>9, <2>10 DEF RoutingInv
<1>6. CASE allowed = {}
  <2>1. /\ attempts' = [attempts EXCEPT ![t] = Skipping(Len(Route) + 1 - i)]
        /\ pc' = [pc EXCEPT ![t] = "idle"] /\ result' = [result EXCEPT ![t] = "failed"]
        /\ calls' = [calls EXCEPT ![t] = made] /\ trial' = [trial EXCEPT ![t] = FALSE]
        /\ state' = b.state /\ cooled' = b.cooled
        /\ candidate' = [candidate EXCEPT ![t] = 1] /\ tries' = [tries EXCEPT ![t] = 0]
    BY <1>6 DEF GoOn
  <2>2. BreakersOK(Unchanged)'
    BY <1>2, <1>4, <2>1
  <2>3. /\ Len(Route) + 1 - i \in Nat /\ 1 \in 1 .. Len(Route)
        /\ i - 1 \in Nat /\ i - 1 <= Len(Route) /\ Len(Route) \in Nat
    BY RouteTyped
  <2>4. made + 0 <= MaxAttempts * Len(Route) /\ made + 0 = made
    <3>1. MaxAttempts * (i - 1) <= MaxAttempts * Len(Route)
          /\ MaxAttempts * (i - 1) \in Nat /\ MaxAttempts * Len(Route) \in Nat
      BY <2>3, Multiples
    <3>. QED
      BY <3>1
  <2>5. calls' = [calls EXCEPT ![t] = made + 0]
    BY <2>1, <2>4
  <2>6. 0 \in 0 .. 1 /\ (0 = 0 <=> "idle" = "idle") /\ ~("idle" = "calling")
    OBVIOUS
  <2>7. attempts' = [attempts EXCEPT ![t] = Skipping(Len(Route) + 1 - i)]
    BY <2>1
  <2>. HIDE DEF Skipping
  <2>. QED
    BY <1>5, <2>1, <2>2, <2>3, <2>4, <2>5, <2>6, <2>7
<1>7. CASE allowed # {}
  <2>1. PICK next \in allowed :
          LET p == Route[next].provider IN
          /\ attempts' = [attempts EXCEPT ![t] = Skipping(next - i)]
          /\ pc' = [pc EXCEPT ![t] = "calling"] /\ candidate' = [candidate EXCEPT ![t] = next]
          /\ tries' = [tries EXCEPT ![t] = 1] /\ calls' = [calls EXCEPT ![t] = made + 1]
          /\ trial' = [trial EXCEPT ![t] = b.state[p] = "open"]
          /\ state' = [b.state EXCEPT ![p] = IF @ = "open" THEN "half_open" ELSE @]
          /\ cooled' = [b.cooled EXCEPT ![p] = FALSE]
          /\ result' = [result EXCEPT ![t] = "none"]
    BY <1>7 DEF GoOn
  <2>2. next \in 1 .. Len(Route) /\ next - i \in Nat /\ i - 1 \in Nat /\ i - 1 <= next - 1
        /\ next - 1 \in Nat /\ (next - 1) + 1 <= Len(Route) /\ (next - 1) + 1 = next
    <3>1. next \in i .. Len(Route)
      OBVIOUS
    <3>2. PICK l \in Nat : l = Len(Route)
      BY RouteTyped
    <3>. QED
      BY <3>1, <3>2
  <2>3. PICK p \in Providers : p = Route[next].provider
    BY <2>2, RouteTyped
  <2>4. BreakersOK(Unchanged)'
    <3>1. /\ state' = [b.state EXCEPT ![p] = IF b.state[p] = "open" THEN "half_open" ELSE b.state[p]]
          /\ cooled' = [b.cooled EXCEPT ![p] = FALSE]
      BY <2>1, <2>3
    <3>2. state' \in [Providers -> States] /\ cooled' \in [Providers -> BOOLEAN]
      BY <1>2, <3>1 DEF States
    <3>3. \A q \in Providers : state'[q] = "closed" <=> b.state[q] = "closed"
      BY <1>2, <3>1
    <3>. QED
      BY <1>4, <3>2, <3>3
  <2>5. made <= MaxAttempts * (next - 1) /\ made + 1 <= MaxAttempts * Len(Route)
    <3>1. PICK q \in Nat : q = MaxAttempts * (next - 1)
      BY <2>2, Multiples
    <3>2. MaxAttempts * (i - 1) <= q /\ MaxAttempts * (i - 1) \in Nat
      BY <2>2, <3>1, Multiples
    <3>3. made <= q
      BY <3>2
    <3>4. MaxAttempts * next = q + MaxAttempts
      BY <2>2, <3>1, Multiples
    <3>5. MaxAttempts * next <= MaxAttempts * Len(Route) /\ MaxAttempts * Len(Route) \in Nat
      <4>1. next \in Nat /\ Len(Route) \in Nat /\ next <= Len(Route)
        BY <2>2
      <4>. QED
        BY <4>1, Multiples
    <3>6. made + 1 <= MaxAttempts * Len(Route)
      BY <3>3, <3>4, <3>5, RouteTyped
    <3>. QED
      BY <3>1, <3>3, <3>6
  <2>6. PICK z \in BOOLEAN : trial' = [trial EXCEPT ![t] = z]
    BY <2>1
  <2>7. 1 \in 0 .. 1 /\ ~(1 = 0)
    OBVIOUS
  <2>. QED
    BY <1>5, <2>1, <2>2, <2>4, <2>5, <2>6, <2>7
<1>. QED
  BY <1>6, <1>7

\* A task that leaves its route, or wakes, or goes to sleep, disturbs no other.
LEMMA OthersKeep ==
  ASSUME TypeOK, NEW t \in Tasks, NEW u \in Tasks \ {t}, RouteInv(u),
         NEW x, pc' = [pc EXCEPT ![t] = x],
         NEW c, candidate' = [candidate EXCEPT ![t] = c],
         NEW n, tries' = [tries EXCEPT ![t] = n],
         NEW s, attempts' = [attempts EXCEPT ![t] = s],
         NEW y, result' = [result EXCEPT ![t] = y],
         NEW m, calls' = [calls EXCEPT ![t] = m]
  PROVE  RouteInv(u)'
<1>1. /\ pc'[u] = pc[u] /\ candidate'[u] = candidate[u] /\ tries'[u] = tries[u]
      /\ calls'[u] = calls[u] /\ result'[u] = result[u] /\ attempts'[u] = attempts[u]
  BY DEF TypeOK
<1>2. Recorded(attempts[u])' = Recorded(attempts[u])
  BY <1>1 DEF Recorded, Called
<1>. QED
  BY <1>1, <1>2 DEF RouteInv

\* What is typed of one task
LEMMA TaskTyped ==
  ASSUME TypeOK, NEW t \in Tasks
  PROVE  /\ pc[t] \in {"idle", "calling", "sleeping"} /\ candidate[t] \in 1 .. Len(Route)
         /\ tries[t] \in 0 .. MaxAttempts /\ attempts[t] \in Seq(Outcomes)
         /\ calls[t] \in Nat /\ tries[t] \in Nat /\ candidate[t] \in Nat
         /\ candidate[t] - 1 \in Nat /\ ProviderOf(t) \in Providers
<1>1. /\ pc[t] \in {"idle", "calling", "sleeping"} /\ candidate[t] \in 1 .. Len(Route)
      /\ tries[t] \in 0 .. MaxAttempts /\ attempts[t] \in Seq(Outcomes)
      /\ calls[t] \in Nat
  BY DEF TypeOK
<1>. QED
  BY <1>1, RouteTyped DEF ProviderOf

\* The calls of a task's route so far, when its candidate is given up
LEMMA CallsBounded ==
  ASSUME TypeOK, NEW t \in Tasks, calls[t] <= MaxAttempts * (candidate[t] - 1) + tries[t]
  PROVE  /\ calls[t] <= MaxAttempts * candidate[t]
         /\ MaxAttempts * candidate[t] <= MaxAttempts * Len(Route)
         /\ MaxAttempts * candidate[t] \in Nat /\ MaxAttempts * Len(Route) \in Nat
<1>1. /\ candidate[t] - 1 \in Nat /\ (candidate[t] - 1) + 1 = candidate[t]
      /\ candidate[t] - 1 <= candidate[t] /\ candidate[t] \in Nat /\ calls[t] \in Nat
      /\ candidate[t] <= Len(Route) /\ tries[t] \in Nat /\ tries[t] <= MaxAttempts
  BY TaskTyped, RouteTyped
<1>2. PICK q \in Nat : q = MaxAttempts * (candidate[t] - 1)
  BY <1>1, Multiples
<1>3. MaxAttempts * candidate[t] = q + MaxAttempts
  BY <1>1, <1>2, Multiples
<1>4. /\ MaxAttempts * candidate[t] <= MaxAttempts * Len(Route)
      /\ MaxAttempts * candidate[t] \in Nat /\ MaxAttempts * Len(Route) \in Nat
  BY <1>1, RouteTyped, Multiples
<1>5. calls[t] <= q + MaxAttempts
  <2>1. calls[t] <= q + tries[t]
    BY <1>2
  <2>2. MaxAttempts \in Nat
    BY RouteTyped
  <2>. QED
    BY <1>1, <2>1, <2>2
<1>. QED
  BY <1>3, <1>4, <1>5

\* The breakers are kept by a step that leaves them alone.
LEMMA BreakersUnchanged ==
  UNCHANGED breaker /\ BreakersOK(Unchanged) => BreakersOK(Unchanged)'
  BY DEF breaker, BreakersOK, Unchanged

\* A new request starts its route.
LEMMA StartKeeps == ASSUME RoutingInv, NEW t \in Tasks, Start(t) PROVE RoutingInv'
<1>1. BreakersOK(Unchanged) /\ GoOn(t, 1, Unchanged, <<>>, 0)
  BY DEF RoutingInv, Start
<1>2. 1 \in 1 .. Len(Route) + 1 /\ 0 <= MaxAttempts * (1 - 1) /\ 0 \in Nat
  BY RouteTyped
<1>. QED
  BY <1>1, <1>2, NothingRecorded, GoOnKeeps

\* A candidate is given up.
LEMMA CandidateFailsKeeps ==
  ASSUME RoutingInv, NEW t \in Tasks, CandidateFails(t) PROVE RoutingInv'
<1>1. PICK outcome \in {"transient", "rejected"} :
        GoOn(t, candidate[t] + 1, AfterFailure(ProviderOf(t)), Record(t, outcome), calls[t])
  BY DEF CandidateFails
<1>2. TypeOK /\ BreakersOK(Unchanged) /\ RouteInv(t) /\ pc[t] = "calling"
  BY DEF RoutingInv, CandidateFails
<1>3. BreakersOK(AfterFailure(ProviderOf(t)))
  BY <1>2, TaskTyped, AfterFailureOK
<1>4. outcome \in Outcomes /\ outcome # "skipped"
  BY DEF Outcomes
<1>5. /\ Record(t, outcome) \in Seq(Outcomes)
      /\ Recorded(Record(t, outcome)) = Recorded(attempts[t]) + 1
  BY <1>2, <1>4, TaskTyped, AppendRecorded DEF Record
<1>6. calls[t] = Recorded(Record(t, outcome)) /\ calls[t] \in Nat
      /\ calls[t] <= MaxAttempts * (candidate[t] - 1) + tries[t]
  BY <1>2, <1>5, TaskTyped DEF RouteInv
<1>7. candidate[t] + 1 \in 1 .. Len(Route) + 1 /\ (candidate[t] + 1) - 1 = candidate[t]
  BY <1>2, TaskTyped, RouteTyped
<1>8. calls[t] <= MaxAttempts * ((candidate[t] + 1) - 1)
  BY <1>2, <1>6, <1>7, CallsBounded
<1>. QED
  BY <1>1, <1>3, <1>5, <1>6, <1>7, <1>8, GoOnKeeps

\* A route that ends with an answer, an exception or a cancellation.
LEMMA LeaveKeeps ==
  ASSUME RoutingInv, NEW t \in Tasks, NEW how \in {"success", "raised", "cancelled"},
         Leave(t, how), NEW s \in Seq(Outcomes), attempts' = [attempts EXCEPT ![t] = s],
         how = "success" => calls[t] = Recorded(s),
         BreakersOK(Unchanged)'
  PROVE  RoutingInv'
<1>1. /\ pc' = [pc EXCEPT ![t] = "idle"] /\ result' = [result EXCEPT ![t] = how]
      /\ trial' = [trial EXCEPT ![t] = FALSE] /\ candidate' = [candidate EXCEPT ![t] = 1]
      /\ tries' = [tries EXCEPT ![t] = 0] /\ calls' = calls
  BY DEF Leave
<1>2. TypeOK /\ RouteInv(t) /\ \A u \in Tasks : RouteInv(u)
  BY DEF RoutingInv
<1>3. 1 \in 1 .. Len(Route) /\ 0 \in 0 .. MaxAttempts
  BY RouteTyped
<1>4. /\ state' \in [Providers -> States] /\ failures' \in [Providers -> 0 .. Threshold]
      /\ cooled' \in [Providers -> BOOLEAN]
  BY DEF BreakersOK, Unchanged
<1>5. TypeOK'
  BY <1>1, <1>2, <1>3, <1>4 DEF TypeOK, States
<1>6. pc'[t] = "idle" /\ result'[t] = how /\ attempts'[t] = s /\ calls'[t] = calls[t]
  BY <1>1, <1>2 DEF TypeOK
<1>7. Recorded(attempts[t])' = Recorded(s)
  BY <1>6 DEF Recorded, Called
<1>8. RouteInv(t)'
  BY <1>2, <1>6, <1>7 DEF RouteInv
<1>9. calls' = [calls EXCEPT ![t] = calls[t]]
  BY <1>1, <1>2 DEF TypeOK
<1>10. ASSUME NEW u \in Tasks \ {t} PROVE RouteInv(u)'
  BY <1>1, <1>2, <1>9, OthersKeep
<1>. QED
  BY <1>5, <1>8, <1>10 DEF RoutingInv

\* The adapter answers: the breaker is closed and its count reset.
LEMMA AttemptSucceedsKeeps ==
  ASSUME RoutingInv, NEW t \in Tasks, AttemptSucceeds(t) PROVE RoutingInv'
<1>. DEFINE p == ProviderOf(t)
<1>1. TypeOK /\ BreakersOK(Unchanged) /\ RouteInv(t) /\ pc[t] = "calling" /\ p \in Providers
  BY TaskTyped DEF RoutingInv, AttemptSucceeds
<1>2. /\ state' = [state EXCEPT ![p] = "closed"] /\ failures' = [failures EXCEPT ![p] = 0]
      /\ cooled' = [cooled EXCEPT ![p] = FALSE]
      /\ attempts' = [attempts EXCEPT ![t] = Record(t, "success")] /\ Leave(t, "success")
  BY DEF AttemptSucceeds, RecordSuccess
<1>3. BreakersOK(Unchanged)'
  <2>. HIDE DEF p
  <2>1. 0 \in 0 .. Threshold /\ 0 < Threshold
    BY RouteTyped
  <2>2. state' \in [Providers -> States] /\ failures' \in [Providers -> 0 .. Threshold]
        /\ cooled' \in [Providers -> BOOLEAN]
    BY <1>1, <1>2, <2>1, BreakersTyped DEF States
  <2>3. \A q \in Providers : state'[q] = "closed" <=> failures'[q] < Threshold
    BY <1>1, <1>2, <2>1, BreakersTyped
  <2>. QED
    BY <2>2, <2>3 DEF BreakersOK, Unchanged
<1>4. "success" \in Outcomes /\ "success" # "skipped"
  BY DEF Outcomes
<1>5. /\ Record(t, "success") \in Seq(Outcomes)
      /\ Recorded(Record(t, "success")) = Recorded(attempts[t]) + 1
  BY <1>1, <1>4, TaskTyped, AppendRecorded DEF Record
<1>6. calls[t] = Recorded(Record(t, "success"))
  BY <1>1, <1>5 DEF RouteInv
<1>. QED
  BY <1>2, <1>3, <1>5, <1>6, LeaveKeeps

\* An exception or a cancellation leaves the breakers alone.
LEMMA RaisesKeeps ==
  ASSUME RoutingInv, NEW t \in Tasks, AttemptRaises(t) \/ Cancelled(t) PROVE RoutingInv'
<1>1. PICK how \in {"raised", "cancelled"} : Leave(t, how) /\ UNCHANGED <<breaker, attempts>>
  BY DEF AttemptRaises, Cancelled
<1>2. TypeOK /\ attempts[t] \in Seq(Outcomes)
  BY TaskTyped DEF RoutingInv
<1>3. attempts' = [attempts EXCEPT ![t] = attempts[t]]
  BY <1>1, <1>2 DEF TypeOK
<1>4. BreakersOK(Unchanged)'
  BY <1>1, BreakersUnchanged DEF RoutingInv
<1>. QED
  BY <1>1, <1>2, <1>3, <1>4, LeaveKeeps

\* A task goes to sleep after a failed attempt that is recorded.
LEMMA AttemptRetriesKeeps ==
  ASSUME RoutingInv, NEW t \in Tasks, AttemptRetries(t) PROVE RoutingInv'
<1>1. /\ attempts' = [attempts EXCEPT ![t] = Record(t, "transient")]
      /\ pc' = [pc EXCEPT ![t] = "sleeping"] /\ pc[t] = "calling" /\ tries[t] < MaxAttempts
      /\ UNCHANGED <<breaker, candidate, tries, result, trial, calls>>
  BY DEF AttemptRetries, MayRetry
<1>2. TypeOK /\ BreakersOK(Unchanged) /\ \A u \in Tasks : RouteInv(u)
  BY DEF RoutingInv
<1>3. "transient" \in Outcomes /\ "transient" # "skipped"
  BY DEF Outcomes
<1>4. /\ Record(t, "transient") \in Seq(Outcomes)
      /\ Recorded(Record(t, "transient")) = Recorded(attempts[t]) + 1
  BY <1>2, <1>3, TaskTyped, AppendRecorded DEF Record
<1>5. BreakersOK(Unchanged)'
  BY <1>1, <1>2, BreakersUnchanged
<1>6. TypeOK'
  BY <1>1, <1>2, <1>4 DEF TypeOK, breaker
<1>7. /\ pc'[t] = "sleeping" /\ attempts'[t] = Record(t, "transient") /\ calls'[t] = calls[t]
      /\ tries'[t] = tries[t] /\ candidate'[t] = candidate[t]
  BY <1>1, <1>2 DEF TypeOK
<1>8. Recorded(attempts[t])' = Recorded(attempts[t]) + 1
  BY <1>4, <1>7 DEF Recorded, Called
<1>9. RouteInv(t)'
  BY <1>1, <1>2, <1>7, <1>8 DEF RouteInv
<1>10. /\ candidate' = [candidate EXCEPT ![t] = candidate[t]]
       /\ tries' = [tries EXCEPT ![t] = tries[t]] /\ result' = [result EXCEPT ![t] = result[t]]
       /\ calls' = [calls EXCEPT ![t] = calls[t]]
  BY <1>1, <1>2 DEF TypeOK
<1>11. ASSUME NEW u \in Tasks \ {t} PROVE RouteInv(u)'
  BY <1>1, <1>2, <1>10, OthersKeep
<1>. QED
  BY <1>5, <1>6, <1>9, <1>11 DEF RoutingInv

\* The next attempt of a candidate
LEMMA WakeKeeps == ASSUME RoutingInv, NEW t \in Tasks, Wake(t) PROVE RoutingInv'
<1>1. /\ pc' = [pc EXCEPT ![t] = "calling"] /\ pc[t] = "sleeping"
      /\ tries' = [tries EXCEPT ![t] = tries[t] + 1]
      /\ calls' = [calls EXCEPT ![t] = calls[t] + 1]
      /\ UNCHANGED <<breaker, candidate, attempts, result, trial>>
  BY DEF Wake
<1>2. TypeOK /\ BreakersOK(Unchanged) /\ \A u \in Tasks : RouteInv(u)
  BY DEF RoutingInv
<1>3. BreakersOK(Unchanged)'
  BY <1>1, <1>2, BreakersUnchanged
<1>4. /\ tries[t] \in Nat /\ calls[t] \in Nat /\ tries[t] < MaxAttempts
      /\ calls[t] = Recorded(attempts[t])
      /\ calls[t] <= MaxAttempts * (candidate[t] - 1) + tries[t]
  BY <1>1, <1>2, TaskTyped DEF RouteInv
<1>5. tries[t] + 1 \in 0 .. MaxAttempts /\ calls[t] + 1 \in Nat /\ tries[t] + 1 >= 1
  BY <1>4, RouteTyped
<1>6. TypeOK'
  BY <1>1, <1>2, <1>5 DEF TypeOK, breaker
<1>7. /\ pc'[t] = "calling" /\ attempts'[t] = attempts[t] /\ calls'[t] = calls[t] + 1
      /\ tries'[t] = tries[t] + 1 /\ candidate'[t] = candidate[t]
  BY <1>1, <1>2 DEF TypeOK
<1>8. Recorded(attempts[t])' = Recorded(attempts[t])
  BY <1>7 DEF Recorded, Called
<1>9. calls'[t] <= MaxAttempts * (candidate'[t] - 1) + tries'[t]
  <2>1. PICK q \in Nat : q = MaxAttempts * (candidate[t] - 1)
    BY <1>2, TaskTyped, Multiples
  <2>2. calls[t] + 1 <= q + (tries[t] + 1)
    BY <1>4, <2>1
  <2>. QED
    BY <1>7, <2>1, <2>2
<1>10. calls'[t] <= MaxAttempts * Len(Route)
  <2>1. /\ candidate[t] - 1 \in Nat /\ (candidate[t] - 1) + 1 = candidate[t]
        /\ candidate[t] - 1 <= candidate[t] /\ candidate[t] \in Nat /\ candidate[t] <= Len(Route)
    BY <1>2, TaskTyped, RouteTyped
  <2>2. PICK q \in Nat : q = MaxAttempts * (candidate[t] - 1)
    BY <2>1, Multiples
  <2>3. calls[t] <= q + tries[t]
    BY <1>4, <2>2
  <2>4. calls[t] + 1 <= q + MaxAttempts
    BY <1>4, <2>3, RouteTyped
  <2>5. MaxAttempts * candidate[t] = q + MaxAttempts
    BY <2>1, <2>2, Multiples
  <2>6. PICK w \in Nat : w = MaxAttempts * Len(Route) /\ MaxAttempts * candidate[t] <= w
    BY <2>1, RouteTyped, Multiples
  <2>7. calls[t] + 1 <= w
    BY <1>4, <2>4, <2>5, <2>6, RouteTyped
  <2>. QED
    BY <1>7, <2>6, <2>7
<1>11. RouteInv(t)'
  BY <1>4, <1>5, <1>7, <1>8, <1>9, <1>10 DEF RouteInv
<1>12. /\ candidate' = [candidate EXCEPT ![t] = candidate[t]]
       /\ attempts' = [attempts EXCEPT ![t] = attempts[t]]
       /\ result' = [result EXCEPT ![t] = result[t]]
  BY <1>1, <1>2 DEF TypeOK
<1>13. ASSUME NEW u \in Tasks \ {t} PROVE RouteInv(u)'
  BY <1>1, <1>2, <1>12, OthersKeep
<1>. QED
  BY <1>3, <1>6, <1>11, <1>13 DEF RoutingInv

\* A cooldown that elapses changes no state and no count.
LEMMA CoolDownKeeps == ASSUME RoutingInv, NEW p \in Providers, CoolDown(p) PROVE RoutingInv'
<1>1. /\ cooled' = [cooled EXCEPT ![p] = TRUE] /\ UNCHANGED <<state, failures>>
      /\ UNCHANGED <<pc, candidate, tries, attempts, result, trial, calls>>
  BY DEF CoolDown, task
<1>2. TypeOK /\ BreakersOK(Unchanged) /\ \A u \in Tasks : RouteInv(u)
  BY DEF RoutingInv
<1>3. cooled' \in [Providers -> BOOLEAN]
  BY <1>1, <1>2 DEF TypeOK
<1>4. BreakersOK(Unchanged)'
  BY <1>1, <1>2, <1>3 DEF BreakersOK, Unchanged
<1>5. TypeOK'
  BY <1>1, <1>2, <1>3 DEF TypeOK
<1>6. \A u \in Tasks : RouteInv(u)'
  BY <1>1, <1>2 DEF RouteInv, Recorded, Called
<1>. QED
  BY <1>4, <1>5, <1>6 DEF RoutingInv

\* The initial state satisfies the invariant.
LEMMA RoutingInvInit == Init => RoutingInv
<1>. SUFFICES ASSUME Init PROVE RoutingInv
  OBVIOUS
<1>1. 0 \in 0 .. Threshold /\ 0 < Threshold /\ 0 \in 0 .. MaxAttempts /\ 1 \in 1 .. Len(Route)
  BY RouteTyped
<1>2. TypeOK
  BY <1>1, NothingRecorded DEF Init, TypeOK
<1>3. BreakersOK(Unchanged)
  BY <1>1 DEF Init, BreakersOK, Unchanged, States
<1>4. ASSUME NEW t \in Tasks PROVE RouteInv(t)
  <2>1. pc[t] = "idle" /\ calls[t] = 0 /\ result[t] = "none"
    BY DEF Init
  <2>2. 0 <= MaxAttempts * Len(Route)
    <3>1. Len(Route) <= Len(Route)
      BY RouteTyped
    <3>2. MaxAttempts * Len(Route) \in Nat
      BY <3>1, RouteTyped, Multiples
    <3>. QED
      BY <3>2
  <2>. QED
    BY <2>1, <2>2 DEF RouteInv
<1>. QED
  BY <1>2, <1>3, <1>4 DEF RoutingInv

\* Every step keeps it.
LEMMA RoutingInvKept == RoutingInv /\ [Next]_vars => RoutingInv'
<1>1. ASSUME RoutingInv, NEW t \in Tasks, Start(t) \/ Proceed(t) \/ Cancelled(t)
      PROVE  RoutingInv'
  BY <1>1, StartKeeps, AttemptSucceedsKeeps, AttemptRetriesKeeps, CandidateFailsKeeps,
     RaisesKeeps, WakeKeeps DEF Proceed
<1>2. ASSUME RoutingInv, NEW p \in Providers, CoolDown(p) PROVE RoutingInv'
  BY <1>2, CoolDownKeeps
<1>3. ASSUME RoutingInv, UNCHANGED vars PROVE RoutingInv'
  BY <1>3 DEF RoutingInv, vars, breaker, task, TypeOK, BreakersOK, Unchanged, RouteInv,
              Recorded, Called
<1>. QED
  BY <1>1, <1>2, <1>3 DEF Next

-----------------------------------------------------------------------------
(* What holds of every route *)

\* RoutingInv holds in every reachable state.
THEOREM RoutingInvariant == Spec => []RoutingInv
  BY RoutingInvInit, RoutingInvKept, PTL DEF Spec

\* The types of breakers and tasks are kept.
THEOREM RoutingTypeSafe == Spec => []TypeOK
<1>1. RoutingInv => TypeOK
  BY DEF RoutingInv
<1>. QED
  BY <1>1, RoutingInvariant, PTL

\* Trials, stragglers and successes of any number of requests leave a breaker
\* closed exactly while its failures are below the threshold.
THEOREM BreakerClosedBelowThreshold == Spec => []ClosedBelowThreshold
<1>1. RoutingInv => ClosedBelowThreshold
  BY BreakersTyped DEF RoutingInv, ClosedBelowThreshold
<1>. QED
  BY <1>1, RoutingInvariant, PTL

\* A route makes at most the calls that were paid for.
THEOREM RouteWithinReservation == Spec => []ReservationCoversCalls
<1>1. RoutingInv => ReservationCoversCalls
  BY DEF RoutingInv, RouteInv, ReservationCoversCalls
<1>. QED
  BY <1>1, RoutingInvariant, PTL

\* The records of a route that ended tell how often it called an adapter.
THEOREM RecordsAreComplete == Spec => []RecordsTellCalls
<1>1. RoutingInv => RecordsTellCalls
  BY DEF RoutingInv, RouteInv, RecordsTellCalls, Recorded, Called
<1>. QED
  BY <1>1, RoutingInvariant, PTL
-----------------------------------------------------------------------------
(* What one step does to a route and to a breaker *)

\* Task t's own state after its step
Moved(t, x, n, m, y, z) ==
  /\ pc' = [pc EXCEPT ![t] = x] /\ candidate' = [candidate EXCEPT ![t] = n]
  /\ tries' = [tries EXCEPT ![t] = m] /\ result' = [result EXCEPT ![t] = y]
  /\ trial' = [trial EXCEPT ![t] = z]
  /\ \E s : attempts' = [attempts EXCEPT ![t] = s]
  /\ \E k : calls' = [calls EXCEPT ![t] = k]

OwnState(t) == <<pc[t], candidate[t], tries[t], attempts[t], result[t], trial[t], calls[t]>>

\* It is the task's own state only.
LEMMA MovedOwn ==
  ASSUME TypeOK, NEW t \in Tasks, NEW x, NEW n, NEW m, NEW y, NEW z, Moved(t, x, n, m, y, z)
  PROVE  /\ pc'[t] = x /\ candidate'[t] = n /\ tries'[t] = m /\ result'[t] = y /\ trial'[t] = z
         /\ \A u \in Tasks \ {t} : OwnState(u)' = OwnState(u)
<1>1. PICK s : attempts' = [attempts EXCEPT ![t] = s]
  BY DEF Moved
<1>2. PICK k : calls' = [calls EXCEPT ![t] = k]
  BY DEF Moved
<1>. QED
  BY <1>1, <1>2 DEF Moved, TypeOK, OwnState

\* A task that goes on has no candidate left, or calls one whose breaker lets it
\* through, as its trial when the breaker was open and cooled.
LEMMA GoOnMoves ==
  ASSUME NEW t \in Tasks, NEW i \in 1 .. Len(Route) + 1, NEW b, NEW records, NEW made,
         GoOn(t, i, b, records, made)
  PROVE  \/ Moved(t, "idle", 1, 0, "failed", FALSE) /\ state' = b.state
         \/ \E n \in i .. Len(Route) : \E p \in Providers :
              /\ Moved(t, "calling", n, 1, "none", b.state[p] = "open")
              /\ p = Route[n].provider
              /\ Allows(b.state[p], b.cooled[p])
              /\ state' = [b.state EXCEPT ![p] = IF b.state[p] = "open" THEN "half_open" ELSE b.state[p]]
<1>. DEFINE allowed == {j \in i .. Len(Route) :
                          Allows(b.state[Route[j].provider], b.cooled[Route[j].provider])}
            Skipping(n) == records \o [j \in 1 .. n |-> "skipped"]
<1>1. CASE allowed = {}
  <2>1. /\ attempts' = [attempts EXCEPT ![t] = Skipping(Len(Route) + 1 - i)]
        /\ pc' = [pc EXCEPT ![t] = "idle"] /\ result' = [result EXCEPT ![t] = "failed"]
        /\ calls' = [calls EXCEPT ![t] = made] /\ trial' = [trial EXCEPT ![t] = FALSE]
        /\ state' = b.state
        /\ candidate' = [candidate EXCEPT ![t] = 1] /\ tries' = [tries EXCEPT ![t] = 0]
    BY <1>1 DEF GoOn
  <2>. QED
    BY <2>1 DEF Moved
<1>2. CASE allowed # {}
  <2>1. PICK next \in allowed :
          LET p == Route[next].provider IN
          /\ attempts' = [attempts EXCEPT ![t] = Skipping(next - i)]
          /\ pc' = [pc EXCEPT ![t] = "calling"] /\ candidate' = [candidate EXCEPT ![t] = next]
          /\ tries' = [tries EXCEPT ![t] = 1] /\ calls' = [calls EXCEPT ![t] = made + 1]
          /\ trial' = [trial EXCEPT ![t] = b.state[p] = "open"]
          /\ state' = [b.state EXCEPT ![p] = IF @ = "open" THEN "half_open" ELSE @]
          /\ result' = [result EXCEPT ![t] = "none"]
    BY <1>2 DEF GoOn
  <2>2. next \in i .. Len(Route) /\ next \in 1 .. Len(Route)
        /\ Allows(b.state[Route[next].provider], b.cooled[Route[next].provider])
    BY RouteTyped
  <2>. HIDE DEF allowed, Skipping
  <2>3. PICK p \in Providers : p = Route[next].provider
    BY <2>2, RouteTyped
  <2>4. Moved(t, "calling", next, 1, "none", b.state[p] = "open")
    BY <2>1, <2>3 DEF Moved
  <2>5. state' = [b.state EXCEPT ![p] = IF b.state[p] = "open" THEN "half_open" ELSE b.state[p]]
    BY <2>1, <2>3
  <2>. QED
    BY <2>2, <2>3, <2>4, <2>5
<1>. QED
  BY <1>1, <1>2

\* A failure at p's breaker opens it or leaves it closed, and opens a closed one
\* with the failure that reaches the threshold; no other breaker changes.
LEMMA AfterFailureMoves ==
  ASSUME BreakersOK(Unchanged), NEW p \in Providers
  PROVE  LET b == AfterFailure(p) IN
         /\ b.state \in [Providers -> States] /\ b.cooled \in [Providers -> BOOLEAN]
         /\ \A q \in Providers \ {p} : b.state[q] = state[q] /\ b.cooled[q] = cooled[q]
         /\ state[p] \in {"closed", "open"} => b.state[p] \in {state[p], "open"}
         /\ state[p] = "half_open" => b.state[p] = "open"
         /\ b.state[p] = "open" => ~b.cooled[p]
         /\ state[p] = "closed" /\ b.state[p] = "open" => failures[p] + 1 = Threshold
         /\ \A q \in Providers \ {p} : b.failures[q] = failures[q]
         /\ b.failures[p] \in {failures[p], failures[p] + 1}
<1>. DEFINE n == Saturated(failures[p] + 1)
            opens == state[p] = "half_open" \/ n = Threshold
            s == [state EXCEPT ![p] = IF opens THEN "open" ELSE @]
            f == [failures EXCEPT ![p] = IF state[p] = "half_open" THEN @ ELSE n]
            c == [cooled EXCEPT ![p] = IF opens THEN FALSE ELSE @]
<1>1. AfterFailure(p).state = s /\ AfterFailure(p).cooled = c /\ AfterFailure(p).failures = f
  BY DEF AfterFailure
<1>2. /\ state \in [Providers -> States] /\ failures \in [Providers -> 0 .. Threshold]
      /\ cooled \in [Providers -> BOOLEAN]
      /\ \A q \in Providers : state[q] = "closed" <=> failures[q] < Threshold
  BY BreakersTyped
<1>3. s \in [Providers -> States] /\ c \in [Providers -> BOOLEAN]
  BY <1>2 DEF States
<1>4. \A q \in Providers \ {p} : s[q] = state[q] /\ c[q] = cooled[q]
  BY <1>2
<1>5. /\ s[p] = IF opens THEN "open" ELSE state[p]
      /\ c[p] = IF opens THEN FALSE ELSE cooled[p]
  BY <1>2
<1>6. ASSUME state[p] = "closed", opens PROVE failures[p] + 1 = Threshold
  <2>1. failures[p] \in 0 .. Threshold /\ Threshold \in Nat /\ failures[p] < Threshold
    BY <1>2, <1>6, RouteTyped
  <2>2. n = Threshold
    BY <1>6
  <2>. QED
    BY <2>1, <2>2 DEF Saturated
<1>7. state[p] = "half_open" => opens
  OBVIOUS
<1>8. ASSUME state[p] = "open" PROVE opens
  <2>1. failures[p] \in 0 .. Threshold /\ Threshold \in Nat /\ ~(failures[p] < Threshold)
    BY <1>2, <1>8, RouteTyped
  <2>. QED
    BY <2>1 DEF Saturated
<1>9. n \in {failures[p], failures[p] + 1}
  <2>1. failures[p] \in 0 .. Threshold /\ Threshold \in Nat
    BY <1>2, RouteTyped
  <2>. QED
    BY <2>1 DEF Saturated
<1>10. /\ \A q \in Providers \ {p} : f[q] = failures[q]
       /\ f[p] \in {failures[p], failures[p] + 1}
  BY <1>2, <1>9
<1>. HIDE DEF opens, s, c, f
<1>11. /\ s[p] \in {state[p], "open"}
       /\ state[p] = "half_open" => s[p] = "open"
       /\ s[p] = "open" => ~c[p]
  BY <1>2, <1>5, <1>7, <1>8 DEF States
<1>. QED
  BY <1>1, <1>2, <1>3, <1>4, <1>5, <1>6, <1>10, <1>11

-----------------------------------------------------------------------------
(* A route advances *)

\* Where task t is in its route: after so many attempts at the candidates before,
\* and so many at this one, asleep or not
Position(t) ==
  2 * (MaxAttempts * (candidate[t] - 1) + tries[t]) + (IF pc[t] = "sleeping" THEN 1 ELSE 0)

\* Every step of a task that does not end its route moves it forward, and the
\* steps of the others do not touch it.
RouteAdvances ==
  \A t \in Tasks : pc[t] # "idle" =>
    pc'[t] = "idle" \/ Position(t) < Position(t)' \/ OwnState(t)' = OwnState(t)

\* There are that many positions.
PositionBounded == \A t \in Tasks : Position(t) \in 0 .. 2 * (MaxAttempts * Len(Route))

\* A later candidate is a later position.
LEMMA NextCandidateIsLater ==
  ASSUME TypeOK, NEW t \in Tasks, NEW n \in Nat, n > candidate[t]
  PROVE  MaxAttempts * (candidate[t] - 1) + tries[t] < MaxAttempts * (n - 1) + 1
<1>1. /\ candidate[t] - 1 \in Nat /\ (candidate[t] - 1) + 1 = candidate[t]
      /\ candidate[t] - 1 <= candidate[t]
      /\ candidate[t] \in Nat /\ candidate[t] <= n - 1 /\ n - 1 \in Nat
      /\ tries[t] \in Nat /\ tries[t] <= MaxAttempts
  BY TaskTyped, RouteTyped
<1>2. PICK q \in Nat : q = MaxAttempts * (candidate[t] - 1)
  BY <1>1, Multiples
<1>3. MaxAttempts * candidate[t] = q + MaxAttempts
  BY <1>1, <1>2, Multiples
<1>4. PICK w \in Nat : w = MaxAttempts * (n - 1) /\ MaxAttempts * candidate[t] <= w
  BY <1>1, Multiples
<1>5. MaxAttempts \in Nat
  BY RouteTyped
<1>6. q + tries[t] < w + 1
  BY <1>1, <1>3, <1>4, <1>5
<1>. QED
  BY <1>2, <1>4, <1>6

\* A position is a number.
LEMMA PositionNat ==
  ASSUME NEW c \in 1 .. Len(Route), NEW n \in 0 .. MaxAttempts
  PROVE  MaxAttempts * (c - 1) + n \in Nat
<1>1. c \in Nat /\ c - 1 \in Nat /\ c - 1 <= c /\ n \in Nat
  BY RouteTyped
<1>2. PICK q \in Nat : q = MaxAttempts * (c - 1)
  BY <1>1, Multiples
<1>. QED
  BY <1>1, <1>2

\* The task's own steps
LEMMA OwnStepAdvances ==
  ASSUME RoutingInv, RoutingInv', NEW t \in Tasks, Proceed(t) \/ Cancelled(t)
  PROVE  pc'[t] = "idle" \/ Position(t) < Position(t)'
<1>1. TypeOK /\ TypeOK'
  BY DEF RoutingInv
<1>2. PICK a \in Nat : /\ a = MaxAttempts * (candidate[t] - 1) + tries[t]
                       /\ Position(t) = 2 * a + (IF pc[t] = "sleeping" THEN 1 ELSE 0)
  <2>1. candidate[t] \in 1 .. Len(Route) /\ tries[t] \in 0 .. MaxAttempts
    BY <1>1 DEF TypeOK
  <2>. QED
    BY <2>1, PositionNat DEF Position
<1>3. PICK d \in Nat : /\ d = MaxAttempts * (candidate'[t] - 1) + tries'[t]
                       /\ Position(t)' = 2 * d + (IF pc'[t] = "sleeping" THEN 1 ELSE 0)
  <2>1. candidate'[t] \in 1 .. Len(Route) /\ tries'[t] \in 0 .. MaxAttempts
    BY <1>1 DEF TypeOK
  <2>. QED
    BY <2>1, PositionNat DEF Position
<1>4. CASE AttemptSucceeds(t) \/ AttemptRaises(t) \/ Cancelled(t)
  <2>1. pc' = [pc EXCEPT ![t] = "idle"]
    BY <1>4 DEF AttemptSucceeds, AttemptRaises, Cancelled, Leave
  <2>. QED
    BY <1>1, <2>1 DEF TypeOK
<1>5. CASE AttemptRetries(t)
  <2>1. /\ pc[t] = "calling" /\ pc'[t] = "sleeping"
        /\ candidate'[t] = candidate[t] /\ tries'[t] = tries[t]
    BY <1>1, <1>5 DEF AttemptRetries, TypeOK
  <2>2. d = a
    BY <1>2, <1>3, <2>1
  <2>. QED
    BY <1>2, <1>3, <2>1, <2>2
<1>6. CASE Wake(t)
  <2>1. /\ pc[t] = "sleeping" /\ pc'[t] = "calling"
        /\ candidate'[t] = candidate[t] /\ tries'[t] = tries[t] + 1
    BY <1>1, <1>6 DEF Wake, TypeOK
  <2>2. d = a + 1
    <3>1. PICK q \in Nat : q = MaxAttempts * (candidate[t] - 1)
      BY <1>1, TaskTyped, Multiples
    <3>2. tries[t] \in Nat
      BY <1>1, TaskTyped
    <3>. QED
      BY <1>2, <1>3, <2>1, <3>1, <3>2
  <2>. QED
    BY <1>2, <1>3, <2>1, <2>2
<1>7. CASE CandidateFails(t)
  <2>1. PICK outcome \in {"transient", "rejected"} :
          GoOn(t, candidate[t] + 1, AfterFailure(ProviderOf(t)), Record(t, outcome), calls[t])
    BY <1>7 DEF CandidateFails
  <2>2. pc[t] = "calling"
    BY <1>7 DEF CandidateFails
  <2>3. candidate[t] + 1 \in 1 .. Len(Route) + 1
    BY <1>1, TaskTyped, RouteTyped
  <2>4. \/ Moved(t, "idle", 1, 0, "failed", FALSE)
        \/ \E n \in candidate[t] + 1 .. Len(Route) : \E z : Moved(t, "calling", n, 1, "none", z)
    BY <2>1, <2>3, GoOnMoves
  <2>5. CASE Moved(t, "idle", 1, 0, "failed", FALSE)
    BY <1>1, <2>5, MovedOwn
  <2>6. ASSUME NEW n \in candidate[t] + 1 .. Len(Route), NEW z,
               Moved(t, "calling", n, 1, "none", z)
        PROVE  Position(t) < Position(t)'
    <3>1. pc'[t] = "calling" /\ candidate'[t] = n /\ tries'[t] = 1
      BY <1>1, <2>6, MovedOwn
    <3>2. n \in Nat /\ n > candidate[t]
      BY <1>1, TaskTyped, RouteTyped
    <3>3. a < d
      BY <1>1, <1>2, <1>3, <3>1, <3>2, NextCandidateIsLater
    <3>. QED
      BY <1>2, <1>3, <2>2, <3>1, <3>3
  <2>. QED
    BY <2>4, <2>5, <2>6
<1>. QED
  BY <1>4, <1>5, <1>6, <1>7 DEF Proceed

\* A step of one task leaves the others' own state.
LEMMA StepIsOwn ==
  ASSUME TypeOK, NEW t \in Tasks, Start(t) \/ Proceed(t) \/ Cancelled(t)
  PROVE  \A u \in Tasks \ {t} : OwnState(u)' = OwnState(u)
<1>1. CASE Start(t)
  <2>1. 1 \in 1 .. Len(Route) + 1 /\ GoOn(t, 1, Unchanged, <<>>, 0)
    BY <1>1, RouteTyped DEF Start
  <2>2. \E x, n, m, y, z : Moved(t, x, n, m, y, z)
    BY <2>1, GoOnMoves
  <2>. QED
    BY <2>2, MovedOwn
<1>2. CASE CandidateFails(t)
  <2>1. PICK outcome \in {"transient", "rejected"} :
          GoOn(t, candidate[t] + 1, AfterFailure(ProviderOf(t)), Record(t, outcome), calls[t])
    BY <1>2 DEF CandidateFails
  <2>2. candidate[t] + 1 \in 1 .. Len(Route) + 1
    BY TaskTyped, RouteTyped
  <2>3. \E x, n, m, y, z : Moved(t, x, n, m, y, z)
    BY <2>1, <2>2, GoOnMoves
  <2>. QED
    BY <2>3, MovedOwn
<1>3. CASE AttemptSucceeds(t) \/ AttemptRetries(t) \/ AttemptRaises(t) \/ Wake(t) \/ Cancelled(t)
  BY <1>3 DEF AttemptSucceeds, AttemptRetries, AttemptRaises, Wake, Cancelled, Leave, TypeOK,
              OwnState, breaker
<1>. QED
  BY <1>1, <1>2, <1>3 DEF Proceed

\* Every attempt, sleep and fallback brings a route nearer to its end, whatever the
\* other requests do to the breakers meanwhile, and it has finitely many positions:
\* with answers and timers that do come, it ends.
THEOREM RouteAlwaysAdvances == Spec => [][RouteAdvances]_vars /\ []PositionBounded
<1>1. RoutingInv /\ RoutingInv' /\ [Next]_vars => RouteAdvances
  <2>. SUFFICES ASSUME RoutingInv, RoutingInv', [Next]_vars, NEW t \in Tasks, pc[t] # "idle"
                PROVE  \/ pc'[t] = "idle" \/ Position(t) < Position(t)'
                       \/ OwnState(t)' = OwnState(t)
    BY DEF RouteAdvances
  <2>1. CASE UNCHANGED vars
    BY <2>1 DEF vars, task, OwnState
  <2>2. CASE \E p \in Providers : CoolDown(p)
    BY <2>2 DEF CoolDown, task, OwnState
  <2>3. ASSUME NEW u \in Tasks, Start(u) \/ Proceed(u) \/ Cancelled(u)
        PROVE  \/ pc'[t] = "idle" \/ Position(t) < Position(t)'
               \/ OwnState(t)' = OwnState(t)
    <3>1. CASE u # t
      BY <2>3, <3>1, StepIsOwn DEF RoutingInv
    <3>2. CASE u = t
      <4>1. Proceed(t) \/ Cancelled(t)
        BY <2>3, <3>2 DEF Start
      <4>. QED
        BY <4>1, OwnStepAdvances
    <3>. QED
      BY <3>1, <3>2
  <2>. QED
    BY <2>1, <2>2, <2>3 DEF Next
<1>2. RoutingInv => PositionBounded
  <2>. SUFFICES ASSUME RoutingInv, NEW t \in Tasks
                PROVE  Position(t) \in 0 .. 2 * (MaxAttempts * Len(Route))
    BY DEF PositionBounded
  <2>1. TypeOK /\ RouteInv(t)
    BY DEF RoutingInv
  <2>2. PICK a \in Nat : /\ a = MaxAttempts * (candidate[t] - 1) + tries[t]
                         /\ Position(t) = 2 * a + (IF pc[t] = "sleeping" THEN 1 ELSE 0)
    <3>1. candidate[t] \in 1 .. Len(Route) /\ tries[t] \in 0 .. MaxAttempts
      BY <2>1 DEF TypeOK
    <3>. QED
      BY <3>1, PositionNat DEF Position
  <2>3. /\ candidate[t] - 1 \in Nat /\ (candidate[t] - 1) + 1 = candidate[t]
        /\ candidate[t] - 1 <= candidate[t] /\ candidate[t] \in Nat
        /\ candidate[t] <= Len(Route) /\ tries[t] \in Nat /\ tries[t] <= MaxAttempts
        /\ MaxAttempts \in Nat /\ Len(Route) \in Nat
    BY <2>1, TaskTyped, RouteTyped
  <2>4. PICK q \in Nat : q = MaxAttempts * (candidate[t] - 1)
    BY <2>3, Multiples
  <2>5. PICK w \in Nat : w = MaxAttempts * Len(Route) /\ q + MaxAttempts <= w
    <3>1. MaxAttempts * candidate[t] = q + MaxAttempts
      BY <2>3, <2>4, Multiples
    <3>2. PICK w \in Nat : w = MaxAttempts * Len(Route) /\ MaxAttempts * candidate[t] <= w
      BY <2>3, Multiples
    <3>. QED
      BY <3>1, <3>2
  <2>6. a = q + tries[t]
    BY <2>2, <2>4
  <2>7. pc[t] = "sleeping" => tries[t] < MaxAttempts
    BY <2>1 DEF RouteInv
  <2>8. Position(t) \in 0 .. 2 * w
    <3>1. CASE pc[t] = "sleeping"
      <4>1. Position(t) = 2 * (q + tries[t]) + 1 /\ tries[t] < MaxAttempts
        BY <2>2, <2>6, <2>7, <3>1
      <4>2. PICK x \in Nat : x = q + tries[t]
        BY <2>3
      <4>3. x + 1 <= w
        BY <2>3, <2>5, <4>1, <4>2
      <4>4. Position(t) = 2 * x + 1
        BY <4>1, <4>2
      <4>. QED
        BY <4>3, <4>4
    <3>2. CASE pc[t] # "sleeping"
      <4>1. PICK x \in Nat : x = q + tries[t]
        BY <2>3
      <4>2. Position(t) = 2 * x
        BY <2>2, <2>6, <3>2, <4>1
      <4>3. x <= w
        BY <2>3, <2>5, <4>1
      <4>. QED
        BY <4>2, <4>3
    <3>. QED
      BY <3>1, <3>2
  <2>. QED
    BY <2>5, <2>8
<1>. QED
  BY <1>1, <1>2, RoutingInvariant, PTL DEF Spec

-----------------------------------------------------------------------------
(* A breaker follows the verdicts *)

\* A task with a trial is on its route.
TrialsBusy == \A t \in Tasks : trial[t] => pc[t] # "idle"

\* A task that goes on changes a breaker only by claiming its trial.
LEMMA GoOnBreakers ==
  ASSUME TypeOK, NEW t \in Tasks, NEW i \in 1 .. Len(Route) + 1,
         NEW b, b.state \in [Providers -> States], NEW records, NEW made,
         GoOn(t, i, b, records, made)
  PROVE  /\ \A p \in Providers :
              /\ state'[p] = "half_open" =>
                   \/ b.state[p] = "half_open"
                   \/ b.state[p] = "open" /\ b.cooled[p] /\ trial'[t] /\ ProviderOf(t)' = p
              /\ state'[p] # "half_open" => state'[p] = b.state[p]
         /\ \A u \in Tasks \ {t} : OwnState(u)' = OwnState(u)
         /\ \/ pc'[t] = "idle" /\ result'[t] = "failed" /\ trial'[t] = FALSE
            \/ pc'[t] = "calling" /\ candidate'[t] >= i
<1>1. CASE Moved(t, "idle", 1, 0, "failed", FALSE) /\ state' = b.state
  BY <1>1, MovedOwn
<1>2. ASSUME NEW n \in i .. Len(Route), NEW q \in Providers,
             Moved(t, "calling", n, 1, "none", b.state[q] = "open"),
             q = Route[n].provider, Allows(b.state[q], b.cooled[q]),
             state' = [b.state EXCEPT ![q] = IF b.state[q] = "open" THEN "half_open" ELSE b.state[q]]
      PROVE  /\ \A p \in Providers :
                  /\ state'[p] = "half_open" =>
                       \/ b.state[p] = "half_open"
                       \/ b.state[p] = "open" /\ b.cooled[p] /\ trial'[t] /\ ProviderOf(t)' = p
                  /\ state'[p] # "half_open" => state'[p] = b.state[p]
             /\ \A u \in Tasks \ {t} : OwnState(u)' = OwnState(u)
             /\ pc'[t] = "calling" /\ candidate'[t] >= i
  <2>1. /\ pc'[t] = "calling" /\ candidate'[t] = n /\ trial'[t] = (b.state[q] = "open")
        /\ \A u \in Tasks \ {t} : OwnState(u)' = OwnState(u)
    BY <1>2, MovedOwn
  <2>2. ProviderOf(t)' = q
    BY <1>2, <2>1 DEF ProviderOf
  <2>3. state'[q] = IF b.state[q] = "open" THEN "half_open" ELSE b.state[q]
    BY <1>2
  <2>4. \A p \in Providers \ {q} : state'[p] = b.state[p]
    BY <1>2
  <2>5. b.state[q] = "open" => b.cooled[q]
    BY <1>2 DEF Allows
  <2>6. n >= i
    BY RouteTyped
  <2>. QED
    BY <2>1, <2>2, <2>3, <2>4, <2>5, <2>6
<1>3. \/ Moved(t, "idle", 1, 0, "failed", FALSE) /\ state' = b.state
      \/ \E n \in i .. Len(Route) : \E p \in Providers :
           /\ Moved(t, "calling", n, 1, "none", b.state[p] = "open")
           /\ p = Route[n].provider
           /\ Allows(b.state[p], b.cooled[p])
           /\ state' = [b.state EXCEPT ![p] = IF b.state[p] = "open" THEN "half_open" ELSE b.state[p]]
  BY GoOnMoves
<1>. QED
  BY <1>1, <1>2, <1>3

\* What a step that does not go on does to trials
LEMMA TrialsOf ==
  ASSUME TypeOK, NEW t \in Tasks,
         AttemptSucceeds(t) \/ AttemptRetries(t) \/ AttemptRaises(t) \/ Wake(t) \/ Cancelled(t)
  PROVE  /\ pc[t] # "idle"
         /\ \/ pc'[t] = "idle" /\ trial'[t] = FALSE
            \/ pc'[t] # "idle" /\ trial'[t] = trial[t] /\ candidate'[t] = candidate[t]
         /\ \A u \in Tasks \ {t} : OwnState(u)' = OwnState(u)
  BY StepIsOwn DEF AttemptSucceeds, AttemptRetries, AttemptRaises, Wake, Cancelled, Leave, TypeOK,
                   Proceed

\* A candidate that is given up, with the breakers after its failure
LEMMA GivingUp ==
  ASSUME RoutingInv, NEW t \in Tasks, CandidateFails(t)
  PROVE  /\ GivenUp(t) /\ state'[ProviderOf(t)] # "half_open"
         /\ \A u \in Tasks \ {t} : OwnState(u)' = OwnState(u)
         /\ pc'[t] = "idle" => trial'[t] = FALSE
         /\ \A p \in Providers :
              /\ state'[p] = "closed" => state[p] = "closed"
              /\ state'[p] = "open" =>
                   \/ state[p] = "open"
                   \/ p = ProviderOf(t) /\ (state[p] = "closed" => failures[p] + 1 = Threshold)
              /\ state'[p] = "half_open" =>
                   \/ state[p] = "half_open"
                   \/ state[p] = "open" /\ cooled[p] /\ trial'[t] /\ ProviderOf(t)' = p
              /\ failures'[p] # failures[p] =>
                   p = ProviderOf(t) /\ failures'[p] = failures[p] + 1
<1>. DEFINE q == ProviderOf(t)
            b == AfterFailure(q)
<1>1. TypeOK /\ BreakersOK(Unchanged) /\ pc[t] = "calling" /\ q \in Providers
  BY TaskTyped DEF RoutingInv, CandidateFails
<1>2. PICK outcome \in {"transient", "rejected"} :
        GoOn(t, candidate[t] + 1, AfterFailure(ProviderOf(t)), Record(t, outcome), calls[t])
  BY DEF CandidateFails
<1>3. candidate[t] + 1 \in 1 .. Len(Route) + 1 /\ candidate[t] \in Nat
      /\ (pc'[t] = "calling" /\ candidate'[t] >= candidate[t] + 1 => candidate'[t] > candidate[t])
  <2>1. candidate[t] \in Nat /\ candidate[t] + 1 \in 1 .. Len(Route) + 1
    BY <1>1, TaskTyped, RouteTyped
  <2>2. TypeOK'
    BY CandidateFailsKeeps DEF RoutingInv
  <2>3. candidate'[t] \in Nat
    BY <2>2, RouteTyped DEF TypeOK
  <2>. QED
    BY <2>1, <2>3
<1>4. /\ b.state \in [Providers -> States] /\ b.cooled \in [Providers -> BOOLEAN]
      /\ \A p \in Providers \ {q} : b.state[p] = state[p] /\ b.cooled[p] = cooled[p]
      /\ state[q] \in {"closed", "open"} => b.state[q] \in {state[q], "open"}
      /\ state[q] = "half_open" => b.state[q] = "open"
      /\ b.state[q] = "open" => ~b.cooled[q]
      /\ state[q] = "closed" /\ b.state[q] = "open" => failures[q] + 1 = Threshold
      /\ \A p \in Providers \ {q} : b.failures[p] = failures[p]
      /\ b.failures[q] \in {failures[q], failures[q] + 1}
  BY <1>1, AfterFailureMoves
<1>5. GoOn(t, candidate[t] + 1, b, Record(t, outcome), calls[t])
  BY <1>2
<1>6. state[q] \in States
  BY <1>1, BreakersTyped
<1>. HIDE DEF q, b
<1>7. /\ \A p \in Providers :
           /\ state'[p] = "half_open" =>
                \/ b.state[p] = "half_open"
                \/ b.state[p] = "open" /\ b.cooled[p] /\ trial'[t] /\ ProviderOf(t)' = p
           /\ state'[p] # "half_open" => state'[p] = b.state[p]
      /\ \A u \in Tasks \ {t} : OwnState(u)' = OwnState(u)
      /\ \/ pc'[t] = "idle" /\ result'[t] = "failed" /\ trial'[t] = FALSE
         \/ pc'[t] = "calling" /\ candidate'[t] >= candidate[t] + 1
  <2>1. PICK i \in 1 .. Len(Route) + 1 : i = candidate[t] + 1
    BY <1>3
  <2>2. PICK records : records = Record(t, outcome)
    OBVIOUS
  <2>3. GoOn(t, i, b, records, calls[t])
    BY <1>5, <2>1, <2>2
  <2>4. TypeOK /\ b.state \in [Providers -> States]
    BY <1>1, <1>4
  <2>5. /\ \A p \in Providers :
             /\ state'[p] = "half_open" =>
                  \/ b.state[p] = "half_open"
                  \/ b.state[p] = "open" /\ b.cooled[p] /\ trial'[t] /\ ProviderOf(t)' = p
             /\ state'[p] # "half_open" => state'[p] = b.state[p]
        /\ \A u \in Tasks \ {t} : OwnState(u)' = OwnState(u)
        /\ \/ pc'[t] = "idle" /\ result'[t] = "failed" /\ trial'[t] = FALSE
           \/ pc'[t] = "calling" /\ candidate'[t] >= i
    BY <2>3, <2>4, GoOnBreakers
  <2>. QED
    BY <2>1, <2>5
<1>8. b.state[q] \in {"closed", "open"}
  BY <1>4, <1>6 DEF States
<1>9. state'[q] # "half_open"
  BY <1>1, <1>4, <1>7, <1>8
<1>10. \A p \in Providers :
         /\ state'[p] = "closed" => state[p] = "closed"
         /\ state'[p] = "open" =>
              \/ state[p] = "open"
              \/ p = q /\ (state[p] = "closed" => failures[p] + 1 = Threshold)
         /\ state'[p] = "half_open" =>
              \/ state[p] = "half_open"
              \/ state[p] = "open" /\ cooled[p] /\ trial'[t] /\ ProviderOf(t)' = p
  <2>. TAKE p \in Providers
  <2>1. CASE p = q
    BY <1>4, <1>6, <1>7, <1>8, <1>9, <2>1 DEF States
  <2>2. CASE p # q
    <3>1. b.state[p] = state[p] /\ b.cooled[p] = cooled[p]
      BY <1>4, <2>2
    <3>. QED
      BY <1>7, <2>2, <3>1
  <2>. QED
    BY <2>1, <2>2
<1>11. GivenUp(t)
  BY <1>1, <1>3, <1>7 DEF GivenUp
<1>12. pc'[t] = "idle" => trial'[t] = FALSE
  BY <1>7
<1>13. failures' = b.failures
  BY <1>5 DEF GoOn
<1>14. \A p \in Providers : failures'[p] # failures[p] =>
         p = q /\ failures'[p] = failures[p] + 1
  BY <1>1, <1>4, <1>13
<1>. QED
  BY <1>7, <1>9, <1>10, <1>11, <1>12, <1>14 DEF q

\* A request that starts changes a breaker only by claiming its trial.
LEMMA Starting ==
  ASSUME RoutingInv, NEW t \in Tasks, Start(t)
  PROVE  /\ pc[t] = "idle" /\ (pc'[t] = "idle" => trial'[t] = FALSE)
         /\ failures' = failures
         /\ \A u \in Tasks \ {t} : OwnState(u)' = OwnState(u)
         /\ \A p \in Providers :
              /\ state'[p] # "half_open" => state'[p] = state[p]
              /\ state'[p] = "half_open" =>
                   \/ state[p] = "half_open"
                   \/ state[p] = "open" /\ cooled[p] /\ trial'[t] /\ ProviderOf(t)' = p
<1>1. TypeOK /\ BreakersOK(Unchanged)
  BY DEF RoutingInv
<1>2. 1 \in 1 .. Len(Route) + 1 /\ GoOn(t, 1, Unchanged, <<>>, 0) /\ pc[t] = "idle"
  BY RouteTyped DEF Start
<1>3. Unchanged.state \in [Providers -> States]
  BY <1>1, BreakersTyped, UnchangedFields
<1>4. PICK b : b = Unchanged
  OBVIOUS
<1>5. b.state = state /\ b.cooled = cooled /\ b.state \in [Providers -> States]
      /\ GoOn(t, 1, b, <<>>, 0)
  BY <1>2, <1>3, <1>4, UnchangedFields
<1>6. /\ \A p \in Providers :
           /\ state'[p] = "half_open" =>
                \/ b.state[p] = "half_open"
                \/ b.state[p] = "open" /\ b.cooled[p] /\ trial'[t] /\ ProviderOf(t)' = p
           /\ state'[p] # "half_open" => state'[p] = b.state[p]
      /\ \A u \in Tasks \ {t} : OwnState(u)' = OwnState(u)
      /\ \/ pc'[t] = "idle" /\ result'[t] = "failed" /\ trial'[t] = FALSE
         \/ pc'[t] = "calling" /\ candidate'[t] >= 1
  BY <1>1, <1>2, <1>5, GoOnBreakers
<1>7. failures' = failures
  BY <1>2, UnchangedFields DEF GoOn
<1>. QED
  BY <1>2, <1>5, <1>6, <1>7

\* Trials are of busy tasks, in every step.
LEMMA TrialsBusyKept == RoutingInv /\ TrialsBusy /\ [Next]_vars => TrialsBusy'
<1>. SUFFICES ASSUME RoutingInv, TrialsBusy, [Next]_vars, NEW t \in Tasks, trial'[t]
              PROVE  pc'[t] # "idle"
  BY DEF TrialsBusy
<1>1. TypeOK
  BY DEF RoutingInv
<1>2. CASE OwnState(t)' = OwnState(t)
  BY <1>2 DEF OwnState, TrialsBusy
<1>3. CASE UNCHANGED vars
  BY <1>2, <1>3 DEF vars, task, OwnState
<1>4. CASE \E p \in Providers : CoolDown(p)
  BY <1>2, <1>4 DEF CoolDown, task, OwnState
<1>5. ASSUME NEW u \in Tasks, Start(u) \/ Proceed(u) \/ Cancelled(u) PROVE pc'[t] # "idle"
  <2>1. CASE u # t
    BY <1>1, <1>2, <1>5, <2>1, StepIsOwn
  <2>2. CASE u = t
    BY <1>1, <1>5, <2>2, Starting, GivingUp, TrialsOf DEF Proceed
  <2>. QED
    BY <2>1, <2>2
<1>. QED
  BY <1>3, <1>4, <1>5 DEF Next

\* Stragglers, fallbacks and trials of any number of requests move a breaker only
\* as the class says: closed to open at the threshold, open to half-open with a
\* trial after the cooldown, closed by an answer, opened by a failure.  What they
\* count is the candidates that failed.
THEOREM VerdictsMoveBreakers == Spec => BreakerFollowsVerdicts
<1>1. RoutingInv /\ [Next]_vars => BreakerTransitions
  <2>. SUFFICES ASSUME RoutingInv, [Next]_vars, NEW p \in Providers
                PROVE
    /\ state'[p] = "closed" =>
         state[p] = "closed" \/ \E t \in Tasks : ProviderOf(t) = p /\ Answered(t)
    /\ state'[p] = "open" =>
         \/ state[p] = "open"
         \/ /\ \E t \in Tasks : ProviderOf(t) = p /\ GivenUp(t)
            /\ state[p] = "closed" => failures[p] + 1 = Threshold
    /\ state'[p] = "half_open" =>
         state[p] = "half_open" \/ (state[p] = "open" /\ cooled[p] /\ HasTrial(p)')
    BY DEF BreakerTransitions
  <2>0. TypeOK
    BY DEF RoutingInv
  <2>1. CASE state' = state
    BY <2>1
  <2>2. CASE UNCHANGED vars
    BY <2>1, <2>2 DEF vars, breaker
  <2>3. CASE \E q \in Providers : CoolDown(q)
    BY <2>1, <2>3 DEF CoolDown
  <2>4. ASSUME NEW t \in Tasks, Start(t)
        PROVE  /\ state'[p] # "half_open" => state'[p] = state[p]
               /\ state'[p] = "half_open" =>
                    state[p] = "half_open" \/ (state[p] = "open" /\ cooled[p] /\ HasTrial(p)')
    <3>1. /\ state'[p] # "half_open" => state'[p] = state[p]
          /\ state'[p] = "half_open" =>
               \/ state[p] = "half_open"
               \/ state[p] = "open" /\ cooled[p] /\ trial'[t] /\ ProviderOf(t)' = p
      BY <2>4, Starting
    <3>2. trial'[t] /\ ProviderOf(t)' = p => HasTrial(p)'
      BY DEF HasTrial
    <3>. QED
      BY <3>1, <3>2
  <2>5. ASSUME NEW t \in Tasks, CandidateFails(t)
        PROVE  /\ state'[p] = "closed" => state[p] = "closed"
               /\ state'[p] = "open" =>
                    \/ state[p] = "open"
                    \/ /\ ProviderOf(t) = p /\ GivenUp(t)
                       /\ state[p] = "closed" => failures[p] + 1 = Threshold
               /\ state'[p] = "half_open" =>
                    state[p] = "half_open" \/ (state[p] = "open" /\ cooled[p] /\ HasTrial(p)')
    BY <2>5, GivingUp DEF HasTrial
  <2>6. ASSUME NEW t \in Tasks, AttemptSucceeds(t)
        PROVE  /\ state'[p] = state[p] \/ state'[p] = "closed"
               /\ state'[p] # state[p] => ProviderOf(t) = p /\ Answered(t)
    <3>1. /\ state' = [state EXCEPT ![ProviderOf(t)] = "closed"]
          /\ pc[t] = "calling" /\ pc' = [pc EXCEPT ![t] = "idle"]
          /\ result' = [result EXCEPT ![t] = "success"]
      BY <2>6 DEF AttemptSucceeds, RecordSuccess, Leave
    <3>2. Answered(t)
      BY <2>0, <3>1 DEF Answered, TypeOK
    <3>3. ProviderOf(t) # p => state'[p] = state[p]
      BY <2>0, <3>1 DEF TypeOK
    <3>4. ProviderOf(t) = p => state'[p] = "closed"
      BY <2>0, <3>1 DEF TypeOK
    <3>. QED
      BY <3>2, <3>3, <3>4
  <2>7. ASSUME NEW t \in Tasks,
               AttemptRetries(t) \/ AttemptRaises(t) \/ Wake(t) \/ Cancelled(t)
        PROVE  state' = state
    BY <2>7 DEF AttemptRetries, AttemptRaises, Wake, Cancelled, breaker
  <2>. QED
    BY <2>1, <2>2, <2>3, <2>4, <2>5, <2>6, <2>7 DEF Next, Proceed
<1>2. RoutingInv /\ [Next]_vars => CountTransitions
  <2>. SUFFICES ASSUME RoutingInv, [Next]_vars, NEW p \in Providers,
                       failures'[p] # failures[p]
                PROVE
    \/ failures'[p] = failures[p] + 1 /\ \E t \in Tasks : ProviderOf(t) = p /\ GivenUp(t)
    \/ failures'[p] = 0 /\ \E t \in Tasks : ProviderOf(t) = p /\ Answered(t)
    BY DEF CountTransitions
  <2>0. TypeOK
    BY DEF RoutingInv
  <2>1. ~(UNCHANGED vars) /\ ~(\E q \in Providers : CoolDown(q))
    BY DEF vars, breaker, CoolDown
  <2>2. ASSUME NEW t \in Tasks, Start(t) PROVE FALSE
    BY <2>2, Starting
  <2>3. ASSUME NEW t \in Tasks, CandidateFails(t)
        PROVE  failures'[p] = failures[p] + 1 /\ ProviderOf(t) = p /\ GivenUp(t)
    BY <2>3, GivingUp
  <2>4. ASSUME NEW t \in Tasks, AttemptSucceeds(t)
        PROVE  failures'[p] = 0 /\ ProviderOf(t) = p /\ Answered(t)
    <3>1. /\ failures' = [failures EXCEPT ![ProviderOf(t)] = 0]
          /\ pc[t] = "calling" /\ pc' = [pc EXCEPT ![t] = "idle"]
          /\ result' = [result EXCEPT ![t] = "success"]
      BY <2>4 DEF AttemptSucceeds, RecordSuccess, Leave
    <3>2. Answered(t)
      BY <2>0, <3>1 DEF Answered, TypeOK
    <3>3. ProviderOf(t) = p /\ failures'[p] = 0
      BY <2>0, <3>1 DEF TypeOK
    <3>. QED
      BY <3>2, <3>3
  <2>5. ASSUME NEW t \in Tasks,
               AttemptRetries(t) \/ AttemptRaises(t) \/ Wake(t) \/ Cancelled(t)
        PROVE  FALSE
    BY <2>5 DEF AttemptRetries, AttemptRaises, Wake, Cancelled, breaker
  <2>. QED
    BY <2>1, <2>2, <2>3, <2>4, <2>5 DEF Next, Proceed
<1>. QED
  BY <1>1, <1>2, RoutingInvariant, PTL DEF Spec, BreakerFollowsVerdicts

\* A half-open breaker is left without the trial it waits for in one way only, the
\* one HalfOpenHasTrial's counterexample takes: the trial's request is cancelled,
\* or its adapter breaks the contract.  Stragglers, retries and other requests
\* never take it away.
THEOREM TrialsLostByEscape == Spec => TrialsOnlyEscape
<1>1. Init => TrialsBusy
  BY DEF Init, TrialsBusy
<1>2. RoutingInv /\ TrialsBusy /\ [Next]_vars => TrialLostOnlyByEscape
  <2>. SUFFICES ASSUME RoutingInv, TrialsBusy, [Next]_vars, NEW p \in Providers,
                       state[p] = "half_open", state'[p] = "half_open",
                       NEW t \in Tasks, trial[t], ProviderOf(t) = p
                PROVE  HasTrial(p)' \/ (trial[t] /\ ProviderOf(t) = p /\ Escaped(t))
    BY DEF TrialLostOnlyByEscape, HasTrial
  <2>0. TypeOK /\ pc[t] # "idle"
    BY DEF RoutingInv, TrialsBusy
  <2>1. ASSUME trial'[t] = trial[t], candidate'[t] = candidate[t] PROVE HasTrial(p)'
    BY <2>1 DEF HasTrial, ProviderOf
  <2>2. ASSUME OwnState(t)' = OwnState(t) PROVE HasTrial(p)'
    BY <2>1, <2>2 DEF OwnState
  <2>3. CASE UNCHANGED vars
    BY <2>2, <2>3 DEF vars, task, OwnState
  <2>4. CASE \E q \in Providers : CoolDown(q)
    BY <2>2, <2>4 DEF CoolDown, task, OwnState
  <2>5. ASSUME NEW u \in Tasks, u # t, Start(u) \/ Proceed(u) \/ Cancelled(u)
        PROVE  HasTrial(p)'
    BY <2>0, <2>2, <2>5, StepIsOwn
  <2>6. ASSUME Start(t) PROVE FALSE
    BY <2>0, <2>6 DEF Start
  <2>7. ASSUME CandidateFails(t) PROVE FALSE
    BY <2>7, GivingUp
  <2>8. ASSUME AttemptSucceeds(t) PROVE FALSE
    <3>1. state' = [state EXCEPT ![p] = "closed"]
      BY <2>8 DEF AttemptSucceeds, RecordSuccess
    <3>. QED
      BY <2>0, <3>1 DEF TypeOK
  <2>9. ASSUME AttemptRetries(t) \/ Wake(t) PROVE HasTrial(p)'
    BY <2>1, <2>9 DEF AttemptRetries, Wake
  <2>10. ASSUME AttemptRaises(t) \/ Cancelled(t) PROVE Escaped(t)
    <3>1. PICK how \in {"raised", "cancelled"} : Leave(t, how)
      BY <2>10 DEF AttemptRaises, Cancelled
    <3>2. pc'[t] = "idle" /\ result'[t] = how
      BY <2>0, <3>1 DEF Leave, TypeOK
    <3>. QED
      BY <2>0, <3>2 DEF Escaped
  <2>. QED
    BY <2>3, <2>4, <2>5, <2>6, <2>7, <2>8, <2>9, <2>10 DEF Next, Proceed
<1>. QED
  BY <1>1, <1>2, TrialsBusyKept, RoutingInvariant, PTL DEF Spec, TrialsOnlyEscape

\* A task becomes a breaker's trial in one way only: by the step that takes the
\* breaker from open and cooled to half-open.
TrialsBegin ==
  \A p \in Providers, t \in Tasks :
    trial'[t] /\ ProviderOf(t)' = p /\ ~(trial[t] /\ ProviderOf(t) = p) =>
      state[p] = "open" /\ cooled[p] /\ state'[p] = "half_open"

\* A task that goes on is a trial only of a breaker that was open and cooled.
LEMMA GoOnClaims ==
  ASSUME TypeOK, NEW t \in Tasks, NEW i \in 1 .. Len(Route) + 1,
         NEW b, b.state \in [Providers -> States], NEW records, NEW made,
         GoOn(t, i, b, records, made)
  PROVE  \A q \in Providers : trial'[t] /\ ProviderOf(t)' = q =>
           b.state[q] = "open" /\ b.cooled[q] /\ state'[q] = "half_open"
<1>1. CASE Moved(t, "idle", 1, 0, "failed", FALSE) /\ state' = b.state
  <2>1. trial'[t] = FALSE
    BY <1>1, MovedOwn
  <2>. QED
    BY <2>1
<1>2. ASSUME NEW n \in i .. Len(Route), NEW p \in Providers,
             Moved(t, "calling", n, 1, "none", b.state[p] = "open"),
             p = Route[n].provider, Allows(b.state[p], b.cooled[p]),
             state' = [b.state EXCEPT ![p] = IF b.state[p] = "open" THEN "half_open" ELSE b.state[p]]
      PROVE  /\ ProviderOf(t)' = p
             /\ trial'[t] => b.state[p] = "open" /\ b.cooled[p] /\ state'[p] = "half_open"
  <2>1. candidate'[t] = n /\ trial'[t] = (b.state[p] = "open")
    BY <1>2, MovedOwn
  <2>2. ProviderOf(t)' = p
    BY <1>2, <2>1 DEF ProviderOf
  <2>3. b.state[p] = "open" => b.cooled[p] /\ state'[p] = "half_open"
    BY <1>2 DEF Allows
  <2>. QED
    BY <2>1, <2>2, <2>3
<1>3. \/ Moved(t, "idle", 1, 0, "failed", FALSE) /\ state' = b.state
      \/ \E n \in i .. Len(Route) : \E p \in Providers :
           /\ Moved(t, "calling", n, 1, "none", b.state[p] = "open")
           /\ p = Route[n].provider
           /\ Allows(b.state[p], b.cooled[p])
           /\ state' = [b.state EXCEPT ![p] = IF b.state[p] = "open" THEN "half_open" ELSE b.state[p]]
  BY GoOnMoves
<1>4. CASE ~(Moved(t, "idle", 1, 0, "failed", FALSE) /\ state' = b.state)
  <2>1. PICK p \in Providers :
          /\ ProviderOf(t)' = p
          /\ trial'[t] => b.state[p] = "open" /\ b.cooled[p] /\ state'[p] = "half_open"
    BY <1>2, <1>3, <1>4
  <2>. QED
    BY <2>1
<1>. QED
  BY <1>1, <1>4

\* No request joins the trial of a half-open breaker, and none is let through by
\* one that still cools down (should_allow): the second trial that AtMostOneTrial's
\* counterexample shows needs a straggler's verdict to take the breaker out of
\* half-open first.
THEOREM TrialsStartFromOpen == Spec => [][TrialsBegin]_vars
<1>1. RoutingInv /\ [Next]_vars => TrialsBegin
  <2>. SUFFICES ASSUME RoutingInv, [Next]_vars, NEW p \in Providers, NEW t \in Tasks,
                       trial'[t], ProviderOf(t)' = p, ~(trial[t] /\ ProviderOf(t) = p)
                PROVE  state[p] = "open" /\ cooled[p] /\ state'[p] = "half_open"
    BY DEF TrialsBegin
  <2>0. TypeOK /\ BreakersOK(Unchanged)
    BY DEF RoutingInv
  <2>1. ~(trial'[t] = trial[t] /\ candidate'[t] = candidate[t])
    BY DEF ProviderOf
  <2>2. OwnState(t)' # OwnState(t)
    BY <2>1 DEF OwnState
  <2>3. ~(UNCHANGED vars) /\ ~(\E q \in Providers : CoolDown(q))
    BY <2>2 DEF vars, task, CoolDown, OwnState
  <2>4. ~(\E u \in Tasks \ {t} : Start(u) \/ Proceed(u) \/ Cancelled(u))
    BY <2>0, <2>2, StepIsOwn
  <2>5. ~(AttemptSucceeds(t) \/ AttemptRetries(t) \/ AttemptRaises(t) \/ Wake(t) \/ Cancelled(t))
    BY <2>0, <2>1, TrialsOf
  <2>6. CASE Start(t)
    <3>1. 1 \in 1 .. Len(Route) + 1 /\ GoOn(t, 1, Unchanged, <<>>, 0)
      BY <2>6, RouteTyped DEF Start
    <3>2. Unchanged.state \in [Providers -> States]
      BY <2>0, BreakersTyped, UnchangedFields
    <3>3. PICK b : b = Unchanged
      OBVIOUS
    <3>4. b.state \in [Providers -> States] /\ GoOn(t, 1, b, <<>>, 0)
      BY <3>1, <3>2, <3>3
    <3>5. b.state[p] = "open" /\ b.cooled[p] /\ state'[p] = "half_open"
      <4>1. \A x \in Providers : trial'[t] /\ ProviderOf(t)' = x =>
              b.state[x] = "open" /\ b.cooled[x] /\ state'[x] = "half_open"
        BY <2>0, <3>1, <3>4, GoOnClaims
      <4>. QED
        BY <4>1
    <3>. QED
      BY <3>3, <3>5, UnchangedFields
  <2>7. CASE CandidateFails(t)
    <3>1. PICK q \in Providers : q = ProviderOf(t)
      BY <2>0, TaskTyped
    <3>2. PICK i \in 1 .. Len(Route) + 1 : i = candidate[t] + 1
      BY <2>0, TaskTyped, RouteTyped
    <3>3. PICK b : b = AfterFailure(q)
      OBVIOUS
    <3>4. PICK records : GoOn(t, i, b, records, calls[t])
      BY <2>7, <3>1, <3>2, <3>3 DEF CandidateFails
    <3>5. /\ b.state \in [Providers -> States]
          /\ \A x \in Providers \ {q} : b.state[x] = state[x] /\ b.cooled[x] = cooled[x]
          /\ b.state[q] = "open" => ~b.cooled[q]
      BY <2>0, <3>3, AfterFailureMoves
    <3>6. b.state[p] = "open" /\ b.cooled[p] /\ state'[p] = "half_open"
      <4>1. b.state \in [Providers -> States]
        BY <3>5
      <4>2. \A x \in Providers : trial'[t] /\ ProviderOf(t)' = x =>
              b.state[x] = "open" /\ b.cooled[x] /\ state'[x] = "half_open"
        BY <2>0, <3>4, <4>1, GoOnClaims
      <4>. QED
        BY <4>2
    <3>7. p # q
      BY <3>5, <3>6
    <3>. QED
      BY <3>5, <3>6, <3>7
  <2>. QED
    BY <2>3, <2>4, <2>5, <2>6, <2>7 DEF Next, Proceed
<1>. QED
  BY <1>1, RoutingInvariant, PTL DEF Spec
=============================================================================
