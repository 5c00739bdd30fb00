------------------------ MODULE PromptVersionsProofs ------------------------
(***************************************************************************)
(* Proofs about prompt versions, for any number of operators and versions: *)
(* what an operator read may be stale, and the constraints of the table    *)
(* still keep numbers dense, statuses going forward and times in order.    *)
(***************************************************************************)
EXTENDS PromptVersions, FiniteSetTheorems, TLAPS

\* Numbers run from 1 to the last one.
Dense == \E n \in 0 .. NumVersions : Created = 1 .. n

\* Rows satisfy the CHECKs and are of the past.
RowsInv ==
  \A v \in Created :
    Consistent(versions[v]) /\ versions[v].approvedAt <= now /\ versions[v].retiredAt <= now

\* What an operator read was true once: the version it means exists, or was
\* the next one, and the clock has not gone back.
ReadsInv ==
  \A o \in Operators :
    /\ doing[o].command \in {"approve", "retire"} =>
         doing[o].version \in Created /\ doing[o].readAt <= now
    /\ doing[o].command = "create" => doing[o].version - 1 \in Created \cup {0}

VersionsInv == TypeOK /\ Dense /\ RowsInv /\ ReadsInv

-----------------------------------------------------------------------------
\* The types, with the table as a function on the versions created
LEMMA VersionsTyped ==
  /\ TypeOK <=> /\ versions \in [Created -> Rows] /\ Created \subseteq Versions
                /\ now \in 1 .. Horizon /\ doing \in [Operators -> Commands]
  BY DEF TypeOK, Created

\* The commands of operators
LEMMA CommandsTyped ==
  ASSUME NEW c \in Commands
  PROVE  /\ c.command \in {"none", "create", "approve", "retire"}
         /\ c.command # "none" => c.version \in Versions /\ c.readAt \in 1 .. Horizon
<1>1. CASE c = NoCommand
  BY <1>1 DEF NoCommand
<1>2. CASE c \in [command: {"create", "approve", "retire"}, version: Versions,
                  readAt: 1 .. Horizon]
  BY <1>2
<1>. QED
  BY <1>1, <1>2 DEF Commands

\* The last of dense numbers
LEMMA LastNumber == ASSUME NEW n \in Nat, n > 0 PROVE Max(1 .. n) = n
<1>1. n \in 1 .. n /\ \A y \in 1 .. n : n >= y
  OBVIOUS
<1>2. Max(1 .. n) \in 1 .. n /\ \A y \in 1 .. n : Max(1 .. n) >= y
  BY <1>1 DEF Max
<1>. QED
  BY <1>1, <1>2

\* The next number follows the last one.
LEMMA NextFollows == ASSUME Dense PROVE NextVersion - 1 \in Created \cup {0}
<1>1. PICK n \in Nat : Created = 1 .. n
  BY PromptVersionsAssumption DEF Dense
<1>2. CASE n = 0
  <2>1. Created = {}
    BY <1>1, <1>2
  <2>. QED
    BY <2>1 DEF NextVersion
<1>3. CASE n > 0
  <2>1. NextVersion = n + 1
    <3>1. 1 \in Created
      BY <1>1, <1>3
    <3>2. NextVersion = Max(Created) + 1
      BY <3>1 DEF NextVersion
    <3>. QED
      BY <1>1, <1>3, <3>2, LastNumber
  <2>. QED
    BY <1>1, <1>3, <2>1
<1>. QED
  BY <1>1, <1>2, <1>3

\* The initial state satisfies the invariant.
LEMMA VersionsInvInit == Init => VersionsInv
<1>. SUFFICES ASSUME Init PROVE VersionsInv
  OBVIOUS
<1>1. Created = {}
  BY DEF Init, Created
<1>2. NoCommand \in Commands /\ NoCommand.command = "none"
  BY DEF NoCommand, Commands
<1>3. TypeOK
  <2>1. versions \in [{} -> Rows]
    BY DEF Init
  <2>2. now \in 1 .. Horizon
    BY PromptVersionsAssumption DEF Init
  <2>. QED
    BY <1>2, <2>1, <2>2 DEF Init, TypeOK
<1>4. Dense
  BY <1>1, PromptVersionsAssumption DEF Dense
<1>. QED
  BY <1>1, <1>2, <1>3, <1>4 DEF VersionsInv, RowsInv, ReadsInv, Init

\* A step that leaves the table alone and forgets or makes a command
LEMMA TableStays ==
  ASSUME VersionsInv, UNCHANGED versions, now' \in 1 .. Horizon, now' >= now,
         doing' \in [Operators -> Commands], ReadsInv'
  PROVE  VersionsInv'
<1>1. UNCHANGED Created
  BY DEF Created
<1>2. TypeOK'
  BY DEF VersionsInv, TypeOK
<1>3. Dense'
  BY <1>1 DEF VersionsInv, Dense
<1>4. RowsInv'
  <2>1. SUFFICES ASSUME NEW v \in Created
                 PROVE  /\ Consistent(versions[v]) /\ versions[v].approvedAt <= now'
                        /\ versions[v].retiredAt <= now'
    BY <1>1 DEF RowsInv, Consistent
  <2>2. /\ Consistent(versions[v]) /\ versions[v].approvedAt <= now
        /\ versions[v].retiredAt <= now
    BY DEF VersionsInv, RowsInv
  <2>3. versions[v] \in Rows /\ now \in Nat
    BY VersionsTyped, PromptVersionsAssumption DEF VersionsInv
  <2>4. versions[v].approvedAt \in Nat /\ versions[v].retiredAt \in Nat
    BY <2>3, PromptVersionsAssumption DEF Rows
  <2>5. now' \in Nat
    BY PromptVersionsAssumption
  <2>. QED
    BY <2>2, <2>3, <2>4, <2>5
<1>. QED
  BY <1>2, <1>3, <1>4 DEF VersionsInv

\* An operator reads.
LEMMA ReadKeeps ==
  ASSUME VersionsInv, NEW o \in Operators, NEW c \in {"create", "approve", "retire"},
         NEW v \in Versions, Read(o, c, v),
         c = "create" => v - 1 \in Created \cup {0}, c # "create" => v \in Created
  PROVE  VersionsInv'
<1>1. now \in 1 .. Horizon /\ doing \in [Operators -> Commands] /\ now >= now /\ now <= now
  BY VersionsTyped, PromptVersionsAssumption DEF VersionsInv
<1>2. /\ doing' = [doing EXCEPT ![o] = [command |-> c, version |-> v, readAt |-> now]]
      /\ UNCHANGED <<versions, now>>
  BY DEF Read
<1>3. [command |-> c, version |-> v, readAt |-> now] \in Commands
  BY <1>1 DEF Commands
<1>4. doing' \in [Operators -> Commands]
  BY <1>1, <1>2, <1>3
<1>5. /\ doing'[o].command = c /\ doing'[o].version = v /\ doing'[o].readAt = now
      /\ \A u \in Operators \ {o} : doing'[u] = doing[u]
  BY <1>1, <1>2
<1>6. UNCHANGED Created
  BY <1>2 DEF Created
<1>7. ReadsInv'
  BY <1>1, <1>2, <1>5, <1>6 DEF VersionsInv, ReadsInv
<1>. QED
  BY <1>1, <1>2, <1>4, <1>7, TableStays

\* An operator is stopped before it writes.
LEMMA AbortKeeps == ASSUME VersionsInv, NEW o \in Operators, Abort(o) PROVE VersionsInv'
<1>1. now \in 1 .. Horizon /\ doing \in [Operators -> Commands] /\ now >= now
  BY VersionsTyped, PromptVersionsAssumption DEF VersionsInv
<1>2. doing' = [doing EXCEPT ![o] = NoCommand] /\ UNCHANGED <<versions, now>>
  BY DEF Abort
<1>3. NoCommand \in Commands /\ NoCommand.command = "none"
  BY DEF Commands, NoCommand
<1>4. /\ doing' \in [Operators -> Commands] /\ doing'[o].command = "none"
      /\ \A u \in Operators \ {o} : doing'[u] = doing[u]
  BY <1>1, <1>2, <1>3
<1>5. ReadsInv'
  BY <1>2, <1>4 DEF VersionsInv, ReadsInv, Created
<1>. QED
  BY <1>1, <1>2, <1>4, <1>5, TableStays

\* Time passes.
LEMMA TickKeeps == ASSUME VersionsInv, Tick PROVE VersionsInv'
<1>1. now \in 1 .. Horizon /\ now \in Nat /\ doing \in [Operators -> Commands]
  BY VersionsTyped, PromptVersionsAssumption DEF VersionsInv
<1>2. now' = now + 1 /\ now < Horizon /\ UNCHANGED <<versions, doing>>
  BY DEF Tick
<1>3. now' \in 1 .. Horizon /\ now' >= now
  BY <1>1, <1>2, PromptVersionsAssumption
<1>4. ReadsInv'
  <2>1. SUFFICES ASSUME NEW o \in Operators, doing[o].command \in {"approve", "retire"}
                 PROVE  doing[o].readAt <= now'
    BY <1>2 DEF VersionsInv, ReadsInv, Created
  <2>2. doing[o].readAt <= now
    BY <2>1 DEF VersionsInv, ReadsInv
  <2>3. doing[o] \in Commands /\ doing[o].command # "none"
    BY <1>1, <2>1
  <2>4. doing[o].readAt \in Nat
    BY <2>3, CommandsTyped, PromptVersionsAssumption
  <2>. QED
    BY <1>1, <1>2, <2>2, <2>4
<1>. QED
  BY <1>1, <1>2, <1>3, <1>4, TableStays

\* A version that was inserted is the next one, or was already there.
LEMMA InsertKeeps ==
  ASSUME VersionsInv, NEW o \in Operators, Insert(o)
  PROVE  /\ VersionsInv' /\ Created \subseteq DOMAIN versions'
         /\ \A v \in Created : versions'[v] = versions[v]
<1>. DEFINE v == doing[o].version
            draft == [status |-> "draft", approvedAt |-> 0, retiredAt |-> 0]
<1>1. /\ doing[o].command = "create" /\ UNCHANGED now
      /\ doing' = [doing EXCEPT ![o] = NoCommand]
      /\ versions' = IF v \in Created THEN versions
                     ELSE [w \in Created \cup {v} |->
                             IF w \in Created THEN versions[w] ELSE draft]
  BY DEF Insert
<1>2. /\ versions \in [Created -> Rows] /\ Created \subseteq Versions
      /\ now \in 1 .. Horizon /\ doing \in [Operators -> Commands]
  BY VersionsTyped DEF VersionsInv
<1>3. v \in Versions /\ v - 1 \in Created \cup {0}
  <2>1. doing[o] \in Commands /\ doing[o].command # "none"
    BY <1>1, <1>2
  <2>. QED
    BY <1>1, <2>1, CommandsTyped DEF VersionsInv, ReadsInv
<1>4. PICK n \in Nat : Created = 1 .. n /\ n <= NumVersions
  BY PromptVersionsAssumption DEF VersionsInv, Dense
<1>5. Created' = Created \cup {v}
  <2>1. CASE v \in Created
    BY <1>1, <2>1 DEF Created
  <2>2. CASE v \notin Created
    BY <1>1, <2>2 DEF Created
  <2>. QED
    BY <2>1, <2>2
<1>6. draft \in Rows /\ Consistent(draft) /\ draft.approvedAt = 0 /\ draft.retiredAt = 0
  BY PromptVersionsAssumption DEF Rows, Statuses, Consistent
<1>. HIDE DEF v, draft
<1>7. /\ \A w \in Created : versions'[w] = versions[w]
      /\ \A w \in Created' \ Created : versions'[w] = draft
  BY <1>1, <1>2, <1>5
<1>8. versions' \in [Created' -> Rows]
  BY <1>1, <1>2, <1>5, <1>6
<1>9. NoCommand \in Commands /\ NoCommand.command = "none"
  BY DEF Commands, NoCommand
<1>10. TypeOK'
  <2>1. Created' \subseteq Versions
    BY <1>2, <1>3, <1>5
  <2>. QED
    BY <1>1, <1>2, <1>8, <1>9, <2>1 DEF TypeOK
<1>11. Dense'
  <2>1. CASE v \in Created
    BY <1>5, <2>1 DEF VersionsInv, Dense
  <2>2. CASE v \notin Created
    <3>1. v \in Nat /\ v >= 1 /\ v <= NumVersions
      BY <1>3, PromptVersionsAssumption DEF Versions
    <3>2. v = n + 1
      BY <1>3, <1>4, <2>2, <3>1
    <3>3. Created' = 1 .. n + 1
      BY <1>4, <1>5, <3>2
    <3>4. n + 1 \in 0 .. NumVersions
      BY <1>4, <3>1, <3>2, PromptVersionsAssumption
    <3>. QED
      BY <3>3, <3>4 DEF Dense
  <2>. QED
    BY <2>1, <2>2
<1>12. RowsInv'
  <2>1. now \in Nat
    BY <1>2, PromptVersionsAssumption
  <2>2. SUFFICES ASSUME NEW w \in Created'
                 PROVE  /\ Consistent(versions'[w]) /\ versions'[w].approvedAt <= now
                        /\ versions'[w].retiredAt <= now
    BY <1>1 DEF RowsInv, Consistent
  <2>3. CASE w \in Created
    BY <1>7, <2>3 DEF VersionsInv, RowsInv
  <2>4. CASE w \notin Created
    BY <1>6, <1>7, <2>1, <2>4
  <2>. QED
    BY <2>3, <2>4
<1>13. ReadsInv'
  <2>1. /\ doing'[o].command = "none" /\ \A u \in Operators \ {o} : doing'[u] = doing[u]
        /\ Created \subseteq Created'
    BY <1>1, <1>2, <1>5, <1>9
  <2>. QED
    BY <1>1, <2>1 DEF VersionsInv, ReadsInv
<1>. QED
  BY <1>5, <1>7, <1>10, <1>11, <1>12, <1>13 DEF VersionsInv, Created

\* What a command makes of a row that it may write
LEMMA UpdateTyped ==
  ASSUME NEW x \in Rows, NEW c \in {"approve", "retire"}, NEW at \in 0 .. Horizon
  PROVE  /\ Update(x, c, at) \in Rows
         /\ Update(x, c, at).approvedAt \in {x.approvedAt, at}
         /\ Update(x, c, at).retiredAt \in {x.retiredAt, at}
  BY DEF Update, Rows, Statuses

\* Whatever was read, the row as it is now decides what is written.
LEMMA WriteKeeps ==
  ASSUME VersionsInv, NEW o \in Operators, Write(o)
  PROVE  /\ VersionsInv' /\ Created = DOMAIN versions'
         /\ \A w \in Created : TransitionAllowed(versions[w].status, versions'[w].status)
<1>. DEFINE v == doing[o].version
            c == doing[o].command
<1>1. /\ c \in {"approve", "retire"} /\ UNCHANGED now
      /\ doing' = [doing EXCEPT ![o] = NoCommand]
  BY DEF Write
<1>2. /\ versions \in [Created -> Rows] /\ Created \subseteq Versions
      /\ now \in 1 .. Horizon /\ now \in Nat /\ doing \in [Operators -> Commands]
  BY VersionsTyped, PromptVersionsAssumption DEF VersionsInv
<1>3. v \in Created /\ versions[v] \in Rows
  BY <1>1, <1>2 DEF VersionsInv, ReadsInv
<1>4. doing[o].readAt \in 1 .. Horizon
  <2>1. doing[o] \in Commands /\ doing[o].command # "none"
    BY <1>1, <1>2
  <2>. QED
    BY <2>1, CommandsTyped
<1>5. PICK at \in doing[o].readAt .. now :
        versions' = IF /\ TransitionAllowed(versions[v].status, Update(versions[v], c, at).status)
                       /\ Consistent(Update(versions[v], c, at))
                    THEN [versions EXCEPT ![v] = Update(versions[v], c, at)]
                    ELSE versions
  BY DEF Write
<1>6. at \in 0 .. Horizon /\ at \in Nat /\ at <= now
  BY <1>2, <1>4, PromptVersionsAssumption
<1>. DEFINE x == Update(versions[v], c, at)
<1>7. /\ x \in Rows /\ x.approvedAt \in {versions[v].approvedAt, at}
      /\ x.retiredAt \in {versions[v].retiredAt, at}
  BY <1>1, <1>3, <1>6, UpdateTyped
<1>. HIDE DEF v, c, x
<1>8. /\ \A w \in Created \ {v} : versions'[w] = versions[w]
      /\ Created' = Created /\ DOMAIN versions' = Created
      /\ \/ versions'[v] = versions[v]
         \/ /\ versions'[v] = x /\ Consistent(x)
            /\ TransitionAllowed(versions[v].status, x.status)
      /\ versions' \in [Created -> Rows]
  <2>1. CASE versions' = versions
    BY <1>2, <2>1 DEF Created
  <2>2. CASE /\ versions' = [versions EXCEPT ![v] = x] /\ Consistent(x)
             /\ TransitionAllowed(versions[v].status, x.status)
    BY <1>2, <1>3, <1>7, <2>2 DEF Created
  <2>. QED
    BY <1>5, <2>1, <2>2 DEF x
<1>9. NoCommand \in Commands /\ NoCommand.command = "none"
  BY DEF Commands, NoCommand
<1>10. TypeOK'
  BY <1>1, <1>2, <1>8, <1>9 DEF TypeOK
<1>11. Dense'
  BY <1>8 DEF VersionsInv, Dense
<1>12. RowsInv'
  <2>1. SUFFICES ASSUME NEW w \in Created
                 PROVE  /\ Consistent(versions'[w]) /\ versions'[w].approvedAt <= now
                        /\ versions'[w].retiredAt <= now
    BY <1>1, <1>8 DEF RowsInv, Consistent
  <2>2. /\ Consistent(versions[w]) /\ versions[w].approvedAt <= now
        /\ versions[w].retiredAt <= now
    BY DEF VersionsInv, RowsInv
  <2>3. CASE versions'[w] = versions[w]
    BY <2>2, <2>3
  <2>4. CASE versions'[w] # versions[w]
    <3>1. w = v /\ versions'[w] = x /\ Consistent(x)
      BY <1>8, <2>4
    <3>2. x.approvedAt <= now /\ x.retiredAt <= now
      BY <1>6, <1>7, <2>2, <3>1
    <3>. QED
      BY <3>1, <3>2
  <2>. QED
    BY <2>3, <2>4
<1>13. ReadsInv'
  <2>1. /\ doing'[o].command = "none" /\ \A u \in Operators \ {o} : doing'[u] = doing[u]
    BY <1>1, <1>2, <1>9
  <2>. QED
    BY <1>1, <1>8, <2>1 DEF VersionsInv, ReadsInv
<1>14. \A w \in Created : TransitionAllowed(versions[w].status, versions'[w].status)
  BY <1>8 DEF TransitionAllowed
<1>. QED
  BY <1>8, <1>10, <1>11, <1>12, <1>13, <1>14 DEF VersionsInv

\* Every step keeps the invariant.
LEMMA VersionsInvKept == VersionsInv /\ [Next]_vars => VersionsInv'
<1>1. ASSUME VersionsInv, NEW o \in Operators, ReadCreate(o) PROVE VersionsInv'
  <2>1. NextVersion \in Versions /\ Read(o, "create", NextVersion)
    BY <1>1 DEF ReadCreate
  <2>. QED
    BY <1>1, <2>1, NextFollows, ReadKeeps DEF VersionsInv
<1>2. ASSUME VersionsInv, NEW o \in Operators, NEW v \in Created,
             ReadApprove(o, v) \/ ReadRetire(o, v)
      PROVE  VersionsInv'
  <2>1. PICK c \in {"approve", "retire"} : Read(o, c, v)
    BY <1>2 DEF ReadApprove, ReadRetire
  <2>2. v \in Versions
    BY <1>2, VersionsTyped DEF VersionsInv
  <2>. QED
    BY <1>2, <2>1, <2>2, ReadKeeps
<1>3. ASSUME VersionsInv, UNCHANGED vars PROVE VersionsInv'
  BY <1>3 DEF vars, VersionsInv, TypeOK, Dense, RowsInv, ReadsInv, Created, Consistent
<1>. QED
  BY <1>1, <1>2, <1>3, InsertKeeps, WriteKeeps, AbortKeeps, TickKeeps DEF Next

-----------------------------------------------------------------------------
(* What holds for any number of operators *)

\* VersionsInv holds in every reachable state.
THEOREM VersionsInvariant == Spec => []VersionsInv
  BY VersionsInvInit, VersionsInvKept, PTL DEF Spec

\* The table and the commands keep their types.
THEOREM VersionsTypeSafe == Spec => []TypeOK
<1>1. VersionsInv => TypeOK
  BY DEF VersionsInv
<1>. QED
  BY <1>1, VersionsInvariant, PTL

\* Concurrent creations leave no gap in the numbers.
THEOREM VersionNumbersDense == Spec => []NumbersDense
<1>1. VersionsInv => NumbersDense
  <2>1. SUFFICES ASSUME VersionsInv PROVE Created = 1 .. Cardinality(Created)
    BY DEF NumbersDense
  <2>2. PICK n \in Nat : Created = 1 .. n
    BY <2>1, PromptVersionsAssumption DEF VersionsInv, Dense
  <2>3. Cardinality(1 .. n) = IF 1 > n THEN 0 ELSE n - 1 + 1
    BY FS_Interval
  <2>4. Cardinality(1 .. n) = n
    BY <2>3
  <2>. QED
    BY <2>2, <2>4
<1>. QED
  BY <1>1, VersionsInvariant, PTL

\* The timestamps of a version are in order and not in the future.
THEOREM VersionTimestampsOrdered == Spec => []TimestampsOrdered
<1>1. VersionsInv => TimestampsOrdered
  BY DEF VersionsInv, RowsInv, Consistent, TimestampsOrdered
<1>. QED
  BY <1>1, VersionsInvariant, PTL

\* A version never goes back and never disappears.
THEOREM VersionsGoForward == Spec => LifecycleForward
<1>. DEFINE Forward ==
       /\ Created \subseteq DOMAIN versions'
       /\ \A v \in Created :
            <<versions[v].status, versions'[v].status>> \in
              {<<s, s>> : s \in Statuses} \cup
              {<<"draft", "approved">>, <<"approved", "retired">>}
<1>1. VersionsInv => \A v \in Created : versions[v].status \in Statuses
  BY VersionsTyped DEF VersionsInv, Rows
<1>2. ASSUME VersionsInv, UNCHANGED versions PROVE Forward
  BY <1>1, <1>2 DEF Created
<1>3. ASSUME VersionsInv, NEW o \in Operators, Insert(o) PROVE Forward
  BY <1>1, <1>3, InsertKeeps
<1>4. ASSUME VersionsInv, NEW o \in Operators, Write(o) PROVE Forward
  BY <1>1, <1>4, WriteKeeps DEF TransitionAllowed
<1>5. VersionsInv /\ Next => Forward \/ UNCHANGED versions
  BY <1>3, <1>4 DEF Next, ReadCreate, ReadApprove, ReadRetire, Read, Abort, Tick
<1>6. VersionsInv /\ [Next]_vars => [Forward]_vars
  BY <1>2, <1>5 DEF vars
<1>. QED
  BY <1>6, VersionsInvariant, PTL DEF Spec, LifecycleForward

-----------------------------------------------------------------------------
(* What a stale command may still do to a version *)

\* An operator's command c on version v is decided by this step.
Deciding(c, v) ==
  \E o \in Operators :
    doing[o].command = c /\ doing[o].version = v /\ doing'[o] = NoCommand

\* What a step may make of a row x of version v.
RowHistory(v, x, y) ==
  /\ y.approvedAt # x.approvedAt =>
       /\ x.status # "retired" /\ y.status = "approved"
       /\ y.approvedAt # 0 /\ y.retiredAt = x.retiredAt /\ Deciding("approve", v)
  /\ y.retiredAt # x.retiredAt =>
       /\ x.status # "draft" /\ y.status = "retired"
       /\ y.retiredAt # 0 /\ y.approvedAt = x.approvedAt /\ Deciding("retire", v)
  /\ y.status # x.status =>
       y.approvedAt # x.approvedAt \/ y.retiredAt # x.retiredAt

HistoryKept == \A v \in Created : RowHistory(v, versions[v], versions'[v])

\* The row an UPDATE writes, whatever it finds
LEMMA UpdateRepeats ==
  ASSUME NEW x \in Rows, NEW c \in {"approve", "retire"}, NEW at \in 1 .. Horizon,
         Consistent(x), TransitionAllowed(x.status, Update(x, c, at).status),
         NEW v \in Versions, Deciding(c, v)
  PROVE  RowHistory(v, x, Update(x, c, at))
<1>. DEFINE y == Update(x, c, at)
<1>1. /\ at \in Nat /\ at # 0 /\ x.status \in Statuses
      /\ x.approvedAt \in Nat /\ x.retiredAt \in Nat
  BY PromptVersionsAssumption DEF Rows
<1>2. CASE c = "approve"
  <2>1. y.status = "approved" /\ y.approvedAt = at /\ y.retiredAt = x.retiredAt
    BY <1>2 DEF Update, Rows
  <2>2. x.status # "retired"
    BY <2>1 DEF TransitionAllowed
  <2>3. y.status # x.status => x.approvedAt = 0
    BY <1>1, <2>1, <2>2 DEF Statuses, Consistent
  <2>. QED
    BY <1>1, <1>2, <2>1, <2>2, <2>3 DEF RowHistory
<1>3. CASE c = "retire"
  <2>1. y.status = "retired" /\ y.retiredAt = at /\ y.approvedAt = x.approvedAt
    BY <1>3 DEF Update, Rows
  <2>2. x.status # "draft"
    BY <2>1 DEF TransitionAllowed
  <2>3. y.status # x.status => x.retiredAt = 0
    BY <1>1, <2>1 DEF Consistent
  <2>. QED
    BY <1>1, <1>3, <2>1, <2>2, <2>3 DEF RowHistory
<1>. QED
  BY <1>2, <1>3

\* A write repeats or makes a transition of its own version and of no other.
LEMMA WriteRepeats == ASSUME VersionsInv, NEW o \in Operators, Write(o) PROVE HistoryKept
<1>. DEFINE v == doing[o].version
            c == doing[o].command
<1>1. c \in {"approve", "retire"} /\ doing' = [doing EXCEPT ![o] = NoCommand]
  BY DEF Write
<1>2. /\ versions \in [Created -> Rows] /\ Created \subseteq Versions
      /\ now \in 1 .. Horizon /\ doing \in [Operators -> Commands]
  BY VersionsTyped DEF VersionsInv
<1>3. v \in Created /\ versions[v] \in Rows /\ Consistent(versions[v])
  BY <1>1, <1>2 DEF VersionsInv, ReadsInv, RowsInv
<1>4. doing[o].readAt \in 1 .. Horizon
  <2>1. doing[o] \in Commands /\ doing[o].command # "none"
    BY <1>1, <1>2
  <2>. QED
    BY <2>1, CommandsTyped
<1>5. Deciding(c, v)
  BY <1>1, <1>2 DEF Deciding
<1>6. PICK at \in doing[o].readAt .. now :
        versions' = IF /\ TransitionAllowed(versions[v].status, Update(versions[v], c, at).status)
                       /\ Consistent(Update(versions[v], c, at))
                    THEN [versions EXCEPT ![v] = Update(versions[v], c, at)]
                    ELSE versions
  BY DEF Write
<1>7. at \in 1 .. Horizon
  BY <1>2, <1>4, PromptVersionsAssumption
<1>. HIDE DEF v, c
<1>8. CASE versions' = versions
  BY <1>8 DEF HistoryKept, RowHistory
<1>9. CASE /\ versions' = [versions EXCEPT ![v] = Update(versions[v], c, at)]
           /\ TransitionAllowed(versions[v].status, Update(versions[v], c, at).status)
  <2>1. RowHistory(v, versions[v], Update(versions[v], c, at))
    BY <1>1, <1>2, <1>3, <1>5, <1>7, <1>9, UpdateRepeats
  <2>2. /\ versions'[v] = Update(versions[v], c, at)
        /\ \A w \in Created \ {v} : versions'[w] = versions[w]
    BY <1>2, <1>3, <1>9
  <2>3. \A w \in Created \ {v} : RowHistory(w, versions[w], versions'[w])
    BY <2>2 DEF RowHistory
  <2>. QED
    BY <2>1, <2>2, <2>3 DEF HistoryKept
<1>. QED
  BY <1>6, <1>8, <1>9

\* The half of the docstring of PromptVersion that the code does keep
\* (TimestampsFollowTransitions is the half it does not): however stale the
\* decisions, no timestamp is ever cleared, a retired version's approval is
\* fixed for good, no status changes without its timestamp, and only a command
\* that was decided for that very version rewrites the timestamp it sets.
THEOREM HistoryOnlyRepeats == Spec => [][HistoryKept]_vars
<1>1. ASSUME UNCHANGED versions PROVE HistoryKept
  BY <1>1 DEF HistoryKept, RowHistory
<1>2. ASSUME VersionsInv, NEW o \in Operators, Insert(o) PROVE HistoryKept
  BY <1>2, InsertKeeps DEF HistoryKept, RowHistory
<1>3. VersionsInv /\ Next => HistoryKept
  BY <1>1, <1>2, WriteRepeats DEF Next, ReadCreate, ReadApprove, ReadRetire, Read, Abort, Tick
<1>4. VersionsInv /\ [Next]_vars => [HistoryKept]_vars
  BY <1>3
<1>. QED
  BY <1>4, VersionsInvariant, PTL DEF Spec
=============================================================================
