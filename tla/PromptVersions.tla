--------------------------- MODULE PromptVersions ---------------------------
(***************************************************************************)
(* The versions of one prompt name: scripts/manage_prompt_versions.py,     *)
(* their only writer, and the triggers and constraints of the table.       *)
(*                                                                         *)
(* An operator's command reads, decides, takes a timestamp from its clock  *)
(* and then writes; other operators come in between.  Its UPDATE names the *)
(* row by its primary key only, so Postgres evaluates triggers and CHECKs  *)
(* on the row as it is then.  All clocks agree; a timestamp of 0 stands    *)
(* for NULL.                                                               *)
(***************************************************************************)
EXTENDS Integers, FiniteSets, FiniteSetsExt

CONSTANTS
  Operators,    \* runs of the command line tool
  NumVersions,  \* bound: create makes no more versions
  Horizon       \* bound: the clock stops there

ASSUME PromptVersionsAssumption ==
  /\ NumVersions \in Nat \ {0}
  /\ Horizon \in Nat \ {0}

Versions == 1 .. NumVersions
Statuses == {"draft", "approved", "retired"}

VARIABLES
  versions,  \* the table: a record for each version created
  now,
  doing      \* the command of each operator that has read and not yet written

vars == <<versions, now, doing>>

Rows == [status: Statuses, approvedAt: 0 .. Horizon, retiredAt: 0 .. Horizon]

NoCommand == [command |-> "none"]
Commands  == {NoCommand} \cup
             [command: {"create", "approve", "retire"}, version: Versions, readAt: 1 .. Horizon]

TypeOK ==
  /\ \E S \in SUBSET Versions : versions \in [S -> Rows]
  /\ now \in 1 .. Horizon
  /\ doing \in [Operators -> Commands]

Init ==
  /\ versions = [v \in {} |-> 0]
  /\ now = 1
  /\ doing = [o \in Operators |-> NoCommand]

-----------------------------------------------------------------------------
Created == DOMAIN versions

\* Mutant of NextVersion: (current_max or 1) + 1.
NextVersionFromOne == IF Created = {} THEN 2 ELSE Max(Created) + 1

\* _next_version
NextVersion == IF Created = {} THEN 1 ELSE Max(Created) + 1

\* prompt_versions_enforce_status_transition; an UPDATE that leaves the status
\* as it is passes.
TransitionAllowed(old, new) ==
  \/ new = old
  \/ old = "draft" /\ new = "approved"
  \/ old = "approved" /\ new = "retired"

\* Mutant of Consistent: no constraint compares the two timestamps.
ConsistentUnordered(x) ==
  /\ x.status = "draft" <=> x.approvedAt = 0
  /\ x.status = "retired" <=> x.retiredAt # 0

\* The CHECK constraints on status and timestamps.
Consistent(x) ==
  /\ x.status = "draft" <=> x.approvedAt = 0
  /\ x.status = "retired" <=> x.retiredAt # 0
  /\ x.retiredAt # 0 => x.retiredAt >= x.approvedAt

\* Mutant of Update: a clock in local time, ahead of UTC.
UpdateLocalTime(x, command, at) ==
  IF command = "approve"
  THEN [x EXCEPT !.status = "approved", !.approvedAt = at + 1]
  ELSE [x EXCEPT !.status = "retired", !.retiredAt = at + 1]

\* The columns the UPDATE of a command sets, on top of the row as it is now.
Update(x, command, at) ==
  IF command = "approve"
  THEN [x EXCEPT !.status = "approved", !.approvedAt = at]
  ELSE [x EXCEPT !.status = "retired", !.retiredAt = at]

\* Guards of cmd_approve and cmd_retire, on the row they read.
MayApprove(v) == versions[v].status = "draft"
MayRetire(v)  == versions[v].status = "approved"

-----------------------------------------------------------------------------
\* A command reads and decides to write.
Read(o, c, v) ==
  /\ doing[o] = NoCommand
  /\ doing' = [doing EXCEPT ![o] = [command |-> c, version |-> v, readAt |-> now]]
  /\ UNCHANGED <<versions, now>>

ReadCreate(o)     == NextVersion \in Versions /\ Read(o, "create", NextVersion)
ReadApprove(o, v) == MayApprove(v) /\ Read(o, "approve", v)
ReadRetire(o, v)  == MayRetire(v) /\ Read(o, "retire", v)

\* Mutant of Insert: an upsert in place of the unique constraint.
Upsert(o) ==
  LET v == doing[o].version IN
  /\ doing[o].command = "create"
  /\ doing' = [doing EXCEPT ![o] = NoCommand]
  /\ versions' = [w \in Created \cup {v} |->
                    IF w # v THEN versions[w]
                    ELSE [status |-> "draft", approvedAt |-> 0, retiredAt |-> 0]]
  /\ UNCHANGED now

\* The INSERT of cmd_create; the unique constraint on (name, version) makes the
\* second of two operators that read the same maximum fail.
Insert(o) ==
  LET v == doing[o].version IN
  /\ doing[o].command = "create"
  /\ doing' = [doing EXCEPT ![o] = NoCommand]
  /\ versions' = IF v \in Created THEN versions
                 ELSE [w \in Created \cup {v} |->
                        IF w \in Created THEN versions[w]
                        ELSE [status |-> "draft", approvedAt |-> 0, retiredAt |-> 0]]
  /\ UNCHANGED now

\* The UPDATE of cmd_approve or cmd_retire, unless a trigger or a CHECK rejects it.
\* Its timestamp was taken some time since the read.
Write(o) ==
  LET v == doing[o].version IN
  /\ doing[o].command \in {"approve", "retire"}
  /\ doing' = [doing EXCEPT ![o] = NoCommand]
  /\ \E at \in doing[o].readAt .. now :
       LET x == Update(versions[v], doing[o].command, at) IN
       versions' = IF TransitionAllowed(versions[v].status, x.status) /\ Consistent(x)
                   THEN [versions EXCEPT ![v] = x]
                   ELSE versions
  /\ UNCHANGED now

\* The tool is killed, or its connection lost, before it writes.
Abort(o) ==
  /\ doing[o] # NoCommand
  /\ doing' = [doing EXCEPT ![o] = NoCommand]
  /\ UNCHANGED <<versions, now>>

Tick ==
  /\ now < Horizon
  /\ now' = now + 1
  /\ UNCHANGED <<versions, doing>>

Next ==
  \/ \E o \in Operators :
       \/ ReadCreate(o) \/ Insert(o) \/ Write(o) \/ Abort(o)
       \/ \E v \in Created : ReadApprove(o, v) \/ ReadRetire(o, v)
  \/ Tick

Spec == Init /\ [][Next]_vars

-----------------------------------------------------------------------------
(***************************************************************************)
(* Properties.                                                             *)
(***************************************************************************)

\* The version numbers have no gaps, though operators create them at the same
\* time from a maximum they read earlier.
NumbersDense == Created = 1 .. Cardinality(Created)

\* A version moves from draft to approved to retired and never back, whatever
\* stale status or number the operators decided on; no version disappears.
LifecycleForward ==
  [][/\ Created \subseteq DOMAIN versions'
     /\ \A v \in Created :
          <<versions[v].status, versions'[v].status>> \in
            {<<s, s>> : s \in Statuses} \cup
            {<<"draft", "approved">>, <<"approved", "retired">>}]_vars

\* The timestamps on record tell a possible history: no retirement before the
\* approval, none of them in the future, though the clock was read before the
\* row was locked and a second approval may overwrite the first.
TimestampsOrdered ==
  \A v \in Created :
    LET x == versions[v] IN
    /\ x.approvedAt <= now /\ x.retiredAt <= now
    /\ x.status = "retired" => x.approvedAt <= x.retiredAt

\* What the model's docstring says: after creation only status transitions drive
\* the two timestamps.
TimestampsFollowTransitions ==
  [][\A v \in Created :
       versions'[v] # versions[v] => versions'[v].status # versions[v].status]_vars
=============================================================================
