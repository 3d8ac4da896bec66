-------------------------------- MODULE Team --------------------------------
(***************************************************************************)
(* BaseTeam of pkg/team/impl.go: the members, their leader, and the        *)
(* operations that add, remove, close and fork members, called by several  *)
(* goroutines.  Every method holds BaseTeam.mu while it works, but         *)
(* CloseMember closes the member after it has released the lock, ForkMember*)
(* clones between two critical sections, and Shutdown closes every member  *)
(* inside of one.                                                          *)
(*                                                                         *)
(* A Member is the record of its ID and ParentID; these never change.      *)
(* Every member is Closeable: for another one the call is skipped.         *)
(***************************************************************************)
EXTENDS Hierarchy

CONSTANTS Callers,   \* the goroutines that call the team
          MaxCalls   \* bound: the number of calls that change the team

ASSUME TeamAssumption == MaxCalls \in Nat
ASSUME FiniteAssumption == IsFiniteSet(Callers)

Members  == [id : Ids, parent : MaybeId]
NoMember == [id |-> NoId, parent |-> NoId]

VARIABLES members,  \* BaseTeam.members
          leader,   \* BaseTeam.leader
          op,       \* what each caller has left to do of its operation
          owed,     \* history: the times a Member joined and has not been
                    \* handed back (RemoveMember) or closed since
          calls     \* the number of calls begun, for the bound MaxCalls

vars == <<members, leader, op, owed, calls>>

Steps == {"idle", "close", "clone", "add", "shutdown"}
\* todo: the members to close, or the clone to add.
Operations == [step : Steps, todo : SUBSET Members]
Idle == [step |-> "idle", todo |-> {}]

TeamTypeOK ==
  /\ members \in [Ids -> Members \cup {NoMember}]
  /\ \A i \in Ids : members[i] # NoMember => members[i].id = i
  /\ leader \in Members \cup {NoMember}
  /\ op \in [Callers -> Operations]
  /\ owed \in [Members -> Int]
  /\ calls \in Nat

Init ==
  /\ members = [i \in Ids |-> NoMember]
  /\ leader = NoMember
  /\ op = [u \in Callers |-> Idle]
  /\ owed = [m \in Members |-> 0]
  /\ calls = 0

Present == {i \in Ids : members[i] # NoMember}
Parents == [i \in Present |-> members[i].parent]
InTeam  == {m \in Members : members[m.id] = m}

\* BaseTeam.mu: Shutdown is the one critical section of several steps.
Unlocked == \A u \in Callers : op[u].step # "shutdown"

Call(u) == op[u].step = "idle" /\ calls < MaxCalls /\ calls' = calls + 1
Continue(u, step, todo) == op' = [op EXCEPT ![u] = [step |-> step, todo |-> todo]]

-----------------------------------------------------------------------------

\* Mutant: the newcomer leads.
JoinLeads(m) ==
  /\ members[m.id] = NoMember /\ Accepts(Parents, m.id, m.parent)
  /\ members' = [members EXCEPT ![m.id] = m]
  /\ leader' = m
  /\ owed' = [owed EXCEPT ![m] = @ + 1]

\* Mutant: the parent is not validated.
JoinUnvalidated(m) ==
  /\ members[m.id] = NoMember
  /\ members' = [members EXCEPT ![m.id] = m]
  /\ leader' = IF leader = NoMember THEN m ELSE leader
  /\ owed' = [owed EXCEPT ![m] = @ + 1]

\* Mutant: the depth of the parent is compared with the limit.
JoinTooDeep(m) ==
  /\ members[m.id] = NoMember
  /\ \/ Accepts(Parents, m.id, m.parent)
     \/ \E path \in PathsOfLength(Parents, MaxMemberDepth) : path[MaxMemberDepth] = m.parent
  /\ members' = [members EXCEPT ![m.id] = m]
  /\ leader' = IF leader = NoMember THEN m ELSE leader
  /\ owed' = [owed EXCEPT ![m] = @ + 1]

\* The body of AddMember when it succeeds; when it fails nothing changes.
Join(m) ==
  /\ members[m.id] = NoMember
  /\ Accepts(Parents, m.id, m.parent)
  /\ members' = [members EXCEPT ![m.id] = m]
  /\ leader' = IF leader = NoMember THEN m ELSE leader
  /\ owed' = [owed EXCEPT ![m] = @ + 1]

\* Mutant: no election when the leader leaves.
LeaveUnled(m) ==
  members[m.id] = m /\ members' = [members EXCEPT ![m.id] = NoMember] /\ UNCHANGED leader

\* The new leader is the first that a range over the remaining map finds.
Leave(m) ==
  /\ members[m.id] = m
  /\ members' = [members EXCEPT ![m.id] = NoMember]
  /\ \/ leader.id # m.id /\ UNCHANGED leader
     \/ leader.id = m.id /\ leader' \in InTeam \ {m}
     \/ leader.id = m.id /\ InTeam = {m} /\ leader' = NoMember

AddMember(u) ==
  /\ Call(u) /\ Unlocked
  /\ \E m \in Members : Join(m)
  /\ UNCHANGED op

RemoveMember(u) ==
  /\ Call(u) /\ Unlocked
  /\ \E m \in InTeam : Leave(m) /\ owed' = [owed EXCEPT ![m] = @ - 1]
  /\ UNCHANGED op

-----------------------------------------------------------------------------

\* Mutant: the member stays in the map until it is closed.
CloseMemberInTeam(u) ==
  /\ Call(u) /\ Unlocked
  /\ \E m \in InTeam : Continue(u, "close", {m})
  /\ UNCHANGED <<members, leader, owed>>

CloseMember(u) ==
  /\ Call(u) /\ Unlocked
  /\ \E m \in InTeam : Leave(m) /\ Continue(u, "close", {m})
  /\ UNCHANGED owed

\* closer.Close(), outside of the lock.
CloseReturn(u) ==
  /\ op[u].step = "close"
  /\ \E m \in op[u].todo : owed' = [owed EXCEPT ![m] = @ - 1]
  /\ Continue(u, "idle", {})
  /\ UNCHANGED <<members, leader, calls>>

\* The checks under the read lock: the source is present, the new id is not.
ForkMember(u) ==
  /\ Call(u) /\ Unlocked
  /\ InTeam # {} /\ Present # Ids
  /\ Continue(u, "clone", {})
  /\ UNCHANGED <<members, leader, owed>>

\* Mutant: the error of CloneAgent is not looked at.
CloneErrorAdded(u) ==
  /\ op[u].step = "clone"
  /\ \/ Continue(u, "add", {NoMember})
     \/ \E m \in Members : Continue(u, "add", {m})
  /\ UNCHANGED <<members, leader, owed, calls>>

\* agent.CloneAgent: an error, or an agent.  The caller's options come after
\* WithID(newID): they may give it another id, and another parent than its
\* source has.
Clone(u) ==
  /\ op[u].step = "clone"
  /\ \/ Continue(u, "idle", {})
     \/ \E m \in Members : Continue(u, "add", {m})
  /\ UNCHANGED <<members, leader, owed, calls>>

\* AddMember(newAgent): it checks again, and may fail.
ForkAdd(u) ==
  /\ op[u].step = "add" /\ Unlocked
  /\ \E m \in op[u].todo :
       \/ Join(m)
       \/ /\ \/ members[m.id] # NoMember
             \/ ~Accepts(Parents, m.id, m.parent)
          /\ UNCHANGED <<members, leader, owed>>
  /\ Continue(u, "idle", {})
  /\ UNCHANGED calls

-----------------------------------------------------------------------------

\* Shutdown takes the lock and closes the members one by one.
Shutdown(u) ==
  /\ Call(u) /\ Unlocked
  /\ Continue(u, "shutdown", InTeam)
  /\ UNCHANGED <<members, leader, owed>>

ShutdownClose(u) ==
  /\ op[u].step = "shutdown"
  /\ \E m \in op[u].todo :
       /\ Continue(u, "shutdown", op[u].todo \ {m})
       /\ owed' = [owed EXCEPT ![m] = @ - 1]
  /\ UNCHANGED <<members, leader, calls>>

ShutdownReturn(u) ==
  /\ op[u].step = "shutdown" /\ op[u].todo = {}
  /\ members' = [i \in Ids |-> NoMember]
  /\ leader' = NoMember
  /\ Continue(u, "idle", {})
  /\ UNCHANGED <<owed, calls>>

Next ==
  \E u \in Callers :
    \/ AddMember(u) \/ RemoveMember(u)
    \/ CloseMember(u) \/ CloseReturn(u)
    \/ ForkMember(u) \/ Clone(u) \/ ForkAdd(u)
    \/ Shutdown(u) \/ ShutdownClose(u) \/ ShutdownReturn(u)

Spec == Init /\ [][Next]_vars

-----------------------------------------------------------------------------

\* The leader is a member, the very object the map holds, and a team with
\* members has one: no removal or shutdown leaves a leader who has left.
LeaderIsMember ==
  /\ leader # NoMember => leader \in InTeam
  /\ leader = NoMember => Present = {}

\* No order of adding, removing and re-adding members makes a member its own
\* ancestor, although an ancestor may leave and come back under another parent.
Acyclic == IsAcyclic(Parents)

\* A leader stays the leader until the team loses that member.
LeaderKeepsOffice ==
  [][leader # NoMember /\ leader' # leader => members'[leader.id] # leader]_vars

\* A member that joined is handed back or closed once for each time it
\* joined: CloseMember, RemoveMember and Shutdown called at once neither
\* close it twice nor forget it.
Closing(m) == Cardinality({u \in Callers : op[u].step = "close" /\ m \in op[u].todo})
ClosedByShutdown(m) == \E u \in Callers : op[u].step = "shutdown" /\ m \notin op[u].todo
ClosedOnce ==
  \A m \in Members :
    owed[m] = Closing(m) + (IF m \in InTeam /\ ~ClosedByShutdown(m) THEN 1 ELSE 0)

\* Depth is checked for a newcomer alone (impl.go:117).  A hierarchy deeper than
\* MaxMemberDepth, "the maximal depth of the member hierarchy" (validation.go:5),
\* comes about in one way only: a member returns, at a greater depth, to children
\* it had left behind.
TooDeep == \E k \in MaxMemberDepth + 1 .. Cardinality(Present) : PathsOfLength(Parents, k) # {}
OnlyReturnsDeepen ==
  [][~TooDeep /\ TooDeep' =>
       \E m \in InTeam' : m \notin InTeam /\ \E child \in InTeam : child.parent = m.id]_vars

=============================================================================
