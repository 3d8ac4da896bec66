----------------------------- MODULE TeamProofs -----------------------------
(* What AddMember, RemoveMember, CloseMember, ForkMember and Shutdown keep  *)
(* true of the team, for every number of ids, callers and every depth; and, *)
(* in the last part, that the loops of validation.go and of the queries,    *)
(* which Validation states step by step, come to the right results.         *)
EXTENDS Team, Validation, FiniteSetTheorems, WellFoundedInduction, TLAPS

\* Members are named by ids, the empty record is none of them.
LEMMA NoMemberIsNone == NoMember \notin Members /\ \A m \in Members : m.id \in Ids /\ m.id # NoId
BY HierarchyAssumption DEF NoMember, Members, MaybeId

-----------------------------------------------------------------------------
(* Types *)

\* A successful AddMember keeps the types.
LEMMA JoinType ==
  ASSUME TeamTypeOK, NEW m \in Members, Join(m)
  PROVE  /\ members' \in [Ids -> Members \cup {NoMember}]
         /\ \A i \in Ids : members'[i] # NoMember => members'[i].id = i
         /\ leader' \in Members \cup {NoMember}
         /\ owed' \in [Members -> Int]
BY NoMemberIsNone DEF TeamTypeOK, Join

\* So does taking a member out of the map.
LEMMA LeaveType ==
  ASSUME TeamTypeOK, NEW m \in Members, Leave(m)
  PROVE  /\ members' \in [Ids -> Members \cup {NoMember}]
         /\ \A i \in Ids : members'[i] # NoMember => members'[i].id = i
         /\ leader' \in Members \cup {NoMember}
BY NoMemberIsNone DEF TeamTypeOK, Leave, InTeam

LEMMA TypeInit == Init => TeamTypeOK
BY DEF Init, TeamTypeOK, Operations, Steps, Idle

LEMMA TypeStep == TeamTypeOK /\ [Next]_vars => TeamTypeOK'
<1>. SUFFICES ASSUME TeamTypeOK, [Next]_vars PROVE TeamTypeOK'
  OBVIOUS
<1>1. \A u \in Callers, step \in Steps, todo \in SUBSET Members :
        Continue(u, step, todo) => op' \in [Callers -> Operations]
  BY DEF TeamTypeOK, Continue, Operations
<1>2. \A u \in Callers : op[u].todo \subseteq Members
  BY DEF TeamTypeOK, Operations
<1>3. ASSUME NEW u \in Callers, AddMember(u) PROVE TeamTypeOK'
  BY <1>3, JoinType DEF AddMember, Call, TeamTypeOK
<1>4. ASSUME NEW u \in Callers, RemoveMember(u) PROVE TeamTypeOK'
  <2>1. PICK m \in Members : Leave(m) /\ owed' = [owed EXCEPT ![m] = @ - 1]
    BY <1>4 DEF RemoveMember, InTeam
  <2>. QED
    BY <1>4, <2>1, LeaveType DEF RemoveMember, Call, TeamTypeOK
<1>5. ASSUME NEW u \in Callers, CloseMember(u) PROVE TeamTypeOK'
  <2>1. PICK m \in Members : Leave(m) /\ Continue(u, "close", {m})
    BY <1>5 DEF CloseMember, InTeam
  <2>2. op' \in [Callers -> Operations]
    BY <2>1, <1>1 DEF Steps
  <2>. QED
    BY <1>5, <2>1, <2>2, LeaveType DEF CloseMember, Call, TeamTypeOK
<1>6. ASSUME NEW u \in Callers, CloseReturn(u) PROVE TeamTypeOK'
  <2>1. op' \in [Callers -> Operations]
    BY <1>6, <1>1 DEF CloseReturn, Steps
  <2>2. owed' \in [Members -> Int]
    BY <1>6, <1>2 DEF CloseReturn, TeamTypeOK
  <2>. QED
    BY <1>6, <2>1, <2>2 DEF CloseReturn, TeamTypeOK
<1>7. ASSUME NEW u \in Callers, ForkMember(u) PROVE TeamTypeOK'
  <2>1. op' \in [Callers -> Operations]
    BY <1>7, <1>1 DEF ForkMember, Steps
  <2>. QED
    BY <1>7, <2>1 DEF ForkMember, Call, TeamTypeOK
<1>8. ASSUME NEW u \in Callers, Clone(u) PROVE TeamTypeOK'
  <2>1. op' \in [Callers -> Operations]
    <3>1. CASE Continue(u, "idle", {})
      BY <3>1, <1>1 DEF Steps
    <3>2. ASSUME NEW m \in Members, Continue(u, "add", {m}) PROVE op' \in [Callers -> Operations]
      BY <3>2, <1>1 DEF Steps
    <3>. QED
      BY <1>8, <3>1, <3>2 DEF Clone
  <2>. QED
    BY <1>8, <2>1 DEF Clone, TeamTypeOK
<1>9. ASSUME NEW u \in Callers, ForkAdd(u) PROVE TeamTypeOK'
  <2>1. op' \in [Callers -> Operations]
    BY <1>9, <1>1 DEF ForkAdd, Steps
  <2>2. PICK m \in Members : Join(m) \/ UNCHANGED <<members, leader, owed>>
    BY <1>9, <1>2 DEF ForkAdd
  <2>3. CASE Join(m)
    BY <1>9, <2>1, <2>3, JoinType DEF ForkAdd, TeamTypeOK
  <2>4. CASE UNCHANGED <<members, leader, owed>>
    BY <1>9, <2>1, <2>4 DEF ForkAdd, TeamTypeOK
  <2>. QED
    BY <2>2, <2>3, <2>4
<1>10. ASSUME NEW u \in Callers, Shutdown(u) PROVE TeamTypeOK'
  <2>1. op' \in [Callers -> Operations]
    BY <1>10, <1>1 DEF Shutdown, Steps, InTeam
  <2>. QED
    BY <1>10, <2>1 DEF Shutdown, Call, TeamTypeOK
<1>11. ASSUME NEW u \in Callers, ShutdownClose(u) PROVE TeamTypeOK'
  <2>1. PICK m \in Members : /\ Continue(u, "shutdown", op[u].todo \ {m})
                             /\ owed' = [owed EXCEPT ![m] = @ - 1]
    BY <1>11, <1>2 DEF ShutdownClose
  <2>2. op' \in [Callers -> Operations]
    BY <2>1, <1>1, <1>2 DEF Steps
  <2>. QED
    BY <1>11, <2>1, <2>2 DEF ShutdownClose, TeamTypeOK
<1>12. ASSUME NEW u \in Callers, ShutdownReturn(u) PROVE TeamTypeOK'
  <2>1. op' \in [Callers -> Operations]
    BY <1>12, <1>1 DEF ShutdownReturn, Steps
  <2>. QED
    BY <1>12, <2>1 DEF ShutdownReturn, TeamTypeOK
<1>13. CASE UNCHANGED vars
  BY <1>13 DEF vars, TeamTypeOK
<1>. QED
  BY <1>3, <1>4, <1>5, <1>6, <1>7, <1>8, <1>9, <1>10, <1>11, <1>12, <1>13 DEF Next

\* The types hold in every reachable state.
THEOREM TeamTypeCorrect == Spec => []TeamTypeOK
  BY TypeInit, TypeStep, PTL DEF Spec

\* What a Join and a Leave do to the set of members.
LEMMA JoinAdds ==
  ASSUME TeamTypeOK, NEW m \in Members, Join(m)
  PROVE  m \notin InTeam /\ InTeam' = InTeam \cup {m}
BY NoMemberIsNone DEF TeamTypeOK, Join, InTeam

LEMMA LeaveTakes ==
  ASSUME TeamTypeOK, NEW m \in Members, Leave(m)
  PROVE  m \in InTeam /\ InTeam' = InTeam \ {m}
BY NoMemberIsNone DEF TeamTypeOK, Leave, InTeam

-----------------------------------------------------------------------------
(* The leader *)

\* What a step does to the members map and the leader.
LEMMA MembersStep ==
  ASSUME TeamTypeOK, [Next]_vars
  PROVE  \/ \E m \in Members : Join(m) \/ Leave(m)
         \/ \E u \in Callers : ShutdownReturn(u)
         \/ UNCHANGED <<members, leader>>
<1>1. \A u \in Callers : op[u].todo \subseteq Members
  BY DEF TeamTypeOK, Operations
<1>. QED
  BY <1>1 DEF Next, vars, AddMember, RemoveMember, CloseMember, CloseReturn, ForkMember, Clone,
     ForkAdd, Shutdown, ShutdownClose, InTeam

\* The members map with the leader, as the steps of Next treat the two.
LEMMA LeaderStep == TeamTypeOK /\ LeaderIsMember /\ [Next]_vars => LeaderIsMember'
<1>. SUFFICES ASSUME TeamTypeOK, LeaderIsMember, [Next]_vars PROVE LeaderIsMember'
  OBVIOUS
<1>. USE NoMemberIsNone
<1>1. ASSUME NEW m \in Members, Join(m) PROVE LeaderIsMember'
  BY <1>1 DEF Join, LeaderIsMember, InTeam, Present, TeamTypeOK
<1>2. ASSUME NEW m \in Members, Leave(m) PROVE LeaderIsMember'
  <2>1. leader # NoMember /\ leader \in InTeam
    BY <1>2 DEF Leave, LeaderIsMember, Present
  <2>2. CASE leader.id # m.id /\ UNCHANGED leader
    BY <1>2, <2>1, <2>2 DEF Leave, LeaderIsMember, InTeam, TeamTypeOK
  <2>3. CASE leader' \in InTeam \ {m}
    BY <1>2, <2>3 DEF Leave, LeaderIsMember, InTeam, TeamTypeOK
  <2>4. CASE InTeam = {m} /\ leader' = NoMember
    BY <1>2, <2>4 DEF Leave, LeaderIsMember, InTeam, Present, TeamTypeOK
  <2>. QED
    BY <1>2, <2>2, <2>3, <2>4 DEF Leave
<1>3. ASSUME NEW u \in Callers, ShutdownReturn(u) PROVE LeaderIsMember'
  BY <1>3 DEF ShutdownReturn, LeaderIsMember, Present
<1>4. ASSUME UNCHANGED <<members, leader>> PROVE LeaderIsMember'
  BY <1>4 DEF LeaderIsMember, InTeam, Present
<1>. QED
  BY <1>1, <1>2, <1>3, <1>4, MembersStep

\* A team with members is led by one of them, and only such a team is led.
THEOREM LeaderCorrect == Spec => []LeaderIsMember
<1>1. Init => LeaderIsMember
  BY DEF Init, LeaderIsMember, Present
<1>. QED
  BY <1>1, LeaderStep, TeamTypeCorrect, PTL DEF Spec

\* A leader is deposed only by a step that takes it out of the map.
THEOREM LeaderStays == Spec => LeaderKeepsOffice
<1>1. ASSUME TeamTypeOK, [Next]_vars
      PROVE  [leader # NoMember /\ leader' # leader => members'[leader.id] # leader]_vars
  <2>1. ASSUME NEW m \in Members, Join(m), leader # NoMember PROVE leader' = leader
    BY <2>1 DEF Join
  <2>2. ASSUME NEW m \in Members, Leave(m), leader # NoMember, leader' # leader
        PROVE  members'[leader.id] # leader
    <3>1. leader.id = m.id /\ m.id \in Ids /\ leader.id \in Ids
      BY <2>2, NoMemberIsNone DEF Leave
    <3>. QED
      BY <1>1, <2>2, <3>1, NoMemberIsNone DEF Leave, TeamTypeOK
  <2>3. ASSUME NEW u \in Callers, ShutdownReturn(u), leader # NoMember
        PROVE  members'[leader.id] # leader
    <3>1. leader.id \in Ids
      BY <1>1, <2>3, NoMemberIsNone DEF TeamTypeOK
    <3>. QED
      BY <2>3, <3>1 DEF ShutdownReturn
  <2>. QED
    BY <1>1, <2>1, <2>2, <2>3, MembersStep
<1>. QED
  BY <1>1, TeamTypeCorrect, PTL DEF Spec, LeaderKeepsOffice

-----------------------------------------------------------------------------
(* The hierarchy *)

\* The well-ordering of the naturals, for a set given as such.
LEMMA LeastOfNaturals ==
  ASSUME NEW T \in SUBSET Nat, T # {} PROVE \E i \in T : \A j \in T : i <= j
<1>. DEFINE Less == {ss \in Nat \X Nat : ss[1] < ss[2]}
<1>1. OpToRel(<, Nat) = Less
  BY Zenon DEF OpToRel
<1>2. \A i, j \in Nat : j < i => <<j, i>> \in Less
  OBVIOUS
<1>. HIDE DEF Less
<1>3. IsWellFoundedOn(Less, Nat)
  BY <1>1, NatLessThanWellFounded
<1>4. PICK i \in T : \A j \in T : <<j, i>> \notin Less
  BY <1>3, WFMin
<1>5. ASSUME NEW j \in T PROVE i <= j
  <2>1. i \in Nat /\ j \in Nat
    OBVIOUS
  <2>2. ~(j < i)
    BY <1>2, <1>4, <2>1, Zenon
  <2>. QED
    BY <2>1, <2>2
<1>. QED
  BY <1>5

\* A set that holds the last id of a lineage and, with an id, its parent,
\* would hold the parent of the top-level member.
LEMMA LineageLeaves ==
  ASSUME NEW above, NEW k \in Nat \ {0}, NEW path \in [1..k -> DOMAIN above],
         IsLineage(above, path), NEW S, NoId \notin S, path[k] \in S
  PROVE  \E i \in 1..k : path[i] \in S /\ above[path[i]] \notin S
<1>. DEFINE T == {i \in 1..k : path[i] \in S}
<1>1. T \in SUBSET Nat /\ T # {}
  OBVIOUS
<1>2. PICK i \in T : \A j \in T : i <= j
  BY <1>1, LeastOfNaturals
<1>3. Len(path) = k
  OBVIOUS
<1>4. CASE i = 1
  BY <1>4 DEF IsLineage
<1>5. CASE i # 1
  <2>1. i \in 2..k /\ i - 1 \in 1..k /\ i - 1 \notin T
    BY <1>2, <1>5
  <2>2. above[path[i]] = path[i - 1]
    BY <2>1, <1>3 DEF IsLineage
  <2>. QED
    BY <2>1, <2>2
<1>. QED
  BY <1>4, <1>5

\* What AddMember accepts keeps the hierarchy acyclic.
LEMMA JoinAcyclic ==
  ASSUME TeamTypeOK, Acyclic, NEW m \in Members, Join(m) PROVE Acyclic'
<1>. USE NoMemberIsNone
<1>1. /\ Present' = Present \cup {m.id} /\ m.id \notin Present
      /\ Parents'[m.id] = m.parent
      /\ \A i \in Present : Parents'[i] = Parents[i]
  BY DEF Join, Present, Parents, TeamTypeOK
<1>. SUFFICES ASSUME NEW S \in SUBSET Present', S # {}, \A x \in S : Parents'[x] \in S
              PROVE  FALSE
  BY DEF Acyclic, IsAcyclic, Parents
<1>2. NoId \notin S
  BY HierarchyAssumption DEF Present
<1>3. CASE m.id \notin S
  BY <1>1, <1>3 DEF Acyclic, IsAcyclic, Parents
<1>4. CASE m.id \in S
  <2>1. m.parent \in S /\ m.parent # NoId
    BY <1>1, <1>2, <1>4
  <2>2. PICK k \in 1 .. MaxMemberDepth - 1 : \E path \in PathsOfLength(Parents, k) :
          path[k] = m.parent /\ \A i \in 1..k : path[i] # m.id
    BY <2>1 DEF Join, Accepts
  <2>3. PICK path \in PathsOfLength(Parents, k) :
          path[k] = m.parent /\ \A i \in 1..k : path[i] # m.id
    BY <2>2
  <2>4. k \in Nat \ {0} /\ path \in [1..k -> DOMAIN Parents] /\ IsLineage(Parents, path)
    BY <2>2, <2>3, HierarchyAssumption DEF PathsOfLength
  <2>5. PICK i \in 1..k : path[i] \in S /\ Parents[path[i]] \notin S
    BY <1>2, <2>1, <2>3, <2>4, LineageLeaves
  <2>. QED
    BY <1>1, <2>4, <2>5 DEF Parents
<1>. QED
  BY <1>3, <1>4

\* Members that leave take no edge of the others with them.
LEMMA FewerAcyclic ==
  ASSUME Acyclic, \A i \in Ids : members'[i] \in {members[i], NoMember}
  PROVE  Acyclic'
<1>1. /\ Present' \subseteq Present
      /\ \A i \in Present' : Parents'[i] = Parents[i]
  BY DEF Present, Parents
<1>. QED
  BY <1>1 DEF Acyclic, IsAcyclic, Parents

\* No member is its own ancestor, whatever joins, leaves and comes back.
THEOREM HierarchyCorrect == Spec => []Acyclic
<1>1. Init => Acyclic
  BY DEF Init, Acyclic, IsAcyclic, Parents, Present
<1>2. TeamTypeOK /\ Acyclic /\ [Next]_vars => Acyclic'
  <2>. SUFFICES ASSUME TeamTypeOK, Acyclic, [Next]_vars PROVE Acyclic'
    OBVIOUS
  <2>1. ASSUME NEW m \in Members, Leave(m) PROVE Acyclic'
    BY <2>1, FewerAcyclic DEF Leave, TeamTypeOK
  <2>2. ASSUME NEW u \in Callers, ShutdownReturn(u) PROVE Acyclic'
    BY <2>2, FewerAcyclic DEF ShutdownReturn
  <2>3. ASSUME UNCHANGED <<members, leader>> PROVE Acyclic'
    BY <2>3, FewerAcyclic
  <2>. QED
    BY <2>1, <2>2, <2>3, JoinAcyclic, MembersStep
<1>. QED
  BY <1>1, <1>2, TeamTypeCorrect, PTL DEF Spec

-----------------------------------------------------------------------------
(* Depth *)

LEMMA LineageIs ==
  ASSUME NEW above, NEW k \in Nat \ {0}, NEW path
  PROVE  path \in PathsOfLength(above, k) <=>
           /\ path \in [1..k -> DOMAIN above] /\ above[path[1]] = NoId
           /\ \A i \in 2..k : above[path[i]] = path[i - 1]
<1>1. path \in [1..k -> DOMAIN above] => Len(path) = k
  OBVIOUS
<1>. QED
  BY <1>1 DEF PathsOfLength, IsLineage

\* The ancestors of one on a lineage are a lineage.
LEMMA PrefixIsLineage ==
  ASSUME NEW above, NEW k \in Nat \ {0}, NEW path \in PathsOfLength(above, k), NEW j \in 1..k
  PROVE  [i \in 1..j |-> path[i]] \in PathsOfLength(above, j)
<1>. DEFINE p == [i \in 1..j |-> path[i]]
<1>1. /\ path \in [1..k -> DOMAIN above] /\ above[path[1]] = NoId
      /\ \A i \in 2..k : above[path[i]] = path[i - 1]
  BY LineageIs
<1>2. p \in [1..j -> DOMAIN above] /\ \A i \in 1..j : p[i] = path[i]
  BY <1>1
<1>. HIDE DEF p
<1>3. above[p[1]] = NoId /\ \A i \in 2..j : above[p[i]] = p[i - 1]
  BY <1>1, <1>2
<1>4. p \in PathsOfLength(above, j)
  <2>1. j \in Nat \ {0}
    OBVIOUS
  <2>. QED
    BY <1>2, <1>3, <2>1, LineageIs
<1>. QED
  BY <1>4 DEF p

\* No lineage is longer than another with the same end: going up from there,
\* the two agree until the shorter one has come to the top.
LEMMA NoLongerLineage ==
  ASSUME NEW above, NoId \notin DOMAIN above, NEW k \in Nat \ {0}, NEW l \in Nat \ {0},
         NEW p \in PathsOfLength(above, k), NEW q \in PathsOfLength(above, l), p[k] = q[l]
  PROVE  k <= l
<1>. SUFFICES ASSUME l < k PROVE FALSE
  OBVIOUS
<1>1. /\ p \in [1..k -> DOMAIN above] /\ \A i \in 2..k : above[p[i]] = p[i - 1]
      /\ above[q[1]] = NoId /\ \A i \in 2..l : above[q[i]] = q[i - 1]
  BY LineageIs
<1>. DEFINE T == {i \in 0 .. l - 1 : p[k - i] # q[l - i]}
<1>2. T = {}
  <2>. SUFFICES ASSUME T # {} PROVE FALSE
    OBVIOUS
  <2>1. T \in SUBSET Nat
    OBVIOUS
  <2>2. PICK i \in T : \A j \in T : i <= j
    BY <2>1, LeastOfNaturals
  <2>3. i \in 1 .. l - 1 /\ i - 1 \in 0 .. l - 1 /\ i - 1 \notin T
    BY <2>2
  <2>4. p[k - (i - 1)] = q[l - (i - 1)] /\ k - (i - 1) \in 2..k /\ l - (i - 1) \in 2..l
    BY <2>3
  <2>5. p[k - i] = above[p[k - (i - 1)]] /\ q[l - i] = above[q[l - (i - 1)]]
    BY <1>1, <2>3, <2>4
  <2>. QED
    BY <2>2, <2>4, <2>5
<1>3. p[k - (l - 1)] = q[1] /\ k - (l - 1) \in 2..k
  BY <1>2
<1>4. above[q[1]] \in DOMAIN above
  <2>1. \A i \in 2..k : above[p[i]] \in DOMAIN above
    BY <1>1
  <2>. QED
    BY <1>3, <2>1
<1>. QED
  BY <1>1, <1>4

\* A lineage has nobody twice.
LEMMA LineageIsSimple ==
  ASSUME NEW above, NoId \notin DOMAIN above,
         NEW k \in Nat \ {0}, NEW p \in PathsOfLength(above, k)
  PROVE  \A i, j \in 1..k : p[i] = p[j] => i = j
<1>1. ASSUME NEW i \in 1..k, NEW j \in 1..k, p[i] = p[j] PROVE i <= j
  <2>. DEFINE pi == [n \in 1..i |-> p[n]]
              pj == [n \in 1..j |-> p[n]]
  <2>1. pi \in PathsOfLength(above, i) /\ pj \in PathsOfLength(above, j)
    BY PrefixIsLineage
  <2>2. pi[i] = pj[j] /\ i \in Nat \ {0} /\ j \in Nat \ {0}
    BY <1>1
  <2>. HIDE DEF pi, pj
  <2>. QED
    BY <2>1, <2>2, NoLongerLineage
<1>. QED
  BY <1>1

\* So it is no longer than the team is large.
LEMMA LineageFits ==
  ASSUME NEW above, NoId \notin DOMAIN above, IsFiniteSet(DOMAIN above),
         NEW k \in Nat \ {0}, NEW p \in PathsOfLength(above, k)
  PROVE  k <= Cardinality(DOMAIN above)
<1>1. \A i, j \in 1..k : p[i] = p[j] => i = j
  BY LineageIsSimple
<1>2. p \in [1..k -> DOMAIN above]
  BY LineageIs
<1>3. IsFiniteSet(1..k) /\ Cardinality(1..k) = k
  BY FS_Interval
<1>4. ~(Cardinality(DOMAIN above) < k)
  BY <1>1, <1>2, <1>3, FS_PigeonHole
<1>. QED
  BY <1>4, FS_CardinalityType

PresentFinite == IsFiniteSet(Present)

\* A newcomer whom nobody waits for makes the team no deeper: the lineages it
\* is part of end with it, and AddMember has looked at those.
LEMMA JoinDepth ==
  ASSUME TeamTypeOK, PresentFinite, ~TooDeep, NEW m \in Members, Join(m),
         \A child \in InTeam : child.parent # m.id
  PROVE  ~TooDeep'
<1>. USE NoMemberIsNone
<1>. DEFINE old == Parents
            new == Parents'
<1>1. /\ DOMAIN old = Present /\ DOMAIN new = Present \cup {m.id} /\ m.id \notin Present
      /\ new[m.id] = m.parent
      /\ \A i \in Present : new[i] = old[i] /\ new[i] # m.id
  BY DEF Join, Present, Parents, TeamTypeOK, InTeam
<1>2. NoId \notin DOMAIN old /\ NoId \notin DOMAIN new
  BY <1>1, HierarchyAssumption DEF Present
<1>3. m.parent # m.id /\ Accepts(old, m.id, m.parent)
  BY HierarchyAssumption, LineageIs DEF Join, Accepts
<1>. HIDE DEF old, new
<1>. SUFFICES ASSUME NEW k \in Nat, MaxMemberDepth + 1 <= k, NEW path \in PathsOfLength(new, k)
              PROVE  FALSE
  BY HierarchyAssumption DEF TooDeep, new
<1>4. k \in Nat \ {0} /\ k >= 2 /\ MaxMemberDepth \in Nat \ {0}
  BY HierarchyAssumption
<1>5. /\ path \in [1..k -> DOMAIN new] /\ new[path[1]] = NoId
      /\ \A i \in 2..k : new[path[i]] = path[i - 1]
  BY <1>4, LineageIs
<1>6. \A i \in 1 .. k - 1 : path[i] # m.id
  <2>. SUFFICES ASSUME NEW i \in 1 .. k - 1, path[i] = m.id PROVE FALSE
    OBVIOUS
  <2>1. i + 1 \in 2..k /\ new[path[i + 1]] = m.id /\ path[i + 1] \in DOMAIN new
    BY <1>4, <1>5
  <2>. QED
    BY <1>1, <1>3, <2>1
\* What is left of a lineage without the newcomer was there before.
<1>7. ASSUME NEW j \in 1..k, \A i \in 1..j : path[i] # m.id
      PROVE  [i \in 1..j |-> path[i]] \in PathsOfLength(old, j)
  <2>. DEFINE p == [i \in 1..j |-> path[i]]
  <2>1. p \in [1..j -> DOMAIN old] /\ \A i \in 1..j : p[i] = path[i]
    BY <1>1, <1>5, <1>7
  <2>. HIDE DEF p
  <2>2. old[p[1]] = NoId /\ \A i \in 2..j : old[p[i]] = p[i - 1]
    BY <1>1, <1>5, <1>7, <2>1
  <2>3. j \in Nat \ {0}
    OBVIOUS
  <2>4. p \in PathsOfLength(old, j)
    BY <2>1, <2>2, <2>3, LineageIs
  <2>. QED
    BY <2>4 DEF p
<1>8. CASE path[k] # m.id
  <2>. DEFINE p == [i \in 1..k |-> path[i]]
  <2>1. p \in PathsOfLength(old, k)
    BY <1>4, <1>6, <1>7, <1>8
  <2>2. k <= Cardinality(Present)
    BY <1>1, <1>2, <1>4, <2>1, LineageFits DEF PresentFinite
  <2>3. Cardinality(Present) \in Nat
    BY FS_CardinalityType DEF PresentFinite
  <2>. HIDE DEF p
  <2>. QED
    BY <1>4, <2>1, <2>2, <2>3 DEF TooDeep, old
<1>9. CASE path[k] = m.id
  <2>. DEFINE p == [i \in 1 .. k - 1 |-> path[i]]
  <2>1. p \in PathsOfLength(old, k - 1) /\ p[k - 1] = m.parent
    <3>1. k - 1 \in 1..k /\ k \in 2..k
      BY <1>4
    <3>2. p \in PathsOfLength(old, k - 1)
      BY <1>6, <1>7, <3>1
    <3>3. p[k - 1] = path[k - 1] /\ new[path[k]] = path[k - 1]
      BY <1>5, <3>1
    <3>. QED
      BY <1>1, <1>9, <3>2, <3>3
  <2>2. m.parent # NoId
    <3>1. p[k - 1] \in DOMAIN new
      BY <1>4, <1>5
    <3>. QED
      BY <1>2, <2>1, <3>1
  <2>3. PICK l \in 1 .. MaxMemberDepth - 1 :
          \E q \in PathsOfLength(old, l) : q[l] = m.parent
    BY <1>3, <2>2 DEF Accepts
  <2>4. PICK q \in PathsOfLength(old, l) : q[l] = m.parent
    BY <2>3
  <2>5. l \in Nat \ {0} /\ k - 1 \in Nat \ {0}
    BY <1>4, <2>3
  <2>. HIDE DEF p
  <2>6. k - 1 <= l
    BY <1>2, <2>1, <2>4, <2>5, NoLongerLineage
  <2>. QED
    BY <1>4, <2>3, <2>6
<1>. QED
  BY <1>8, <1>9

\* Members that leave make it no deeper either.
LEMMA FewerDepth ==
  ASSUME PresentFinite, ~TooDeep, \A i \in Ids : members'[i] \in {members[i], NoMember}
  PROVE  ~TooDeep' /\ PresentFinite'
<1>1. /\ Present' \subseteq Present
      /\ DOMAIN Parents' = Present' /\ DOMAIN Parents = Present
      /\ \A i \in Present' : Parents'[i] = Parents[i]
  BY DEF Present, Parents
<1>2. /\ PresentFinite' /\ Cardinality(Present') <= Cardinality(Present)
      /\ Cardinality(Present') \in Nat /\ Cardinality(Present) \in Nat
  BY <1>1, FS_Subset, FS_CardinalityType DEF PresentFinite
<1>3. ASSUME NEW k \in Nat, MaxMemberDepth + 1 <= k, k <= Cardinality(Present'),
             NEW path \in PathsOfLength(Parents', k)
      PROVE  FALSE
  <2>1. k \in Nat \ {0} /\ k <= Cardinality(Present)
    BY <1>2, <1>3, HierarchyAssumption
  <2>2. /\ path \in [1..k -> Present'] /\ Parents'[path[1]] = NoId
        /\ \A i \in 2..k : Parents'[path[i]] = path[i - 1]
    BY <1>1, <1>3, <2>1, LineageIs
  <2>3. /\ path \in [1..k -> DOMAIN Parents] /\ Parents[path[1]] = NoId
        /\ \A i \in 2..k : Parents[path[i]] = path[i - 1]
    BY <1>1, <2>1, <2>2
  <2>4. path \in PathsOfLength(Parents, k)
    BY <2>1, <2>3, LineageIs
  <2>. QED
    BY <1>2, <1>3, <2>1, <2>4, HierarchyAssumption DEF TooDeep
<1>. QED
  BY <1>2, <1>3, HierarchyAssumption DEF TooDeep

LEMMA FiniteStep == TeamTypeOK /\ PresentFinite /\ [Next]_vars => PresentFinite'
<1>. SUFFICES ASSUME TeamTypeOK, PresentFinite, [Next]_vars PROVE PresentFinite'
  OBVIOUS
<1>1. ASSUME NEW m \in Members, Join(m) PROVE PresentFinite'
  <2>1. Present' = Present \cup {m.id}
    BY <1>1, NoMemberIsNone DEF Join, Present, TeamTypeOK
  <2>. QED
    BY <2>1, FS_AddElement DEF PresentFinite
<1>2. ASSUME \A i \in Ids : members'[i] \in {members[i], NoMember} PROVE PresentFinite'
  <2>1. Present' \subseteq Present
    BY <1>2 DEF Present
  <2>. QED
    BY <2>1, FS_Subset DEF PresentFinite
<1>. QED
  BY <1>1, <1>2, MembersStep DEF Leave, ShutdownReturn, TeamTypeOK

\* A hierarchy becomes deeper than MaxMemberDepth only by the return of a
\* member to children it had left behind, whatever the limit and whoever calls.
THEOREM DepthCorrect == Spec => OnlyReturnsDeepen
<1>1. Init => PresentFinite
  BY FS_EmptySet DEF Init, PresentFinite, Present
<1>2. ASSUME TeamTypeOK, PresentFinite, [Next]_vars
      PROVE  [~TooDeep /\ TooDeep' =>
                \E m \in InTeam' : m \notin InTeam /\ \E child \in InTeam : child.parent = m.id]_vars
  <2>1. ASSUME NEW m \in Members, Join(m), ~TooDeep, TooDeep'
        PROVE  \E n \in InTeam' : n \notin InTeam /\ \E child \in InTeam : child.parent = n.id
    BY <1>2, <2>1, JoinDepth, JoinAdds
  <2>2. ASSUME NEW m \in Members, Leave(m), ~TooDeep PROVE ~TooDeep'
    BY <1>2, <2>2, FewerDepth DEF Leave, TeamTypeOK
  <2>3. ASSUME NEW u \in Callers, ShutdownReturn(u), ~TooDeep PROVE ~TooDeep'
    BY <1>2, <2>3, FewerDepth DEF ShutdownReturn
  <2>4. ASSUME UNCHANGED <<members, leader>>, ~TooDeep PROVE ~TooDeep'
    BY <1>2, <2>4, FewerDepth
  <2>. QED
    BY <1>2, <2>1, <2>2, <2>3, <2>4, MembersStep
<1>. QED
  BY <1>1, <1>2, FiniteStep, TeamTypeCorrect, PTL DEF Spec, OnlyReturnsDeepen

-----------------------------------------------------------------------------
(* Closing *)

\* A CloseMember has one member to close; only one Shutdown has the lock, and
\* what it has left to close is in the map.
ClosingInv ==
  /\ \A u \in Callers : op[u].step = "close" => \E m \in Members : op[u].todo = {m}
  /\ \A u \in Callers : op[u].step = "shutdown" => op[u].todo \subseteq InTeam
  /\ \A u, v \in Callers : op[u].step = "shutdown" /\ op[v].step = "shutdown" => u = v

Closers(m) == {u \in Callers : op[u].step = "close" /\ m \in op[u].todo}

\* 1 for a member that the team still has to close or hand back.
Held(m) == IF m \in InTeam /\ ~ClosedByShutdown(m) THEN 1 ELSE 0

LEMMA ClosersFinite ==
  ASSUME NEW m
  PROVE  IsFiniteSet(Closers(m)) /\ Closing(m) = Cardinality(Closers(m)) /\ Closing(m) \in Nat
<1>1. Closers(m) \in SUBSET Callers
  BY DEF Closers
<1>2. IsFiniteSet(Closers(m))
  BY <1>1, FiniteAssumption, FS_Subset
<1>3. Closing(m) = Cardinality(Closers(m))
  BY DEF Closing, Closers
<1>. QED
  BY <1>2, <1>3, FS_CardinalityType

LEMMA ContinueIs ==
  ASSUME TeamTypeOK, NEW u \in Callers, NEW step, NEW todo, Continue(u, step, todo)
  PROVE  /\ op'[u].step = step /\ op'[u].todo = todo
         /\ \A v \in Callers \ {u} : op'[v] = op[v]
BY DEF TeamTypeOK, Continue

\* Another step than that of a closing changes nobody's closing.
LEMMA ClosingStays ==
  ASSUME TeamTypeOK, NEW u \in Callers, NEW step, NEW todo, Continue(u, step, todo),
         op[u].step # "close", step # "close", NEW m
  PROVE  Closing(m)' = Closing(m)
<1>1. Closers(m)' = Closers(m)
  BY ContinueIs DEF Closers
<1>. QED
  BY <1>1 DEF Closing, Closers

LEMMA ClosingStarts ==
  ASSUME TeamTypeOK, NEW u \in Callers, NEW m \in Members, Continue(u, "close", {m}),
         op[u].step # "close", NEW n
  PROVE  Closing(n)' = Closing(n) + (IF n = m THEN 1 ELSE 0)
<1>1. u \notin Closers(n) /\ Closers(n)' = IF n = m THEN Closers(n) \cup {u} ELSE Closers(n)
  BY ContinueIs DEF Closers
<1>2. Closing(n)' = Cardinality(Closers(n)')
  BY DEF Closing, Closers
<1>3. Cardinality(Closers(n) \cup {u}) = Cardinality(Closers(n)) + 1
  BY <1>1, ClosersFinite, FS_AddElement
<1>. QED
  BY <1>1, <1>2, <1>3, ClosersFinite

LEMMA ClosingEnds ==
  ASSUME TeamTypeOK, NEW u \in Callers, NEW m \in Members, Continue(u, "idle", {}),
         op[u].step = "close", op[u].todo = {m}, NEW n
  PROVE  Closing(n)' = Closing(n) - (IF n = m THEN 1 ELSE 0)
<1>1. /\ n = m <=> u \in Closers(n)
      /\ Closers(n)' = IF n = m THEN Closers(n) \ {u} ELSE Closers(n)
  BY ContinueIs DEF Closers
<1>2. Closing(n)' = Cardinality(Closers(n)')
  BY DEF Closing, Closers
<1>3. n = m => Cardinality(Closers(n) \ {u}) = Cardinality(Closers(n)) - 1
  BY <1>1, ClosersFinite, FS_RemoveElement
<1>. QED
  BY <1>1, <1>2, <1>3, ClosersFinite

\* While nobody has the lock, the team holds whom it has in its map.
LEMMA HeldUnlocked ==
  ASSUME Unlocked, NEW m
  PROVE  Held(m) = IF m \in InTeam THEN 1 ELSE 0
BY DEF Unlocked, Held, ClosedByShutdown

LEMMA OwedIs == ClosedOnce <=> \A m \in Members : owed[m] = Closing(m) + Held(m)
BY DEF ClosedOnce, Held

ClosedInv == TeamTypeOK /\ ClosingInv /\ ClosedOnce

LEMMA ClosedInit == Init => ClosedInv
<1>. SUFFICES ASSUME Init PROVE ClosedInv
  OBVIOUS
<1>1. InTeam = {}
  BY NoMemberIsNone DEF Init, InTeam
<1>2. \A u \in Callers : op[u].step = "idle"
  BY DEF Init, Idle
<1>3. \A m \in Members : Closing(m) = 0
  <2>1. \A m \in Members : Closers(m) = {}
    BY <1>2 DEF Closers
  <2>. QED
    BY <2>1, ClosersFinite, FS_EmptySet
<1>4. \A m \in Members : owed[m] = Closing(m) + Held(m)
  BY <1>1, <1>3 DEF Init, Held
<1>. QED
  BY <1>2, <1>4, OwedIs, TypeInit DEF ClosedInv, ClosingInv

\* A member that joins is owed one closing more.
LEMMA JoinOwes ==
  ASSUME ClosedInv, Unlocked, Unlocked', NEW m \in Members, Join(m),
         \A n \in Members : Closing(n)' = Closing(n)
  PROVE  ClosedOnce'
<1>1. m \notin InTeam /\ InTeam' = InTeam \cup {m}
  BY JoinAdds DEF ClosedInv
<1>2. \A n \in Members : Held(n) = (IF n \in InTeam THEN 1 ELSE 0)
                      /\ Held(n)' = (IF n \in InTeam' THEN 1 ELSE 0)
  BY HeldUnlocked DEF Unlocked, Held, ClosedByShutdown
<1>3. \A n \in Members : owed[n] = Closing(n) + Held(n) /\ owed[n] \in Int
  BY OwedIs DEF ClosedInv, TeamTypeOK
<1>4. \A n \in Members : owed'[n] = owed[n] + (IF n = m THEN 1 ELSE 0)
  BY DEF Join, ClosedInv, TeamTypeOK
<1>5. \A n \in Members : owed'[n] = Closing(n)' + Held(n)'
  BY <1>1, <1>2, <1>3, <1>4, ClosersFinite
<1>. QED
  BY <1>5 DEF ClosedOnce, Held

\* A member that leaves is owed one closing less, or being closed.
LEMMA LeaveOwes ==
  ASSUME ClosedInv, Unlocked, Unlocked', NEW m \in Members, Leave(m),
         \A n \in Members : owed'[n] - Closing(n)' =
                            owed[n] - Closing(n) - (IF n = m THEN 1 ELSE 0),
         owed' \in [Members -> Int]
  PROVE  ClosedOnce'
<1>1. m \in InTeam /\ InTeam' = InTeam \ {m}
  BY LeaveTakes DEF ClosedInv
<1>2. \A n \in Members : Held(n) = (IF n \in InTeam THEN 1 ELSE 0)
                      /\ Held(n)' = (IF n \in InTeam' THEN 1 ELSE 0)
  BY HeldUnlocked DEF Unlocked, Held, ClosedByShutdown
<1>3. \A n \in Members : owed[n] = Closing(n) + Held(n) /\ owed[n] \in Int /\ owed'[n] \in Int
  BY OwedIs DEF ClosedInv, TeamTypeOK
<1>4. \A n \in Members : Closing(n) \in Int /\ Closing(n)' \in Int
  <2>1. \A n \in Members : Closing(n)' \in Nat
    BY ClosersFinite, FiniteAssumption, FS_Subset, FS_CardinalityType DEF Closing
  <2>. QED
    BY <2>1, ClosersFinite
<1>5. ASSUME NEW n \in Members PROVE owed'[n] = Closing(n)' + Held(n)'
  <2>1. Held(n)' = Held(n) - (IF n = m THEN 1 ELSE 0) /\ Held(n) \in {0, 1}
    BY <1>1, <1>2
  <2>2. owed'[n] - Closing(n)' = Held(n)'
    BY <1>3, <1>4, <2>1
  <2>. QED
    BY <1>3, <1>4, <2>1, <2>2
<1>. QED
  BY <1>5 DEF ClosedOnce, Held

\* A step of a caller that does not touch the lock.
LEMMA HeldStays ==
  ASSUME TeamTypeOK, NEW u \in Callers, NEW step, NEW todo, Continue(u, step, todo),
         op[u].step # "shutdown", step # "shutdown", InTeam' = InTeam, NEW n
  PROVE  Held(n)' = Held(n)
<1>1. ClosedByShutdown(n)' <=> ClosedByShutdown(n)
  BY ContinueIs DEF ClosedByShutdown
<1>. QED
  BY <1>1 DEF Held

LEMMA ClosingKeeps ==
  ASSUME TeamTypeOK, ClosingInv, NEW u \in Callers, NEW step, NEW todo, Continue(u, step, todo),
         step = "close" => \E m \in Members : todo = {m}, step # "shutdown",
         Unlocked \/ InTeam' = InTeam
  PROVE  ClosingInv'
<1>1. \A v \in Callers : op'[v].step = "shutdown" =>
        v # u /\ op[v] = op'[v] /\ InTeam' = InTeam
  BY ContinueIs DEF Unlocked
<1>2. \A v \in Callers : op'[v].step = "close" => \E m \in Members : op'[v].todo = {m}
  BY ContinueIs DEF ClosingInv
<1>. QED
  BY <1>1, <1>2 DEF ClosingInv

\* Every operation of the team, one by one.
LEMMA ClosedStep == ClosedInv /\ [Next]_vars => ClosedInv'
<1>. SUFFICES ASSUME ClosedInv, [Next]_vars PROVE ClosingInv' /\ ClosedOnce'
  BY TypeStep DEF ClosedInv
<1>. USE DEF ClosedInv
<1>0. /\ \A n \in Members : owed[n] = Closing(n) + Held(n) /\ owed[n] \in Int
      /\ \A u \in Callers : op[u].todo \subseteq Members
      /\ \A n : Closing(n) \in Nat
  BY OwedIs, ClosersFinite DEF TeamTypeOK, Operations
<1>same. ASSUME UNCHANGED op PROVE \A n : Closing(n)' = Closing(n)
  BY <1>same DEF Closing
<1>lock. ASSUME UNCHANGED op, Unlocked PROVE ClosingInv' /\ Unlocked'
  BY <1>lock DEF ClosingInv, Unlocked
<1>1. ASSUME NEW u \in Callers, AddMember(u) PROVE ClosingInv' /\ ClosedOnce'
  BY <1>1, <1>same, <1>lock, JoinOwes DEF AddMember
<1>2. ASSUME NEW u \in Callers, RemoveMember(u) PROVE ClosingInv' /\ ClosedOnce'
  <2>1. PICK m \in Members : Leave(m) /\ owed' = [owed EXCEPT ![m] = @ - 1]
    BY <1>2 DEF RemoveMember, InTeam
  <2>2. \A n \in Members : owed'[n] = owed[n] - (IF n = m THEN 1 ELSE 0)
    BY <2>1, <1>0 DEF TeamTypeOK
  <2>3. owed' \in [Members -> Int]
    BY <2>1 DEF TeamTypeOK
  <2>4. \A n \in Members : owed'[n] - Closing(n)' = owed[n] - Closing(n) - (IF n = m THEN 1 ELSE 0)
    BY <2>2, <1>0, <1>same, <1>2 DEF RemoveMember
  <2>. QED
    BY <1>2, <2>1, <2>3, <2>4, <1>lock, LeaveOwes DEF RemoveMember
<1>3. ASSUME NEW u \in Callers, CloseMember(u) PROVE ClosingInv' /\ ClosedOnce'
  <2>1. PICK m \in Members : Leave(m) /\ Continue(u, "close", {m})
    BY <1>3 DEF CloseMember, InTeam
  <2>2. op[u].step = "idle" /\ Unlocked /\ UNCHANGED owed
    BY <1>3 DEF CloseMember, Call
  <2>3. Unlocked'
    BY <2>1, <2>2, ContinueIs DEF Unlocked
  <2>4. \A n \in Members : owed'[n] - Closing(n)' = owed[n] - Closing(n) - (IF n = m THEN 1 ELSE 0)
    BY <2>1, <2>2, <1>0, ClosingStarts
  <2>5. owed' \in [Members -> Int]
    BY <2>2 DEF TeamTypeOK
  <2>. QED
    BY <2>1, <2>2, <2>3, <2>4, <2>5, LeaveOwes, ClosingKeeps
<1>4. ASSUME NEW u \in Callers, CloseReturn(u) PROVE ClosingInv' /\ ClosedOnce'
  <2>1. PICK m \in Members : op[u].todo = {m} /\ op[u].step = "close"
    BY <1>4 DEF CloseReturn, ClosingInv
  <2>2. Continue(u, "idle", {}) /\ InTeam' = InTeam /\ owed' = [owed EXCEPT ![m] = @ - 1]
    BY <1>4, <2>1 DEF CloseReturn, InTeam
  <2>3. \A n \in Members : /\ owed'[n] = owed[n] - (IF n = m THEN 1 ELSE 0)
                           /\ Closing(n)' = Closing(n) - (IF n = m THEN 1 ELSE 0)
                           /\ Held(n)' = Held(n)
    BY <2>1, <2>2, ClosingEnds, HeldStays DEF TeamTypeOK
  <2>4. \A n \in Members : owed'[n] = Closing(n)' + Held(n)'
    BY <2>3, <1>0 DEF Held
  <2>. QED
    BY <2>1, <2>2, <2>4, ClosingKeeps DEF ClosedOnce, Held
\* What neither joins nor leaves, closes or locks.
<1>idle. ASSUME NEW u \in Callers, NEW step, NEW todo, Continue(u, step, todo),
                op[u].step \notin {"close", "shutdown"}, step \notin {"close", "shutdown"},
                InTeam' = InTeam, UNCHANGED owed
         PROVE  ClosingInv' /\ ClosedOnce'
  <2>1. \A n \in Members : Closing(n)' = Closing(n) /\ Held(n)' = Held(n)
    BY <1>idle, ClosingStays, HeldStays
  <2>. QED
    BY <1>idle, <1>0, <2>1, ClosingKeeps DEF ClosedOnce, Held
<1>5. ASSUME NEW u \in Callers, ForkMember(u) PROVE ClosingInv' /\ ClosedOnce'
  <2>1. PICK todo : Continue(u, "clone", todo)
    BY <1>5 DEF ForkMember
  <2>2. op[u].step = "idle" /\ InTeam' = InTeam /\ UNCHANGED owed
    BY <1>5 DEF ForkMember, Call, InTeam
  <2>. QED
    BY <2>1, <2>2, <1>idle
<1>6. ASSUME NEW u \in Callers, Clone(u) PROVE ClosingInv' /\ ClosedOnce'
  <2>1. PICK todo : Continue(u, "idle", todo) \/ Continue(u, "add", todo)
    BY <1>6 DEF Clone
  <2>2. op[u].step = "clone" /\ InTeam' = InTeam /\ UNCHANGED owed
    BY <1>6 DEF Clone, InTeam
  <2>. QED
    BY <2>1, <2>2, <1>idle
<1>7. ASSUME NEW u \in Callers, ForkAdd(u) PROVE ClosingInv' /\ ClosedOnce'
  <2>1. op[u].step = "add" /\ Unlocked /\ Continue(u, "idle", {})
    BY <1>7 DEF ForkAdd
  <2>2. CASE UNCHANGED <<members, leader, owed>>
    BY <2>1, <2>2, <1>idle DEF InTeam
  <2>3. CASE \E m \in op[u].todo : Join(m)
    <3>1. PICK m \in Members : Join(m)
      BY <2>3, <1>0
    <3>2. Unlocked'
      BY <2>1, ContinueIs DEF Unlocked
    <3>3. \A n \in Members : Closing(n)' = Closing(n)
      BY <2>1, ClosingStays
    <3>. QED
      BY <2>1, <3>1, <3>2, <3>3, JoinOwes, ClosingKeeps
  <2>. QED
    BY <1>7, <2>2, <2>3 DEF ForkAdd
<1>8. ASSUME NEW u \in Callers, Shutdown(u) PROVE ClosingInv' /\ ClosedOnce'
  <2>1. /\ Continue(u, "shutdown", InTeam) /\ op[u].step = "idle" /\ Unlocked
        /\ InTeam' = InTeam /\ UNCHANGED owed
    BY <1>8 DEF Shutdown, Call, InTeam
  <2>2. \A n \in Members : Closing(n)' = Closing(n)
    BY <2>1, ClosingStays
  <2>3. \A n \in InTeam : ~ClosedByShutdown(n)'
    BY <2>1, ContinueIs DEF ClosedByShutdown, Unlocked
  <2>4. \A n \in Members : Held(n)' = Held(n)
    BY <2>1, <2>3, HeldUnlocked DEF Held
  <2>5. ClosingInv'
    BY <2>1, ContinueIs DEF ClosingInv, Unlocked
  <2>. QED
    BY <1>0, <2>1, <2>2, <2>4, <2>5 DEF ClosedOnce, Held
<1>9. ASSUME NEW u \in Callers, ShutdownClose(u) PROVE ClosingInv' /\ ClosedOnce'
  <2>1. PICK m \in op[u].todo : /\ Continue(u, "shutdown", op[u].todo \ {m})
                                /\ owed' = [owed EXCEPT ![m] = @ - 1]
    BY <1>9 DEF ShutdownClose
  <2>2. op[u].step = "shutdown" /\ InTeam' = InTeam /\ m \in InTeam /\ m \in Members
    BY <1>9, <1>0 DEF ShutdownClose, ClosingInv, InTeam
  <2>3. \A v \in Callers \ {u} : op[v].step # "shutdown" /\ op'[v].step # "shutdown"
    BY <2>1, <2>2, ContinueIs DEF ClosingInv
  <2>4. \A n \in Members : Closing(n)' = Closing(n)
    BY <2>1, <2>2, ClosingStays
  <2>5. \A n \in Members : /\ ClosedByShutdown(n) <=> n \notin op[u].todo
                           /\ ClosedByShutdown(n)' <=> n \notin op[u].todo \ {m}
    BY <2>1, <2>2, <2>3, ContinueIs DEF ClosedByShutdown
  <2>6. \A n \in Members : Held(n)' = Held(n) - (IF n = m THEN 1 ELSE 0)
    BY <2>2, <2>5 DEF Held
  <2>7. \A n \in Members : owed'[n] = owed[n] - (IF n = m THEN 1 ELSE 0)
    BY <2>1, <1>0 DEF TeamTypeOK
  <2>8. \A n \in Members : owed'[n] = Closing(n)' + Held(n)'
    BY <1>0, <2>4, <2>6, <2>7 DEF Held
  <2>9. ClosingInv'
    BY <2>1, <2>2, <2>3, ContinueIs DEF ClosingInv
  <2>. QED
    BY <2>8, <2>9 DEF ClosedOnce, Held
<1>10. ASSUME NEW u \in Callers, ShutdownReturn(u) PROVE ClosingInv' /\ ClosedOnce'
  <2>1. op[u].step = "shutdown" /\ op[u].todo = {} /\ Continue(u, "idle", {}) /\ UNCHANGED owed
    BY <1>10 DEF ShutdownReturn
  <2>2. InTeam' = {}
    BY <1>10, NoMemberIsNone DEF ShutdownReturn, InTeam
  <2>3. \A n \in Members : Closing(n)' = Closing(n)
    BY <2>1, ClosingStays
  <2>4. \A n \in Members : Held(n) = 0 /\ Held(n)' = 0
    BY <2>1, <2>2 DEF Held, ClosedByShutdown
  <2>5. ClosingInv'
    BY <2>1, ContinueIs DEF ClosingInv
  <2>. QED
    BY <1>0, <2>1, <2>3, <2>4, <2>5 DEF ClosedOnce, Held
<1>11. CASE UNCHANGED vars
  BY <1>11 DEF vars, ClosingInv, ClosedOnce, Closing, InTeam, ClosedByShutdown
<1>. QED
  BY <1>1, <1>2, <1>3, <1>4, <1>5, <1>6, <1>7, <1>8, <1>9, <1>10, <1>11 DEF Next

\* CloseMember, RemoveMember and Shutdown, called at once by any number of
\* goroutines, close or hand back a member once for each time it joined.
THEOREM ClosedCorrect == Spec => []ClosedOnce
<1>1. ClosedInv => ClosedOnce
  BY DEF ClosedInv
<1>. QED
  BY <1>1, ClosedInit, ClosedStep, PTL DEF Spec

-----------------------------------------------------------------------------
(* The loops of validation.go and the walks of the queries *)

Map == parent \in Hierarchies /\ IsFiniteSet(DOMAIN parent)

LEMMA MapIs ==
  Map <=> /\ parent \in [DOMAIN parent -> MaybeId]
          /\ DOMAIN parent \subseteq Ids /\ IsFiniteSet(DOMAIN parent)
BY DEF Map, Hierarchies

LEMMA MapHasNoEmptyId == Map => NoId \notin DOMAIN parent
BY MapIs, HierarchyAssumption

\* The first k steps of a walk up from parentId.
Walk(w, k) ==
  /\ w \in [0..k -> MaybeId] /\ w[0] = parentId
  /\ \A i \in 0 .. k - 1 : w[i] \in DOMAIN parent /\ w[i + 1] = parent[w[i]]

VisitedBy(w, k) == visited = {w[i] : i \in 0 .. k - 1}

\* Where it has come to.
Walked(k) ==
  \E w : Walk(w, k) /\ current = w[k] /\ VisitedBy(w, k)

Lineage(k) == {path \in PathsOfLength(parent, k) :
                 path[k] = parentId /\ \A i \in 1..k : path[i] # newId}

\* A walk goes up the lineage, if there is one, and not beyond its top.
LEMMA WalkOnLineage ==
  ASSUME Map, NEW k \in Nat, NEW w, Walk(w, k),
         NEW l \in Nat \ {0}, NEW path \in PathsOfLength(parent, l), path[l] = parentId
  PROVE  k <= l /\ \A i \in 0..k : w[i] = IF i = l THEN NoId ELSE path[l - i]
<1>. DEFINE On(i) == i <= l /\ w[i] = IF i = l THEN NoId ELSE path[l - i]
            T == {i \in 0..k : ~On(i)}
<1>. SUFFICES ASSUME T # {} PROVE FALSE
  OBVIOUS
<1>1. /\ path \in [1..l -> DOMAIN parent] /\ parent[path[1]] = NoId
      /\ \A i \in 2..l : parent[path[i]] = path[i - 1]
  BY LineageIs
<1>2. PICK i \in T : \A j \in T : i <= j
  <2>1. T \in SUBSET Nat
    OBVIOUS
  <2>. HIDE DEF T
  <2>. QED
    BY <2>1, LeastOfNaturals
<1>3. i # 0
  BY <1>2 DEF Walk
<1>4. i \in 1..k /\ i - 1 \in 0 .. k - 1 /\ On(i - 1)
  BY <1>2, <1>3
<1>5. w[i - 1] \in DOMAIN parent /\ w[i] = parent[w[i - 1]]
  BY <1>4 DEF Walk
<1>6. i - 1 # l
  BY <1>4, <1>5, MapHasNoEmptyId
<1>7. i <= l /\ w[i - 1] = path[l - (i - 1)]
  BY <1>4, <1>6
<1>8. CASE i = l
  <2>1. w[i] = NoId
    BY <1>1, <1>5, <1>7, <1>8
  <2>. QED
    BY <1>2, <1>7, <1>8, <2>1
<1>9. CASE i # l
  <2>1. l - (i - 1) \in 2..l /\ l - (i - 1) - 1 = l - i
    BY <1>4, <1>7, <1>9
  <2>2. w[i] = path[l - i]
    BY <1>1, <1>5, <1>7, <2>1
  <2>. QED
    BY <1>2, <1>7, <1>9, <2>2
<1>. QED
  BY <1>8, <1>9

\* A walk that comes to the empty id has gone up the whole lineage.
LEMMA WalkIsLineage ==
  ASSUME Map, NEW k \in Nat, NEW w, Walk(w, k), w[k] = NoId, parentId # NoId,
         \A i \in 0 .. k - 1 : w[i] # newId
  PROVE  k # 0 /\ Lineage(k) # {}
<1>1. k \in Nat \ {0}
  BY DEF Walk
<1>. DEFINE path == [i \in 1..k |-> w[k - i]]
<1>2. path \in [1..k -> DOMAIN parent] /\ path[k] = parentId /\ \A i \in 1..k : path[i] # newId
  BY <1>1 DEF Walk
<1>3. parent[path[1]] = NoId
  <2>1. k - 1 \in 0 .. k - 1 /\ k - 1 + 1 = k
    BY <1>1
  <2>. QED
    BY <1>1, <2>1 DEF Walk
<1>4. ASSUME NEW i \in 2..k PROVE parent[path[i]] = path[i - 1]
  <2>1. k - i \in 0 .. k - 1 /\ k - i + 1 = k - (i - 1)
    BY <1>1, <1>4
  <2>2. path[i] = w[k - i] /\ path[i - 1] = w[k - (i - 1)]
    BY <1>1, <1>4
  <2>. QED
    BY <2>1, <2>2 DEF Walk
<1>. HIDE DEF path
<1>5. path \in PathsOfLength(parent, k)
  BY <1>1, <1>2, <1>3, <1>4, LineageIs
<1>. QED
  BY <1>1, <1>2, <1>5 DEF Lineage

\* One more step.
LEMMA WalkStep ==
  ASSUME Map, NEW k \in Nat, Walked(k), current \in DOMAIN parent,
         UNCHANGED <<parent, parentId>>,
         visited' = visited \cup {current}, current' = parent[current]
  PROVE  Walked(k + 1)'
<1>1. PICK w : Walk(w, k) /\ current = w[k] /\ visited = {w[i] : i \in 0 .. k - 1}
  BY DEF Walked, VisitedBy
<1>2. parent[current] \in MaybeId
  BY MapIs
<1>3. PICK v \in [0 .. k + 1 -> MaybeId] :
        v[0] = parentId /\ v[k + 1] = parent[current] /\ \A i \in 0..k : v[i] = w[i]
  <2>. DEFINE u == [i \in 0 .. k + 1 |-> IF i = k + 1 THEN parent[current] ELSE w[i]]
  <2>1. u \in [0 .. k + 1 -> MaybeId] /\ u[0] = parentId /\ u[k + 1] = parent[current]
        /\ \A i \in 0..k : u[i] = w[i]
    BY <1>1, <1>2 DEF Walk
  <2>. QED
    BY <2>1
<1>4. ASSUME NEW i \in 0..k PROVE v[i] \in DOMAIN parent /\ v[i + 1] = parent[v[i]]
  <2>1. CASE i = k
    BY <1>1, <1>3, <2>1
  <2>2. CASE i # k
    <3>1. i \in 0 .. k - 1 /\ i + 1 \in 0..k
      BY <2>2
    <3>. QED
      BY <1>1, <1>3, <3>1 DEF Walk
  <2>. QED
    BY <2>1, <2>2
<1>5. Walk(v, k + 1)'
  <2>1. k + 1 - 1 = k
    OBVIOUS
  <2>. QED
    BY <1>3, <1>4, <2>1 DEF Walk
<1>6. {v[i] : i \in 0..k} = {w[i] : i \in 0 .. k - 1} \cup {w[k]}
  <2>1. 0..k = (0 .. k - 1) \cup {k}
    OBVIOUS
  <2>. QED
    BY <1>3, <2>1
<1>7. current' = v[k + 1] /\ visited' = {v[i] : i \in 0 .. k + 1 - 1}
  <2>1. k + 1 - 1 = k
    OBVIOUS
  <2>. QED
    BY <1>1, <1>3, <1>6, <2>1
<1>8. current' = v[k + 1] /\ VisitedBy(v, k + 1)'
  BY <1>7 DEF VisitedBy
<1>. QED
  BY <1>5, <1>8 DEF Walked

LEMMA WalkStarts ==
  ASSUME parentId \in MaybeId, current = parentId, visited = {}
  PROVE  Walked(0)
<1>. DEFINE w == [i \in 0..0 |-> parentId]
<1>1. Walk(w, 0) /\ current = w[0] /\ visited = {w[i] : i \in 0 .. 0 - 1}
  BY DEF Walk
<1>. QED
  BY <1>1 DEF Walked, VisitedBy

LEMMA WalkRestarts ==
  ASSUME parentId \in MaybeId, UNCHANGED parentId, current' = parentId, visited' = {}
  PROVE  Walked(0)'
<1>1. PICK w \in [0..0 -> MaybeId] : w[0] = parentId
  <2>. DEFINE u == [i \in 0..0 |-> parentId]
  <2>1. u \in [0..0 -> MaybeId] /\ u[0] = parentId
    OBVIOUS
  <2>. QED
    BY <2>1
<1>2. Walk(w, 0)' /\ current' = w[0] /\ VisitedBy(w, 0)'
  BY <1>1 DEF Walk, VisitedBy
<1>. QED
  BY <1>2 DEF Walked

\* A walk that meets the new id, itself, or an absent id: there is no lineage
\* without the new id.
LEMMA ErrorIsRight ==
  ASSUME Map, NEW k \in Nat, Walked(k), current # NoId, newId \notin visited,
         current = newId \/ current \in visited \/ current \notin DOMAIN parent,
         NEW l \in Nat \ {0}, NEW path \in Lineage(l)
  PROVE  FALSE
<1>1. PICK w : Walk(w, k) /\ current = w[k] /\ visited = {w[i] : i \in 0 .. k - 1}
  BY DEF Walked, VisitedBy
<1>2. path \in PathsOfLength(parent, l) /\ path[l] = parentId /\ \A i \in 1..l : path[i] # newId
  BY DEF Lineage
<1>3. k <= l /\ \A i \in 0..k : w[i] = IF i = l THEN NoId ELSE path[l - i]
  BY <1>1, <1>2, WalkOnLineage
<1>4. k < l /\ current = path[l - k] /\ l - k \in 1..l
  BY <1>1, <1>3
<1>5. current \in DOMAIN parent /\ current # newId
  BY <1>2, <1>4, LineageIs
<1>6. PICK i \in 0 .. k - 1 : current = w[i]
  BY <1>1, <1>5
<1>7. l - i \in 1..l /\ path[l - i] = path[l - k] /\ l - k # l - i
  BY <1>3, <1>4, <1>6
<1>. QED
  BY <1>2, <1>4, <1>7, MapHasNoEmptyId, LineageIsSimple

\* The verdict on the depth, once it is known that there is a lineage.
LEMMA VerdictIsRight ==
  ASSUME Map, depth \in Nat, Walked(depth), parentId \in Ids,
         NEW l \in Nat \ {0}, Lineage(l) # {},
         depth > MaxMemberDepth \/ current \notin DOMAIN parent \ visited
  PROVE  depth + 1 <= MaxMemberDepth <=> Accepts(parent, newId, parentId)
<1>1. PICK w : Walk(w, depth) /\ current = w[depth] /\ visited = {w[i] : i \in 0 .. depth - 1}
  BY DEF Walked, VisitedBy
<1>2. PICK path \in PathsOfLength(parent, l) : path[l] = parentId /\ \A i \in 1..l : path[i] # newId
  BY DEF Lineage
<1>3. depth <= l /\ \A i \in 0..depth : w[i] = IF i = l THEN NoId ELSE path[l - i]
  BY <1>1, <1>2, WalkOnLineage
<1>4. parentId # NoId /\ MaxMemberDepth \in Nat \ {0}
  BY HierarchyAssumption
<1>5. Accepts(parent, newId, parentId) => l + 1 <= MaxMemberDepth
  <2>. SUFFICES ASSUME NEW k \in 1 .. MaxMemberDepth - 1, NEW q \in PathsOfLength(parent, k),
                       q[k] = parentId
                PROVE  l <= k
    BY <1>4 DEF Accepts
  <2>1. k \in Nat \ {0}
    BY <1>4
  <2>. QED
    BY <1>2, <2>1, MapHasNoEmptyId, NoLongerLineage
<1>6. l + 1 <= MaxMemberDepth => Accepts(parent, newId, parentId)
  <2>1. l + 1 <= MaxMemberDepth => l \in 1 .. MaxMemberDepth - 1
    BY <1>4
  <2>. QED
    BY <1>2, <2>1 DEF Accepts
<1>7. depth <= MaxMemberDepth => depth = l
  <2>. SUFFICES ASSUME current \notin DOMAIN parent \ visited, depth # l PROVE FALSE
    BY <1>4
  <2>1. depth < l /\ current = path[l - depth] /\ l - depth \in 1..l
    BY <1>1, <1>3
  <2>2. current \in visited
    BY <1>2, <2>1, LineageIs
  <2>3. PICK i \in 0 .. depth - 1 : current = w[i]
    BY <1>1, <2>2
  <2>4. l - i \in 1..l /\ path[l - i] = path[l - depth] /\ l - depth # l - i
    BY <1>3, <2>1, <2>3
  <2>. QED
    BY <1>2, <2>1, <2>4, MapHasNoEmptyId, LineageIsSimple
<1>. QED
  BY <1>3, <1>4, <1>5, <1>6, <1>7

-----------------------------------------------------------------------------
(* AddMember's two loops *)

Deciding == {"cycle", "depth", "accepted", "refused"}

\* detectCycle walks up from parentId and has not met the new id; when
\* calculateDepth starts, there is a lineage for it to go up again.
DecisionInv ==
  /\ phase = "cycle" => /\ parentId \in Ids /\ newId \notin visited /\ depth = 0
                        /\ \E k \in Nat : Walked(k)
  /\ phase = "depth" => /\ parentId \in Ids /\ depth \in Nat /\ Walked(depth)
                        /\ \E l \in Nat \ {0} : Lineage(l) # {}
  /\ phase = "accepted" => Accepts(parent, newId, parentId)
  /\ phase = "refused" => ~Accepts(parent, newId, parentId)

LEMMA CycleErrorDecides ==
  ASSUME Map, DecisionInv, CycleError PROVE DecisionInv'
<1>1. PICK k \in Nat : Walked(k)
  BY DEF DecisionInv, CycleError
<1>2. parentId \in Ids /\ newId \notin visited /\ parentId # NoId
  BY HierarchyAssumption DEF DecisionInv, CycleError
<1>3. ~Accepts(parent, newId, parentId)
  <2>. SUFFICES ASSUME NEW l \in 1 .. MaxMemberDepth - 1, NEW path \in PathsOfLength(parent, l),
                       path[l] = parentId, \A i \in 1..l : path[i] # newId
                PROVE  FALSE
    BY <1>2 DEF Accepts
  <2>1. l \in Nat \ {0} /\ path \in Lineage(l)
    BY HierarchyAssumption DEF Lineage
  <2>. QED
    BY <1>1, <1>2, <2>1, ErrorIsRight DEF CycleError
<1>4. UNCHANGED <<parent, newId, parentId>> /\ phase' = "refused"
  BY DEF CycleError, input
<1>. QED
  BY <1>3, <1>4 DEF DecisionInv, Accepts, PathsOfLength, IsLineage

LEMMA CycleStepDecides ==
  ASSUME Map, DecisionInv, CycleStep PROVE DecisionInv'
<1>1. PICK k \in Nat : Walked(k)
  BY DEF DecisionInv, CycleStep
<1>2. /\ UNCHANGED <<parent, newId, parentId, phase, depth>> /\ phase = "cycle"
      /\ visited' = visited \cup {current} /\ current' = parent[current]
      /\ current \in DOMAIN parent /\ current # newId
  BY DEF CycleStep, input
<1>3. Walked(k + 1)'
  BY <1>1, <1>2, WalkStep
<1>4. k + 1 \in Nat
  OBVIOUS
<1>. QED
  BY <1>2, <1>3, <1>4 DEF DecisionInv

LEMMA CycleFreeDecides ==
  ASSUME Map, parentId \in MaybeId, DecisionInv, CycleFree PROVE DecisionInv'
<1>1. /\ phase = "cycle" /\ current = NoId /\ phase' = "depth" /\ current' = parentId
      /\ visited' = {} /\ UNCHANGED <<parent, newId, parentId, depth>>
  BY DEF CycleFree, input
<1>2. parentId \in Ids /\ newId \notin visited /\ depth = 0 /\ parentId # NoId
  BY <1>1, HierarchyAssumption DEF DecisionInv
<1>3. PICK k \in Nat : Walked(k)
  BY <1>1 DEF DecisionInv
<1>4. PICK w : Walk(w, k) /\ current = w[k] /\ visited = {w[i] : i \in 0 .. k - 1}
  BY <1>3 DEF Walked, VisitedBy
<1>5. \A i \in 0 .. k - 1 : w[i] # newId
  BY <1>2, <1>4
<1>6. k # 0 /\ Lineage(k) # {}
  BY <1>1, <1>2, <1>4, <1>5, WalkIsLineage
<1>7. Lineage(k)' = Lineage(k)
  BY <1>1 DEF Lineage, PathsOfLength, IsLineage
<1>8. Walked(0)'
  BY <1>1, WalkRestarts
<1>9. depth' = 0 /\ parentId' \in Ids
  BY <1>1, <1>2
<1>10. \E l \in Nat \ {0} : Lineage(l)' # {}
  BY <1>6, <1>7
<1>. QED
  BY <1>1, <1>8, <1>9, <1>10 DEF DecisionInv

LEMMA DepthStepDecides ==
  ASSUME Map, DecisionInv, DepthStep PROVE DecisionInv'
<1>1. /\ UNCHANGED <<parent, newId, parentId, phase>> /\ phase = "depth"
      /\ visited' = visited \cup {current} /\ current' = parent[current]
      /\ current \in DOMAIN parent /\ depth' = depth + 1
  BY DEF DepthStep, input
<1>2. parentId \in Ids /\ depth \in Nat /\ Walked(depth)
  BY <1>1 DEF DecisionInv
<1>3. PICK l \in Nat \ {0} : Lineage(l) # {}
  BY <1>1 DEF DecisionInv
<1>4. Lineage(l)' = Lineage(l)
  BY <1>1 DEF Lineage, PathsOfLength, IsLineage
<1>5. PICK d \in Nat : d = depth
  BY <1>2
<1>6. Walked(d + 1)'
  BY <1>1, <1>2, <1>5, WalkStep
<1>7. depth' = d + 1 /\ depth' \in Nat
  BY <1>1, <1>5
<1>8. Walked(depth)'
  BY <1>6, <1>7 DEF Walked, Walk, VisitedBy
<1>. QED
  BY <1>1, <1>2, <1>3, <1>4, <1>7, <1>8 DEF DecisionInv

LEMMA VerdictDecides ==
  ASSUME Map, DecisionInv, DepthVerdict PROVE DecisionInv'
<1>1. /\ UNCHANGED <<parent, newId, parentId>> /\ phase = "depth"
      /\ depth > MaxMemberDepth \/ current \notin DOMAIN parent \ visited
      /\ phase' = IF depth + 1 > MaxMemberDepth THEN "refused" ELSE "accepted"
  BY DEF DepthVerdict, input
<1>2. parentId \in Ids /\ depth \in Nat /\ Walked(depth)
  BY <1>1 DEF DecisionInv
<1>3. PICK l \in Nat \ {0} : Lineage(l) # {}
  BY <1>1 DEF DecisionInv
<1>4. depth + 1 <= MaxMemberDepth <=> Accepts(parent, newId, parentId)
  BY <1>1, <1>2, <1>3, VerdictIsRight
<1>5. Accepts(parent, newId, parentId)' <=> Accepts(parent, newId, parentId)
  BY <1>1 DEF Accepts, PathsOfLength, IsLineage
<1>6. phase' = IF Accepts(parent, newId, parentId) THEN "accepted" ELSE "refused"
  BY <1>1, <1>2, <1>4, HierarchyAssumption
<1>. QED
  BY <1>5, <1>6 DEF DecisionInv

-----------------------------------------------------------------------------
(* GetMemberLineage *)

\* What has been found ends with the id asked for and goes up to the child of
\* the current one.
AscentInv ==
  /\ phase = "lineage" =>
       /\ current \in MaybeId /\ found \in Seq(Ids)
       /\ IF found = <<>> THEN current = parentId
          ELSE /\ parentId # NoId /\ found[Len(found)] = parentId
               /\ found[1] \in DOMAIN parent /\ current = parent[found[1]]
               /\ \A i \in 2..Len(found) : /\ found[i] \in DOMAIN parent
                                           /\ parent[found[i]] = found[i - 1]
                                           /\ found[i - 1] # NoId
  /\ phase = "ancestors" => LineageOf(parentId, found)

LEMMA AscentStep ==
  ASSUME Map, AscentInv, LineageStep PROVE AscentInv'
<1>1. /\ phase = "lineage" /\ current # NoId /\ found' = <<current>> \o found
      /\ UNCHANGED <<parent, parentId>>
      /\ \/ current \in DOMAIN parent /\ current' = parent[current] /\ phase' = "lineage"
         \/ current \notin DOMAIN parent /\ phase' = "ancestors" /\ UNCHANGED current
  BY DEF LineageStep, input
<1>2. current \in Ids /\ found \in Seq(Ids)
  BY <1>1 DEF AscentInv, MaybeId
<1>3. /\ found' \in Seq(Ids) /\ Len(found') = Len(found) + 1 /\ found' # <<>> /\ found'[1] = current
      /\ \A i \in 1..Len(found) : found'[i + 1] = found[i]
  BY <1>1, <1>2
<1>4. found'[Len(found')] = parentId /\ parentId # NoId
  <2>1. CASE found = <<>>
    BY <1>1, <1>3, <2>1 DEF AscentInv
  <2>2. CASE found # <<>>
    <3>1. Len(found) \in 1..Len(found) /\ found[Len(found)] = parentId /\ parentId # NoId
      BY <1>1, <1>2, <2>2 DEF AscentInv
    <3>. QED
      BY <1>3, <3>1
  <2>. QED
    BY <2>1, <2>2
<1>5. ASSUME NEW i \in 2..Len(found')
      PROVE  /\ found'[i] \in DOMAIN parent /\ parent[found'[i]] = found'[i - 1]
             /\ found'[i - 1] # NoId
  <2>1. /\ i - 1 \in 1..Len(found) /\ found'[i] = found[i - 1] /\ found # <<>>
    BY <1>2, <1>3
  <2>2. CASE i = 2
    <3>1. found'[i] = found[1] /\ found'[i - 1] = current
      BY <1>3, <2>1, <2>2
    <3>2. found[1] \in DOMAIN parent /\ parent[found[1]] = current
      BY <1>1, <2>1 DEF AscentInv
    <3>. QED
      BY <1>1, <3>1, <3>2
  <2>3. CASE i # 2
    <3>1. i - 1 \in 2..Len(found) /\ i - 2 \in 1..Len(found) /\ i - 2 + 1 = i - 1 /\ i - 1 - 1 = i - 2
      BY <2>1, <2>3
    <3>2. found'[i - 1] = found[i - 2]
      BY <1>3, <3>1
    <3>. QED
      BY <1>1, <2>1, <3>1, <3>2 DEF AscentInv
  <2>. QED
    BY <2>2, <2>3
<1>7. CASE current \in DOMAIN parent /\ current' = parent[current] /\ phase' = "lineage"
  <2>1. current' \in MaybeId /\ found'[1] \in DOMAIN parent'
    BY <1>1, <1>3, <1>7, MapIs
  <2>. QED
    BY <1>1, <1>3, <1>4, <1>5, <1>7, <2>1 DEF AscentInv
<1>8. CASE current \notin DOMAIN parent /\ phase' = "ancestors"
  <2>1. LineageOf(parentId, found')
    BY <1>3, <1>4, <1>5, <1>8 DEF LineageOf, Children
  <2>2. LineageOf(parentId, found)'
    BY <1>1, <2>1 DEF LineageOf, Children
  <2>. QED
    BY <1>8, <2>2 DEF AscentInv
<1>. QED
  BY <1>1, <1>7, <1>8

LEMMA AscentTop ==
  ASSUME Map, AscentInv, LineageTop PROVE AscentInv'
<1>1. /\ phase = "lineage" /\ current = NoId /\ phase' = "ancestors"
      /\ UNCHANGED <<parent, parentId, found>>
  BY DEF LineageTop, input, walk
<1>2. LineageOf(parentId, found)
  BY <1>1 DEF AscentInv, LineageOf, Children
<1>3. LineageOf(parentId, found)'
  BY <1>1, <1>2 DEF LineageOf, Children
<1>. QED
  BY <1>1, <1>3 DEF AscentInv

-----------------------------------------------------------------------------
(* ListDescendantMembers *)

Listed  == {found[i] : i \in 1..Len(found)}
Waiting == UNION {frames[i] : i \in 1..Len(frames)}
Reached == Listed \cup Waiting

\* A chain of children from parentId to x, all but x listed, nobody twice.
Descent(k, p, x) ==
  /\ p \in [1..k -> DOMAIN parent] /\ p[k] = x
  /\ parent[p[1]] = parentId
  /\ \A i \in 2..k : parent[p[i]] = p[i - 1]
  /\ \A i \in 1 .. k - 1 : p[i] \in Listed
  /\ \A i, j \in 1..k : p[i] = p[j] => i = j

\* Whoever is listed or waits is a descendant, in one place; and everybody whose
\* parent has been listed is one of them.
DescentInv ==
  phase \in {"descendants", "below"} =>
    /\ found \in Seq(DOMAIN parent) /\ frames \in Seq(SUBSET DOMAIN parent)
    /\ phase = "descendants" => frames # <<>> /\ IsAcyclic(parent)
    /\ phase = "below" => frames = <<>>
    /\ \A i, j \in 1..Len(found) : found[i] = found[j] => i = j
    /\ \A i, j \in 1..Len(frames) : frames[i] \cap frames[j] # {} => i = j
    /\ Listed \cap Waiting = {}
    /\ \A c \in DOMAIN parent : c \in Reached <=> parent[c] \in Listed \cup {parentId}
    /\ \A x \in Reached : \E k \in Nat \ {0} : \E p : Descent(k, p, x)

\* Nobody waits below itself.
LEMMA NotReachedAgain ==
  ASSUME Map, DescentInv, phase = "descendants" PROVE parentId \notin Reached
<1>1. Reached \subseteq DOMAIN parent
  BY DEF DescentInv, Reached, Listed, Waiting
<1>2. \A x \in Reached : parent[x] \in Listed \cup {parentId}
  BY <1>1 DEF DescentInv
<1>. SUFFICES ASSUME parentId \in Reached PROVE FALSE
  OBVIOUS
<1>3. \A x \in Reached : parent[x] \in Reached
  BY <1>2 DEF Reached
<1>4. Reached \in SUBSET DOMAIN parent /\ Reached # {}
  BY <1>1
<1>. HIDE DEF Reached
<1>5. IsAcyclic(parent)
  BY DEF DescentInv
<1>. QED
  BY <1>3, <1>4, <1>5 DEF IsAcyclic

LEMMA CollectDescends ==
  ASSUME Map, DescentInv, Collect PROVE DescentInv'
<1>. DEFINE n == Len(frames)
<1>1. /\ phase = "descendants" /\ UNCHANGED <<parent, parentId, phase>>
      /\ found \in Seq(DOMAIN parent) /\ frames \in Seq(SUBSET DOMAIN parent) /\ frames # <<>>
  BY DEF Collect, input, DescentInv
<1>2. PICK m \in frames[n] :
        /\ found' = Append(found, m)
        /\ frames' = Append([frames EXCEPT ![n] = @ \ {m}], Children(m))
  BY DEF Collect, Last
<1>3. n \in Nat \ {0} /\ n \in 1..n /\ m \in DOMAIN parent /\ Len(found) \in Nat
  BY <1>1, <1>2
<1>4. Children(m) \subseteq DOMAIN parent
      /\ \A c \in DOMAIN parent : c \in Children(m) <=> parent[c] = m
  BY DEF Children
<1>5. /\ frames' \in Seq(SUBSET DOMAIN parent) /\ Len(frames') = n + 1 /\ frames' # <<>>
      /\ frames'[n + 1] = Children(m) /\ frames'[n] = frames[n] \ {m}
      /\ \A i \in 1 .. n - 1 : frames'[i] = frames[i]
  <2>. DEFINE less == [frames EXCEPT ![n] = @ \ {m}]
  <2>1. /\ less \in Seq(SUBSET DOMAIN parent) /\ Len(less) = n /\ less[n] = frames[n] \ {m}
        /\ \A i \in 1 .. n - 1 : less[i] = frames[i]
    BY <1>1, <1>3
  <2>2. frames' = Append(less, Children(m))
    BY <1>2
  <2>. HIDE DEF less
  <2>. QED
    BY <1>3, <1>4, <2>1, <2>2
<1>6. /\ found' \in Seq(DOMAIN parent) /\ Len(found') = Len(found) + 1 /\ found'[Len(found) + 1] = m
      /\ \A i \in 1..Len(found) : found'[i] = found[i]
  BY <1>1, <1>2, <1>3
<1>7. m \in Waiting /\ m \notin Listed /\ m # parentId
  <2>1. m \in Waiting
    BY <1>2, <1>3 DEF Waiting
  <2>2. Listed \cap Waiting = {}
    BY <1>1 DEF DescentInv
  <2>3. parentId \notin Reached
    BY <1>1, NotReachedAgain
  <2>. QED
    BY <2>1, <2>2, <2>3 DEF Reached
<1>8. Listed' = Listed \cup {m}
  <2>1. 1..Len(found') = (1..Len(found)) \cup {Len(found) + 1}
    BY <1>3, <1>6
  <2>. QED
    BY <1>6, <2>1 DEF Listed
\* Its children come up for the first time.
<1>9. ASSUME NEW c \in Children(m) PROVE c \notin Reached /\ c # m
  <2>1. c \in DOMAIN parent /\ parent[c] = m
    BY <1>4
  <2>2. c \notin Reached
    BY <1>1, <1>7, <2>1 DEF DescentInv
  <2>. QED
    BY <1>7, <2>2 DEF Reached
<1>10. \A i \in 1 .. n - 1 : m \notin frames[i]
  <2>. SUFFICES ASSUME NEW i \in 1 .. n - 1, m \in frames[i] PROVE FALSE
    OBVIOUS
  <2>1. i \in 1..n /\ frames[i] \cap frames[n] # {} /\ i # n
    BY <1>2, <1>3
  <2>. QED
    BY <1>1, <1>3, <2>1 DEF DescentInv
<1>11. Waiting' = (Waiting \ {m}) \cup Children(m)
  <2>1. 1..Len(frames') = (1 .. n - 1) \cup {n} \cup {n + 1} /\ 1..n = (1 .. n - 1) \cup {n}
    BY <1>3, <1>5
  <2>2. ASSUME NEW x \in Waiting' PROVE x \in (Waiting \ {m}) \cup Children(m)
    <3>1. PICK i \in 1..Len(frames') : x \in frames'[i]
      BY DEF Waiting
    <3>. QED
      BY <1>5, <1>10, <2>1, <3>1 DEF Waiting
  <2>3. ASSUME NEW x \in Waiting, x # m PROVE x \in Waiting'
    <3>1. PICK i \in 1..n : x \in frames[i]
      BY DEF Waiting
    <3>2. x \in frames'[i] /\ i \in 1..Len(frames')
      BY <1>5, <2>1, <2>3, <3>1
    <3>. QED
      BY <3>2 DEF Waiting
  <2>4. Children(m) \subseteq Waiting'
    <3>1. n + 1 \in 1..Len(frames')
      BY <2>1
    <3>. QED
      BY <1>5, <3>1 DEF Waiting
  <2>. QED
    BY <2>2, <2>3, <2>4
<1>12. Reached' = Reached \cup Children(m)
  BY <1>7, <1>8, <1>11 DEF Reached
<1>13. \A i, j \in 1..Len(found') : found'[i] = found'[j] => i = j
  <2>1. \A i \in 1..Len(found) : found[i] # m
    BY <1>7 DEF Listed
  <2>2. \A i, j \in 1..Len(found) : found[i] = found[j] => i = j
    BY <1>1 DEF DescentInv
  <2>. QED
    BY <1>3, <1>6, <2>1, <2>2
<1>14. \A i, j \in 1..Len(frames') : frames'[i] \cap frames'[j] # {} => i = j
  <2>1. \A i \in 1..n : frames'[i] \subseteq frames[i] /\ frames[i] \subseteq Reached
    <3>1. \A i \in 1..n : i = n \/ i \in 1 .. n - 1
      BY <1>3
    <3>. QED
      BY <1>5, <3>1 DEF Reached, Waiting
  <2>2. \A i \in 1..n : frames'[i] \cap frames'[n + 1] = {}
    BY <1>5, <1>9, <2>1
  <2>3. \A i, j \in 1..n : frames[i] \cap frames[j] # {} => i = j
    BY <1>1 DEF DescentInv
  <2>4. \A i \in 1..Len(frames') : i = n + 1 \/ i \in 1..n
    BY <1>3, <1>5
  <2>. HIDE DEF n
  <2>5. \A i, j \in 1..n : frames'[i] \cap frames'[j] # {} => i = j
    BY <2>1, <2>3
  <2>. QED
    BY <2>2, <2>4, <2>5
<1>15. Listed' \cap Waiting' = {}
  <2>1. Listed \cap Waiting = {}
    BY <1>1 DEF DescentInv
  <2>. QED
    BY <1>8, <1>9, <1>11, <2>1 DEF Reached
<1>16. \A c \in DOMAIN parent : c \in Reached' <=> parent[c] \in Listed' \cup {parentId}
  <2>1. \A c \in DOMAIN parent : c \in Reached <=> parent[c] \in Listed \cup {parentId}
    BY <1>1 DEF DescentInv
  <2>. QED
    BY <1>4, <1>8, <1>12, <2>1
<1>17. ASSUME NEW x \in Reached, NEW k \in Nat \ {0}, NEW p, Descent(k, p, x)
       PROVE  Descent(k, p, x)'
  BY <1>1, <1>8, <1>17 DEF Descent
<1>18. ASSUME NEW c \in Children(m)
       PROVE  \E k \in Nat \ {0} : \E p : Descent(k, p, c)'
  <2>1. PICK k \in Nat \ {0} : \E p : Descent(k, p, m)
    BY <1>1, <1>7 DEF DescentInv, Reached
  <2>2. PICK p : Descent(k, p, m)
    BY <2>1
  <2>3. PICK q \in [1 .. k + 1 -> DOMAIN parent] :
          q[k + 1] = c /\ \A i \in 1..k : q[i] = p[i]
    <3>. DEFINE u == [i \in 1 .. k + 1 |-> IF i = k + 1 THEN c ELSE p[i]]
    <3>1. u \in [1 .. k + 1 -> DOMAIN parent] /\ u[k + 1] = c /\ \A i \in 1..k : u[i] = p[i]
      BY <1>4, <2>2 DEF Descent
    <3>. QED
      BY <3>1
  <2>4. parent[c] = m /\ c \notin Listed /\ c # m /\ c \in DOMAIN parent
    BY <1>4, <1>9, <1>18 DEF Reached
  <2>5. /\ p \in [1..k -> DOMAIN parent] /\ p[k] = m /\ parent[p[1]] = parentId
        /\ \A i \in 2..k : parent[p[i]] = p[i - 1]
        /\ \A i \in 1 .. k - 1 : p[i] \in Listed
        /\ \A i, j \in 1..k : p[i] = p[j] => i = j
    BY <2>2 DEF Descent
  <2>6. \A i \in 1..k : p[i] \in Listed' /\ p[i] # c
    <3>1. \A i \in 1..k : i = k \/ i \in 1 .. k - 1
      OBVIOUS
    <3>. QED
      BY <1>8, <2>4, <2>5, <3>1
  <2>7. \A i \in 2 .. k + 1 : parent[q[i]] = q[i - 1]
    <3>1. \A i \in 2 .. k + 1 : i - 1 \in 1..k /\ (i = k + 1 \/ i \in 2..k)
      OBVIOUS
    <3>. QED
      BY <2>3, <2>4, <2>5, <3>1
  <2>8. \A i, j \in 1 .. k + 1 : q[i] = q[j] => i = j
    BY <2>3, <2>5, <2>6
  <2>9. parent[q[1]] = parentId /\ \A i \in 1 .. k + 1 - 1 : q[i] \in Listed'
    <3>1. 1 \in 1..k /\ k + 1 - 1 = k
      OBVIOUS
    <3>. QED
      BY <2>3, <2>5, <2>6, <3>1
  <2>10. Descent(k + 1, q, c)'
    BY <1>1, <2>3, <2>7, <2>8, <2>9 DEF Descent
  <2>11. k + 1 \in Nat \ {0}
    OBVIOUS
  <2>. QED
    BY <2>10, <2>11
<1>19. \A x \in Reached' : \E k \in Nat \ {0} : \E p : Descent(k, p, x)'
  <2>1. \A x \in Reached : \E k \in Nat \ {0} : \E p : Descent(k, p, x)
    BY <1>1 DEF DescentInv
  <2>2. \A x \in Reached : \E k \in Nat \ {0} : \E p : Descent(k, p, x)'
    BY <1>17, <2>1
  <2>. QED
    BY <1>12, <1>18, <2>2
<1>20. IsAcyclic(parent)'
  BY <1>1 DEF DescentInv, IsAcyclic
<1>21. phase' = "descendants"
  BY <1>1
<1>. QED
  BY <1>1, <1>5, <1>6, <1>13, <1>14, <1>15, <1>16, <1>19, <1>20, <1>21 DEF DescentInv

LEMMA FrontIs ==
  ASSUME NEW S, NEW s \in Seq(S), s # <<>>, NEW n \in Nat, n = Len(s)
  PROVE  /\ SubSeq(s, 1, n - 1) \in Seq(S) /\ Len(SubSeq(s, 1, n - 1)) = n - 1
         /\ \A i \in 1 .. n - 1 : SubSeq(s, 1, n - 1)[i] = s[i]
OBVIOUS

LEMMA CollectReturnDescends ==
  ASSUME Map, DescentInv, CollectReturn PROVE DescentInv'
<1>. DEFINE n == Len(frames)
<1>1. /\ phase = "descendants" /\ UNCHANGED <<parent, parentId, found>>
      /\ found \in Seq(DOMAIN parent) /\ frames \in Seq(SUBSET DOMAIN parent) /\ frames # <<>>
      /\ frames[n] = {} /\ frames' = SubSeq(frames, 1, n - 1)
      /\ phase' = IF n = 1 THEN "below" ELSE phase
  BY DEF CollectReturn, input, DescentInv, Last, Front
<1>2. n \in Nat \ {0}
  BY <1>1
<1>3. /\ frames' \in Seq(SUBSET DOMAIN parent) /\ Len(frames') = n - 1
      /\ \A i \in 1 .. n - 1 : frames'[i] = frames[i]
  <2>. DEFINE S == SUBSET DOMAIN parent
  <2>1. frames \in Seq(S) /\ n = Len(frames) /\ frames # <<>>
    BY <1>1
  <2>. HIDE DEF S
  <2>2. SubSeq(frames, 1, n - 1) \in Seq(S) /\ Len(SubSeq(frames, 1, n - 1)) = n - 1
        /\ \A i \in 1 .. n - 1 : SubSeq(frames, 1, n - 1)[i] = frames[i]
    BY <1>2, <2>1, FrontIs
  <2>. QED
    BY <1>1, <2>2 DEF S
<1>4. IF n = 1 THEN phase' = "below" /\ frames' = <<>> ELSE phase' = "descendants" /\ frames' # <<>>
  <2>1. n = 1 => frames' = <<>>
    BY <1>3
  <2>2. n # 1 => frames' # <<>>
    BY <1>2, <1>3
  <2>. QED
    BY <1>1, <2>1, <2>2
<1>5. Listed' = Listed
  BY <1>1 DEF Listed
<1>6. Waiting' = Waiting
  <2>1. \A i \in 1..n : i = n \/ i \in 1 .. n - 1
    BY <1>2
  <2>2. 1 .. n - 1 \subseteq 1..n
    BY <1>2
  <2>. QED
    BY <1>1, <1>3, <2>1, <2>2 DEF Waiting
<1>7. Reached' = Reached
  BY <1>5, <1>6 DEF Reached
<1>8. \A i, j \in 1..Len(frames') : frames'[i] \cap frames'[j] # {} => i = j
  <2>1. \A i \in 1..Len(frames') : i \in 1..n /\ frames'[i] = frames[i]
    BY <1>2, <1>3
  <2>. QED
    BY <1>1, <2>1 DEF DescentInv
<1>9. \A x, k, p : Descent(k, p, x)' <=> Descent(k, p, x)
  BY <1>1, <1>5 DEF Descent
<1>10. /\ IsAcyclic(parent)'
       /\ \A i, j \in 1..Len(found') : found'[i] = found'[j] => i = j
       /\ Listed' \cap Waiting' = {}
       /\ \A c \in DOMAIN parent' : c \in Reached' <=> parent'[c] \in Listed' \cup {parentId'}
  BY <1>1, <1>5, <1>6, <1>7 DEF DescentInv, IsAcyclic
<1>11. \A x \in Reached' : \E k \in Nat \ {0} : \E p : Descent(k, p, x)'
  BY <1>1, <1>7, <1>9 DEF DescentInv
<1>. QED
  BY <1>1, <1>3, <1>4, <1>8, <1>10, <1>11 DEF DescentInv

\* What has been listed in the end is below parentId.
LEMMA ListedBelow ==
  ASSUME Map, DescentInv, phase = "below" PROVE Listed = Below(parentId)
<1>1. Waiting = {} /\ Reached = Listed
  BY DEF DescentInv, Waiting, Reached
<1>2. \A c \in DOMAIN parent : c \in Listed <=> parent[c] \in Listed \cup {parentId}
  BY <1>1 DEF DescentInv
<1>3. Listed \subseteq DOMAIN parent
  BY DEF DescentInv, Listed
<1>4. ASSUME NEW x \in Listed PROVE x \in Below(parentId)
  <2>1. PICK k \in Nat \ {0} : \E p : Descent(k, p, x)
    BY <1>1 DEF DescentInv
  <2>2. PICK p : Descent(k, p, x)
    BY <2>1
  <2>3. /\ p \in [1..k -> DOMAIN parent] /\ p[k] = x /\ parent[p[1]] = parentId
        /\ \A i \in 2..k : parent[p[i]] = p[i - 1]
        /\ \A i, j \in 1..k : p[i] = p[j] => i = j
    BY <2>2 DEF Descent
  <2>4. IsFiniteSet(DOMAIN parent) /\ IsFiniteSet(1..k) /\ Cardinality(1..k) = k
    BY MapIs, FS_Interval
  <2>5. ~(Cardinality(DOMAIN parent) < k)
    BY <2>3, <2>4, FS_PigeonHole
  <2>6. k \in 1..Cardinality(DOMAIN parent)
    BY <2>4, <2>5, FS_CardinalityType
  <2>7. p[1] \in Children(parentId) /\ \A i \in 2..k : p[i] \in Children(p[i - 1])
    BY <2>3 DEF Children
  <2>. QED
    BY <1>3, <2>3, <2>6, <2>7 DEF Below
<1>5. ASSUME NEW x \in Below(parentId) PROVE x \in Listed
  <2>1. PICK k \in 1..Cardinality(DOMAIN parent) : \E p \in [1..k -> DOMAIN parent] :
          /\ p[1] \in Children(parentId) /\ p[k] = x
          /\ \A i \in 2..k : p[i] \in Children(p[i - 1])
    BY DEF Below
  <2>2. PICK p \in [1..k -> DOMAIN parent] :
          /\ p[1] \in Children(parentId) /\ p[k] = x
          /\ \A i \in 2..k : p[i] \in Children(p[i - 1])
    BY <2>1
  <2>3. k \in Nat \ {0}
    BY <2>1, MapIs, FS_CardinalityType
  <2>4. parent[p[1]] = parentId /\ \A i \in 2..k : parent[p[i]] = p[i - 1]
    BY <2>2 DEF Children
  <2>. DEFINE T == {i \in 1..k : p[i] \notin Listed}
  <2>5. T = {}
    <3>. SUFFICES ASSUME T # {} PROVE FALSE
      OBVIOUS
    <3>1. PICK i \in T : \A j \in T : i <= j
      <4>1. T \in SUBSET Nat
        OBVIOUS
      <4>. HIDE DEF T
      <4>. QED
        BY <4>1, LeastOfNaturals
    <3>2. i # 1
      BY <1>2, <2>2, <2>3, <2>4, <3>1
    <3>3. i \in 2..k /\ i - 1 \in 1..k /\ i - 1 \notin T
      BY <2>3, <3>1, <3>2
    <3>. QED
      BY <1>2, <2>2, <2>4, <3>1, <3>3
  <2>. QED
    BY <2>2, <2>3, <2>5
<1>. QED
  BY <1>4, <1>5

\* And nobody is listed twice.
LEMMA ListedOnce ==
  ASSUME DescentInv, phase = "below" PROVE Len(found) = Cardinality(Listed)
<1>1. /\ found \in Seq(DOMAIN parent) /\ Len(found) \in Nat
      /\ \A i, j \in 1..Len(found) : found[i] = found[j] => i = j
  BY DEF DescentInv
<1>. DEFINE f == [i \in 1..Len(found) |-> found[i]]
<1>2. f \in Bijection(1..Len(found), Listed)
  BY <1>1 DEF Listed, Bijection, Injection, Surjection, IsInjective
<1>3. ExistsBijection(1..Len(found), Listed)
  BY <1>2 DEF ExistsBijection
<1>. HIDE DEF f
<1>4. IsFiniteSet(1..Len(found)) /\ Cardinality(1..Len(found)) = Len(found)
  <2>1. PICK n \in Nat : n = Len(found)
    BY <1>1
  <2>2. IsFiniteSet(1..n) /\ Cardinality(1..n) = n
    BY FS_Interval
  <2>. QED
    BY <2>1, <2>2
<1>. QED
  BY <1>3, <1>4, FS_Bijection

-----------------------------------------------------------------------------
(* All of them *)

WalksInv ==
  /\ Map /\ parentId \in MaybeId
  /\ phase \in Deciding \cup {"lineage", "ancestors", "descendants", "below"}
  /\ DecisionInv /\ AscentInv /\ DescentInv

LEMMA WalksInit == WalkInit => WalksInv
<1>. SUFFICES ASSUME WalkInit PROVE WalksInv
  OBVIOUS
<1>1. Map /\ parentId \in MaybeId /\ current = parentId /\ visited = {} /\ depth = 0 /\ found = <<>>
  BY DEF WalkInit, Hierarchies, MaybeId, Map
<1>2. phase \in {"cycle", "lineage", "descendants"}
      /\ (phase = "cycle" => parentId \in Ids)
      /\ (phase # "cycle" => IsAcyclic(parent))
  BY DEF WalkInit
<1>3. Walked(0)
  BY <1>1, WalkStarts
<1>4. DecisionInv
  BY <1>1, <1>2, <1>3 DEF DecisionInv
<1>5. AscentInv
  BY <1>1, <1>2 DEF AscentInv
<1>6. ASSUME phase = "descendants" PROVE DescentInv
  <2>1. frames = <<Children(parentId)>>
    BY <1>6 DEF WalkInit
  <2>2. /\ Children(parentId) \in SUBSET DOMAIN parent
        /\ \A c \in DOMAIN parent : c \in Children(parentId) <=> parent[c] = parentId
    BY DEF Children
  <2>3. Listed = {} /\ Waiting = Children(parentId)
    BY <1>1, <2>1 DEF Listed, Waiting
  <2>4. ASSUME NEW x \in Children(parentId)
        PROVE  \E k \in Nat \ {0} : \E p : Descent(k, p, x)
    <3>. DEFINE p == [i \in 1..1 |-> x]
    <3>1. p \in [1..1 -> DOMAIN parent] /\ p[1] = x /\ parent[x] = parentId
      BY <2>2
    <3>. HIDE DEF p
    <3>2. Descent(1, p, x)
      BY <3>1 DEF Descent
    <3>3. 1 \in Nat \ {0}
      OBVIOUS
    <3>. QED
      BY <3>2, <3>3
  <2>5. /\ found \in Seq(DOMAIN parent) /\ Len(found) = 0
        /\ frames \in Seq(SUBSET DOMAIN parent) /\ Len(frames) = 1 /\ frames # <<>>
    BY <1>1, <2>1, <2>2
  <2>. QED
    BY <1>2, <1>6, <2>2, <2>3, <2>4, <2>5 DEF DescentInv, Reached
<1>7. DescentInv
  BY <1>2, <1>6 DEF DescentInv
<1>. QED
  BY <1>1, <1>2, <1>4, <1>5, <1>7 DEF WalksInv, Deciding

LEMMA WalksStep == WalksInv /\ [WalkNext]_walkVars => WalksInv'
<1>. SUFFICES ASSUME WalksInv, [WalkNext]_walkVars PROVE WalksInv'
  OBVIOUS
<1>. USE DEF WalksInv
<1>1. CASE \/ CycleError \/ CycleStep \/ CycleFree \/ DepthStep
           \/ DepthVerdict
  <2>1. DecisionInv'
    BY <1>1, CycleErrorDecides, CycleStepDecides, CycleFreeDecides, DepthStepDecides,
       VerdictDecides
  <2>2. UNCHANGED <<parent, parentId>> /\ phase' \in Deciding
    BY <1>1 DEF CycleError, CycleStep, CycleFree, DepthStep,
       DepthVerdict, input, Deciding
  <2>3. AscentInv' /\ DescentInv'
    BY <2>2 DEF Deciding, AscentInv, DescentInv
  <2>. QED
    BY <2>1, <2>2, <2>3 DEF Map
<1>2. CASE LineageStep \/ LineageTop
  <2>1. AscentInv'
    BY <1>2, AscentStep, AscentTop
  <2>2. UNCHANGED <<parent, parentId>> /\ phase' \in {"lineage", "ancestors"}
    BY <1>2 DEF LineageStep, LineageTop, input
  <2>3. DecisionInv' /\ DescentInv'
    BY <2>2 DEF DecisionInv, DescentInv
  <2>. QED
    BY <2>1, <2>2, <2>3 DEF Map
<1>3. CASE Collect \/ CollectReturn
  <2>1. DescentInv'
    BY <1>3, CollectDescends, CollectReturnDescends
  <2>2. UNCHANGED <<parent, parentId>> /\ phase' \in {"descendants", "below"}
    BY <1>3 DEF Collect, CollectReturn, input
  <2>3. DecisionInv' /\ AscentInv'
    BY <2>2 DEF DecisionInv, AscentInv
  <2>. QED
    BY <2>1, <2>2, <2>3 DEF Map
<1>4. CASE UNCHANGED walkVars
  <2>1. UNCHANGED <<parent, newId, parentId, phase, current, visited, depth, found, frames>>
    BY <1>4 DEF walkVars
  <2>2. DecisionInv'
    <3>1. \A w, k : (Walk(w, k)' <=> Walk(w, k)) /\ (VisitedBy(w, k)' <=> VisitedBy(w, k))
      BY <2>1 DEF Walk, VisitedBy
    <3>2. \A k : Walked(k)' <=> Walked(k)
      BY <2>1, <3>1 DEF Walked
    <3>3. \A l : Lineage(l)' = Lineage(l)
      BY <2>1 DEF Lineage, PathsOfLength, IsLineage
    <3>4. Accepts(parent, newId, parentId)' <=> Accepts(parent, newId, parentId)
      BY <2>1 DEF Accepts, PathsOfLength, IsLineage
    <3>. QED
      BY <2>1, <3>2, <3>3, <3>4 DEF DecisionInv
  <2>3. AscentInv'
    BY <2>1 DEF AscentInv, LineageOf, Children
  <2>4. DescentInv'
    <3>1. Listed' = Listed /\ Waiting' = Waiting /\ Reached' = Reached
      BY <2>1 DEF Reached, Listed, Waiting
    <3>2. \A k, p, x : Descent(k, p, x)' <=> Descent(k, p, x)
      BY <2>1, <3>1 DEF Descent
    <3>3. IsAcyclic(parent)' <=> IsAcyclic(parent)
      BY <2>1 DEF IsAcyclic
    <3>. QED
      BY <2>1, <3>1, <3>2, <3>3 DEF DescentInv
  <2>. QED
    BY <2>1, <2>2, <2>3, <2>4 DEF Map
<1>. QED
  BY <1>1, <1>2, <1>3, <1>4 DEF WalkNext

\* AddMember accepts exactly the members with a complete lineage that does not
\* hold the new id and leaves room for it, the lineage of a member is listed in
\* its order, and every descendant once, on every finite member map.
THEOREM WalksCorrect == WalkSpec => []ResultIsRight
<1>1. WalksInv => ResultIsRight
  <2>. SUFFICES ASSUME WalksInv PROVE ResultIsRight
    OBVIOUS
  <2>1. /\ phase = "accepted" => Accepts(parent, newId, parentId)
        /\ phase = "refused" => ~Accepts(parent, newId, parentId)
    BY DEF WalksInv, DecisionInv
  <2>2. phase = "ancestors" => LineageOf(parentId, found)
    BY DEF WalksInv, AscentInv
  <2>3. ASSUME phase = "below"
        PROVE  /\ {found[i] : i \in DOMAIN found} = Below(parentId)
               /\ Len(found) = Cardinality(Below(parentId))
    <3>1. Listed = Below(parentId) /\ Len(found) = Cardinality(Listed)
      BY <2>3, ListedBelow, ListedOnce DEF WalksInv
    <3>2. DOMAIN found = 1..Len(found)
      BY <2>3 DEF WalksInv, DescentInv
    <3>. QED
      BY <3>1, <3>2 DEF Listed
  <2>. QED
    BY <2>1, <2>2, <2>3, Zenon DEF ResultIsRight
<1>. QED
  BY <1>1, WalksInit, WalksStep, PTL DEF WalkSpec

=============================================================================
