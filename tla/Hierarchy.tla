------------------------------ MODULE Hierarchy ------------------------------
(***************************************************************************)
(* The member hierarchy of pkg/team: what a lineage is, and which new      *)
(* members AddMember accepts (pkg/team/validation.go).                     *)
(*                                                                         *)
(* A hierarchy is a function, parent, from the ids that are present to     *)
(* the id ParentID() returns, NoId for a top-level member.  Nothing        *)
(* forces a parent to be present.                                          *)
(***************************************************************************)
EXTENDS Integers, Sequences, FiniteSets

CONSTANTS Ids,             \* the values of Member.ID()
          NoId,            \* the empty string
          MaxMemberDepth   \* validation.go: 5

ASSUME HierarchyAssumption ==
  /\ NoId \notin Ids
  /\ MaxMemberDepth \in Nat \ {0}

MaybeId == Ids \cup {NoId}
Hierarchies == UNION {[S -> MaybeId] : S \in SUBSET Ids}

\* The ancestors of path[Len(path)] and itself, from a top-level member on:
\* the result of GetMemberLineage when no ancestor is missing.
IsLineage(parent, path) ==
  /\ parent[path[1]] = NoId
  /\ \A i \in 2..Len(path) : parent[path[i]] = path[i - 1]

PathsOfLength(parent, k) == {path \in [1..k -> DOMAIN parent] : IsLineage(parent, path)}

\* detectCycle and checkDepthLimit both return nil: the walk from parentId
\* ends at a top-level member, without newId and short enough.
Accepts(parent, newId, parentId) ==
  \/ parentId = NoId
  \/ \E k \in 1 .. MaxMemberDepth - 1 : \E path \in PathsOfLength(parent, k) :
       /\ path[k] = parentId
       /\ \A i \in 1..k : path[i] # newId

\* Every non-empty set of members has one whose parent is outside of the set.
\* [Without it ListDescendantMembers and GetMemberLineage would not return.]
IsAcyclic(parent) ==
  \A S \in SUBSET DOMAIN parent : S # {} => \E x \in S : parent[x] \notin S

==============================================================================
