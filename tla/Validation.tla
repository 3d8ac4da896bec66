----------------------------- MODULE Validation -----------------------------
(***************************************************************************)
(* The loops over the member map, step by step.  The two that AddMember    *)
(* runs before it accepts a member with a parent, detectCycle and          *)
(* calculateDepth (pkg/team/validation.go), on every map: acyclic ones,    *)
(* the maps with a cycle or with absent ancestors that validation_test.go  *)
(* builds by hand included.  The walks of the queries GetMemberLineage and *)
(* ListDescendantMembers (pkg/team/impl.go), which keep no set of visited  *)
(* members, on every acyclic map, ancestors absent or not: Team!Acyclic    *)
(* says that a team has no other.                                          *)
(***************************************************************************)
EXTENDS Hierarchy, SequencesExt

VARIABLES parent,     \* the member map: id |-> ParentID()
          newId,      \* newMemberID, NoId in a query
          parentId,   \* parentID, or the id asked for
          phase,      \* the loop that runs, or the verdict
          current,    \* currentID
          visited,
          depth,
          found,      \* lineage or descendants
          frames      \* the recursion of collect: per call, the children to go

walkVars == <<parent, newId, parentId, phase, current, visited, depth, found, frames>>
input    == <<parent, newId, parentId>>
walk     == <<found, frames>>

\* ListChildMembers, and what one call of collect looks for.
Children(id) == {m \in DOMAIN parent : parent[m] = id}

WalkInit ==
  /\ parent \in Hierarchies /\ IsFiniteSet(DOMAIN parent)
  /\ \/ phase = "cycle" /\ newId \in Ids /\ parentId \in Ids
     \/ /\ phase \in {"lineage", "descendants"} /\ IsAcyclic(parent)
        /\ newId = NoId /\ parentId \in MaybeId
  /\ current = parentId
  /\ visited = {}
  /\ depth = 0
  /\ found = <<>>
  /\ frames = IF phase = "descendants" THEN <<Children(parentId)>> ELSE <<>>

-----------------------------------------------------------------------------
(* detectCycle *)

\* The three errors of the loop body.
CycleError ==
  /\ phase = "cycle" /\ current # NoId
  /\ current = newId \/ current \in visited \/ current \notin DOMAIN parent
  /\ phase' = "refused"
  /\ UNCHANGED <<input, walk, current, visited, depth>>

\* Mutant: no set of visited members.
CycleStepForgetful ==
  /\ phase = "cycle" /\ current \in DOMAIN parent /\ current # newId
  /\ current' = parent[current]
  /\ UNCHANGED <<input, walk, phase, visited, depth>>

\* currentID = parent.ParentID()
CycleStep ==
  /\ phase = "cycle" /\ current \in DOMAIN parent \ visited /\ current # newId
  /\ visited' = visited \cup {current}
  /\ current' = parent[current]
  /\ UNCHANGED <<input, walk, phase, depth>>

\* detectCycle returns nil; calculateDepth starts.
CycleFree ==
  /\ phase = "cycle" /\ current = NoId
  /\ phase' = "depth"
  /\ current' = parentId
  /\ visited' = {}
  /\ UNCHANGED <<input, walk, depth>>

-----------------------------------------------------------------------------
(* calculateDepth and checkDepthLimit *)

DepthStep ==
  /\ phase = "depth" /\ current \in DOMAIN parent \ visited
  /\ depth <= MaxMemberDepth
  /\ visited' = visited \cup {current}
  /\ current' = parent[current]
  /\ depth' = depth + 1
  /\ UNCHANGED <<input, walk, phase>>

\* Mutant: the depth of the parent is compared, not that of the new member.
DepthVerdictOfParent ==
  /\ phase = "depth"
  /\ depth > MaxMemberDepth \/ current \notin DOMAIN parent \ visited
  /\ phase' = IF depth > MaxMemberDepth THEN "refused" ELSE "accepted"
  /\ UNCHANGED <<input, walk, current, visited, depth>>

DepthVerdict ==
  /\ phase = "depth"
  /\ depth > MaxMemberDepth \/ current \notin DOMAIN parent \ visited
  /\ phase' = IF depth + 1 > MaxMemberDepth THEN "refused" ELSE "accepted"
  /\ UNCHANGED <<input, walk, current, visited, depth>>

-----------------------------------------------------------------------------
(* GetMemberLineage *)

\* An id that is absent is listed and ends the walk.
LineageStep ==
  /\ phase = "lineage" /\ current # NoId
  /\ found' = <<current>> \o found
  /\ IF current \in DOMAIN parent THEN current' = parent[current] /\ UNCHANGED phase
                                 ELSE phase' = "ancestors" /\ UNCHANGED current
  /\ UNCHANGED <<input, visited, depth, frames>>

LineageTop ==
  /\ phase = "lineage" /\ current = NoId
  /\ phase' = "ancestors"
  /\ UNCHANGED <<input, current, visited, depth, walk>>

-----------------------------------------------------------------------------
(* ListDescendantMembers *)

\* The next child that the range over the map comes to: list it, and collect
\* its own.
Collect ==
  /\ phase = "descendants"
  /\ \E m \in Last(frames) :
       /\ found' = Append(found, m)
       /\ frames' = Append([frames EXCEPT ![Len(frames)] = @ \ {m}], Children(m))
  /\ UNCHANGED <<input, phase, current, visited, depth>>

CollectReturn ==
  /\ phase = "descendants" /\ Last(frames) = {}
  /\ frames' = Front(frames)
  /\ phase' = IF Len(frames) = 1 THEN "below" ELSE phase
  /\ UNCHANGED <<input, current, visited, depth, found>>

WalkNext == \/ CycleError \/ CycleStep \/ CycleFree \/ DepthStep \/ DepthVerdict
            \/ LineageStep \/ LineageTop \/ Collect \/ CollectReturn

WalkSpec == WalkInit /\ [][WalkNext]_walkVars /\ WF_walkVars(WalkNext)

-----------------------------------------------------------------------------

\* The lineage of an id goes up to a top-level member, or to an ancestor that
\* is absent.
LineageOf(id, path) ==
  IF id = NoId THEN path = <<>>
  ELSE /\ path # <<>> /\ path[Len(path)] = id
       /\ path[1] \in DOMAIN parent => parent[path[1]] = NoId
       /\ \A i \in 2..Len(path) : path[i - 1] # NoId /\ path[i] \in Children(path[i - 1])

\* The members from which a chain of parents leads to id.
Below(id) ==
  {m \in DOMAIN parent :
     \E k \in 1..Cardinality(DOMAIN parent) : \E path \in [1..k -> DOMAIN parent] :
       /\ path[1] \in Children(id) /\ path[k] = m
       /\ \A i \in 2..k : path[i] \in Children(path[i - 1])}

\* What a loop ends with is right: AddMember accepts exactly the members with a
\* complete lineage that does not hold the new id and leaves room for it below
\* MaxMemberDepth; the queries list the lineage in its order, and every
\* descendant once (validation.go:12-83, impl.go:235-275).
ResultIsRight ==
  /\ phase = "accepted" => Accepts(parent, newId, parentId)
  /\ phase = "refused" => ~Accepts(parent, newId, parentId)
  /\ phase = "ancestors" => LineageOf(parentId, found)
  /\ phase = "below" => /\ {found[i] : i \in DOMAIN found} = Below(parentId)
                        /\ Len(found) = Cardinality(Below(parentId))

\* The loops of AddMember end on every member map, a cyclic one included, and
\* the walks of the queries on every acyclic one.
Terminates == <>(phase \in {"accepted", "refused", "ancestors", "below"})

=============================================================================
