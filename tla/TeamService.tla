----------------------------- MODULE TeamService -----------------------------
(***************************************************************************)
(* What a team behind an actor promises its callers (pkg/team/actor.go):   *)
(* every request takes effect at once, completely and alone, between the   *)
(* moment it is made and the moment it is answered, and the answer is the  *)
(* one that effect gave.  A caller that gives up learns nothing: its       *)
(* request may have taken effect, may still do so later, or never.         *)
(*                                                                         *)
(* Outcomes is the sequential meaning of the handlers; nothing below it    *)
(* knows of mailboxes, channels or timers.                                 *)
(***************************************************************************)
EXTENDS Hierarchy

CONSTANTS Clients,    \* goroutines that call Do*
          Ops,        \* the operations they use
          MaxTasks,   \* bound: the task ids that callers name
          MaxCalls    \* bound: requests made

\* "pending" stands for every status but "completed".
Statuses == {"pending", "completed"}

\* The id n stands for "task-n", and 0 for the empty string.
TaskIds == 0 .. MaxTasks
Task == [id : Nat, status : Statuses, assignedTo : MaybeId, completedAt : BOOLEAN]

\* The state of a TeamActor: members is a hierarchy; of the progress log and of
\* the reports the length is kept.
TeamState == [members : Hierarchies, leader : MaybeId, tasks : Seq(Task),
              progress : Nat, reports : Nat]
NewTeam == [members |-> [i \in {} |-> NoId], leader |-> NoId, tasks |-> <<>>,
            progress |-> 0, reports |-> 0]

Asks == [op : {"add"}, id : Ids, parent : MaybeId]
   \cup [op : {"close"}, id : Ids]
   \cup [op : {"fork"}, source : Ids, id : Ids]
   \cup [op : {"members", "board", "summary", "report"}]
   \cup [op : {"addTask"}, task : TaskIds, status : Statuses]
   \cup [op : {"update"}, task : TaskIds, status : Statuses]
   \cup [op : {"assign"}, task : TaskIds, id : Ids]
\* Messages that nobody waits for.
Posts == [op : {"remove"}, id : Ids] \cup [op : {"progress", "shutdown"}]

Ok == [result |-> "ok"]
Error == [result |-> "error"]
Deadline == [result |-> "deadline"]
NoReply == [result |-> "none"]
Replies == {Ok, Error, Deadline, NoReply} \cup [id : Nat]
      \cup [members : Hierarchies, leader : MaybeId]
      \cup [tasks : Seq(Task)]
      \cup [count : Nat, leader : MaybeId, pending : Nat, completed : Nat, recent : 0 .. 5]

-----------------------------------------------------------------------------
(* The handlers of TeamActor, as the team and the reply they leave.         *)

Joins(t, i, p) == i \notin DOMAIN t.members /\ Accepts(t.members, i, p)

\* The first to join becomes the leader.
Joined(t, i, p) ==
    [t EXCEPT !.members = [j \in DOMAIN @ \cup {i} |-> IF j = i THEN p ELSE @[j]],
              !.leader = IF @ = NoId THEN i ELSE @,
              !.progress = @ + 1]

\* handleAddMember
Added(t, i, p) ==
    IF Joins(t, i, p) THEN [team |-> Joined(t, i, p), reply |-> Ok]
                      ELSE [team |-> t, reply |-> Error]

\* Mutant: the leader leaves and nobody follows.
WithoutElection(t, i) ==
    {[t EXCEPT !.members = [j \in DOMAIN @ \ {i} |-> @[j]],
               !.leader = IF @ = i THEN NoId ELSE @]}

\* handleForkMember: the clone may fail, and the caller's options, which come
\* after WithID(newID), may give it another id and a parent.
Forked(t, source, i) ==
    IF source \in DOMAIN t.members /\ i \notin DOMAIN t.members
    THEN {[team |-> t, reply |-> Error]} \cup {Added(t, j, p) : j \in Ids, p \in MaybeId}
    ELSE {[team |-> t, reply |-> Error]}

\* A member leaves; the next leader is any of those that stay.
Without(t, i) ==
    LET stay == DOMAIN t.members \ {i}
        next == IF t.leader # i THEN {t.leader} ELSE IF stay = {} THEN {NoId} ELSE stay
    IN  {[t EXCEPT !.members = [j \in stay |-> t.members[j]], !.leader = l] : l \in next}

\* Every id is that of the first task that has it.
TasksWith(t, n) == {k \in DOMAIN t.tasks : t.tasks[k].id = n}
FirstWith(t, n) == CHOOSE k \in TasksWith(t, n) : \A l \in TasksWith(t, n) : k <= l

\* handleAddTask: a task without an id gets the number of tasks plus one.
NewTask(t, n, s) == [id |-> IF n = 0 THEN Len(t.tasks) + 1 ELSE n, status |-> s,
                     assignedTo |-> NoId, completedAt |-> FALSE]

Replied(t, reply) == {[team |-> t, reply |-> reply]}

\* CompletedAt is set with "completed" and never reset.
WithStatus(task, s) ==
    [task EXCEPT !.status = s, !.completedAt = IF s = "completed" THEN TRUE ELSE @]
WithAssignee(task, i) == [task EXCEPT !.assignedTo = i]

\* The task is replaced, and the progress log tells of it.
Replaced(t, n, task) ==
    [t EXCEPT !.tasks = [t.tasks EXCEPT ![FirstWith(t, n)] = task], !.progress = @ + 1]
Updated(t, n, s)  == Replaced(t, n, WithStatus(t.tasks[FirstWith(t, n)], s))
Assigned(t, n, i) == Replaced(t, n, WithAssignee(t.tasks[FirstWith(t, n)], i))

\* What the queries copy: handlers that reply with parts of the team.
MembersOf(t) == [members |-> t.members, leader |-> t.leader]

BoardOf(t) == [tasks |-> t.tasks]

CountByStatus(t, s) == Cardinality({k \in DOMAIN t.tasks : t.tasks[k].status = s})

SummaryOf(t) ==
    [count |-> Cardinality(DOMAIN t.members), leader |-> t.leader,
     pending |-> CountByStatus(t, "pending"), completed |-> CountByStatus(t, "completed"),
     recent |-> IF t.progress < 5 THEN t.progress ELSE 5]

\* handleRemoveMember
Removed(t, i) ==
    IF i \in DOMAIN t.members
    THEN {[team |-> [u EXCEPT !.progress = @ + 1], reply |-> NoReply] : u \in Without(t, i)}
    ELSE Replied(t, NoReply)

\* handleCloseMember: the reply is what Close returned.
Closed(t, i) ==
    IF i \in DOMAIN t.members
    THEN {[team |-> u, reply |-> r] : u \in Without(t, i), r \in {Ok, Error}}
    ELSE Replied(t, Error)

TaskAdded(t, task) == Replied([t EXCEPT !.tasks = Append(@, task)], [id |-> task.id])

\* handleUpdateTask, handleAssignTask
TaskUpdated(t, n, s) ==
    IF TasksWith(t, n) = {} THEN Replied(t, Error) ELSE Replied(Updated(t, n, s), Ok)

TaskAssigned(t, n, i) ==
    IF i \notin DOMAIN t.members \/ TasksWith(t, n) = {}
    THEN Replied(t, Error) ELSE Replied(Assigned(t, n, i), Ok)

Reported(t)   == Replied([t EXCEPT !.reports = @ + 1], [id |-> t.reports + 1])
Progressed(t) == Replied([t EXCEPT !.progress = @ + 1], NoReply)

\* Close of the members; the next ones join a team without a leader.
Disbanded(t) == [t EXCEPT !.members = [i \in {} |-> NoId], !.leader = NoId]

\* Receive: every team and reply that a request can lead to.  Remove, progress
\* and shutdown send no reply.
Outcomes(t, q) ==
    CASE q.op = "add"      -> {Added(t, q.id, q.parent)}
      [] q.op = "remove"   -> Removed(t, q.id)
      [] q.op = "close"    -> Closed(t, q.id)
      [] q.op = "fork"     -> Forked(t, q.source, q.id)
      [] q.op = "members"  -> Replied(t, MembersOf(t))
      [] q.op = "board"    -> Replied(t, BoardOf(t))
      [] q.op = "summary"  -> Replied(t, SummaryOf(t))
      [] q.op = "addTask"  -> TaskAdded(t, NewTask(t, q.task, q.status))
      [] q.op = "update"   -> TaskUpdated(t, q.task, q.status)
      [] q.op = "assign"   -> TaskAssigned(t, q.task, q.id)
      [] q.op = "report"   -> Reported(t)
      [] q.op = "progress" -> Progressed(t)
      [] q.op = "shutdown" -> Replied(Disbanded(t), NoReply)

-----------------------------------------------------------------------------
VARIABLES team,    \* the team
          call,    \* per client: its request, until it is answered
          answer,  \* per client: what its last request came to
          late,    \* requests that nobody waits for
          calls    \* requests made so far

serviceVars == <<team, call, answer, late, calls>>

\* A request is told from the others by its number.
Numbers == 1 .. MaxCalls
Idle == [step |-> "idle"]

ServiceInit ==
    /\ team = NewTeam
    /\ call = [u \in Clients |-> Idle]
    /\ answer = [u \in Clients |-> NoReply]
    /\ late = {}
    /\ calls = 0

Ask(u) ==
    /\ call[u] = Idle /\ calls < MaxCalls /\ calls' = calls + 1
    /\ \E q \in Asks : q.op \in Ops /\
           call' = [call EXCEPT ![u] = [step |-> "asked", number |-> calls', ask |-> q]]
    /\ UNCHANGED <<team, answer, late>>

\* A post may be lost.
Post ==
    /\ calls < MaxCalls /\ calls' = calls + 1
    /\ \/ UNCHANGED late
       \/ \E q \in Posts : q.op \in Ops /\ late' = late \cup {[number |-> calls', ask |-> q]}
    /\ UNCHANGED <<team, call, answer>>

Serve(u) ==
    /\ call[u].step = "asked"
    /\ \E o \in Outcomes(team, call[u].ask) :
           /\ team' = o.team
           /\ call' = [call EXCEPT ![u] = [step |-> "done", reply |-> o.reply]]
    /\ UNCHANGED <<answer, late, calls>>

ServeLate ==
    /\ \E r \in late :
           /\ late' = late \ {r}
           /\ \E o \in Outcomes(team, r.ask) : team' = o.team
    /\ UNCHANGED <<call, answer, calls>>

Return(u) ==
    /\ call[u].step = "done"
    /\ answer' = [answer EXCEPT ![u] = call[u].reply]
    /\ call' = [call EXCEPT ![u] = Idle]
    /\ UNCHANGED <<team, late, calls>>

GiveUp(u) ==
    /\ call[u] # Idle
    /\ answer' = [answer EXCEPT ![u] = Deadline]
    /\ call' = [call EXCEPT ![u] = Idle]
    /\ \/ UNCHANGED late
       \/ /\ call[u].step = "asked"
          /\ late' = late \cup {[number |-> call[u].number, ask |-> call[u].ask]}
    /\ UNCHANGED <<team, calls>>

\* The actor ends: disbanded by Stopping, or as it is by a system shutdown.
End ==
    /\ team' \in {Disbanded(team), team}
    /\ late' = {}
    /\ UNCHANGED <<call, answer, calls>>

ServiceNext ==
    \/ \E u \in Clients : Ask(u) \/ Serve(u) \/ Return(u) \/ GiveUp(u)
    \/ Post \/ ServeLate \/ End

Service == ServiceInit /\ [][ServiceNext]_serviceVars
=============================================================================
