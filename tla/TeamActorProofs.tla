--------------------------- MODULE TeamActorProofs ---------------------------
(* Proofs about TeamActor, for any ids, callers, operations and queue sizes. *)
EXTENDS TeamActor, SequenceTheorems, FiniteSetTheorems, TLAPS

Requests == Promise!Asks \cup Promise!Posts

\* What is needed of a team: a leader of its own, or no member at all.
Led(t) == IF DOMAIN t.members = {} THEN t.leader = NoId ELSE t.leader \in DOMAIN t.members

\* TeamService has a Hierarchy of its own, which is the same.
LEMMA SameHierarchy == Promise!MaybeId = MaybeId /\ Promise!Hierarchies = Hierarchies
BY DEF Promise!MaybeId, MaybeId, Promise!Hierarchies, Hierarchies

LEMMA TeamStateIs ==
  Promise!TeamState = [members : Hierarchies, leader : MaybeId, tasks : Seq(Promise!Task),
                       progress : Nat, reports : Nat]
BY SameHierarchy DEF Promise!TeamState

-----------------------------------------------------------------------------
(* The handlers *)

\* Where the handlers leave the members and the leader.
LEMMA WithoutLeads ==
  ASSUME NEW t \in Promise!TeamState, Led(t), NEW i \in DOMAIN t.members,
         NEW u \in Promise!Without(t, i)
  PROVE  u \in Promise!TeamState /\ Led(u)
<1> DEFINE stay == DOMAIN t.members \ {i}
           next == IF t.leader # i THEN {t.leader} ELSE IF stay = {} THEN {NoId} ELSE stay
           rest == [j \in stay |-> t.members[j]]
<1>1. PICK l \in next : u = [t EXCEPT !.members = rest, !.leader = l]
  BY DEF Promise!Without
<1>2. t.members \in Hierarchies /\ t.leader \in MaybeId
  BY TeamStateIs
<1>3. PICK S \in SUBSET Ids : t.members \in [S -> MaybeId]
  BY <1>2 DEF Hierarchies
<1>4. rest \in Hierarchies /\ DOMAIN rest = stay
  <2>1. stay \in SUBSET Ids /\ rest \in [stay -> MaybeId]
    BY <1>3
  <2> QED
    BY <2>1 DEF Hierarchies
<1>5. l \in MaybeId
  BY <1>2, <1>3 DEF MaybeId
<1>6. stay = {} => l = NoId
  <2>1. CASE t.leader # i
    BY <2>1 DEF Led
  <2>2. CASE t.leader = i
    BY <2>2
  <2> QED
    BY <2>1, <2>2
<1>7. stay # {} => l \in stay
  BY DEF Led
<1> HIDE DEF stay, next, rest
<1>8. u = [members |-> rest, leader |-> l, tasks |-> t.tasks,
           progress |-> t.progress, reports |-> t.reports]
  BY <1>1 DEF Promise!TeamState
<1> QED
  BY <1>4, <1>5, <1>6, <1>7, <1>8, TeamStateIs DEF Led

LEMMA AddedLeads ==
  ASSUME NEW t \in Promise!TeamState, Led(t), NEW i \in Ids, NEW p \in MaybeId
  PROVE  Promise!Added(t, i, p).team \in Promise!TeamState /\ Led(Promise!Added(t, i, p).team)
<1>1. CASE ~Promise!Joins(t, i, p)
  BY <1>1 DEF Promise!Added
<1>2. CASE Promise!Joins(t, i, p)
  <2> DEFINE all == DOMAIN t.members \cup {i}
             more == [j \in all |-> IF j = i THEN p ELSE t.members[j]]
             l == IF t.leader = NoId THEN i ELSE t.leader
  <2>1. Promise!Added(t, i, p).team =
          [members |-> more, leader |-> l, tasks |-> t.tasks,
           progress |-> t.progress + 1, reports |-> t.reports]
    BY <1>2 DEF Promise!Added, Promise!Joined, Promise!TeamState
  <2>2. PICK S \in SUBSET Ids : t.members \in [S -> MaybeId]
    BY TeamStateIs DEF Hierarchies
  <2>3. more \in Hierarchies /\ DOMAIN more = all
    <3>1. all \in SUBSET Ids /\ more \in [all -> MaybeId]
      BY <2>2
    <3> QED
      BY <3>1 DEF Hierarchies
  <2>4. l \in all /\ l \in MaybeId /\ all # {}
    BY <2>2 DEF Led, MaybeId
  <2> HIDE DEF all, more, l
  <2> QED
    BY <2>1, <2>3, <2>4, TeamStateIs DEF Led
<1> QED
  BY <1>1, <1>2

LEMMA DisbandedLeads ==
  ASSUME NEW t \in Promise!TeamState
  PROVE  /\ Promise!Disbanded(t) \in Promise!TeamState
         /\ DOMAIN Promise!Disbanded(t).members = {}
         /\ Promise!Disbanded(t).leader = NoId
<1> DEFINE none == [i \in {} |-> NoId]
<1>1. none \in Hierarchies /\ DOMAIN none = {}
  <2>1. none \in [{} -> MaybeId] /\ {} \in SUBSET Ids
    OBVIOUS
  <2> QED
    BY <2>1 DEF Hierarchies
<1> HIDE DEF none
<1>2. Promise!Disbanded(t) = [t EXCEPT !.members = none, !.leader = NoId]
  BY DEF Promise!Disbanded, none
<1>3. Promise!Disbanded(t) = [members |-> none, leader |-> NoId, tasks |-> t.tasks,
                              progress |-> t.progress, reports |-> t.reports]
  BY <1>2 DEF Promise!TeamState
<1> QED
  BY <1>1, <1>3, TeamStateIs DEF MaybeId

\* What the handlers of the task board leave of it.
LEMMA BoardLeads ==
  ASSUME NEW t \in Promise!TeamState, Led(t),
         NEW board \in Seq(Promise!Task), NEW n \in Nat, NEW m \in Nat,
         NEW u, u = [members |-> t.members, leader |-> t.leader, tasks |-> board,
                     progress |-> n, reports |-> m]
  PROVE  u \in Promise!TeamState /\ Led(u)
BY TeamStateIs DEF Led

\* Whatever stands in its place, the first task with an id is a task.
LEMMA ReplacedLeads ==
  ASSUME NEW t \in Promise!TeamState, Led(t), NEW n, NEW task,
         \A k \in DOMAIN t.tasks : k = Promise!FirstWith(t, n) => task \in Promise!Task
  PROVE  Promise!Replaced(t, n, task) \in Promise!TeamState /\ Led(Promise!Replaced(t, n, task))
<1> DEFINE k == Promise!FirstWith(t, n)
           board == [t.tasks EXCEPT ![k] = task]
<1>1. t.tasks \in Seq(Promise!Task)
  BY TeamStateIs
<1> HIDE DEF k
<1>2. board \in Seq(Promise!Task)
  <2>1. CASE k \in DOMAIN t.tasks
    BY <1>1, <2>1, LenProperties, ExceptSeq DEF k
  <2>2. CASE k \notin DOMAIN t.tasks
    <3>1. board = t.tasks
      BY <1>1, <2>2
    <3> QED
      BY <1>1, <3>1
  <2> QED
    BY <2>1, <2>2
<1>3. Promise!Replaced(t, n, task) = [t EXCEPT !.tasks = board, !.progress = @ + 1]
  BY DEF Promise!Replaced, k
<1> HIDE DEF board
<1>4. Promise!Replaced(t, n, task) =
        [members |-> t.members, leader |-> t.leader, tasks |-> board,
         progress |-> t.progress + 1, reports |-> t.reports]
  BY <1>3, TeamStateIs
<1>5. t.progress + 1 \in Nat /\ t.reports \in Nat
  BY TeamStateIs
<1> QED
  BY <1>2, <1>4, <1>5, BoardLeads

LEMMA TaskInBoard ==
  ASSUME NEW t \in Promise!TeamState, NEW k \in DOMAIN t.tasks
  PROVE  t.tasks[k] \in Promise!Task
BY TeamStateIs, LenProperties, ElementOfSeq

LEMMA UpdatedLeads ==
  ASSUME NEW t \in Promise!TeamState, Led(t), NEW n, NEW s \in Promise!Statuses
  PROVE  Promise!Updated(t, n, s) \in Promise!TeamState /\ Led(Promise!Updated(t, n, s))
<1> DEFINE new == Promise!WithStatus(t.tasks[Promise!FirstWith(t, n)], s)
<1>1. ASSUME NEW task \in Promise!Task PROVE Promise!WithStatus(task, s) \in Promise!Task
  BY DEF Promise!WithStatus, Promise!Task
<1>2. \A k \in DOMAIN t.tasks : k = Promise!FirstWith(t, n) => new \in Promise!Task
  BY <1>1, TaskInBoard
<1> HIDE DEF new
<1>3. Promise!Updated(t, n, s) = Promise!Replaced(t, n, new)
  BY DEF Promise!Updated, new
<1> QED
  BY <1>2, <1>3, ReplacedLeads

LEMMA AssignedLeads ==
  ASSUME NEW t \in Promise!TeamState, Led(t), NEW n, NEW i \in Ids
  PROVE  Promise!Assigned(t, n, i) \in Promise!TeamState /\ Led(Promise!Assigned(t, n, i))
<1> DEFINE new == Promise!WithAssignee(t.tasks[Promise!FirstWith(t, n)], i)
<1>1. ASSUME NEW task \in Promise!Task PROVE Promise!WithAssignee(task, i) \in Promise!Task
  BY SameHierarchy DEF Promise!WithAssignee, Promise!Task, MaybeId
<1>2. \A k \in DOMAIN t.tasks : k = Promise!FirstWith(t, n) => new \in Promise!Task
  BY <1>1, TaskInBoard
<1> HIDE DEF new
<1>3. Promise!Assigned(t, n, i) = Promise!Replaced(t, n, new)
  BY DEF Promise!Assigned, new
<1> QED
  BY <1>2, <1>3, ReplacedLeads

-----------------------------------------------------------------------------
(* Receive *)

LEMMA RepliesDiffer ==
  /\ Promise!Ok # Promise!NoReply /\ Promise!Error # Promise!NoReply
  /\ \A n : [id |-> n] # Promise!NoReply
  /\ \A t : Promise!MembersOf(t) # Promise!NoReply
  /\ \A t : Promise!BoardOf(t) # Promise!NoReply
  /\ \A t : Promise!SummaryOf(t) # Promise!NoReply
BY DEF Promise!Ok, Promise!Error, Promise!NoReply, Promise!MembersOf, Promise!BoardOf, Promise!SummaryOf

LEMMA AskedIsNotIdle ==
  \A n, q, c : /\ [number |-> n, ask |-> q, chan |-> c] # Idle
               /\ [step |-> "asked", number |-> n, ask |-> q] # Idle
               /\ [step |-> "done", reply |-> q] # Idle
BY DEF Idle

\* One handler for every kind of message.
LEMMA OutcomesAre ==
  ASSUME NEW t, NEW q
  PROVE  /\ q.op = "add" => Promise!Outcomes(t, q) = {Promise!Added(t, q.id, q.parent)}
         /\ q.op = "remove" => Promise!Outcomes(t, q) = Promise!Removed(t, q.id)
         /\ q.op = "close" => Promise!Outcomes(t, q) = Promise!Closed(t, q.id)
         /\ q.op = "fork" => Promise!Outcomes(t, q) = Promise!Forked(t, q.source, q.id)
         /\ q.op = "members" => Promise!Outcomes(t, q) = Promise!Replied(t, Promise!MembersOf(t))
         /\ q.op = "board" => Promise!Outcomes(t, q) = Promise!Replied(t, Promise!BoardOf(t))
         /\ q.op = "summary" => Promise!Outcomes(t, q) = Promise!Replied(t, Promise!SummaryOf(t))
         /\ q.op = "addTask" => Promise!Outcomes(t, q) = Promise!TaskAdded(t, Promise!NewTask(t, q.task, q.status))
         /\ q.op = "update" => Promise!Outcomes(t, q) = Promise!TaskUpdated(t, q.task, q.status)
         /\ q.op = "assign" => Promise!Outcomes(t, q) = Promise!TaskAssigned(t, q.task, q.id)
         /\ q.op = "report" => Promise!Outcomes(t, q) = Promise!Reported(t)
         /\ q.op = "progress" => Promise!Outcomes(t, q) = Promise!Progressed(t)
         /\ q.op = "shutdown" => Promise!Outcomes(t, q) = Promise!Replied(Promise!Disbanded(t), Promise!NoReply)
BY DEF Promise!Outcomes

LEMMA RequestsAre ==
  ASSUME NEW q \in Requests
  PROVE  \/ q.op = "add" /\ q.id \in Ids /\ q.parent \in MaybeId
         \/ q.op \in {"remove", "close"} /\ q.id \in Ids
         \/ q.op = "fork" /\ q.source \in Ids /\ q.id \in Ids
         \/ q.op \in {"members", "board", "summary", "report", "progress", "shutdown"}
         \/ q.op \in {"addTask", "update"} /\ q.task \in Nat /\ q.status \in Promise!Statuses
         \/ q.op = "assign" /\ q.id \in Ids
<1>1. Promise!TaskIds \subseteq Nat
  BY TeamActorAssumption DEF Promise!TaskIds
<1> QED
  BY <1>1, SameHierarchy DEF Requests, Promise!Asks, Promise!Posts

LEMMA PostsAre ==
  /\ \A q \in Promise!Posts : q.op \in {"remove", "progress", "shutdown"}
  /\ \A q \in Promise!Asks : q.op \notin {"remove", "progress", "shutdown", "pill"}
BY DEF Promise!Asks, Promise!Posts

\* What a handler replies to a request that somebody waits for, and to one
\* that nobody does.
LEMMA AsksAreAnswered ==
  ASSUME NEW t, NEW q \in Promise!Asks, NEW o \in Promise!Outcomes(t, q)
  PROVE  o.reply # Promise!NoReply
<1> USE OutcomesAre, RepliesDiffer
<1>0. \A u, r : \A p \in Promise!Replied(u, r) : p.reply = r
  BY DEF Promise!Replied
<1>1. q \in Requests /\ q.op \notin {"remove", "progress", "shutdown"}
  BY PostsAre DEF Requests
<1>2. CASE q.op = "add"
  BY <1>2 DEF Promise!Added
<1>3. CASE q.op = "close"
  BY <1>0, <1>3 DEF Promise!Closed
<1>4. CASE q.op = "fork"
  BY <1>0, <1>4 DEF Promise!Forked, Promise!Added
<1>5. CASE q.op \in {"members", "board", "summary"}
  BY <1>0, <1>5
<1>6. CASE q.op = "addTask"
  <2>1. o.reply = [id |-> Promise!NewTask(t, q.task, q.status).id]
    BY <1>6 DEF Promise!TaskAdded, Promise!Replied
  <2> QED
    BY <2>1
<1>7. CASE q.op = "report"
  <2>1. o.reply = [id |-> t.reports + 1]
    BY <1>7 DEF Promise!Reported, Promise!Replied
  <2> QED
    BY <2>1
<1>8. CASE q.op = "update"
  <2>1. o.reply = Promise!Error \/ o.reply = Promise!Ok
    BY <1>0, <1>8 DEF Promise!TaskUpdated
  <2> QED
    BY <2>1
<1>9. CASE q.op = "assign"
  <2>1. o.reply = Promise!Error \/ o.reply = Promise!Ok
    BY <1>0, <1>9 DEF Promise!TaskAssigned
  <2> QED
    BY <2>1
<1> QED
  BY <1>1, <1>2, <1>3, <1>4, <1>5, <1>6, <1>7, <1>8, <1>9, RequestsAre

LEMMA PostsAreNot ==
  ASSUME NEW t, NEW q \in Promise!Posts, NEW o \in Promise!Outcomes(t, q)
  PROVE  o.reply = Promise!NoReply
BY OutcomesAre, PostsAre DEF Promise!Replied, Promise!Removed, Promise!Progressed

\* Every handler leaves a team that is led.
LEMMA HandlersLead ==
  ASSUME NEW t \in Promise!TeamState, Led(t),
         NEW q \in Requests, NEW o \in Promise!Outcomes(t, q)
  PROVE  o.team \in Promise!TeamState /\ Led(o.team)
<1> USE OutcomesAre DEF Promise!Replied
<1>1. CASE q.op = "add"
  BY <1>1, RequestsAre, AddedLeads
<1>2. CASE q.op \in {"remove", "close"}
  <2>1. CASE q.id \notin DOMAIN t.members
    BY <1>2, <2>1 DEF Promise!Removed, Promise!Closed
  <2>2. CASE q.id \in DOMAIN t.members /\ q.op = "close"
    BY <2>2, WithoutLeads DEF Promise!Closed
  <2>3. CASE q.id \in DOMAIN t.members /\ q.op = "remove"
    <3>1. PICK u \in Promise!Without(t, q.id) : o.team = [u EXCEPT !.progress = @ + 1]
      BY <2>3 DEF Promise!Removed
    <3>2. u \in Promise!TeamState /\ Led(u)
      BY <2>3, <3>1, WithoutLeads
    <3> QED
      BY <3>1, <3>2, TeamStateIs DEF Led
  <2> QED
    BY <1>2, <2>1, <2>2, <2>3
<1>3. CASE q.op = "fork"
  BY <1>3, RequestsAre, AddedLeads, SameHierarchy DEF Promise!Forked
<1>4. CASE q.op \in {"members", "board", "summary"}
  BY <1>4
<1>5. CASE q.op = "addTask"
  <2> DEFINE task == Promise!NewTask(t, q.task, q.status)
  <2>1. q.task \in Nat /\ q.status \in Promise!Statuses
    BY <1>5, RequestsAre
  <2>2. t.tasks \in Seq(Promise!Task) /\ Len(t.tasks) \in Nat
    BY TeamStateIs, LenProperties
  <2>3. task \in Promise!Task
    BY <2>1, <2>2 DEF Promise!NewTask, Promise!Task, Promise!MaybeId
  <2>4. o.team = [t EXCEPT !.tasks = Append(@, task)]
    BY <1>5 DEF Promise!TaskAdded
  <2> HIDE DEF task
  <2>5. Append(t.tasks, task) \in Seq(Promise!Task)
    BY <2>2, <2>3, AppendProperties
  <2>6. o.team = [members |-> t.members, leader |-> t.leader, tasks |-> Append(t.tasks, task),
                  progress |-> t.progress, reports |-> t.reports]
    BY <2>4, TeamStateIs
  <2> QED
    BY <2>5, <2>6, TeamStateIs DEF Led
<1>6. CASE q.op = "update"
  BY <1>6, RequestsAre, UpdatedLeads DEF Promise!TaskUpdated
<1>7. CASE q.op = "assign"
  BY <1>7, RequestsAre, AssignedLeads DEF Promise!TaskAssigned
<1>8. CASE q.op \in {"report", "progress"}
  BY <1>8, TeamStateIs DEF Promise!Reported, Promise!Progressed, Led
<1>9. CASE q.op = "shutdown"
  BY <1>9, DisbandedLeads DEF Led
<1> QED
  BY <1>1, <1>2, <1>3, <1>4, <1>5, <1>6, <1>7, <1>8, <1>9, RequestsAre

-----------------------------------------------------------------------------
(* The team in every state *)

TeamInv ==
  /\ team \in Promise!TeamState /\ Led(team)
  /\ mailbox \in Seq(Messages)
  /\ calls \in 0 .. MaxCalls
  /\ loop = "stopped" => DOMAIN team.members = {} /\ team.leader = NoId

LEMMA NewTeamIsLed == Promise!NewTeam \in Promise!TeamState /\ Led(Promise!NewTeam)
<1> DEFINE none == [i \in {} |-> NoId]
<1>1. none \in Hierarchies /\ DOMAIN none = {}
  <2>1. none \in [{} -> MaybeId] /\ {} \in SUBSET Ids
    OBVIOUS
  <2> QED
    BY <2>1 DEF Hierarchies
<1>2. <<>> \in Seq(Promise!Task)
  BY EmptySeq
<1>3. Promise!NewTeam = [members |-> none, leader |-> NoId, tasks |-> <<>>,
                         progress |-> 0, reports |-> 0]
  BY DEF Promise!NewTeam
<1> HIDE DEF none
<1> QED
  BY <1>1, <1>2, <1>3, TeamStateIs DEF Led, MaybeId

\* What is in the mailbox after a Tell, and after the first message was taken.
LEMMA TellKeeps ==
  ASSUME mailbox \in Seq(Messages), NEW m \in Messages, Tell(m)
  PROVE  mailbox' \in Seq(Messages) /\ mailbox' \in {mailbox, Append(mailbox, m)}
BY AppendProperties DEF Tell

LEMMA HeadIsMessage ==
  ASSUME mailbox \in Seq(Messages), mailbox # <<>>
  PROVE  /\ Head(mailbox) \in Messages /\ Tail(mailbox) \in Seq(Messages)
         /\ Head(mailbox) # Pill => /\ Head(mailbox).ask \in Requests
                                    /\ Head(mailbox).number \in Numbers
<1>1. Head(mailbox) \in Messages /\ Tail(mailbox) \in Seq(Messages)
  BY HeadTailProperties
<1> QED
  BY <1>1 DEF Messages, Requests

LEMMA TeamInit == Init => TeamInv
<1> SUFFICES ASSUME Init PROVE TeamInv
  OBVIOUS
<1>1. mailbox \in Seq(Messages)
  BY EmptySeq DEF Init
<1> QED
  BY <1>1, NewTeamIsLed, TeamActorAssumption DEF Init, TeamInv

LEMMA DoMessage ==
  ASSUME NEW q \in Requests, Send, calls \in 0 .. MaxCalls
  PROVE  /\ [number |-> calls', ask |-> q] \in Messages
         /\ calls' \in 0 .. MaxCalls /\ calls' \in Numbers
<1>1. calls' \in Numbers /\ calls' \in 0 .. MaxCalls
  BY TeamActorAssumption DEF Send, Numbers
<1> QED
  BY <1>1 DEF Messages, Requests

LEMMA TeamStep == TeamInv /\ [Next]_vars => TeamInv'
<1> SUFFICES ASSUME TeamInv, [Next]_vars PROVE TeamInv'
  OBVIOUS
<1>1. ASSUME NEW u \in Clients, Do(u) PROVE TeamInv'
  <2>1. PICK q \in Promise!Asks : Tell([number |-> calls', ask |-> q])
    BY <1>1 DEF Do
  <2>2. /\ [number |-> calls', ask |-> q] \in Messages
        /\ calls' \in 0 .. MaxCalls
    BY <1>1, DoMessage DEF Do, TeamInv, Requests
  <2> QED
    BY <1>1, <2>1, <2>2, TellKeeps DEF Do, TeamInv
<1>2. ASSUME NEW u \in Clients, DoReturn(u) \/ DoTimeout(u) PROVE TeamInv'
  BY <1>2 DEF DoReturn, DoTimeout, TeamInv
<1>3. CASE Post
  <2>1. PICK m : Tell(m) /\ (m = Pill \/ \E q \in Promise!Posts : m = [number |-> calls', ask |-> q])
    BY <1>3 DEF Post
  <2>2. m \in Messages /\ calls' \in 0 .. MaxCalls
    BY <1>3, <2>1, DoMessage, TeamActorAssumption DEF Post, Send, TeamInv, Requests, Messages
  <2> QED
    BY <1>3, <2>1, <2>2, TellKeeps DEF Post, TeamInv
<1>4. CASE Handle
  <2>1. Head(mailbox).ask \in Requests
    BY <1>4, HeadIsMessage DEF Handle, TeamInv, Pill
  <2>2. PICK o \in Promise!Outcomes(team, Head(mailbox).ask) : team' = o.team
    BY <1>4 DEF Handle
  <2> QED
    BY <1>4, <2>1, <2>2, HandlersLead, HeadIsMessage DEF Handle, TeamInv
<1>5. CASE HandleShutdown
  <2>1. mailbox' \in Seq(Messages)
    <3>1. Tail(mailbox) \in Seq(Messages) /\ Pill \in Messages
      BY <1>5, HeadIsMessage DEF HandleShutdown, TeamInv, Messages
    <3> QED
      BY <1>5, <3>1, AppendProperties DEF HandleShutdown
  <2> QED
    BY <1>5, <2>1, DisbandedLeads DEF HandleShutdown, TeamInv, Led
<1>6. CASE Stopping
  BY <1>6, DisbandedLeads, EmptySeq DEF Stopping, TeamInv, Led
<1>7. CASE LoopCancelled
  BY <1>7, EmptySeq DEF LoopCancelled, TeamInv
<1>8. CASE UNCHANGED vars
  BY <1>8 DEF vars, TeamInv
<1> QED
  BY <1>1, <1>2, <1>3, <1>4, <1>5, <1>6, <1>7, <1>8 DEF Next

THEOREM TeamInvariant == Spec => []TeamInv
BY TeamInit, TeamStep, PTL DEF Spec

\* Whatever is removed, closed, forked or shut down, a team that has members is
\* led by one of them, and by nobody else.
THEOREM TeamLed == Spec => []TeamIsLed
<1>1. TeamInv => TeamIsLed
  BY DEF TeamInv, Led, TeamIsLed
<1> QED
  BY <1>1, TeamInvariant, PTL

\* A team that went through Stopping has no member left to close, whatever it
\* handled between ShutdownMsg and the pill.
THEOREM StoppedIsEmpty == Spec => []StoppedTeamIsEmpty
<1>1. TeamInv => StoppedTeamIsEmpty
  BY DEF TeamInv, StoppedTeamIsEmpty
<1> QED
  BY <1>1, TeamInvariant, PTL

-----------------------------------------------------------------------------
(* Types: what callers wait in, and what they are answered *)

\* TeamService counts as FiniteSets does.
LEMMA SameCardinality == \A S : Promise!Cardinality(S) = Cardinality(S)
BY DEF Promise!Cardinality, Cardinality

\* Members come one by one, so there are never infinitely many.
LEMMA TasksCounted ==
  ASSUME NEW t \in Promise!TeamState, NEW s PROVE Promise!CountByStatus(t, s) \in Nat
<1> DEFINE S == {k \in DOMAIN t.tasks : t.tasks[k].status = s}
<1>1. t.tasks \in Seq(Promise!Task)
  BY TeamStateIs
<1>2. DOMAIN t.tasks = 1 .. Len(t.tasks) /\ Len(t.tasks) \in Nat
  BY <1>1, LenProperties
<1>3. IsFiniteSet(S)
  <2>1. IsFiniteSet(DOMAIN t.tasks)
    BY <1>2, FS_Interval
  <2> QED
    BY <2>1, FS_Subset
<1>4. Promise!CountByStatus(t, s) = Cardinality(S)
  BY SameCardinality DEF Promise!CountByStatus
<1> HIDE DEF S
<1> QED
  BY <1>3, <1>4, FS_CardinalityType

LEMMA WithoutFinite ==
  ASSUME NEW t, IsFiniteSet(DOMAIN t.members), NEW i, NEW u \in Promise!Without(t, i),
         t \in Promise!TeamState
  PROVE  IsFiniteSet(DOMAIN u.members)
<1> DEFINE stay == DOMAIN t.members \ {i}
<1>1. DOMAIN u.members = stay
  <2>1. PICK l : u = [t EXCEPT !.members = [j \in stay |-> t.members[j]], !.leader = l]
    BY DEF Promise!Without
  <2> QED
    BY <2>1 DEF Promise!TeamState
<1>2. IsFiniteSet(stay)
  BY FS_Subset
<1> QED
  BY <1>1, <1>2

LEMMA AddedFinite ==
  ASSUME NEW t \in Promise!TeamState, IsFiniteSet(DOMAIN t.members), NEW i, NEW p
  PROVE  /\ IsFiniteSet(DOMAIN Promise!Added(t, i, p).team.members)
         /\ Promise!Added(t, i, p).reply \in {Promise!Ok, Promise!Error}
<1>1. IsFiniteSet(DOMAIN t.members \cup {i})
  BY FS_AddElement
<1>2. CASE Promise!Joins(t, i, p)
  <2>1. DOMAIN Promise!Joined(t, i, p).members = DOMAIN t.members \cup {i}
    BY DEF Promise!Joined, Promise!TeamState
  <2> QED
    BY <1>1, <1>2, <2>1 DEF Promise!Added
<1>3. CASE ~Promise!Joins(t, i, p)
  BY <1>3 DEF Promise!Added
<1> QED
  BY <1>2, <1>3

LEMMA ReplacedFinite ==
  ASSUME NEW t \in Promise!TeamState, NEW n, NEW task
  PROVE  Promise!Replaced(t, n, task).members = t.members
BY DEF Promise!Replaced, Promise!TeamState

LEMMA RepliesAre ==
  /\ {Promise!Ok, Promise!Error, Promise!Deadline, Promise!NoReply} \subseteq Promise!Replies
  /\ \A n \in Nat : [id |-> n] \in Promise!Replies
BY DEF Promise!Replies

\* A query replies with what it says: the members, the tasks, or their numbers.
LEMMA QueriesReply ==
  ASSUME NEW t \in Promise!TeamState, IsFiniteSet(DOMAIN t.members)
  PROVE  /\ Promise!MembersOf(t) \in Promise!Replies
         /\ Promise!BoardOf(t) \in Promise!Replies
         /\ Promise!SummaryOf(t) \in Promise!Replies
<1>1. /\ t.members \in Promise!Hierarchies /\ t.leader \in Promise!MaybeId
      /\ t.tasks \in Seq(Promise!Task) /\ t.progress \in Nat
  BY DEF Promise!TeamState
<1>2. Promise!MembersOf(t) \in Promise!Replies
  BY <1>1 DEF Promise!MembersOf, Promise!Replies
<1>3. Promise!BoardOf(t) \in Promise!Replies
  BY <1>1 DEF Promise!BoardOf, Promise!Replies
<1>4. PICK c, p, d, r : c = Cardinality(DOMAIN t.members) /\ p = Promise!CountByStatus(t, "pending")
                        /\ d = Promise!CountByStatus(t, "completed")
                        /\ r = IF t.progress < 5 THEN t.progress ELSE 5
  OBVIOUS
<1>5. c \in Nat /\ p \in Nat /\ d \in Nat /\ r \in 0 .. 5
  BY <1>1, <1>4, TasksCounted, FS_CardinalityType
<1>6. Promise!SummaryOf(t) = [count |-> c, leader |-> t.leader, pending |-> p,
                              completed |-> d, recent |-> r]
  BY <1>4, SameCardinality DEF Promise!SummaryOf
<1> QED
  BY <1>1, <1>2, <1>3, <1>5, <1>6 DEF Promise!Replies

\* Every handler replies as it should, to a team that is still finite.
LEMMA HandlersReply ==
  ASSUME NEW t \in Promise!TeamState, IsFiniteSet(DOMAIN t.members),
         NEW q \in Requests, NEW o \in Promise!Outcomes(t, q)
  PROVE  o.reply \in Promise!Replies /\ IsFiniteSet(DOMAIN o.team.members)
<1> USE OutcomesAre DEF Promise!Replied
<1>0. t.reports \in Nat /\ t.tasks \in Seq(Promise!Task) /\ Len(t.tasks) \in Nat
  BY LenProperties DEF Promise!TeamState
<1>1. CASE q.op = "add"
  BY <1>1, RepliesAre, AddedFinite
<1>2. CASE q.op = "remove"
  <2>1. CASE q.id \notin DOMAIN t.members
    BY <1>2, <2>1, RepliesAre DEF Promise!Removed
  <2>2. CASE q.id \in DOMAIN t.members
    <3>1. PICK u \in Promise!Without(t, q.id) :
            o = [team |-> [u EXCEPT !.progress = @ + 1], reply |-> Promise!NoReply]
      BY <1>2, <2>2 DEF Promise!Removed
    <3>2. IsFiniteSet(DOMAIN u.members)
      BY <3>1, WithoutFinite
    <3>3. o.team.members = u.members
      BY <3>1 DEF Promise!Without, Promise!TeamState
    <3> QED
      BY <3>1, <3>2, <3>3, RepliesAre
  <2> QED
    BY <2>1, <2>2
<1>3. CASE q.op = "close"
  BY <1>3, RepliesAre, WithoutFinite DEF Promise!Closed
<1>4. CASE q.op = "fork"
  BY <1>4, RepliesAre, AddedFinite DEF Promise!Forked
<1>5. CASE q.op \in {"members", "board", "summary"}
  BY <1>5, QueriesReply
<1>6. CASE q.op = "addTask"
  <2> DEFINE task == Promise!NewTask(t, q.task, q.status)
  <2>1. task.id \in Nat
    BY <1>0, <1>6, RequestsAre DEF Promise!NewTask
  <2>2. o = [team |-> [t EXCEPT !.tasks = Append(@, task)], reply |-> [id |-> task.id]]
    BY <1>6 DEF Promise!TaskAdded
  <2> HIDE DEF task
  <2>3. o.team.members = t.members
    BY <2>2 DEF Promise!TeamState
  <2> QED
    BY <2>1, <2>2, <2>3, RepliesAre
<1>7. CASE q.op = "update"
  BY <1>7, RepliesAre, ReplacedFinite DEF Promise!TaskUpdated, Promise!Updated
<1>8. CASE q.op = "assign"
  BY <1>8, RepliesAre, ReplacedFinite DEF Promise!TaskAssigned, Promise!Assigned
<1>9. CASE q.op = "report"
  BY <1>0, <1>9, RepliesAre DEF Promise!Reported, Promise!TeamState
<1>10. CASE q.op = "progress"
  BY <1>10, RepliesAre DEF Promise!Progressed, Promise!TeamState
<1>11. CASE q.op = "shutdown"
  BY <1>11, RepliesAre, DisbandedLeads, FS_EmptySet
<1> QED
  BY <1>1, <1>2, <1>3, <1>4, <1>5, <1>6, <1>7, <1>8, <1>9, <1>10, <1>11, RequestsAre

Calling == [number : Numbers, ask : Promise!Asks, chan : Seq(Promise!Replies)]

TypeInv ==
  /\ IsFiniteSet(DOMAIN team.members)
  /\ Len(mailbox) <= MailboxSize
  /\ wait \in [Clients -> {Idle} \cup Calling]
  /\ answer \in [Clients -> Promise!Replies]
  /\ loop \in {"on", "stopped", "cut"}

LEMMA TypeInit == Init => TypeInv
<1> SUFFICES ASSUME Init PROVE TypeInv
  OBVIOUS
<1>1. IsFiniteSet(DOMAIN team.members)
  BY FS_EmptySet DEF Init, Promise!NewTeam
<1> QED
  BY <1>1, RepliesAre, TeamActorAssumption DEF Init, TypeInv

LEMMA ReplyTypes ==
  ASSUME TypeInv, NEW n, NEW reply \in Promise!Replies, Reply(n, reply)
  PROVE  wait' \in [Clients -> {Idle} \cup Calling]
<1>1. ASSUME NEW u \in Clients, wait[u] # Idle
      PROVE  [wait[u] EXCEPT !.chan = <<reply>>] \in Calling
  <2>1. wait[u] \in Calling
    BY <1>1 DEF TypeInv
  <2>2. <<reply>> \in Seq(Promise!Replies)
    OBVIOUS
  <2> QED
    BY <2>1, <2>2 DEF Calling
<1> HIDE DEF Calling
<1> QED
  BY <1>1 DEF TypeInv, Reply

LEMMA TypeStep == TeamInv /\ TypeInv /\ [Next]_vars => TypeInv'
<1> SUFFICES ASSUME TeamInv, TypeInv, [Next]_vars PROVE TypeInv'
  OBVIOUS
<1>0. mailbox \in Seq(Messages) /\ Len(mailbox) \in Nat /\ MailboxSize \in Nat \ {0} /\ Len(<<>>) = 0
  BY LenProperties, TeamActorAssumption DEF TeamInv
<1>1. ASSUME NEW m, Tell(m) PROVE Len(mailbox') <= MailboxSize
  BY <1>0, <1>1 DEF Tell, TypeInv
<1>2. mailbox # <<>> => Len(Tail(mailbox)) <= Len(mailbox) - 1 /\ Len(Tail(mailbox)) \in Nat
  BY <1>0, HeadTailProperties
<1>3. ASSUME NEW u \in Clients, Do(u) PROVE TypeInv'
  <2>1. PICK q \in Promise!Asks :
          /\ wait' = [wait EXCEPT ![u] = [number |-> calls', ask |-> q, chan |-> <<>>]]
          /\ Tell([number |-> calls', ask |-> q])
    BY <1>3 DEF Do
  <2>2. calls' \in Numbers /\ <<>> \in Seq(Promise!Replies)
    BY <1>3, DoMessage, EmptySeq DEF Do, TeamInv, Requests
  <2>3. [number |-> calls', ask |-> q, chan |-> <<>>] \in Calling
    BY <2>2 DEF Calling
  <2> HIDE DEF Calling
  <2>4. wait' \in [Clients -> {Idle} \cup Calling]
    BY <2>1, <2>3 DEF TypeInv
  <2> QED
    BY <1>1, <1>3, <2>1, <2>4 DEF Do, TypeInv
<1>4. ASSUME NEW u \in Clients, DoReturn(u) \/ DoTimeout(u) PROVE TypeInv'
  <2>1. wait[u] # Idle /\ wait[u].chan # <<>> => Head(wait[u].chan) \in Promise!Replies
    <3>1. wait[u] # Idle => wait[u].chan \in Seq(Promise!Replies)
      BY DEF TypeInv, Calling
    <3> QED
      BY <3>1, HeadTailProperties
  <2>2. answer' \in [Clients -> Promise!Replies]
    BY <1>4, <2>1, RepliesAre DEF DoReturn, DoTimeout, TypeInv
  <2> HIDE DEF Calling
  <2>3. wait' \in [Clients -> {Idle} \cup Calling]
    BY <1>4 DEF DoReturn, DoTimeout, TypeInv
  <2> QED
    BY <1>4, <2>2, <2>3 DEF DoReturn, DoTimeout, TypeInv
<1>5. CASE Post
  BY <1>1, <1>5 DEF Post, TypeInv
<1>6. CASE Handle
  <2>1. Head(mailbox).ask \in Requests
    BY <1>6, HeadIsMessage DEF Handle, TeamInv, Pill
  <2>2. PICK o \in Promise!Outcomes(team, Head(mailbox).ask) :
          /\ team' = o.team
          /\ UNCHANGED wait \/ Reply(Head(mailbox).number, o.reply)
    BY <1>6 DEF Handle
  <2>3. o.reply \in Promise!Replies /\ IsFiniteSet(DOMAIN o.team.members)
    BY <2>1, HandlersReply DEF TeamInv, TypeInv
  <2>4. wait' \in [Clients -> {Idle} \cup Calling]
    BY <2>2, <2>3, ReplyTypes DEF TypeInv
  <2>5. Len(mailbox') <= MailboxSize
    BY <1>0, <1>2, <1>6 DEF Handle, TypeInv
  <2> QED
    BY <1>6, <2>2, <2>3, <2>4, <2>5 DEF Handle, TypeInv
<1>7. CASE HandleShutdown
  <2>1. IsFiniteSet(DOMAIN team'.members)
    BY <1>7, DisbandedLeads, FS_EmptySet DEF HandleShutdown, TeamInv
  <2>2. Len(mailbox') <= MailboxSize
    <3>1. mailbox # <<>> /\ Tail(mailbox) \in Seq(Messages)
      BY <1>7, HeadIsMessage DEF HandleShutdown, TeamInv
    <3>2. Len(Append(Tail(mailbox), Pill)) = Len(Tail(mailbox)) + 1
      BY <3>1
    <3> QED
      BY <1>0, <1>2, <1>7, <3>1, <3>2 DEF HandleShutdown, TypeInv
  <2> QED
    BY <1>7, <2>1, <2>2 DEF HandleShutdown, TypeInv
<1>8. CASE Stopping \/ LoopCancelled
  <2>1. IsFiniteSet(DOMAIN team'.members)
    BY <1>8, DisbandedLeads, FS_EmptySet DEF Stopping, LoopCancelled, TeamInv, TypeInv
  <2> QED
    BY <1>0, <1>8, <2>1 DEF Stopping, LoopCancelled, TypeInv
<1>9. CASE UNCHANGED vars
  BY <1>9 DEF vars, TypeInv
<1> QED
  BY <1>3, <1>4, <1>5, <1>6, <1>7, <1>8, <1>9 DEF Next

\* Every reply in a channel and every answer of a Do* call is one that the
\* handlers give, and the mailbox never holds more than it can.
THEOREM TeamTypeCorrect == Spec => []TeamActorTypeOK
<1>1. TeamInv /\ TypeInv => TeamActorTypeOK
  BY DEF TeamInv, TypeInv, Calling, TeamActorTypeOK
<1> QED
  BY <1>1, TeamInit, TeamStep, TypeInit, TypeStep, PTL DEF Spec

-----------------------------------------------------------------------------
(* Messages and calls belong together by their numbers *)

Once(s) == \A k, l \in 1 .. Len(s) : s[k].number = s[l].number => k = l \/ s[k] = Pill

WaitOK(u) ==
  wait[u] # Idle =>
    /\ wait[u] = [number |-> wait[u].number, ask |-> wait[u].ask, chan |-> wait[u].chan]
    /\ wait[u].number \in 1 .. calls /\ wait[u].ask \in Promise!Asks

\* The message of a call that waits is the one it sent, and is not answered.
Matches(m, u) ==
  wait[u] # Idle /\ m.number = wait[u].number => m.ask = wait[u].ask /\ wait[u].chan = <<>>

TicketInv ==
  /\ Once(mailbox)
  /\ \A m \in Range(mailbox) : m.number <= calls
  /\ wait = [u \in Clients |-> wait[u]]
  /\ \A u \in Clients : WaitOK(u)
  /\ \A u, v \in Clients :
       wait[u] # Idle /\ wait[v] # Idle /\ wait[u].number = wait[v].number => u = v
  /\ \A m \in Range(mailbox), u \in Clients : Matches(m, u)

LEMMA PillIsNoRequest ==
  /\ Pill \in Messages /\ Pill.number = 0 /\ Pill.ask.op = "pill"
  /\ \A m \in Messages : m # Pill => /\ m.ask.op # "pill" /\ m.ask \in Requests
                                      /\ m.number \in Numbers
BY DEF Pill, Messages, Requests, Promise!Asks, Promise!Posts

LEMMA RangeIs == \A s \in Seq(Messages) : Range(s) = {s[k] : k \in 1 .. Len(s)}
BY RangeEquality

LEMMA RangeInMessages ==
  ASSUME NEW s \in Seq(Messages)
  PROVE  /\ Range(s) \subseteq Messages
         /\ \A k \in 1 .. Len(s) : s[k] \in Range(s)
BY RangeOfSeq, RangeEquality

LEMMA AppendTickets ==
  ASSUME NEW s \in Seq(Messages), NEW m \in Messages, Once(s),
         \A l \in Range(s) : m = Pill \/ l.number < m.number
  PROVE  /\ Append(s, m) \in Seq(Messages)
         /\ Range(Append(s, m)) = Range(s) \cup {m} /\ Once(Append(s, m))
<1> DEFINE r == Append(s, m)
<1>1. /\ r \in Seq(Messages) /\ Len(r) = Len(s) + 1
      /\ \A k \in 1 .. Len(s) : r[k] = s[k]
      /\ r[Len(s) + 1] = m
      /\ Len(s) \in Nat
  BY AppendProperties, LenProperties
<1> HIDE DEF r
<1>2. Range(s) = {s[k] : k \in 1 .. Len(s)}
  BY RangeEquality
<1>3. Range(r) = {r[k] : k \in 1 .. Len(r)}
  BY <1>1, RangeIs
<1>4. Range(r) = Range(s) \cup {m}
  BY <1>1, <1>2, <1>3
<1>5. ASSUME NEW k \in 1 .. Len(r), NEW l \in 1 .. Len(r), r[k].number = r[l].number, k # l
      PROVE  r[k] = Pill
  <2>1. ASSUME NEW j \in 1 .. Len(s) PROVE s[j] \in Messages /\ s[j] \in Range(s)
    BY RangeInMessages
  <2>2. CASE k \in 1 .. Len(s) /\ l \in 1 .. Len(s)
    BY <1>1, <1>5, <2>2 DEF Once
  <2>3. CASE k \in 1 .. Len(s) /\ l = Len(s) + 1
    <3>1. m.number = s[k].number
      BY <1>1, <1>5, <2>3
    <3>2. m = Pill
      BY <2>1, <2>3, <3>1, PillIsNoRequest, TeamActorAssumption DEF Numbers
    <3> QED
      BY <1>1, <2>1, <2>3, <3>1, <3>2, PillIsNoRequest, TeamActorAssumption DEF Numbers
  <2>4. CASE k = Len(s) + 1 /\ l \in 1 .. Len(s)
    <3>1. m.number = s[l].number
      BY <1>1, <1>5, <2>4
    <3> QED
      BY <1>1, <2>1, <2>4, <3>1, PillIsNoRequest, TeamActorAssumption DEF Numbers
  <2> QED
    BY <1>1, <1>5, <2>2, <2>3, <2>4
<1> QED
  BY <1>1, <1>4, <1>5 DEF Once, r

LEMMA TakeTickets ==
  ASSUME NEW s \in Seq(Messages), s # <<>>, Once(s)
  PROVE  /\ Tail(s) \in Seq(Messages) /\ Once(Tail(s))
         /\ Range(Tail(s)) \subseteq Range(s) /\ Head(s) \in Range(s)
         /\ Head(s) # Pill => /\ Range(Tail(s)) = Range(s) \ {Head(s)}
                              /\ \A m \in Range(Tail(s)) : m.number # Head(s).number
<1> DEFINE r == Tail(s)
<1>1. /\ r \in Seq(Messages) /\ Len(r) = Len(s) - 1
      /\ \A k \in 1 .. Len(r) : r[k] = s[k + 1]
      /\ Len(s) \in Nat \ {0}
      /\ Head(s) = s[1]
  BY HeadTailProperties, EmptySeq
<1> HIDE DEF r
<1>2. Range(s) = {s[k] : k \in 1 .. Len(s)}
  BY RangeEquality
<1>3. Range(r) = {r[k] : k \in 1 .. Len(r)}
  BY <1>1, RangeIs
<1>4. Range(r) \subseteq Range(s) /\ Head(s) \in Range(s)
  <2>1. Head(s) \in Range(s)
    BY <1>1, <1>2
  <2>2. \A k \in 1 .. Len(r) : k + 1 \in 1 .. Len(s)
    BY <1>1
  <2>3. \A k \in 1 .. Len(r) : r[k] \in Range(s)
    BY <1>1, <1>2, <2>2
  <2> QED
    BY <1>3, <2>1, <2>3
<1>5. Once(r)
  <2>1. ASSUME NEW k \in 1 .. Len(r), NEW l \in 1 .. Len(r), r[k].number = r[l].number
        PROVE  k = l \/ r[k] = Pill
    <3>1. k + 1 \in 1 .. Len(s) /\ l + 1 \in 1 .. Len(s) /\ r[k] = s[k + 1] /\ r[l] = s[l + 1]
      BY <1>1
    <3>2. k + 1 = l + 1 \/ s[k + 1] = Pill
      BY <2>1, <3>1 DEF Once
    <3> QED
      BY <3>1, <3>2
  <2> QED
    BY <2>1 DEF Once
<1>6. ASSUME Head(s) # Pill, NEW m \in Range(r) PROVE m.number # Head(s).number
  <2>1. PICK j \in 1 .. Len(r) : m = s[j + 1]
    BY <1>1, <1>3
  <2>2. j + 1 \in 1 .. Len(s) /\ 1 \in 1 .. Len(s) /\ j + 1 # 1
    BY <1>1
  <2>3. s[1].number = s[j + 1].number => s[1] = Pill
    BY <2>2 DEF Once
  <2> QED
    BY <1>1, <1>6, <2>1, <2>3
<1>7. \A m \in Range(s) : m = Head(s) \/ m \in Range(r)
  <2>1. ASSUME NEW k \in 1 .. Len(s), k # 1 PROVE s[k] = r[k - 1] /\ k - 1 \in 1 .. Len(r)
    BY <1>1, <2>1
  <2>2. ASSUME NEW k \in 1 .. Len(s) PROVE s[k] = Head(s) \/ s[k] \in Range(r)
    BY <1>1, <1>3, <2>1
  <2> QED
    BY <1>2, <2>2
<1> QED
  BY <1>1, <1>4, <1>5, <1>6, <1>7 DEF r

LEMMA TicketInit == Init => TicketInv
<1> SUFFICES ASSUME Init PROVE TicketInv
  OBVIOUS
<1>1. mailbox = <<>> /\ \A u \in Clients : wait[u] = Idle
  BY DEF Init
<1>2. Range(mailbox) = {} /\ Len(mailbox) = 0
  BY <1>1 DEF Range
<1> QED
  BY <1>1, <1>2 DEF Init, TicketInv, Once, WaitOK

\* A new message has a number that no message and no call has.
LEMMA TicketTell ==
  ASSUME TeamInv, TicketInv, Send, NEW m \in Messages, Tell(m),
         m = Pill \/ m.number = calls'
  PROVE  /\ Once(mailbox)' /\ \A l \in Range(mailbox') : l.number <= calls'
         /\ Range(mailbox') \in {Range(mailbox), Range(mailbox) \cup {m}}
         /\ calls \in Nat /\ calls' = calls + 1
<1>1. calls \in Nat /\ calls' = calls + 1
  BY TeamActorAssumption DEF Send, TeamInv
<1>2. mailbox \in Seq(Messages) /\ Range(mailbox) \subseteq Messages
  BY RangeInMessages DEF TeamInv
<1>3. \A l \in Range(mailbox) : l.number \in Nat /\ l.number <= calls
  BY <1>2, PillIsNoRequest, TeamActorAssumption DEF TicketInv, Numbers
<1>4. CASE mailbox' = mailbox
  BY <1>1, <1>3, <1>4 DEF TicketInv, Once
<1>5. CASE mailbox' = Append(mailbox, m)
  <2>1. \A l \in Range(mailbox) : m = Pill \/ l.number < m.number
    BY <1>1, <1>3
  <2>2. Range(mailbox') = Range(mailbox) \cup {m} /\ Once(mailbox)'
    BY <1>2, <1>5, <2>1, AppendTickets DEF TicketInv
  <2> QED
    BY <1>1, <1>3, <2>2, PillIsNoRequest
<1> QED
  BY <1>4, <1>5 DEF Tell

LEMMA TicketDo ==
  ASSUME TeamInv, TicketInv, NEW u \in Clients, Do(u)
  PROVE  /\ TicketInv'
         /\ \E q \in Promise!Asks :
              /\ q.op \in Ops /\ calls < MaxCalls /\ calls' = calls + 1
              /\ wait[u] = Idle
              /\ wait' = [wait EXCEPT ![u] = [number |-> calls', ask |-> q, chan |-> <<>>]]
              /\ Range(mailbox') \in {Range(mailbox),
                                      Range(mailbox) \cup {[number |-> calls', ask |-> q]}}
<1>1. PICK q \in Promise!Asks :
        /\ q.op \in Ops
        /\ wait' = [wait EXCEPT ![u] = [number |-> calls', ask |-> q, chan |-> <<>>]]
        /\ Tell([number |-> calls', ask |-> q])
  BY DEF Do
<1> DEFINE m == [number |-> calls', ask |-> q]
<1>2. m \in Messages /\ m.number = calls' /\ m.ask = q
  BY DoMessage DEF Do, TeamInv, Requests
<1>3. Send
  BY DEF Do
<1> HIDE DEF m
<1>4. /\ Once(mailbox)' /\ \A l \in Range(mailbox') : l.number <= calls'
      /\ Range(mailbox') \in {Range(mailbox), Range(mailbox) \cup {m}}
      /\ calls \in Nat /\ calls' = calls + 1
  BY <1>1, <1>2, <1>3, TicketTell DEF m
<1>5. /\ wait'[u] = [number |-> calls', ask |-> q, chan |-> <<>>]
      /\ wait'[u].number = calls' /\ wait'[u].ask = q /\ wait'[u].chan = <<>>
      /\ \A v \in Clients : v # u => wait'[v] = wait[v]
      /\ wait' = [v \in Clients |-> wait'[v]]
  BY <1>1 DEF TicketInv
<1>6. \A v \in Clients : WaitOK(v)'
  BY <1>4, <1>5 DEF TicketInv, WaitOK
<1>7. \A v, w \in Clients :
        wait'[v] # Idle /\ wait'[w] # Idle /\ wait'[v].number = wait'[w].number => v = w
  BY <1>4, <1>5 DEF TicketInv, WaitOK
<1>8. ASSUME NEW l \in Range(mailbox'), NEW v \in Clients PROVE Matches(l, v)'
  <2>1. CASE l \in Range(mailbox) /\ v # u
    BY <1>5, <2>1 DEF TicketInv, Matches
  <2>2. CASE l \in Range(mailbox) /\ v = u
    <3>1. l.number \in Nat /\ l.number <= calls
      BY <2>2, RangeInMessages, PillIsNoRequest, TeamActorAssumption DEF TicketInv, TeamInv, Numbers
    <3> QED
      BY <1>4, <1>5, <2>2, <3>1 DEF Matches
  <2>3. CASE l = m
    <3>1. v # u /\ wait[v] # Idle => wait[v].number <= calls /\ wait[v].number \in Nat
      BY DEF TicketInv, WaitOK
    <3> QED
      BY <1>2, <1>4, <1>5, <2>3, <3>1 DEF Matches
  <2> QED
    BY <1>4, <2>1, <2>2, <2>3
<1>9. TicketInv'
  BY <1>4, <1>5, <1>6, <1>7, <1>8 DEF TicketInv
<1>10. calls < MaxCalls /\ wait[u] = Idle
  BY DEF Do, Send
<1> QED
  BY <1>1, <1>4, <1>9, <1>10 DEF m

LEMMA TicketPost ==
  ASSUME TeamInv, TicketInv, Post
  PROVE  /\ TicketInv'
         /\ calls < MaxCalls /\ calls' = calls + 1 /\ wait' = wait
         /\ \/ Range(mailbox') \in {Range(mailbox), Range(mailbox) \cup {Pill}}
            \/ \E q \in Promise!Posts :
                 /\ q.op \in Ops
                 /\ Range(mailbox') = Range(mailbox) \cup {[number |-> calls', ask |-> q]}
<1>1. PICK m : /\ Tell(m)
               /\ \/ m = Pill
                  \/ \E q \in Promise!Posts : q.op \in Ops /\ m = [number |-> calls', ask |-> q]
  BY DEF Post
<1>2. Send /\ UNCHANGED wait
  BY DEF Post
<1>3. m \in Messages /\ (m = Pill \/ m.number = calls')
  BY <1>1, <1>2, DoMessage, PillIsNoRequest DEF TeamInv, Requests
<1>4. /\ Once(mailbox)' /\ \A l \in Range(mailbox') : l.number <= calls'
      /\ Range(mailbox') \in {Range(mailbox), Range(mailbox) \cup {m}}
      /\ calls \in Nat /\ calls' = calls + 1
  BY <1>1, <1>2, <1>3, TicketTell
<1>5. \A v \in Clients : WaitOK(v)'
  BY <1>2, <1>4 DEF TicketInv, WaitOK
<1>6. \A v \in Clients : Matches(m, v)'
  <2>1. m.number = 0 \/ m.number = calls + 1
    BY <1>3, <1>4, PillIsNoRequest
  <2>2. \A v \in Clients : wait[v] # Idle => wait[v].number \in 1 .. calls
    BY DEF TicketInv, WaitOK
  <2> QED
    BY <1>2, <1>4, <2>1, <2>2 DEF Matches
<1>7. TicketInv'
  BY <1>2, <1>4, <1>5, <1>6 DEF TicketInv, Matches
<1>8. calls < MaxCalls
  BY <1>2 DEF Send
<1> QED
  BY <1>1, <1>2, <1>4, <1>7, <1>8

LEMMA TicketReturn ==
  ASSUME TeamInv, TicketInv, NEW u \in Clients, wait[u] # Idle,
         wait' = [wait EXCEPT ![u] = Idle], UNCHANGED <<mailbox, calls>>
  PROVE  TicketInv'
<1>1. wait' = [v \in Clients |-> IF v = u THEN Idle ELSE wait[v]]
  BY DEF TicketInv
<1> QED
  BY <1>1 DEF TicketInv, WaitOK, Matches

\* The message at the head is a request: of the call u, which waits for it, or
\* of nobody.
Whose(u) == wait[u] # Idle /\ wait[u].number = Head(mailbox).number

LEMMA TicketOwner ==
  ASSUME TeamInv, TicketInv, mailbox # <<>>, Head(mailbox) # Pill,
         NEW u \in Clients, Whose(u)
  PROVE  /\ Head(mailbox).ask = wait[u].ask /\ Head(mailbox).ask \in Promise!Asks
         /\ wait[u].chan = <<>>
         /\ \A v \in Clients : Whose(v) => v = u
<1>1. Head(mailbox) \in Range(mailbox)
  BY TakeTickets DEF TeamInv, TicketInv
<1> QED
  BY <1>1 DEF TicketInv, Whose, WaitOK, Matches

\* The head is taken, and the channel of at most one call is filled, its own.
LEMMA TicketTake ==
  ASSUME TeamInv, TicketInv, mailbox # <<>>, Head(mailbox) # Pill,
         mailbox' = Tail(mailbox), UNCHANGED calls,
         \/ UNCHANGED wait
         \/ \E reply : Reply(Head(mailbox).number, reply)
  PROVE  TicketInv'
<1>1. /\ Once(mailbox)' /\ Range(mailbox') \subseteq Range(mailbox)
      /\ \A m \in Range(mailbox') : m.number # Head(mailbox).number
  BY TakeTickets DEF TeamInv, TicketInv
<1>2. CASE UNCHANGED wait
  BY <1>1, <1>2 DEF TicketInv, WaitOK, Matches
<1>3. ASSUME NEW reply, Reply(Head(mailbox).number, reply) PROVE TicketInv'
  <2>1. \A v \in Clients :
          \/ wait'[v] = wait[v]
          \/ /\ Whose(v)
             /\ wait'[v] = [number |-> wait[v].number, ask |-> wait[v].ask, chan |-> <<reply>>]
    BY <1>3 DEF Reply, TicketInv, WaitOK, Whose
  <2>2. wait' = [v \in Clients |-> wait'[v]]
    BY <1>3 DEF Reply
  <2>3. ASSUME NEW v \in Clients, wait'[v] # wait[v]
        PROVE  /\ Whose(v) /\ wait[v] # Idle
               /\ wait'[v].number = wait[v].number /\ wait'[v].ask = wait[v].ask
               /\ wait'[v] = [number |-> wait'[v].number, ask |-> wait'[v].ask,
                             chan |-> wait'[v].chan]
    <3>1. Whose(v)
      BY <2>1, <2>3
    <3>2. wait'[v] = [number |-> wait[v].number, ask |-> wait[v].ask, chan |-> <<reply>>]
      BY <2>1, <2>3
    <3> QED
      BY <3>1, <3>2 DEF Whose
  <2>4. \A v \in Clients : wait'[v] # Idle => wait[v] # Idle /\ wait'[v].number = wait[v].number
    BY <2>3
  <2>5. ASSUME NEW v \in Clients PROVE WaitOK(v)'
    <3>1. CASE wait'[v] = wait[v]
      BY <3>1 DEF TicketInv, WaitOK
    <3>2. CASE wait'[v] # wait[v]
      BY <2>3, <3>2 DEF TicketInv, WaitOK
    <3> QED
      BY <3>1, <3>2
  <2>6. ASSUME NEW m \in Range(mailbox'), NEW v \in Clients PROVE Matches(m, v)'
    <3>1. CASE wait'[v] = wait[v]
      BY <1>1, <3>1 DEF TicketInv, Matches
    <3>2. CASE wait'[v] # wait[v]
      <4>1. Whose(v) /\ wait'[v].number = wait[v].number
        BY <2>3, <3>2
      <4> QED
        BY <1>1, <4>1 DEF Matches, Whose
    <3> QED
      BY <3>1, <3>2
  <2> QED
    BY <1>1, <2>2, <2>4, <2>5, <2>6 DEF TicketInv
<1> QED
  BY <1>2, <1>3

LEMMA TicketFewer ==
  ASSUME TeamInv, TicketInv, Once(mailbox)', Range(mailbox') \subseteq Range(mailbox) \cup {Pill},
         UNCHANGED <<wait, calls>>
  PROVE  TicketInv'
<1>1. \A u \in Clients : wait[u] # Idle => wait[u].number \in 1 .. calls
  BY DEF TicketInv, WaitOK
<1>2. \A u \in Clients : Matches(Pill, u)
  BY <1>1 DEF Matches, Pill
<1>3. Pill.number <= calls \/ \A m \in Range(mailbox') : m \in Range(mailbox)
  BY TeamActorAssumption DEF Pill, TeamInv
<1> QED
  BY <1>2, <1>3 DEF TicketInv, WaitOK, Matches

LEMMA TicketStep == TeamInv /\ TicketInv /\ [Next]_vars => TicketInv'
<1> SUFFICES ASSUME TeamInv, TicketInv, [Next]_vars PROVE TicketInv'
  OBVIOUS
<1>1. ASSUME NEW u \in Clients, Do(u) \/ DoReturn(u) \/ DoTimeout(u) PROVE TicketInv'
  BY <1>1, TicketDo, TicketReturn DEF DoReturn, DoTimeout
<1>2. CASE Post
  BY <1>2, TicketPost
<1>3. CASE Handle
  BY <1>3, TicketTake, PillIsNoRequest DEF Handle
<1>4. CASE HandleShutdown
  <2>1. Once(Tail(mailbox)) /\ Range(Tail(mailbox)) \subseteq Range(mailbox) /\ Tail(mailbox) \in Seq(Messages)
    BY <1>4, TakeTickets DEF HandleShutdown, TeamInv, TicketInv
  <2>2. /\ Once(Append(Tail(mailbox), Pill))
        /\ Range(Append(Tail(mailbox), Pill)) \subseteq Range(mailbox) \cup {Pill}
    BY <2>1, AppendTickets, PillIsNoRequest
  <2> QED
    BY <1>4, <2>1, <2>2, TicketFewer DEF HandleShutdown
<1>5. CASE Stopping \/ LoopCancelled
  <2>1. Range(<<>>) = {} /\ Once(<<>>)
    BY DEF Range, Once
  <2> QED
    BY <1>5, <2>1, TicketFewer DEF Stopping, LoopCancelled
<1>6. CASE UNCHANGED vars
  BY <1>6, TicketFewer DEF vars, TicketInv
<1> QED
  BY <1>1, <1>2, <1>3, <1>4, <1>5, <1>6 DEF Next

-----------------------------------------------------------------------------
(* TeamActor implements TeamService *)

Calls == [u \in Clients |-> Call(u)]

LEMMA InitImplements == Init => Promise!ServiceInit
<1> SUFFICES ASSUME Init PROVE Promise!ServiceInit
  OBVIOUS
<1>1. Late = {}
  BY DEF Init, Late, Range
<1>2. \A u \in Clients : Call(u) = Promise!Idle
  BY DEF Init, Call, Idle, Promise!Idle
<1> QED
  BY <1>1, <1>2 DEF Init, Promise!ServiceInit

LEMMA DoImplements ==
  ASSUME TeamInv, TicketInv, NEW u \in Clients, Do(u)
  PROVE  Promise!Ask(u)
<1>1. PICK q \in Promise!Asks :
        /\ q.op \in Ops /\ calls < MaxCalls /\ calls' = calls + 1
        /\ wait[u] = Idle
        /\ wait' = [wait EXCEPT ![u] = [number |-> calls', ask |-> q, chan |-> <<>>]]
        /\ Range(mailbox') \in {Range(mailbox), Range(mailbox) \cup {[number |-> calls', ask |-> q]}}
  BY TicketDo
<1>2. /\ \A v \in Clients : v # u => wait'[v] = wait[v]
      /\ wait'[u] = [number |-> calls', ask |-> q, chan |-> <<>>]
  BY <1>1 DEF TicketInv
<1>3. Calls' = [Calls EXCEPT ![u] = [step |-> "asked", number |-> calls', ask |-> q]]
  <2>1. Call(u)' = [step |-> "asked", number |-> calls', ask |-> q]
    BY <1>2, AskedIsNotIdle DEF Call
  <2>2. \A v \in Clients : v # u => Call(v)' = Call(v)
    BY <1>2 DEF Call
  <2> QED
    BY <2>1, <2>2 DEF Calls
<1>4. Late' = Late
  <2>1. \A n : Waits(n)' <=> Waits(n) \/ n = calls'
    BY <1>1, <1>2, AskedIsNotIdle DEF Waits
  <2>2. \A m \in Range(mailbox) : m.number # calls'
    BY <1>1, RangeInMessages, PillIsNoRequest, TeamActorAssumption DEF TicketInv, TeamInv, Numbers
  <2> QED
    BY <1>1, <2>1, <2>2 DEF Late
<1>5. Calls[u] = Promise!Idle
  BY <1>1 DEF Calls, Call, Idle, Promise!Idle
<1>6. UNCHANGED <<team, answer>>
  BY DEF Do
<1> QED
  BY <1>1, <1>3, <1>4, <1>5, <1>6 DEF Promise!Ask, Calls

LEMMA PostImplements == ASSUME TeamInv, TicketInv, Post PROVE Promise!Post
<1>1. /\ calls < MaxCalls /\ calls' = calls + 1 /\ wait' = wait
      /\ \/ Range(mailbox') \in {Range(mailbox), Range(mailbox) \cup {Pill}}
         \/ \E q \in Promise!Posts :
              /\ q.op \in Ops
              /\ Range(mailbox') = Range(mailbox) \cup {[number |-> calls', ask |-> q]}
  BY TicketPost
<1>2. Calls' = Calls /\ \A n : Waits(n)' <=> Waits(n)
  BY <1>1 DEF Calls, Call, Waits
<1>4. ASSUME NEW q \in Promise!Posts,
             Range(mailbox') = Range(mailbox) \cup {[number |-> calls', ask |-> q]}
      PROVE  Late' = Late \cup {[number |-> calls', ask |-> q]}
  <2>1. ~Waits(calls')
    BY <1>1, TeamActorAssumption DEF Waits, TicketInv, WaitOK, TeamInv
  <2>2. q.op # "pill"
    BY PostsAre
  <2> QED
    BY <1>2, <1>4, <2>1, <2>2 DEF Late
<1>5. UNCHANGED <<team, answer>>
  BY DEF Post
<1>6. Late' = Late \/ \E q \in Promise!Posts :
        q.op \in Ops /\ Late' = Late \cup {[number |-> calls', ask |-> q]}
  <2>1. CASE Range(mailbox') \in {Range(mailbox), Range(mailbox) \cup {Pill}}
    BY <1>2, <2>1, PillIsNoRequest DEF Late
  <2> QED
    BY <1>1, <1>4, <2>1
<1> QED
  BY <1>1, <1>2, <1>5, <1>6 DEF Promise!Post, Calls

\* What a call that returns leaves behind: nothing once it is answered, and
\* otherwise its message, if that is still in the mailbox.
LEMMA LeavesLate ==
  ASSUME TeamInv, TicketInv, NEW u \in Clients, wait[u] # Idle,
         wait' = [wait EXCEPT ![u] = Idle], UNCHANGED mailbox
  PROVE  /\ Calls' = [Calls EXCEPT ![u] = Promise!Idle]
         /\ \/ Late' = Late
            \/ /\ wait[u].chan = <<>>
               /\ Late' = Late \cup {[number |-> wait[u].number, ask |-> wait[u].ask]}
<1>1. wait'[u] = Idle /\ \A v \in Clients : v # u => wait'[v] = wait[v]
  BY DEF TicketInv
<1>2. Calls' = [Calls EXCEPT ![u] = Promise!Idle]
  <2>1. Call(u)' = Promise!Idle /\ \A v \in Clients : v # u => Call(v)' = Call(v)
    BY <1>1 DEF Call, Idle, Promise!Idle
  <2> QED
    BY <2>1 DEF Calls
<1>0. PICK n : n = wait[u].number
  OBVIOUS
<1>3. \A k : Waits(k) <=> Waits(k)' \/ k = n
  BY <1>0, <1>1 DEF Waits
<1>4. ~Waits(n)'
  BY <1>0, <1>1 DEF Waits, TicketInv
<1>5. Late' = Late \cup {m \in Range(mailbox) : m.ask.op # "pill" /\ m.number = n}
  BY <1>3, <1>4 DEF Late
<1>6. ASSUME NEW m \in Range(mailbox), m.number = n, m.ask.op # "pill"
      PROVE  m = [number |-> n, ask |-> wait[u].ask] /\ wait[u].chan = <<>>
  <2>1. m \in Messages /\ m # Pill
    BY <1>6, RangeInMessages, PillIsNoRequest DEF TeamInv
  <2>2. m = [number |-> m.number, ask |-> m.ask]
    BY <2>1 DEF Messages
  <2>3. m.ask = wait[u].ask /\ wait[u].chan = <<>>
    BY <1>0, <1>6 DEF TicketInv, Matches
  <2> QED
    BY <1>6, <2>2, <2>3
<1>7. CASE \E m \in Range(mailbox) : m.number = n /\ m.ask.op # "pill"
  <2>1. PICK m \in Range(mailbox) : m.number = n /\ m.ask.op # "pill"
    BY <1>7
  <2>2. Late' = Late \cup {[number |-> n, ask |-> wait[u].ask]} /\ wait[u].chan = <<>>
    BY <1>5, <1>6, <2>1
  <2> QED
    BY <1>0, <1>2, <2>2
<1>8. CASE ~\E m \in Range(mailbox) : m.number = n /\ m.ask.op # "pill"
  BY <1>2, <1>5, <1>8
<1> QED
  BY <1>7, <1>8

LEMMA ReturnImplements ==
  ASSUME TeamInv, TicketInv, NEW u \in Clients, DoReturn(u)
  PROVE  Promise!Return(u)
<1>0. PICK reply : reply = Head(wait[u].chan)
  OBVIOUS
<1>1. /\ wait[u] # Idle /\ wait[u].chan # <<>>
      /\ answer' = [answer EXCEPT ![u] = reply]
      /\ wait' = [wait EXCEPT ![u] = Idle]
      /\ UNCHANGED <<team, mailbox, calls>>
  BY <1>0 DEF DoReturn
<1>2. Calls[u] = [step |-> "done", reply |-> reply]
  BY <1>0, <1>1 DEF Calls, Call
<1>3. Calls' = [Calls EXCEPT ![u] = Promise!Idle] /\ Late' = Late
  BY <1>1, LeavesLate
<1>4. Calls[u].step = "done" /\ Calls[u].reply = reply
  BY <1>2
<1> QED
  BY <1>1, <1>3, <1>4 DEF Promise!Return, Calls

LEMMA TimeoutImplements ==
  ASSUME TeamInv, TicketInv, NEW u \in Clients, DoTimeout(u)
  PROVE  Promise!GiveUp(u)
<1>1. /\ wait[u] # Idle
      /\ answer' = [answer EXCEPT ![u] = Promise!Deadline]
      /\ wait' = [wait EXCEPT ![u] = Idle]
      /\ UNCHANGED <<team, mailbox, calls>>
  BY DEF DoTimeout
<1>2. /\ Calls[u] # Promise!Idle
      /\ wait[u].chan = <<>> =>
           Calls[u] = [step |-> "asked", number |-> wait[u].number, ask |-> wait[u].ask]
  BY <1>1, AskedIsNotIdle DEF Calls, Call, Idle, Promise!Idle
<1>3. /\ Calls' = [Calls EXCEPT ![u] = Promise!Idle]
      /\ \/ Late' = Late
         \/ /\ wait[u].chan = <<>>
            /\ Late' = Late \cup {[number |-> wait[u].number, ask |-> wait[u].ask]}
  BY <1>1, LeavesLate
<1> QED
  BY <1>1, <1>2, <1>3 DEF Promise!GiveUp, Calls

\* The head of the mailbox is served to the call that waits for it.
LEMMA ServeImplements ==
  ASSUME TeamInv, TicketInv, Handle, NEW u \in Clients, Whose(u)
  PROVE  Promise!Serve(u)
<1>1. /\ mailbox # <<>> /\ Head(mailbox) # Pill /\ mailbox' = Tail(mailbox)
      /\ UNCHANGED <<answer, calls>>
  BY PillIsNoRequest DEF Handle
<1>2. /\ Head(mailbox).ask = wait[u].ask /\ wait[u].ask \in Promise!Asks
      /\ wait[u].chan = <<>> /\ wait[u] # Idle
      /\ \A v \in Clients : Whose(v) => v = u
  BY <1>1, TicketOwner DEF Whose
<1>3. PICK o \in Promise!Outcomes(team, wait[u].ask) :
        /\ team' = o.team
        /\ IF o.reply = Promise!NoReply THEN UNCHANGED wait ELSE Reply(Head(mailbox).number, o.reply)
  BY <1>2 DEF Handle
<1>4. Reply(Head(mailbox).number, o.reply)
  BY <1>2, <1>3, AsksAreAnswered
<1>5. PICK reply : reply = o.reply
  OBVIOUS
<1>6. \A v \in Clients : v # u => wait'[v] = wait[v]
  BY <1>2, <1>4 DEF Reply, Whose
<1>7. wait'[u] = [number |-> wait[u].number, ask |-> wait[u].ask, chan |-> <<reply>>]
  BY <1>2, <1>4, <1>5 DEF Reply, Whose, TicketInv, WaitOK
<1>8. /\ wait'[u] # Idle /\ wait'[u].chan = <<reply>> /\ wait'[u].number = wait[u].number
      /\ Head(<<reply>>) = reply /\ <<reply>> # <<>>
  BY <1>7, AskedIsNotIdle
<1>9. Calls' = [Calls EXCEPT ![u] = [step |-> "done", reply |-> reply]]
  <2>1. Call(u)' = [step |-> "done", reply |-> reply]
    BY <1>8 DEF Call
  <2>2. \A v \in Clients : v # u => Call(v)' = Call(v)
    BY <1>6 DEF Call
  <2> QED
    BY <2>1, <2>2 DEF Calls
<1>10. Late' = Late
  <2>1. \A n : Waits(n)' <=> Waits(n)
    BY <1>2, <1>6, <1>8 DEF Waits
  <2>2. Waits(Head(mailbox).number)
    BY <1>2 DEF Waits, Whose
  <2>3. Range(mailbox') = Range(mailbox) \ {Head(mailbox)}
    BY <1>1, TakeTickets DEF TeamInv, TicketInv
  <2> QED
    BY <2>1, <2>2, <2>3 DEF Late
<1>11. Calls[u] = [step |-> "asked", number |-> wait[u].number, ask |-> wait[u].ask]
  BY <1>2 DEF Calls, Call
<1>12. Calls[u].step = "asked" /\ Calls[u].ask = wait[u].ask
  BY <1>11
<1> QED
  BY <1>1, <1>3, <1>5, <1>9, <1>10, <1>12 DEF Promise!Serve, Calls

\* The head is a request that nobody waits for.
LEMMA ServeLateImplements ==
  ASSUME TeamInv, TicketInv, mailbox # <<>>, Head(mailbox) # Pill,
         ~Waits(Head(mailbox).number), wait' = wait, UNCHANGED <<answer, calls>>,
         Range(mailbox') \in {Range(Tail(mailbox)), Range(Tail(mailbox)) \cup {Pill}},
         NEW o \in Promise!Outcomes(team, Head(mailbox).ask), team' = o.team
  PROVE  Promise!ServeLate
<1>1. Head(mailbox) \in Late
  BY TakeTickets, HeadIsMessage, PillIsNoRequest DEF Late, TeamInv, TicketInv
<1>2. Range(Tail(mailbox)) = Range(mailbox) \ {Head(mailbox)}
  BY TakeTickets DEF TeamInv, TicketInv
<1>3. Calls' = Calls /\ \A n : Waits(n)' <=> Waits(n)
  BY DEF Calls, Call, Waits
<1>4. Late' = Late \ {Head(mailbox)}
  BY <1>2, <1>3, PillIsNoRequest DEF Late
<1> QED
  BY <1>1, <1>3, <1>4 DEF Promise!ServeLate, Calls

LEMMA HandleImplements ==
  ASSUME TeamInv, TicketInv, Handle
  PROVE  Promise!ServeLate \/ \E u \in Clients : Promise!Serve(u)
<1>1. CASE \E u \in Clients : Whose(u)
  BY <1>1, ServeImplements
<1>2. CASE ~\E u \in Clients : Whose(u)
  <2>1. /\ mailbox # <<>> /\ Head(mailbox) # Pill /\ mailbox' = Tail(mailbox)
        /\ UNCHANGED <<answer, calls>>
    BY PillIsNoRequest DEF Handle
  <2>2. PICK o \in Promise!Outcomes(team, Head(mailbox).ask) :
          /\ team' = o.team
          /\ UNCHANGED wait \/ Reply(Head(mailbox).number, o.reply)
    BY DEF Handle
  <2>3. wait' = wait
    <3>1. CASE Reply(Head(mailbox).number, o.reply)
      <4>1. wait' = [u \in Clients |-> wait[u]]
        BY <1>2, <3>1 DEF Reply, Whose
      <4> QED
        BY <4>1 DEF TicketInv
    <3> QED
      BY <2>2, <3>1
  <2>4. ~Waits(Head(mailbox).number)
    BY <1>2 DEF Waits, Whose
  <2> QED
    BY <2>1, <2>2, <2>3, <2>4, ServeLateImplements
<1> QED
  BY <1>1, <1>2

LEMMA HandleShutdownImplements ==
  ASSUME TeamInv, TicketInv, HandleShutdown
  PROVE  Promise!ServeLate
<1>1. /\ mailbox # <<>> /\ Head(mailbox).ask.op = "shutdown" /\ Head(mailbox) # Pill
      /\ UNCHANGED <<wait, answer, calls>>
  BY PillIsNoRequest DEF HandleShutdown
<1>2. ~Waits(Head(mailbox).number)
  BY <1>1, TicketOwner, PostsAre DEF Waits, Whose
<1>3. Tail(mailbox) \in Seq(Messages) /\ Once(Tail(mailbox))
  BY <1>1, TakeTickets DEF TeamInv, TicketInv
<1>4. Range(mailbox') \in {Range(Tail(mailbox)), Range(Tail(mailbox)) \cup {Pill}}
  BY <1>3, AppendTickets, PillIsNoRequest DEF HandleShutdown
<1>5. PICK o \in Promise!Outcomes(team, Head(mailbox).ask) : team' = o.team
  <2> DEFINE o == [team |-> Promise!Disbanded(team), reply |-> Promise!NoReply]
  <2>1. Promise!Outcomes(team, Head(mailbox).ask) = {o}
    BY <1>1, OutcomesAre DEF Promise!Replied
  <2>2. team' = o.team
    BY DEF HandleShutdown
  <2> QED
    BY <2>1, <2>2
<1> QED
  BY <1>1, <1>2, <1>4, <1>5, ServeLateImplements

LEMMA EndImplements ==
  ASSUME TeamInv, TicketInv, Stopping \/ LoopCancelled
  PROVE  Promise!End
<1>1. mailbox' = <<>> /\ wait' = wait /\ UNCHANGED <<answer, calls>>
  BY DEF Stopping, LoopCancelled
<1>2. Late' = {}
  BY <1>1 DEF Late, Range
<1>3. Calls' = Calls
  BY <1>1 DEF Calls, Call
<1>4. team' \in {Promise!Disbanded(team), team}
  BY DEF Stopping, LoopCancelled
<1> QED
  BY <1>1, <1>2, <1>3, <1>4 DEF Promise!End, Calls

LEMMA StepImplements ==
  TeamInv /\ TicketInv /\ [Next]_vars => [Promise!ServiceNext]_(Promise!serviceVars)
<1> SUFFICES ASSUME TeamInv, TicketInv, [Next]_vars
             PROVE  Promise!ServiceNext \/ UNCHANGED Promise!serviceVars
  OBVIOUS
<1>1. ASSUME NEW u \in Clients, Do(u) \/ DoReturn(u) \/ DoTimeout(u)
      PROVE  Promise!ServiceNext
  BY <1>1, DoImplements, ReturnImplements, TimeoutImplements DEF Promise!ServiceNext
<1>2. CASE Post
  BY <1>2, PostImplements DEF Promise!ServiceNext
<1>3. CASE Handle
  BY <1>3, HandleImplements DEF Promise!ServiceNext
<1>4. CASE HandleShutdown
  BY <1>4, HandleShutdownImplements DEF Promise!ServiceNext
<1>5. CASE Stopping \/ LoopCancelled
  BY <1>5, EndImplements DEF Promise!ServiceNext
<1>6. CASE UNCHANGED vars
  BY <1>6 DEF vars, Promise!serviceVars, Late, Call, Waits
<1> QED
  BY <1>1, <1>2, <1>3, <1>4, <1>5, <1>6 DEF Next

\* The Do* functions and the actor behind them keep the promise of TeamService,
\* for any number of callers, ids, tasks, calls and any mailbox.
THEOREM Implements == Spec => Consistent
BY TeamInvariant, TicketInit, TicketStep, StepImplements, InitImplements, PTL
   DEF Spec, Consistent, Promise!Service
=============================================================================
