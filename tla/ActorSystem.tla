---------------------------- MODULE ActorSystem ----------------------------
(***************************************************************************)
(* The actor runtime of pkg/actor/system.go: the registry of actors, the   *)
(* system mailbox and its dispatcher goroutine, one message loop goroutine *)
(* per actor, the clean-up of a finished actor, Stop, StopGracefully,      *)
(* Broadcast and ShutdownWithTimeout.                                      *)
(*                                                                         *)
(* An actorCell is an incarnation: an element of Cells, used once.  A PID  *)
(* is only a name (PID.ID); every operation on a PID looks the name up in  *)
(* the registry, so a PID may reach a later incarnation of its name.       *)
(* What the body of an Actor's Receive does is unknown: while a cell is    *)
(* inside Receive it may spawn, send, stop, watch and panic at will.       *)
(* Clients are goroutines outside every actor (main, tests, ...).          *)
(***************************************************************************)
EXTENDS Integers, Sequences, FiniteSets

CONSTANTS Names,           \* the PID.IDs
          Cells,           \* the actorCells that may ever be created
          Clients,         \* goroutines that are not actors
          NoName, NoCell,  \* the nil PID and the nil *actorCell
          MailboxSize,     \* config.MailboxSize
          DeadLetterSize,  \* config.DeadLetterSize
          InboxSize,       \* props.MailboxSize
          UserOps,         \* bound: the kinds of call user code makes
          MaxCalls         \* bound: the number of them

ASSUME SystemAssumption ==
  /\ NoName \notin Names
  /\ NoCell \notin Cells
  /\ Cells \intersect Clients = {}
  /\ MailboxSize \in Nat /\ DeadLetterSize \in Nat /\ InboxSize \in Nat
  /\ MaxCalls \in Nat
  /\ UserOps \subseteq {"spawn", "send", "watch", "stop", "graceful",
                        "broadcast", "shutdown", "panic"}

\* Cardinalities are taken of sets of cells.
ASSUME FiniteAssumption == IsFiniteSet(Cells)

VARIABLES
  registry,      \* System.actors
  nameOf,        \* cell.pid.ID
  parentOf,      \* cell.parent.ID
  spawner,       \* history: the cell whose children map recorded this cell
  children,      \* cell.children
  watchers,      \* cell.watchers
  state,         \* cell.state
  inbox,         \* cell.mailbox
  pc,            \* where the goroutine of actorLoop(cell) stands
  handling,      \* the last envelope the loop took from cell.mailbox
  visited,       \* what the map iterations of cleanupActor have reached
  mailbox,       \* System.mailbox
  deadLetters,   \* the number of envelopes in System.deadLetters
  dispatcher,    \* the dispatcher goroutine: step, envelope, cell looked up
  reaper,        \* the deadLetterHandler goroutine
  isRunning,     \* System.isRunning
  cancelled,     \* System.ctx is done
  totalActors,   \* stats.TotalActors
  totalMessages, \* stats.TotalMessages
  call,          \* the activation of Stop of each goroutine
  client,        \* the operation each client is in
  calls          \* the number of API calls made, for the bound MaxCalls

registryVars == <<registry, nameOf, parentOf, spawner, totalActors>>
routeVars    == <<mailbox, deadLetters, totalMessages>>
threadVars   == <<dispatcher, reaper>>
systemVars   == <<isRunning, cancelled>>
worldVars    == <<registryVars, threadVars, systemVars, client>>
cellVars     == <<children, watchers, state, inbox, pc, handling, visited>>
\* What a step of a cell's goroutine that only moves on leaves alone.
restVars     == <<worldVars, routeVars, children, watchers, inbox, handling, call, calls>>

vars == <<registry, nameOf, parentOf, spawner, children, watchers, state, inbox,
          pc, handling, visited, mailbox, deadLetters, dispatcher, reaper,
          isRunning, cancelled, totalActors, totalMessages, call, client, calls>>

-----------------------------------------------------------------------------
(* Data *)

Kinds  == {"Started", "PoisonPill", "Watch", "Unwatch", "Terminated", "User"}
States == {"Idle", "Running", "Stopping", "Stopped", "Restarting"}

\* about: Watch.Watcher, Unwatch.Watcher or Terminated.Who.
\* id: the envelope's position in the order of arrival at System.mailbox.
Envelope ==
  {e \in [target : Names, kind : Kinds, about : Names \cup {NoName}, id : Nat] :
     e.kind \in {"Watch", "Unwatch", "Terminated"} => e.about \in Names}
NoEnvelope == [target |-> NoName, kind |-> "None", about |-> NoName, id |-> 0]
MaybeEnvelope == Envelope \cup {NoEnvelope}

MaybeCell == Cells \cup {NoCell}
MaybeName == Names \cup {NoName}

\* The control points of actorLoop, processMessage, applyDirective, cleanupActor.
Handlers   == {"receive", "poisoned", "restarting", "stopped"}
LoopPoints == {"starting", "select", "receive", "poisoned", "failed",
               "escalated", "stopSelf", "restarting", "restarted"}
Registered == LoopPoints \cup {"exiting", "stopped", "notify", "stopChildren", "unregister"}
LeftLoop   == {"exiting", "stopped", "notify", "stopChildren", "unregister",
               "unlink", "release", "done"}
Points     == {"unborn"} \cup LoopPoints \cup LeftLoop

Threads == Cells \cup Clients
NoCall  == [step |-> "none", cell |-> NoCell]
Calls   == [step : {"none", "pill", "mark"}, cell : MaybeCell]

ClientOps == {"idle", "graceful", "poll", "readState", "stopped", "broadcast",
              "snapshot", "stopAll", "waiting"}
\* cell: the cell StopGracefully asked to stop; seen: the cell its poll found.
ClientState == [op : ClientOps, todo : SUBSET Names, cell : MaybeCell, seen : MaybeCell]
Idle == [op |-> "idle", todo |-> {}, cell |-> NoCell, seen |-> NoCell]

DispatcherState == [step : {"select", "lookup", "deliver", "done"},
                    env : MaybeEnvelope, cell : MaybeCell]

TypeOK ==
  /\ registry \in [Names -> MaybeCell]
  /\ nameOf \in [Cells -> MaybeName]
  /\ parentOf \in [Cells -> MaybeName]
  /\ spawner \in [Cells -> MaybeCell]
  /\ children \in [Cells -> SUBSET Names]
  /\ watchers \in [Cells -> SUBSET Names]
  /\ state \in [Cells -> States]
  /\ inbox \in [Cells -> Seq(Envelope)]
  /\ pc \in [Cells -> Points]
  /\ handling \in [Cells -> MaybeEnvelope]
  /\ visited \in [Cells -> SUBSET Names]
  /\ mailbox \in Seq(Envelope)
  /\ deadLetters \in Nat
  /\ dispatcher \in DispatcherState
  /\ reaper \in {"select", "done"}
  /\ isRunning \in BOOLEAN
  /\ cancelled \in BOOLEAN
  /\ totalActors \in Int
  /\ totalMessages \in Nat
  /\ call \in [Threads -> Calls]
  /\ client \in [Clients -> ClientState]
  /\ calls \in Nat

Init ==
  /\ registry = [n \in Names |-> NoCell]
  /\ nameOf = [c \in Cells |-> NoName]
  /\ parentOf = [c \in Cells |-> NoName]
  /\ spawner = [c \in Cells |-> NoCell]
  /\ children = [c \in Cells |-> {}]
  /\ watchers = [c \in Cells |-> {}]
  /\ state = [c \in Cells |-> "Idle"]
  /\ inbox = [c \in Cells |-> <<>>]
  /\ pc = [c \in Cells |-> "unborn"]
  /\ handling = [c \in Cells |-> NoEnvelope]
  /\ visited = [c \in Cells |-> {}]
  /\ mailbox = <<>>
  /\ deadLetters = 0
  /\ dispatcher = [step |-> "select", env |-> NoEnvelope, cell |-> NoCell]
  /\ reaper = "select"
  /\ isRunning = TRUE
  /\ cancelled = FALSE
  /\ totalActors = 0
  /\ totalMessages = 0
  /\ call = [t \in Threads |-> NoCall]
  /\ client = [u \in Clients |-> Idle]
  /\ calls = 0

-----------------------------------------------------------------------------
(* Sending *)

Enqueue(n, kind, about) ==
  /\ totalMessages' = totalMessages + 1
  /\ mailbox' = Append(mailbox, [target |-> n, kind |-> kind, about |-> about,
                                 id |-> totalMessages + 1])
  /\ UNCHANGED deadLetters

\* A select with a default on the dead letter channel: full means dropped.
DeadLetter ==
  /\ deadLetters' = IF deadLetters < DeadLetterSize THEN deadLetters + 1 ELSE deadLetters
  /\ UNCHANGED <<mailbox, totalMessages>>

SendWithSender(n, kind, about) ==
  \/ ~isRunning /\ UNCHANGED routeVars
  \/ isRunning /\ Len(mailbox) < MailboxSize /\ Enqueue(n, kind, about)
  \/ isRunning /\ Len(mailbox) >= MailboxSize /\ DeadLetter

TrySend(n, kind) ==
  \/ isRunning /\ Len(mailbox) < MailboxSize /\ Enqueue(n, kind, NoName)
  \/ ~(isRunning /\ Len(mailbox) < MailboxSize) /\ UNCHANGED routeVars

-----------------------------------------------------------------------------
(* What user code does: a client between two operations, an actor in Receive *)

Free(t) ==
  /\ call[t].step = "none"
  /\ IF t \in Cells THEN pc[t] \in Handlers ELSE client[t].op \in {"idle", "stopped"}

\* A panic of Receive counts as a call.
OneCall(op) == op \in UserOps /\ calls < MaxCalls /\ calls' = calls + 1

Begin(u, op) == client' = [client EXCEPT ![u] = [Idle EXCEPT !.op = op]]

\* Context.Spawn passes the actor's own PID as parent, System.Spawn none.
\* The parent is looked up by name among the registered cells.
Register(c, n, parent) ==
  LET parentCell == IF parent = NoName THEN NoCell ELSE registry[parent] IN
  /\ registry' = [registry EXCEPT ![n] = c]
  /\ nameOf' = [nameOf EXCEPT ![c] = n]
  /\ parentOf' = [parentOf EXCEPT ![c] = parent]
  /\ spawner' = [spawner EXCEPT ![c] = parentCell]
  /\ children' = [k \in Cells |-> IF k = parentCell THEN children[k] \cup {n}
                                                    ELSE children[k]]
  /\ totalActors' = totalActors + 1
  /\ pc' = [pc EXCEPT ![c] = "starting"]

\* Mutant: Spawn without the look-up of the name.
SpawnUnchecked(t, n) ==
  /\ Free(t) /\ OneCall("spawn")
  /\ \E c \in Cells : pc[c] = "unborn" /\ Register(c, n, NoName)
  /\ SendWithSender(n, "Started", NoName)
  /\ UNCHANGED <<watchers, state, inbox, handling, visited, threadVars, systemVars,
                 call, client>>

\* A name that is taken is left alone; isRunning is not looked at.
Spawn(t, n) ==
  /\ Free(t) /\ OneCall("spawn")
  /\ registry[n] = NoCell
  /\ \E c \in Cells :
       /\ pc[c] = "unborn"
       /\ Register(c, n, IF t \in Cells THEN nameOf[t] ELSE NoName)
  /\ SendWithSender(n, "Started", NoName)
  /\ UNCHANGED <<watchers, state, inbox, handling, visited, threadVars, systemVars,
                 call, client>>

SendUser(t, n) ==
  /\ Free(t) /\ OneCall("send")
  /\ SendWithSender(n, "User", NoName)
  /\ UNCHANGED <<worldVars, cellVars, call>>

\* Context.Watch and Context.Unwatch: only an actor has a Context.
SendWatch(c, n) ==
  /\ Free(c) /\ OneCall("watch")
  /\ \E kind \in {"Watch", "Unwatch"} : SendWithSender(n, kind, nameOf[c])
  /\ UNCHANGED <<worldVars, cellVars, call>>

-----------------------------------------------------------------------------
(* Stop: three steps of the calling goroutine *)

\* The look-up.  An unknown name returns at once.
StopLookup(t, n) ==
  call' = IF registry[n] = NoCell THEN call
          ELSE [call EXCEPT ![t] = [step |-> "pill", cell |-> registry[n]]]

StopSend(t) ==
  /\ call[t].step = "pill"
  /\ call' = [call EXCEPT ![t].step = "mark"]
  /\ SendWithSender(nameOf[call[t].cell], "PoisonPill", NoName)
  /\ UNCHANGED <<worldVars, cellVars, calls>>

StopMark(t) ==
  /\ call[t].step = "mark"
  /\ state' = [state EXCEPT ![call[t].cell] = "Stopping"]
  /\ call' = [call EXCEPT ![t] = NoCall]
  /\ UNCHANGED <<worldVars, routeVars, children, watchers, inbox, pc, handling, visited, calls>>

Stop(t, n) ==
  /\ Free(t) /\ OneCall("stop")
  /\ StopLookup(t, n)
  /\ UNCHANGED <<worldVars, routeVars, cellVars>>

-----------------------------------------------------------------------------
(* StopGracefully: Stop, then poll the registry and the state it finds *)

StopGracefully(u, n) ==
  /\ Free(u) /\ OneCall("graceful")
  /\ StopLookup(u, n)
  /\ client' = [client EXCEPT ![u] = [op |-> "graceful", todo |-> {n},
                                      cell |-> registry[n], seen |-> NoCell]]
  /\ UNCHANGED <<registryVars, routeVars, threadVars, systemVars, cellVars>>

ClientStep == UNCHANGED <<registryVars, threadVars, cellVars, call, calls>>

\* Stop has returned, or the loop slept; the next poll may find the deadline
\* passed and return an error, or look the name up.
Poll(u) ==
  /\ \/ client[u].op = "graceful" /\ call[u].step = "none"
     \/ client[u].op = "poll"
  /\ \/ Begin(u, "idle")
     \/ \E n \in client[u].todo :
          client' = [client EXCEPT
            ![u].op = IF registry[n] = NoCell THEN "stopped" ELSE "readState",
            ![u].seen = registry[n]]
  /\ ClientStep /\ UNCHANGED <<routeVars, systemVars>>

\* Mutant: the poll takes a cell marked Stopping for a stopped one.
PollStateEarly(u) ==
  /\ client[u].op = "readState"
  /\ client' = [client EXCEPT ![u].op =
       IF state[client[u].seen] \in {"Stopping", "Stopped"} THEN "stopped" ELSE "poll"]
  /\ ClientStep /\ UNCHANGED <<routeVars, systemVars>>

PollState(u) ==
  /\ client[u].op = "readState"
  /\ client' = [client EXCEPT
       ![u].op = IF state[client[u].seen] = "Stopped" THEN "stopped" ELSE "poll"]
  /\ ClientStep /\ UNCHANGED <<routeVars, systemVars>>

-----------------------------------------------------------------------------
(* Broadcast and ShutdownWithTimeout: a snapshot of the registry, then a loop *)

RegisteredNames == {n \in Names : registry[n] # NoCell}

\* BroadcastWithFilter chooses among the registered names, Broadcast takes all.
Broadcast(u) ==
  /\ Free(u) /\ OneCall("broadcast")
  /\ \E chosen \in SUBSET RegisteredNames :
       client' = [client EXCEPT ![u] = [op |-> "broadcast", todo |-> chosen,
                                        cell |-> NoCell, seen |-> NoCell]]
  /\ UNCHANGED <<registryVars, routeVars, threadVars, systemVars, cellVars, call>>

BroadcastNext(u) ==
  /\ client[u].op = "broadcast"
  /\ \/ /\ client[u].todo = {}
        /\ Begin(u, "idle")
        /\ UNCHANGED routeVars
     \/ \E n \in client[u].todo :
          /\ client' = [client EXCEPT ![u].todo = @ \ {n}]
          /\ TrySend(n, "User")
  /\ ClientStep /\ UNCHANGED systemVars

\* isRunning is cleared first: no message is accepted from here on.
Shutdown(u) ==
  /\ Free(u) /\ OneCall("shutdown")
  /\ isRunning' = FALSE
  /\ Begin(u, "snapshot")
  /\ UNCHANGED <<registryVars, routeVars, threadVars, cellVars, cancelled, call>>

ShutdownSnapshot(u) ==
  /\ client[u].op = "snapshot"
  /\ client' = [client EXCEPT ![u].op = "stopAll", ![u].todo = RegisteredNames]
  /\ ClientStep /\ UNCHANGED <<routeVars, systemVars>>

ShutdownStop(u) ==
  /\ client[u].op = "stopAll" /\ call[u].step = "none"
  /\ \E n \in client[u].todo :
       /\ StopLookup(u, n)
       /\ client' = [client EXCEPT ![u].todo = @ \ {n}]
  /\ UNCHANGED <<registryVars, routeVars, threadVars, systemVars, cellVars, calls>>

ShutdownCancel(u) ==
  /\ client[u].op = "stopAll" /\ call[u].step = "none" /\ client[u].todo = {}
  /\ cancelled' = TRUE
  /\ client' = [client EXCEPT ![u].op = "waiting"]
  /\ ClientStep /\ UNCHANGED <<routeVars, isRunning>>

\* System.wg: the dispatcher, the dead letter handler and every message loop.
WaitGroupIsZero ==
  /\ dispatcher.step = "done" /\ reaper = "done"
  /\ \A c \in Cells : pc[c] \in {"unborn", "done"}

\* The two branches of the last select; the timer may also win a tie.
ShutdownReturn(u) ==
  /\ client[u].op = "waiting"
  /\ WaitGroupIsZero
  /\ Begin(u, "idle")
  /\ ClientStep /\ UNCHANGED <<routeVars, systemVars>>

ShutdownTimeout(u) ==
  /\ client[u].op = "waiting"
  /\ Begin(u, "idle")
  /\ ClientStep /\ UNCHANGED <<routeVars, systemVars>>

-----------------------------------------------------------------------------
(* The dispatcher and the dead letter handler *)

Route(d) ==
  /\ dispatcher' = d
  /\ UNCHANGED <<registryVars, children, watchers, state, pc, handling, visited, reaper,
                 systemVars, totalMessages, call, client, calls>>

DispatcherTake ==
  /\ dispatcher.step = "select" /\ mailbox # <<>>
  /\ mailbox' = Tail(mailbox)
  /\ Route([step |-> "lookup", env |-> Head(mailbox), cell |-> NoCell])
  /\ UNCHANGED <<inbox, deadLetters>>

DispatcherLookup ==
  /\ dispatcher.step = "lookup"
  /\ LET c == registry[dispatcher.env.target] IN
       \/ /\ c = NoCell
          /\ DeadLetter
          /\ Route([step |-> "select", env |-> NoEnvelope, cell |-> NoCell])
       \/ /\ c # NoCell
          /\ Route([dispatcher EXCEPT !.step = "deliver", !.cell = c])
          /\ UNCHANGED <<mailbox, deadLetters>>
  /\ UNCHANGED inbox

\* Mutant: the message overtakes those that wait.
DispatcherDeliverFirst ==
  /\ dispatcher.step = "deliver" /\ Len(inbox[dispatcher.cell]) < InboxSize
  /\ inbox' = [inbox EXCEPT ![dispatcher.cell] = <<dispatcher.env>> \o @]
  /\ Route([step |-> "select", env |-> NoEnvelope, cell |-> NoCell])
  /\ UNCHANGED <<mailbox, deadLetters>>

DispatcherDeliver ==
  /\ dispatcher.step = "deliver"
  /\ LET c == dispatcher.cell IN
       \/ /\ Len(inbox[c]) < InboxSize
          /\ inbox' = [inbox EXCEPT ![c] = Append(@, dispatcher.env)]
          /\ UNCHANGED <<mailbox, deadLetters>>
       \/ /\ Len(inbox[c]) >= InboxSize
          /\ DeadLetter
          /\ UNCHANGED inbox
  /\ Route([step |-> "select", env |-> NoEnvelope, cell |-> NoCell])

\* Mutant: the context is looked at only when a message arrives.
DispatcherExitLate ==
  /\ dispatcher.step = "select" /\ cancelled /\ mailbox # <<>>
  /\ Route([dispatcher EXCEPT !.step = "done"])
  /\ UNCHANGED <<inbox, mailbox, deadLetters>>

DispatcherExit ==
  /\ dispatcher.step = "select" /\ cancelled
  /\ Route([dispatcher EXCEPT !.step = "done"])
  /\ UNCHANGED <<inbox, mailbox, deadLetters>>

ReaperTake ==
  /\ reaper = "select" /\ deadLetters > 0
  /\ deadLetters' = deadLetters - 1
  /\ UNCHANGED <<worldVars, cellVars, mailbox, totalMessages, call, calls>>

ReaperExit ==
  /\ reaper = "select" /\ cancelled
  /\ reaper' = "done"
  /\ UNCHANGED <<registryVars, routeVars, systemVars, dispatcher, cellVars, call, client, calls>>

-----------------------------------------------------------------------------
(* The message loop of a cell *)

Goto(c, p) == pc' = [pc EXCEPT ![c] = p]

\* Nothing but the control point, or the control point and cell.state, changes.
Move(c, p) == Goto(c, p) /\ UNCHANGED <<restVars, state, visited>>
MoveIn(c, p, s) ==
  Goto(c, p) /\ state' = [state EXCEPT ![c] = s] /\ UNCHANGED <<restVars, visited>>

\* A send from the goroutine of c.
SendFrame == UNCHANGED <<worldVars, children, watchers, state, inbox, handling, call, calls>>

LoopStart(c) == pc[c] = "starting" /\ MoveIn(c, "select", "Running")

LoopCancelled(c) == pc[c] = "select" /\ cancelled /\ Move(c, "exiting")

\* Watch and Unwatch are consumed by the loop itself; a PoisonPill calls
\* Receive(Stopping); every other message calls Receive.
LoopTake(c) ==
  /\ pc[c] = "select" /\ inbox[c] # <<>>
  /\ LET env == Head(inbox[c]) IN
       /\ inbox' = [inbox EXCEPT ![c] = Tail(@)]
       /\ handling' = [handling EXCEPT ![c] = env]
       /\ \/ /\ env.kind = "Watch"
             /\ watchers' = [watchers EXCEPT ![c] = @ \cup {env.about}]
             /\ UNCHANGED pc
          \/ /\ env.kind = "Unwatch"
             /\ watchers' = [watchers EXCEPT ![c] = @ \ {env.about}]
             /\ UNCHANGED pc
          \/ env.kind = "PoisonPill" /\ Goto(c, "poisoned") /\ UNCHANGED watchers
          \/ /\ env.kind \notin {"Watch", "Unwatch", "PoisonPill"}
             /\ Goto(c, "receive")
             /\ UNCHANGED watchers
  /\ UNCHANGED <<worldVars, routeVars, children, state, visited, call, calls>>

\* Mutant: the loop goes on after a PoisonPill.
AfterMessageAlways(c) == "select"

\* After processMessage: the loop returns if the message was a PoisonPill.
AfterMessage(c) == IF handling[c].kind = "PoisonPill" THEN "exiting" ELSE "select"

InReceive(c) == pc[c] \in {"receive", "poisoned"} /\ call[c].step = "none"

ReceiveReturn(c) == InReceive(c) /\ Move(c, AfterMessage(c))

\* processMessage recovers and handleFailure asks the supervision strategy; its
\* answer is one of the four directives.
Panic(c) ==
  /\ InReceive(c) /\ OneCall("panic")
  /\ Goto(c, "failed")
  /\ UNCHANGED <<worldVars, routeVars, children, watchers, state, inbox, handling, visited, call>>

DirectiveResume(c) == pc[c] = "failed" /\ Move(c, AfterMessage(c))

DirectiveRestart(c) == pc[c] = "failed" /\ MoveIn(c, "restarting", "Restarting")

\* Receive(Restarting) has returned.
RestartSend(c) ==
  /\ pc[c] = "restarting" /\ call[c].step = "none"
  /\ SendWithSender(nameOf[c], "Started", NoName)
  /\ Goto(c, "restarted")
  /\ SendFrame /\ UNCHANGED visited

RestartRun(c) == pc[c] = "restarted" /\ MoveIn(c, AfterMessage(c), "Running")

\* Mutant: no check for an actor without a parent.
DirectiveEscalateUnchecked(c) ==
  /\ pc[c] = "failed"
  /\ SendWithSender(parentOf[c], "Terminated", nameOf[c])
  /\ Goto(c, "escalated")
  /\ SendFrame /\ UNCHANGED visited

DirectiveEscalate(c) ==
  /\ pc[c] = "failed"
  /\ \/ parentOf[c] # NoName /\ SendWithSender(parentOf[c], "Terminated", nameOf[c])
     \/ parentOf[c] = NoName /\ UNCHANGED routeVars
  /\ Goto(c, "escalated")
  /\ SendFrame /\ UNCHANGED visited

\* DirectiveStop, or the second half of DirectiveEscalate: Stop(cell.pid).
DirectiveStop(c) ==
  /\ pc[c] \in {"failed", "escalated"}
  /\ StopLookup(c, nameOf[c])
  /\ Goto(c, "stopSelf")
  /\ UNCHANGED <<worldVars, routeVars, children, watchers, state, inbox, handling, visited, calls>>

StopSelfReturn(c) ==
  pc[c] = "stopSelf" /\ call[c].step = "none" /\ Move(c, AfterMessage(c))

-----------------------------------------------------------------------------
(* cleanupActor, deferred by actorLoop *)

CleanupStopped(c) == pc[c] = "exiting" /\ MoveIn(c, "stopped", "Stopped")

\* Receive(Stopped) has returned.
StoppedReturn(c) == pc[c] = "stopped" /\ call[c].step = "none" /\ Move(c, "notify")

NotifyWatcher(c) ==
  /\ pc[c] = "notify"
  /\ \E w \in watchers[c] \ visited[c] :
       /\ visited' = [visited EXCEPT ![c] = @ \cup {w}]
       /\ SendWithSender(w, "Terminated", nameOf[c])
  /\ SendFrame /\ UNCHANGED pc

\* The end of a range over a map: nothing is left that it has not visited.
RangeDone(c, map, p) ==
  /\ map \subseteq visited[c]
  /\ visited' = [visited EXCEPT ![c] = {}]
  /\ Goto(c, p)
  /\ UNCHANGED <<restVars, state>>

NotifyDone(c) == pc[c] = "notify" /\ RangeDone(c, watchers[c], "stopChildren")

\* The range over cell.children sees the deletions made meanwhile.
StopChild(c) ==
  /\ pc[c] = "stopChildren" /\ call[c].step = "none"
  /\ \E n \in children[c] \ visited[c] :
       /\ visited' = [visited EXCEPT ![c] = @ \cup {n}]
       /\ StopLookup(c, n)
  /\ UNCHANGED <<worldVars, routeVars, children, watchers, state, inbox, pc, handling, calls>>

StopChildrenDone(c) ==
  /\ pc[c] = "stopChildren" /\ call[c].step = "none"
  /\ RangeDone(c, children[c], "unregister")

CleanupFrame == UNCHANGED <<routeVars, threadVars, systemVars, client, watchers, state,
                            inbox, handling, visited, call, calls>>

\* delete(s.actors, cell.pid.ID): by name, whichever cell holds it.
Unregister(c) ==
  /\ pc[c] = "unregister"
  /\ registry' = [registry EXCEPT ![nameOf[c]] = NoCell]
  /\ Goto(c, "unlink")
  /\ CleanupFrame /\ UNCHANGED <<nameOf, parentOf, spawner, totalActors, children>>

\* Mutant: the parent keeps the name.
UnlinkNothing(c) ==
  pc[c] = "unlink" /\ Goto(c, "release") /\ CleanupFrame /\ UNCHANGED <<registryVars, children>>

\* Delete the name from the children of whichever cell holds the parent's name.
Unlink(c) ==
  /\ pc[c] = "unlink"
  /\ LET p == IF parentOf[c] = NoName THEN NoCell ELSE registry[parentOf[c]] IN
       children' = [k \in Cells |-> IF k = p THEN children[k] \ {nameOf[c]} ELSE children[k]]
  /\ Goto(c, "release")
  /\ CleanupFrame /\ UNCHANGED registryVars

\* Mutant: TotalActors is not decremented.
ReleaseUncounted(c) ==
  pc[c] = "release" /\ Goto(c, "done") /\ CleanupFrame /\ UNCHANGED <<registryVars, children>>

Release(c) ==
  /\ pc[c] = "release"
  /\ totalActors' = totalActors - 1
  /\ Goto(c, "done")
  /\ CleanupFrame /\ UNCHANGED <<registry, nameOf, parentOf, spawner, children>>

-----------------------------------------------------------------------------

UserCode ==
  \/ \E t \in Threads, n \in Names : Spawn(t, n) \/ SendUser(t, n) \/ Stop(t, n)
  \/ \E c \in Cells, n \in Names : SendWatch(c, n)
  \/ \E u \in Clients, n \in Names : StopGracefully(u, n)
  \/ \E u \in Clients : Broadcast(u) \/ Shutdown(u)
  \/ \E c \in Cells : Panic(c)

StopSteps(t) == StopSend(t) \/ StopMark(t)

ClientSteps(u) ==
  \/ Poll(u) \/ PollState(u) \/ BroadcastNext(u)
  \/ ShutdownSnapshot(u) \/ ShutdownStop(u) \/ ShutdownCancel(u)
  \/ ShutdownReturn(u) \/ ShutdownTimeout(u)

DispatcherSteps ==
  DispatcherTake \/ DispatcherLookup \/ DispatcherDeliver \/ DispatcherExit

ReaperSteps == ReaperTake \/ ReaperExit

LoopSteps(c) ==
  \/ LoopStart(c) \/ LoopCancelled(c) \/ LoopTake(c) \/ ReceiveReturn(c)
  \/ DirectiveResume(c) \/ DirectiveRestart(c) \/ RestartSend(c) \/ RestartRun(c)
  \/ DirectiveEscalate(c) \/ DirectiveStop(c) \/ StopSelfReturn(c)

CleanupSteps(c) ==
  \/ CleanupStopped(c) \/ StoppedReturn(c) \/ NotifyWatcher(c) \/ NotifyDone(c)
  \/ StopChild(c) \/ StopChildrenDone(c) \/ Unregister(c) \/ Unlink(c) \/ Release(c)

Next ==
  \/ UserCode
  \/ \E t \in Threads : StopSteps(t)
  \/ \E u \in Clients : ClientSteps(u)
  \/ DispatcherSteps
  \/ ReaperSteps
  \/ \E c \in Cells : LoopSteps(c) \/ CleanupSteps(c)

Spec == Init /\ [][Next]_vars

\* Every goroutine that can run does run, and a Receive returns.
Fairness ==
  /\ \A t \in Threads : WF_vars(StopSteps(t))
  /\ \A u \in Clients : WF_vars(ClientSteps(u))
  /\ WF_vars(DispatcherSteps)
  /\ WF_vars(ReaperSteps)
  /\ \A c \in Cells : WF_vars(LoopSteps(c) \/ CleanupSteps(c))

FairSpec == Spec /\ Fairness

-----------------------------------------------------------------------------
(* What the type invariant rests on: a reference to a cell is to a born one *)

Born(c) == c \in Cells /\ pc[c] # "unborn"

BornCells ==
  /\ \A c \in Cells : nameOf[c] \in Names <=> pc[c] # "unborn"
  /\ \A c \in Cells : parentOf[c] # NoName => pc[c] # "unborn"
  /\ \A n \in Names : registry[n] # NoCell => Born(registry[n])
  /\ \A t \in Threads : call[t].step # "none" => Born(call[t].cell)
  /\ \A u \in Clients : client[u].op = "readState" => Born(client[u].seen)
  /\ dispatcher.step = "deliver" => Born(dispatcher.cell)
  /\ dispatcher.step \in {"lookup", "deliver"} => dispatcher.env \in Envelope

-----------------------------------------------------------------------------
(* Properties of the registry *)

\* The registry holds exactly the cells whose goroutine has not yet removed
\* itself, each under its own name: a name has at most one live incarnation,
\* and the delete by name in cleanupActor never removes another cell's entry.
RegistryIsLive ==
  /\ \A n \in Names : registry[n] # NoCell =>
       nameOf[registry[n]] = n /\ pc[registry[n]] \in Registered
  /\ \A c \in Cells : pc[c] \in Registered =>
       nameOf[c] \in Names /\ registry[nameOf[c]] = c

\* stats.TotalActors counts the goroutines that have not finished: it runs
\* ahead of Count() by the cells between their delete and their decrement.
Alive == {c \in Cells : pc[c] \notin {"unborn", "done"}}
ActorCount == totalActors = Cardinality(Alive)

\* A children map names a cell that is not the actor's child only while the
\* child of that name is between its two removals in cleanupActor.
ChildrenAreMine ==
  \A p \in Cells : pc[p] \in Registered => \A n \in children[p] :
    \/ registry[n] # NoCell /\ spawner[registry[n]] = p
    \/ \E d \in Cells : pc[d] = "unlink" /\ nameOf[d] = n /\ spawner[d] = p

\* The comment of cleanupActor's loop: an actor that ends stops all its children.
\* Every child still in its loop is one that the range will reach or has reached.
StopsAllChildren ==
  \A p, c \in Cells :
    pc[p] = "stopChildren" /\ spawner[c] = p /\ pc[c] \in LoopPoints
      => nameOf[c] \in children[p] \cup visited[p]

-----------------------------------------------------------------------------
(* Properties of message delivery *)

Increasing(s) == \A i, j \in DOMAIN s : i < j => s[i].id < s[j].id

\* The ids a cell has been given: what it handles and what waits behind it.
Given(c) == {handling[c].id} \cup {inbox[c][i].id : i \in DOMAIN inbox[c]}

\* Messages keep the order in which System.mailbox accepted them through the
\* dispatcher and the actor's mailbox, and none is given to two incarnations.
InOrder ==
  /\ Increasing(mailbox)
  /\ \A i \in DOMAIN mailbox : dispatcher.env.id < mailbox[i].id
  /\ \A c \in Cells :
       /\ Increasing(inbox[c])
       /\ \A i \in DOMAIN inbox[c] : handling[c].id < inbox[c][i].id
       /\ \A g \in Given(c), i \in DOMAIN mailbox : g < mailbox[i].id
       /\ dispatcher.step \in {"lookup", "deliver"} =>
            \A g \in Given(c) : g < dispatcher.env.id
  /\ \A c, d \in Cells : c # d => Given(c) \cap Given(d) \subseteq {0}

-----------------------------------------------------------------------------
(* Properties of Stop and Shutdown *)

\* StopGracefully returns nil only when the incarnation it asked to stop has
\* left its message loop, whatever became of the name in the meantime.
GracefulMeansLeft ==
  \A u \in Clients :
    client[u].op = "stopped" /\ client[u].cell # NoCell => pc[client[u].cell] \in LeftLoop

\* A pill that reached an actor's mailbox ends that actor.
PillKills ==
  \A c \in Cells :
    (\E i \in DOMAIN inbox[c] : inbox[c][i].kind = "PoisonPill") ~> (pc[c] = "done")

\* Once Shutdown has cancelled the context, every goroutine of the system
\* ends, the loops of actors spawned since included, and the wait can succeed.
ShutdownCompletes == cancelled ~> []WaitGroupIsZero

=============================================================================
