# A verification of the actor, agent and team packages

The repository is a Go library of three packages that stand on one another:
`pkg/actor`, an actor runtime of goroutines and channels; `pkg/agent`, which makes
an agent of the external library `go-pkg-agent` an actor; and `pkg/team`, a team of
agents, once behind a lock (`BaseTeam`) and once behind an actor (`TeamActor`).
`examples/support-team` uses all three. This directory holds TLA+ models of the
concurrent core, the TLC runs that check them, and TLAPS proofs of their
safety properties for every value of the constants.

    tlc -config <cfg> <module>        a run; the list is below
    tlapm <Component>Proofs.tla       the proofs of one component

All line numbers below refer to files under `pkg/`.

## 1. The system

| component | state | operations | who acts on it |
|---|---|---|---|
| `System` (`actor/system.go`) | registry of cells by name, system mailbox, dead-letter channel, `isRunning`, context, wait group, counters | Spawn, Send, TrySend, Broadcast, Request, Stop, StopGracefully, Shutdown | any goroutine; the dispatcher; the dead-letter reader |
| actor cell (`actor/system.go`) | mailbox, state, children, watchers, parent, context | the loop `actorLoop`, `processMessage`, `applyDirective`, `cleanupActor` | its own goroutine, and others that hold a pointer to it |
| supervision strategies (`actor/supervisor.go`) | restart window, delay, count, mutex | HandleFailure, Reset | the loops of all actors that share the object, timers |
| `SupervisorActor` (`actor/supervisor.go`) | children by name, beside the cell's own | starts and stops what its specs name, Terminated | its own loop; its parent's strategy and timers |
| statistics (`actor/stats.go`) | counters, behind a lock or atomic | RecordReceived, RecordHandled, RecordError, Reset, Stats | every goroutine that runs a `Receive`; readers |
| channel and context helpers (`actor/helpers.go`) | none | Ask, TrySend, MergeContexts, ... | callers |
| `AgentActor` (`agent/agent.go`) | context, subscribers, statistics | Run, Chat, Subscribe, Unsubscribe, Stop, Delegate, Handoff, queries | its loop; a goroutine per Run; a goroutine per Delegate |
| `BaseTeam` (`team/impl.go`) | members, leader, task board, progress log, reports, `sync.RWMutex` | members, tasks, reports, Shutdown | any goroutine |
| hierarchy validation (`team/validation.go`) | none | detectCycle, checkDepthLimit | AddMember of both teams |
| `TeamActor` (`team/actor.go`, `messages.go`, `helpers.go`) | as `BaseTeam`, without the lock | a message per operation, `Do*` functions that wait for the reply | its loop, callers with timers |

**How they interact.** Everything a PID offers looks its *name* up in the registry. A
message goes through the system mailbox to the dispatcher goroutine, which finds the
cell under the read lock, releases the lock, and puts the message in the cell's mailbox;
either queue drops when it is full. A panic in `Receive` is recovered in the actor's
goroutine, which asks the parent's strategy and carries out its directive itself. An actor
that ends runs `cleanupActor`: `Receive(Stopped)`, Terminated to the watchers, Stop of the
children, removal from the registry, removal from the parent's children. An `AgentActor`
answers a Run from a goroutine that outlives the handler; a `TeamActor` answers on a
channel whose reader may have left. `Request` and `Ask` may be called inside `Receive`: the actor
then handles nothing until the call is over. A `SupervisorActor` keeps its own map of the
children beside the cell's, and what it does at its start it does again at every restart. Statistics are recorded
inside every `Receive`, by whichever goroutine runs it.

**What is hard.** Names are reused while their former holders clean up, are stopped or
are looked at. Maps of one cell are changed by goroutines of others. Any message may be
lost, between two that arrive. Restarts run `Receive` in foreign goroutines. Channels are
closed by one goroutine while others send. Timers race late replies. Shutdown races
everything.

**What makes each part correct.**

* *System*: a name has one live incarnation; the registry, the counter and the children
  maps agree with the goroutines; messages keep their order and are handled once; a pill
  that arrives ends its actor; a graceful stop that reports success is one; after Shutdown
  every goroutine ends.
* *Request and Ask*: a call returns, and with an answer that was given to it or with none; no
  actor is stuck in a call or in a reply.
* *SupervisorActor*: it starts all of its children when it is restarted, and leaves none behind.
* *Statistics*: every message is accounted for once, in the counters its way of recording uses; a snapshot is no more torn than it must be.
* *Supervision*: restart budgets hold over all actors that share the strategy; the delay
  matches the count; a failing actor always returns to its loop;
  the goroutines inside one actor's `Receive` are no more than the strategy's lock and count allow.
* *AgentActor*: channels are closed once, after the last send, and always; a Delegate
  answers, and answers what the Run came to.
* *Teams*: the leader is a member; the hierarchy is acyclic and bounded; each member is
  closed once; `TeamActor` looks to its callers like a team used by one at a time.

The hazards, each with its line and the properties that watch it, are in `PROJECT.json`.

## 2. The modules

| module | models | size against code |
|---|---|---|
| `ActorSystem` | `System` and the cells | every goroutine of the runtime, step by step |
| `RemoteCall` | what `Request`, `Ask` and `AskWithContext` promise | abstract: no queue, no channel, no timer |
| `RequestReply` | the three, with Reply and Forward | implements `RemoteCall`; the runtime reduced to its queues |
| `SupervisorActor` | the actor of that name, and its restarts by its parent | the runtime reduced to names |
| `Stats` | the two collectors and their three users | one step per lock section or atomic access |
| `Supervision` | strategies, `handleFailure`, `restartAllSiblings`, delayed restarts | computes what `ActorSystem` takes as any directive |
| `Hierarchy` | what `validation.go` decides | operators only |
| `Validation` | how `validation.go` decides it, and the walks of two queries | the loops |
| `Team` | `BaseTeam`'s members | lock sections and what lies between them |
| `TeamService` | what `TeamActor` promises | abstract: no mailbox, no channel, no timer |
| `TeamActor` | `TeamActor` and the `Do*` functions | implements `TeamService` |
| `AgentActor` | `AgentActor` with its goroutines | abstracts the system to bounded mailboxes |
| `MC*` | symmetry sets for TLC | |
| `ActorSystemProofs`, `RequestReplyProofs`, `SupervisorActorProofs`, `StatsProofs`, `SupervisionProofs`, `TeamProofs`, `TeamActorProofs`, `AgentActorProofs` | theorems | `TeamProofs` extends `Validation` as well as `Team` and holds its theorem too |

`TeamActor` and `TeamService` and `Team` and `Validation` all extend `Hierarchy`, so that
one `Accepts` decides who may join: `Validation` checks that the code's loops compute it,
the others use it. `RequestReply` instantiates `RemoteCall` and `TeamActor` instantiates `TeamService`, each with a refinement mapping; `TeamActor`
takes the sequential meaning of the handlers (`Outcomes`) from it: an actor runs them
alone, so they mean the same on both levels, and what is left to check is the protocol
around them.

### ActorSystem

A *cell* is an incarnation, used once; a PID is a name. `pc[c]` says where the goroutine of
`actorLoop` stands: `starting`, `select`, inside `Receive` (`receive`, `poisoned` for
Stopping, `restarting`, `stopped`), in a directive (`failed`, `escalated`, `stopSelf`,
`restarted`), or in the steps of `cleanupActor` (`exiting`, `stopped`, `notify`, `stopChildren`,
`unregister`, `unlink`, `release`, `done`). The body of `Receive` is unknown: while inside, an
actor may spawn, send, watch, stop and panic (`UserCode`), and so may clients, the
goroutines outside every actor. `Stop` is three steps of its caller (look-up, pill, mark), since
nothing is locked between them; `StopGracefully` polls name and state in separate steps;
`Broadcast` and `Shutdown` walk a snapshot. `spawner` is a history variable: whose children map
recorded the cell. The identity of a message is its place in the order of acceptance.

Steps that are merged, and why that loses nothing:

* `Spawn` is one step: it runs under the write lock, and its Started goes to the system
  mailbox, which the dispatcher cannot deliver before the registry can be read again.
* The test of `isRunning` and the enqueueing in `Send` are one step. A Send that passed
  the test before Shutdown and enqueues after it is a Send before Shutdown to every
  observer: nothing but Sends reads `isRunning`.
* `deadLetters` is a count: the reader drops what it reads.
* Counters nobody reads for control (`TotalMessages` numbers the messages, `TotalActors` is a
  subject; the others are left out), logging and metrics.
* `cell.ctx` is cancelled by the end of `cleanupActor` of its own cell or by the system's
  context; the first has no reader left, so `cancelled` stands for both.
* Dead-letter logging is assumed on, as the default configuration has it.

Outside the model: a concurrent map access that makes the Go runtime abort (see the
hazards), a panic in `Receive(Restarting)` or `Receive(Stopped)`, which nobody recovers
and which ends the process.

### Supervision

Some cells with one parent share one strategy object, or have none. The loop of each is
reduced to receiving, failing and ending; the strategy's window, delay and count, its mutex
and the timers of `DirectiveWithDelay` are explicit, and so is the walk of
`restartAllSiblings`, which runs under that mutex and inside other actors' `Receive`. A cell may
panic in Stopping too: the strategy is asked, and the loop ends all the same (`leaving`). The
decider answers Restart (the other answers return at once); `cell.state` and cleanup belong to
`ActorSystem`. `granted` is a history of the restarts granted. `restartWindow` is a slice of times: here it
is the set of the restarts it remembers, each with its number in the order of granting
(`ThisRestart`), so that two restarts at one moment stay two. Nothing compares `InitialDelay` with `MaxDelay`,
as `NewExponentialBackoffStrategy` does not. `settled` is a history: the timers set before the last Reset.

### SupervisorActor

The runtime is reduced to what a supervisor can tell: who holds a name, whose pill has arrived, and
messages that go to whoever holds the name when they are dispatched. `known` is
`SupervisorActor.children`, `linked` is `cell.children`; the two differ, and `cleanupActor` of a
child removes its name from the second one *after* it has left the registry; `cleanupActor` of
the supervisor reads it as it is while others change it (`ToStop`). A `Factory` may
panic between two specs, and `Directive` has every answer of the strategy of the supervisor's own parent: a
restart at once, or by a timer that does not ask whether its actor has ended or its name is another's;
Resume, which leaves the rest of the specs unstarted for good; Stop and Escalate. Each of them may lose what it sends at a full system
mailbox, and the dispatcher may lose it at the supervisor's (`InboxSize`) or a child's; `adrift` is a history of the supervisors that were
resumed, or lost the Started or the pill that was to follow. The Started of a child takes its place in the mailbox too. A child may
escalate. Clients start and stop supervisors and take or stop the children's names, and a failing sibling may have
the supervisor restarted. The supervisor is taken to have a parent. Props of a
spec, if given, are taken to name it as the spec does: `SpawnWithProps` registers the name of the props, the
map the name of the spec. Receive of the children is left out.

### RemoteCall and RequestReply

`RemoteCall` knows calls that are outstanding, the answer given to each, and what callers came
back with. An actor that waits for a call of its own answers nobody; a Request is answered by the actor
it was made to, since `Forward` leaves the envelope's reply channel behind; an Ask by any actor its
message was forwarded to, since that holds the channel. `RequestReply` has the queues, the
channels of capacity one, the context of a Request and the timer of an Ask, the check and the select
of `Context.Reply` in two steps, and callers that are themselves inside `Receive`. The mapping: a call
is outstanding from its first step to its return, and answered when its channel is full. `Reply` to
a message that came with a Sender is a plain send and is left out, with `SendWithSender`'s other users.

### Stats

`StatsActor` and the embedded collectors of `AgentActor` and `TeamActor` share `StatsCollector`, whose
methods are lock sections and one step each; they differ in what they record when `Receive` panics: a
`StatsActor` an error (if the value is one, else nothing) and nothing handled, the embedded ones a handled
message, from their deferred function. `AtomicStatsCollector` adds to and loads its counters one by one. `Reset` may
come while messages are being handled. `outcome` is a history: how many activations returned,
panicked with an error or with another value since the last Reset, and how many of them had begun before it (`late`). `Accounted` says what the
counters make of these in each way of recording, and so where they differ from what `stats.go` says of them.

### Hierarchy, Validation, Team

A hierarchy maps the ids present to their parents' ids; parents need not be present
(`RemoveMember` leaves the descendants where they are). `Accepts` says declaratively what
`detectCycle` and `checkDepthLimit` let pass. `Validation` runs the loops on every hierarchy, and
the walks of `GetMemberLineage` and `ListDescendantMembers`, which keep no set of visited members, on
every acyclic one (`Acyclic` says that a team has no other).
`Team` has one action per operation of `BaseTeam`, more where the lock is released:
`CloseMember` closes after it, `ForkMember` reads, clones and adds in separate sections (and the
clone may fail, or have another id and parent: the caller's options come after `WithID(newID)`), `Shutdown` closes inside. `owed` is a history of how
often a member joined and was not handed back or closed. All members are Closeable; for others
the call is skipped.

### AgentActor

`run[r]` follows one Run or Delegate message: the goroutine that forwards events to `EventChan`
and copies the subscribers under the lock but sends without it, and the waiter of a Delegate.
`handleStop` closes channels in map order, so a second close may come after any of the others;
it panics then, and the default strategy lets the actor go on, with no effect on the agent. A
send on a closed channel in a bare goroutine ends the process (`crashed`). The external agent
is a stream of texts that ends with `done` or `error`, or anywhere once its context is
cancelled. The filter by event type is a nondeterministic skip, `ResultChan` is taken to have
room (TrySend would drop the answer), and the end of a loop and its cleanup are one step, but for
`handleDelegate`: its target may have ended and still be in the registry, and then the Run is lost as at a full mailbox.
`handleStop` is one step: only the sends of `broadcastEvent` can be interleaved with its
closes, and they read a copy made earlier or later in either case. `listener` is a history of what
became of each subscription.

### TeamService and TeamActor

`TeamService` lets each request take effect at one moment between being asked and being
answered; a caller that gives up leaves a late request, which takes effect at some later
time or never. `TeamActor` has the mailbox, the reply channels of capacity one, the timers and
the ends of the loop. The refinement maps a call to *asked* until its reply is in its
channel, and messages whose call has returned to *late*. Statuses are reduced to "completed" and
another one (only "completed" has an effect), of the progress log and the reports the length
is kept. `DoGetTask` is left out: it replies with a pointer into the board, whose reads no
message orders (see the hazards).

## 3. The runs

Runs that pass:

| run | configuration | states | shows |
|---|---|---|---|
| `lifecycle` | 2 names, 3 cells, 1 client, 4 calls of spawn, stop, graceful, panic | 1 579 447 | `TypeOK`, `RegistryIsLive`, `ActorCount`, `ChildrenAreMine`, `GracefulMeansLeft` |
| `messages` | 2 names, 2 cells, 1 client, 3 calls of any kind but graceful; queues of 2, dead letters 1 | 251 455 | `InOrder`, `PillKills`, `ShutdownCompletes` |
| `requests` | 1 client, 2 actors, 3 calls, forwardings or shutdowns, queues of 1 | 206 775 | `RequestTypeOK`, `AnswersAreOwn`, `CallsReturn`, `LoopsResume` |
| `supervisor` | 2 incarnations, 2 specs, 1 panic, 1 escalation, 3 calls, mailboxes of 2 | 710 777 | `NoOrphans`, `SpecsAreStarted` |
| `strategies` | 2 cells, each strategy, 3 panics, clock to 2, window 2, 2 restarts, delays 1 to 3 | 310 833 | `SupervisionTypeOK`, `SharedBudget`, `BackoffDelay`, `OverlapIsBounded`, `FailureIsHandled` |
| `statistics` | 2 goroutines, 1 reader, 4 messages, 1 reset, latencies 1 and 4 | 539 379 | `Accounted`, `SnapshotsAreSound` |
| `agents` | 2 agents, 1 Run, 2 channels, 3 messages, mailbox 2, EventChan 1 | 433 431 | `AgentTypeOK`, `StopNeverPanics`, `ListenersReleased`, `OnlyStoppedAgentsCrash`, `AnswerIsTheOutcome`, `DelegationIsAnswered`, `CancelledRunEnds` |
| `validation` | every hierarchy of 4 ids, every new member and every id asked for, depth 3 | 85 773 | `ResultIsRight`, `Terminates` |
| `members` | 4 ids, 2 callers, 7 calls, depth 3 | 39 366 | `TeamTypeOK`, `LeaderIsMember`, `Acyclic`, `ClosedOnce`, `LeaderKeepsOffice`, `OnlyReturnsDeepen` |
| `team_calls` | 2 ids, 2 callers, 3 calls of any operation, 1 task id, mailbox 2 | 771 142 | `TeamActorTypeOK`, `StoppedTeamIsEmpty`, `TeamIsLed`, `Consistent` |

**Why these bounds.** Reusing a name takes two cells with one name, and a parent beside
them: three cells, two names. An order to break takes two messages in flight and one being
routed; queues of two are full within three sends, so the losses happen. Four ids give every
shape of hierarchy a limit of three can tell apart, and one level beyond it. Seven calls suffice
to build a chain, take it apart and build another. A budget of two is exceeded by three
panics within the window, and the window moves within two ticks; a delay of 1, 2, 3 is capped at
its second doubling. One Run, three messages: a delegate, a stop and a subscription, or a
stop, a subscription and a pill. Three calls of two callers: a late request, its late reply and
another request of the same caller, with a second caller between. Queues of one, two actors and three
calls: each actor inside a call to the other or to itself, a put into a full mailbox, a forwarded
message and its late reply. Two supervisors under one name, three calls: the second takes the
name of the first while a timer of the first waits, or a stranger takes a child's; two messages fill either mailbox. Four messages in two
goroutines with a reset: a message on either side of it and one across, under a reader.

**What the pass runs say that a test would not.** `RegistryIsLive`: `delete(s.actors, id)`
works by name, and is right only because the name cannot be taken before it.
`GracefulMeansLeft`: nil means that *this* incarnation has left its loop even if Stop's mark and
cleanup's mark race or the name is another's by then. `FailureIsHandled`: the actor that waits
for the strategy's mutex while its siblings are restarted does get it. `AnswerIsTheOutcome`:
neither a full channel nor a cancelled target makes a Delegate answer the wrong thing.
`OverlapIsBounded`: however actors fail together, one goroutine at a time restarts siblings.
`Consistent` and `AnswersAreOwn`: no late reply reaches another call. `LoopsResume`: two actors that
call one another wait for a timer, not for ever. `NoOrphans`: either of a supervisor's two maps may miss a child, and
no run of restarts, late Terminateds and changes of names makes both miss it, but for a lost pill or an
escalation. `SnapshotsAreSound`: a torn snapshot shows only what arrived while it was taken.
`OnlyReturnsDeepen`: the depth limit is exceeded in one way only, by a member that comes back to children it had left.

Runs that find a disagreement (each is a finding in `PROJECT.json`):

| run | shows |
|---|---|
| `orphan` | `StopsAllChildren`: a child has left the registry, its parent spawns a namesake, the old child's removal from the children map, by name, takes the new one's entry, and the parent's cleanup misses a live child (`actor/system.go:738`) |
| `shared_channel` | `OnlyStoppedAgentsCrash`, with one channel subscribed to two agents as the README's example does: one agent's stop closes the channel of the other, whose goroutine panics (`agent/agent.go:244`) |

Other facts that came up, each one fixed sequence that needs no search, or a comment that says more than the code does:

* Shutdown clears `isRunning` before it sends its pills, which `Send` then drops: no actor gets Stopping from it
  (`actor/system.go:436`; `ActorSystem!ShutdownStop`).
* An actor without a strategy gets a fresh default strategy, with an empty window, at every failure
  (`actor/system.go:606`): its limit of three restarts is never reached.
* A Watch that is delivered behind the watched actor's pill is never handled, and no Terminated comes
  (`actor/system.go:719`).
* A member that is removed and added again one level down takes its descendants below the depth limit
  (`team/impl.go:117`); `OnlyReturnsDeepen` says that nothing else does.
* "消息处理串行化（一次处理一条）" (messages are handled serially, one at a time, `actor/types.go:6`) is not so:
  `restartAllSiblings` is inside the `Receive` of a sibling that may be handling a message (`actor/system.go:695`), and so is the
  timer of a delayed restart (`actor/system.go:616`). `OverlapIsBounded` says how many may be there.
* `MessagesHandled` is "成功处理的消息数" (handled successfully, `actor/stats.go:17`, and 80), but an agent or a team counts a message
  whose `Receive` panicked (`agent/agent.go:76-78`, `team/actor.go:71-73`). The deferred function of `StatsActor` is there to record even a
  panic (`actor/stats.go:152`), but a panic with a value that is no error is in no counter (156-158).
* A supervisor whose `Factory` panicked and which is resumed, or whose Started is lost at a full mailbox, never starts the
  rest of its children (`actor/system.go:627-629`, 642); `SpecsAreStarted` has these as its exceptions.
* A clone that `AddMember` refuses is dropped without being closed (`team/impl.go:315-323`).
* A Delegate whose Run is lost is never answered (`agent/agent.go:343`); `DelegationIsAnswered` speaks of Runs that arrive.
* A Request that is forwarded can be answered only by the actor it was made to, and times out otherwise (`actor/types.go:146`).
* `TrySend` is said to return false for a closed channel (`actor/helpers.go:168`); a send on one panics.
* The goroutine of `MergeContexts` lives until one of its contexts ends, whoever has stopped waiting.

`shared_channel` and `agents` check the same property: with a channel of its own for every
subscription (`OwnChannels`) it holds. It says that only an agent that has been stopped can bring the
process down; that a *stopped* agent can, when its goroutine sends to the copy of its
subscribers after `handleStop` has closed them, is what the code does in both.

**Deadlock checking** is off: callers may stop calling and actors may wait for ever.
**Symmetry** is used only in runs without liveness, over cells or ids that nothing
distinguishes.

**Fairness.** `ActorSystem!Fairness`: every goroutine of the runtime that can run does, and a
`Receive` returns; no fairness for user code. Go's scheduler is fair to runnable goroutines,
and a `select` on a cancelled context is taken when nothing else is ready. `Supervision`: weak
fairness of each loop and strong fairness of the step that takes the mutex (a `sync.Mutex` goes
into starvation mode after a millisecond and hands over in order). `AgentActor`: weak fairness of
loops and goroutines, none of clients: nobody has to read. `RequestReply`: timers fire, selects return and a
`Receive` ends; none of the dispatcher, which Shutdown ends, nor of anybody's reply, so that the
calls return without them, and none of the end of an `AskWithContext`'s context, which its caller may never cancel. `SupervisorActor`: weak
fairness of loops, clean-ups, timers and the dispatcher, none of clients, panics or escalations. `Validation`: weak fairness of the loop.
The type `SPECIFICATION Spec`, without fairness, is used where only safety is checked.

## 4. The proofs

For every value of the constants that satisfies the named assumptions:

* `ActorSystemProofs` — `TypeCorrect`, `RegistryCorrect`, `ActorCountCorrect`, from `SystemAssumption` (and
  `FiniteAssumption` for the count). The inductive invariant is `RegistryInv`, the
  conjunction of `TypeOK`, `BornCells` and `RegistryIsLive`. The types alone are not inductive: a
  send by name needs the name of the cell, which is a name only once the cell is born, so every
  reference in the dispatcher, in a Stop and in a poll must be to a born cell (`BornCells`).
  `RegistryIsLive` is kept by the two actions that touch the registry: `Spawn` takes a free name,
  and `Unregister` deletes the entry of its own cell because the invariant says that the entry is its
  own. `ActorCount` follows action by action: `LoopAlive`, `CleanupAlive` and `OthersAlive` say that
  the set of live cells changes in Spawn and Release only.
  `GracefulCorrect` follows from `GracefulInv`: a client that polls knows the name of its cell (`Knows`), and when the name is
  another's, the cell has left its loop, because `RegistryIsLive` gives a name to one live cell; `Stopped`
  in `cell.state` is written only behind the loop (`StoppedHasLeft`). `ChildrenCorrect` needs of `OwnInv` that the spawner of a
  cell is a born cell with the name of its parent; then `Spawn` and `Unlink`, which work by name, change
  the children that belong to the holder of that name. `OrderCorrect`: `OrderInv` bounds every id in use by the last one handed out.
* `RequestReplyProofs` — `RequestTypeCorrect` and `Implements`, from `CallAssumption`. `CallInv` ties each
  envelope with a reply channel to the call of its number: made by Request for the actor that was asked,
  or by Ask (`EnvelopeOK`); numbers are not used twice (`CallOK`), and what an actor handles was addressed to
  it (`Handles`). So whoever fills the channel of a call may answer it, and each step is a step of `RemoteCall` or none.
* `SupervisorActorProofs` — `SupervisorTypeCorrect` and `OrphansCorrect`, from `SupervisorAssumption`. `OwnerInv` never mentions
  `cell.children`: a supervisor's own map holds every child it owns until Stopping has sent each its
  pill (`Kept`), since a Terminated that takes a name out of the map comes from an escalated child only (`TerminatedIsTrue`);
  the supervisor's own Terminated goes to its parent, whose name is another's.
* `AgentActorProofs` — `ChannelsCorrect`, and from it `StopCorrect`, `ListenersCorrect` and
  `CrashesCorrect`, from `AgentAssumption` and `OwnChannels`: without the latter the run `shared_channel`
  violates the third. The inductive invariant `ChannelInv` follows a channel through its life: it is in at most one
  message on its way (`OffersInv`), then with one subscription of one agent and open (`SubscribersInv`), and when
  it is closed, its agent has been stopped (`ClosedInv`); a broadcast under way goes to channels
  that were its agent's (`RunsInv`), which is why a crash names a stopped agent (`CrashInv`). `handleStop` gets through
  all channels since none of them is closed (`CanAlwaysClose`). `GoodInv` adds that the Run of every message that waits has an agent.
  `AgentTypeCorrect` and `AnswersCorrect` do not need `OwnChannels`. Their `AnswersInv`: a Run that has been sent is in one message at
  most (`TicketsInv`), has an agent from then on (`Owned`), and its final event is in one place on the way from
  the stream to the waiter (`Told`, `Faithful`) until it is the answer, unless the Run was cut short.
* `TeamProofs` — `TeamTypeCorrect`, `LeaderCorrect`, `LeaderStays`, `HierarchyCorrect`, `ClosedCorrect`. On the
  hierarchy: a new member could only close a cycle through itself, that is, in a set of members closed
  under parents that holds it and its parent. `Accepts` gives a lineage of the parent without the
  new member; by `LineageLeaves` (from the well-ordering of the naturals) a lineage leaves any set
  without the empty id at its first member in the set, a contradiction. Members that leave
  take no edge of the others with them. On closing: `ClosedOnce` counts the callers that are about
  to close a member (hence `FiniteAssumption`); what keeps it is that a caller of CloseMember holds one member, and that
  the one Shutdown that holds members to close holds the lock too (`ClosingInv`).
  `DepthCorrect` says of every step that makes the hierarchy too deep that a member came back: a lineage has
  nobody twice (`LineageIsSimple`) and an id has one lineage (`NoLongerLineage`), so a newcomer without children is the end
  of every lineage it is in, and AddMember has measured that one (`JoinDepth`).
* `TeamProofs`, last part, on `Validation` — `WalksCorrect`, from `HierarchyAssumption` alone: the loops
  come to the right results on every finite map. `DecisionInv`: AddMember's two loops walk up from the parent, and a
  walk goes along the lineage if there is one (`WalkOnLineage`), so an id met twice, or absent, or new refutes
  it, and the end of the second loop measures it. `AscentInv`: what is found goes up to the current id's child. `DescentInv`: who is
  listed or waits in a frame is in one place, and a member is one of them exactly if its parent has been listed; acyclicity
  keeps the id asked for from being one (`NotReachedAgain`), and a descent has nobody twice, hence the bound of `Below`.
* `TeamActorProofs` — `TeamTypeCorrect`, `TeamLed`, `StoppedIsEmpty`, `Implements`, from the assumptions of `TeamService` and `TeamActor`.
  `TypeInv` types mailbox, waiting calls and answers, with the members finitely many, for a summary counts them.
  `TeamInv` has the types, the leader and the empty team. The refinement needs `TicketInv`: a number
  is in at most one message and with one waiting call; a message whose number a call waits for is the request of
  that call, which has no answer yet. Hence a reply goes to the call it is for or to nobody. With it each step of `TeamActor` is shown to be a step of
  `TeamService` or none, for any set of ids and callers.
* `StatsProofs` — `AllAccounted`, from `AccountInv`: what has been received has ended, in one of the ways of `outcome`, or is in the hands of a
  goroutine, and before the first Reset everything in somebody's hands has been counted (`NothingLost`). `Accounted` counts
  goroutines, which is why they are finitely many. `SnapshotsCorrect`, from `SnapshotInv`: under the lock the latencies are
  consistent at any moment (`Fair`: minimum and maximum times the number handled bound the total, and the average is
  its quotient), so what is read there is too (`WhenLocked`); without it each counter
  loaded lies between its values when the read began and now (`WhenAtomic`, as long as nothing is reset).
* `SupervisionProofs` — from `SupervisionAssumption`: limits, window and delays are natural numbers, and nothing is said of which delay is
  the larger. `OverlapCorrect`, from `OverlapInv`: who restarts siblings holds the strategy's lock, and every timer set
  since the last Reset is in the count, which never passes `MaxRestarts`.
  `SupervisionTypeCorrect` needs that the window is finite. `BudgetCorrect`: the window holds every restart that still
  counts (`Remembered`), with a number of its own, so the restarts within `WithinDuration` inject into it. `DelayCorrect`: the delay
  and the count change together, and `MaxDelay` bounds the delay from the first doubling on only. What a doubling means is a recursive function, `Doubled`, whose equations are
  proved from the well-ordering of the naturals (`DoubledValues`): its finite beginnings exist and agree.

Proofs use no induction theorem with an operator as parameter: a minimal counterexample in a set of naturals takes its place
(`LeastOfNaturals`), in `TeamProofs` and `SupervisionProofs`.

Every invariant, every action property and both refinements of the runs that pass are stated by a theorem. Only
model-checked is liveness: `PillKills`, `ShutdownCompletes`, `FailureIsHandled`, `DelegationIsAnswered`, `CancelledRunEnds`,
`CallsReturn`, `LoopsResume`, `SpecsAreStarted`, `Terminates`. It rests on fairness and so on ENABLED, which the prover does
not handle; the loops of `Validation` may go on for any number of steps, and TLC shows on four ids that they do not.

## 5. What is not modelled

* `BaseTeam`'s tasks, progress and reports under the lock: the same functions that
  `TeamService!Outcomes` states for the actor, each in one lock section.
* The pointer that GetTask hands out, and the children map that `GetChild` reads without a lock: data races on one
  field each, which say nothing to a model of steps; they are among the hazards.
* `BroadcastWithFilter`'s callback under the read lock: what it does is the caller's code.
* `agent/factory.go`, `agent/helpers.go`, Chat, GetStatus, GetMessages: one send or one TrySend each; Handoff changes nothing.
* Deciders and `CompositeStrategy`: pure choices; a directive is chosen freely where one matters.
* `examples/support-team`: a program that uses the packages.
* The external agent library, beyond the stream described above.

## 6. Plan

Done, in this order: the runtime first, since all else stands on it; the hierarchy and the team,
where the data invariants are; supervision; the agent's goroutines; the team behind an actor and
what it promises; calls between actors and what they promise; the supervisor actor; statistics.

Proofs: none is left of a safety property that a run checks. What may follow are the safety halves of the liveness properties: that
whoever waits is waited for by a step that is enabled (no goroutine waits for the strategy's mutex while nobody
holds it; a Delegate's waiter that is there has an agent's goroutine or a cancelled context before it), as invariants of their own.

Next, modules: the task board of `BaseTeam`, with both ways to set a status and an assignee, as a second
implementation of `TeamService`.
