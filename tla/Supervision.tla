---------------------------- MODULE Supervision ----------------------------
(***************************************************************************)
(* What becomes of an actor whose Receive panics: handleFailure and        *)
(* restartAllSiblings of pkg/actor/system.go with the strategies of        *)
(* pkg/actor/supervisor.go.  ActorSystem takes the strategy's answer as    *)
(* any directive; here it is computed, and a restart may also come from a  *)
(* timer or from a sibling's goroutine.                                    *)
(*                                                                         *)
(* Cells are the children of one parent.  They share one strategy object,  *)
(* that of the parent or of their SupervisorActor, or have none.  The      *)
(* decider answers DirectiveRestart.  Spawning, routing, cell.state and    *)
(* cleanupActor are left to ActorSystem; a cell here stays registered      *)
(* until its loop ends.                                                    *)
(***************************************************************************)
EXTENDS Integers, Sequences, FiniteSets

CONSTANTS Cells, NoCell,
          Strategies,       \* the strategies an initial state chooses from
          MaxRestarts,      \* of the strategy; the default one has 3
          WithinDuration,   \* of the strategy; the default one has a minute
          InitialDelay, MaxDelay,  \* of ExponentialBackoffStrategy
          MaxPanics,        \* bound: the number of panics
          MaxTime           \* bound: the clock

ASSUME SupervisionAssumption ==
  /\ NoCell \notin Cells
  /\ Strategies \subseteq {"default", "oneForOne", "allForOne", "backoff"}
  /\ MaxRestarts \in Nat /\ WithinDuration \in Nat
  /\ InitialDelay \in Nat /\ MaxDelay \in Nat
  /\ MaxPanics \in Nat /\ MaxTime \in Nat

VARIABLES
  strategy,  \* which strategy supervises the cells
  pc,        \* where the goroutine of the cell's loop stands
  pill,      \* a PoisonPill waits in cell.mailbox, or has been taken
  leaving,   \* the cells whose loop has taken it: it ends behind this message
  window,    \* restartWindow: its restarts, each with a number of its own
  delay,     \* currentDelay
  count,     \* restartCount
  mu,        \* who holds the strategy's mu across steps
  todo,      \* per goroutine in restartAllSiblings: those to restart yet
  target,    \* and the one inside whose Receive(Restarting) it is
  timers,    \* the time.AfterFunc calls, in order
  now,       \* time.Now()
  granted,   \* history: when the strategy answered DirectiveRestart
  settled,   \* history: the timers set before the last Reset
  panics     \* the number of panics, for the bound MaxPanics

loopVars     == <<pc, pill, leaving>>
strategyVars == <<window, delay, count, granted, settled>>
siblingVars  == <<mu, todo, target>>
vars == <<strategy, pc, pill, leaving, window, delay, count, mu, todo, target,
          timers, now, granted, settled, panics>>

Points == {"select", "receive", "failed", "siblings", "restarting", "poisoned", "ended"}
Timers == [cell : Cells, due : Nat, step : {"pending", "running", "done"}]

SupervisionTypeOK ==
  /\ strategy \in Strategies
  /\ pc \in [Cells -> Points]
  /\ pill \in [Cells -> BOOLEAN] /\ leaving \subseteq Cells
  /\ window \subseteq [n : Nat, at : Nat] /\ Cardinality(window) <= MaxRestarts
  /\ delay \in Nat /\ (delay <= MaxDelay \/ delay = InitialDelay)
  /\ count \in 0..MaxRestarts
  /\ mu \in Cells \cup {NoCell}
  /\ todo \in [Cells -> SUBSET Cells]
  /\ target \in [Cells -> Cells \cup {NoCell}]
  /\ timers \in Seq(Timers)
  /\ now \in Nat
  /\ granted \in Seq(Nat) /\ settled \in Nat
  /\ panics \in Nat

Init ==
  /\ strategy \in Strategies
  /\ pc = [c \in Cells |-> "select"]
  /\ pill = [c \in Cells |-> FALSE] /\ leaving = {}
  /\ window = {}
  /\ delay = InitialDelay
  /\ count = 0
  /\ mu = NoCell
  /\ todo = [c \in Cells |-> {}]
  /\ target = [c \in Cells |-> NoCell]
  /\ timers = <<>>
  /\ now = 0
  /\ granted = <<>> /\ settled = 0
  /\ panics = 0

Goto(c, p) == pc' = [pc EXCEPT ![c] = p]

\* processMessage returns: the loop ends behind a pill, or goes on.
GoOn(c) == Goto(c, IF c \in leaving THEN "ended" ELSE "select")

-----------------------------------------------------------------------------
(* The loop of a cell *)

Take(c) ==
  /\ pc[c] = "select"
  /\ Goto(c, "receive")
  /\ UNCHANGED <<strategy, pill, leaving, strategyVars, siblingVars, timers, now, panics>>

TakePill(c) ==
  /\ pc[c] = "select" /\ pill[c]
  /\ Goto(c, "poisoned") /\ leaving' = leaving \cup {c}
  /\ UNCHANGED <<strategy, pill, strategyVars, siblingVars, timers, now, panics>>

\* Receive has returned, of a message, of Stopping or of Restarting.
Return(c) ==
  /\ pc[c] \in {"receive", "poisoned", "restarting"}
  /\ GoOn(c)
  /\ UNCHANGED <<strategy, pill, leaving, strategyVars, siblingVars, timers, now, panics>>

\* Some goroutine stops the cell, and the pill arrives.
Stop(c) ==
  /\ pc[c] # "ended" /\ ~pill[c]
  /\ pill' = [pill EXCEPT ![c] = TRUE]
  /\ UNCHANGED <<strategy, pc, leaving, strategyVars, siblingVars, timers, now, panics>>

\* In Receive of a message or of Stopping; one in Receive(Restarting) ends the
\* process.
Panic(c) ==
  /\ pc[c] \in {"receive", "poisoned"} /\ panics < MaxPanics
  /\ panics' = panics + 1
  /\ Goto(c, "failed")
  /\ UNCHANGED <<strategy, pill, leaving, strategyVars, siblingVars, timers, now>>

-----------------------------------------------------------------------------
(* HandleFailure and what applyDirective does with its answer *)

\* The strategy's critical section starts; it is one step unless it restarts
\* the siblings.
Fails(c, s) == pc[c] = "failed" /\ strategy = s /\ mu = NoCell

\* DirectiveStop: Stop(cell.pid), whose pill a full mailbox may lose.
GiveUp(c) ==
  /\ GoOn(c)
  /\ pill' = [pill EXCEPT ![c] = TRUE] \/ UNCHANGED pill
  /\ UNCHANGED granted

\* DirectiveRestart: Receive(Restarting) is called in the failed goroutine.
Restart(c) == Goto(c, "restarting") /\ UNCHANGED pill

\* A new OneForOneStrategy for every failure: its window is empty.
FailDefault(c) ==
  /\ Fails(c, "default")
  /\ \/ MaxRestarts = 0 /\ GiveUp(c)
     \/ MaxRestarts > 0 /\ Restart(c) /\ granted' = Append(granted, now)
  /\ UNCHANGED <<strategy, leaving, window, delay, count, settled, siblingVars, timers, now, panics>>

\* The restarts of the last WithinDuration.
Recent == {r \in window : r.at > now - WithinDuration}

ThisRestart == [n |-> Len(granted) + 1, at |-> now]

\* Mutant: the restart is not recorded when it is the last one allowed.
WithinBudgetUnrecorded ==
  /\ Cardinality(Recent) < MaxRestarts
  /\ window' = IF Cardinality(Recent) + 1 < MaxRestarts THEN Recent \cup {ThisRestart} ELSE Recent
  /\ granted' = Append(granted, now)

WithinBudget ==
  /\ Cardinality(Recent) < MaxRestarts
  /\ window' = Recent \cup {ThisRestart}
  /\ granted' = Append(granted, now)

OverBudget(c) == Cardinality(Recent) >= MaxRestarts /\ window' = Recent /\ GiveUp(c)

FailOneForOne(c) ==
  /\ Fails(c, "oneForOne")
  /\ \/ WithinBudget /\ Restart(c)
     \/ OverBudget(c)
  /\ UNCHANGED <<strategy, leaving, delay, count, settled, siblingVars, timers, now, panics>>

Siblings == {s \in Cells : pc[s] # "ended"}

\* Mutant: the strategy's lock is released before the siblings are restarted.
FailAllForOneUnlocked(c) ==
  /\ Fails(c, "allForOne")
  /\ \/ /\ WithinBudget
        /\ todo' = [todo EXCEPT ![c] = Siblings]
        /\ Goto(c, "siblings")
        /\ UNCHANGED pill
     \/ OverBudget(c) /\ UNCHANGED todo
  /\ UNCHANGED <<strategy, leaving, delay, count, settled, mu, target, timers, now, panics>>

\* All registered children of the parent, the failed one included, are
\* restarted under the lock.
FailAllForOne(c) ==
  /\ Fails(c, "allForOne")
  /\ \/ /\ WithinBudget
        /\ mu' = c /\ todo' = [todo EXCEPT ![c] = Siblings]
        /\ Goto(c, "siblings")
        /\ UNCHANGED pill
     \/ OverBudget(c) /\ UNCHANGED <<mu, todo>>
  /\ UNCHANGED <<strategy, leaving, delay, count, settled, target, timers, now, panics>>

\* Mutant: the delay doubles without a bound.
NextDelayUnbounded == 2 * delay

NextDelay == IF 2 * delay > MaxDelay THEN MaxDelay ELSE 2 * delay

\* Mutant: restarts are not counted.
FailBackoffUncounted(c) ==
  /\ Fails(c, "backoff")
  /\ timers' = Append(timers, [cell |-> c, due |-> now + delay, step |-> "pending"])
  /\ delay' = NextDelay
  /\ granted' = Append(granted, now)
  /\ GoOn(c)
  /\ UNCHANGED <<strategy, pill, leaving, count, window, settled, siblingVars, now, panics>>

\* time.AfterFunc: the loop goes on until the timer fires.
FailBackoff(c) ==
  /\ Fails(c, "backoff")
  /\ \/ count >= MaxRestarts /\ GiveUp(c) /\ UNCHANGED <<delay, count, timers>>
     \/ /\ count < MaxRestarts
        /\ timers' = Append(timers, [cell |-> c, due |-> now + delay, step |-> "pending"])
        /\ delay' = NextDelay
        /\ count' = count + 1
        /\ granted' = Append(granted, now)
        /\ GoOn(c)
        /\ UNCHANGED pill
  /\ UNCHANGED <<strategy, leaving, window, settled, siblingVars, now, panics>>

\* The user resets the backoff.
Reset ==
  /\ strategy = "backoff" /\ count > 0
  /\ delay' = InitialDelay /\ count' = 0
  /\ settled' = Len(timers)
  /\ UNCHANGED <<strategy, loopVars, window, granted, siblingVars, timers, now, panics>>

-----------------------------------------------------------------------------
(* Restarts by another goroutine *)

\* restartAllSiblings, in the goroutine of the cell c.
RestartSibling(c) ==
  /\ pc[c] = "siblings" /\ target[c] = NoCell
  /\ \E s \in todo[c] : /\ target' = [target EXCEPT ![c] = s]
                        /\ todo' = [todo EXCEPT ![c] = @ \ {s}]
  /\ UNCHANGED <<strategy, loopVars, strategyVars, mu, timers, now, panics>>

SiblingReturn(c) ==
  /\ target[c] # NoCell
  /\ target' = [target EXCEPT ![c] = NoCell]
  /\ UNCHANGED <<strategy, loopVars, strategyVars, mu, todo, timers, now, panics>>

\* Mutant: the lock is kept.
SiblingsDoneLocked(c) ==
  /\ pc[c] = "siblings" /\ target[c] = NoCell /\ todo[c] = {}
  /\ Restart(c)
  /\ UNCHANGED <<strategy, leaving, strategyVars, siblingVars, timers, now, panics>>

SiblingsDone(c) ==
  /\ pc[c] = "siblings" /\ target[c] = NoCell /\ todo[c] = {}
  /\ Restart(c)
  /\ mu' = NoCell
  /\ UNCHANGED <<strategy, leaving, strategyVars, todo, target, timers, now, panics>>

\* The goroutine of a timer runs applyDirective, whatever became of the cell.
TimerFire(k) ==
  /\ timers[k].step = "pending" /\ now >= timers[k].due
  /\ timers' = [timers EXCEPT ![k].step = "running"]
  /\ UNCHANGED <<strategy, loopVars, strategyVars, siblingVars, now, panics>>

TimerReturn(k) ==
  /\ timers[k].step = "running"
  /\ timers' = [timers EXCEPT ![k].step = "done"]
  /\ UNCHANGED <<strategy, loopVars, strategyVars, siblingVars, now, panics>>

Tick ==
  /\ now < MaxTime
  /\ now' = now + 1
  /\ UNCHANGED <<strategy, loopVars, strategyVars, siblingVars, timers, panics>>

-----------------------------------------------------------------------------

Fail(c) == FailDefault(c) \/ FailOneForOne(c) \/ FailAllForOne(c) \/ FailBackoff(c)

\* Steps a running goroutine takes by itself.
GoesOn(c) == Return(c) \/ RestartSibling(c) \/ SiblingReturn(c) \/ SiblingsDone(c)

Next ==
  \/ \E c \in Cells :
       Take(c) \/ TakePill(c) \/ Stop(c) \/ Panic(c) \/ Fail(c) \/ GoesOn(c)
  \/ \E k \in DOMAIN timers : TimerFire(k) \/ TimerReturn(k)
  \/ Reset \/ Tick

Spec == Init /\ [][Next]_vars

\* Every goroutine that can run does, and a sync.Mutex starves nobody.
FairSpec ==
  /\ Spec
  /\ \A c \in Cells : SF_vars(Fail(c)) /\ WF_vars(GoesOn(c))

-----------------------------------------------------------------------------

\* MaxRestarts restarts at most in any WithinDuration, over all cells that
\* share the strategy.
RestartBudget ==
  \A i \in DOMAIN granted :
    Cardinality({j \in 1..i : granted[j] > granted[i] - WithinDuration}) <= MaxRestarts

\* The budget of a strategy object that lasts (supervisor.go:84-113, 137-169).
SharedBudget == strategy \in {"oneForOne", "allForOne"} => RestartBudget

\* InitialDelay doubled n times.
Doubled[n \in Nat] == IF n = 0 THEN InitialDelay ELSE 2 * Doubled[n - 1]

\* The delay doubles with every counted restart, and a Reset takes both back:
\* the delay never runs ahead of the count.  MaxDelay bounds it from the first
\* doubling on; the first delay is InitialDelay, however large, for nothing
\* compares the two (supervisor.go:188-199, 216-222).
BackoffDelay ==
  strategy = "backoff" =>
    delay = (IF count > 0 /\ Doubled[count] > MaxDelay THEN MaxDelay ELSE Doubled[count])

\* The goroutines inside the Receive of a cell beside its own loop: those that
\* restart it in restartAllSiblings, one of which may be its own ...
Restarters(c) == {h \in Cells : target[h] = c}

\* ... and those of the timers set since the last Reset.
LateRestarts(c) ==
  {k \in DOMAIN timers : k > settled /\ timers[k].cell = c /\ timers[k].step = "running"}

\* "Messages are handled serially, one at a time" (types.go:6) is not so when
\* restarts come from other goroutines than the actor's own (system.go:616,
\* 695).  This is how far it goes: the strategy's lock lets one goroutine at a
\* time restart siblings, whichever actors fail, and no more delayed restarts
\* are under way in one actor than the strategy has counted since its Reset.
OverlapIsBounded ==
  \A c \in Cells :
    /\ Cardinality(Restarters(c)) <= 1
    /\ Cardinality(LateRestarts(c)) <= MaxRestarts

\* A failed actor goes back to its loop: HandleFailure returns although it
\* waits for the strategy's lock while another actor restarts all siblings.
FailureIsHandled == \A c \in Cells : pc[c] = "failed" ~> pc[c] \in {"select", "ended"}

============================================================================
