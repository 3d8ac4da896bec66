------------------------------ MODULE AgentActor ------------------------------
(***************************************************************************)
(* The adapter that makes an agent of the external agent library an actor  *)
(* (pkg/agent/agent.go).  An AgentActor handles one message at a time, but *)
(* every Run it accepts is served by a goroutine of its own, which outlives *)
(* the handler: it forwards the agent's events to the channel of the Run   *)
(* and to the channels of the subscribers, while the actor goes on to      *)
(* subscribe, unsubscribe and stop.  A Delegate adds a third goroutine,    *)
(* which waits for the Run it sent to another agent.                       *)
(*                                                                         *)
(* A send on a closed channel panics in the bare goroutine of the Run and  *)
(* ends the whole process; closing a channel twice panics in a handler,    *)
(* where processMessage recovers and the default strategy lets the actor   *)
(* go on.                                                                  *)
(*                                                                         *)
(* The actor system is abstracted to what the agents see of it: Tell       *)
(* appends to a bounded mailbox, or loses the message.  The agent library  *)
(* is abstracted to a stream of texts that ends in "done" or "error", or   *)
(* anywhere once its context is cancelled.                                 *)
(***************************************************************************)
EXTENDS Naturals, Sequences, Functions

CONSTANTS Agents,          \* the agent actors
          NoAgent,
          SubscriberIds,   \* Subscriber.ID
          Channels,        \* the channels that subscribers listen to
          NoChannel,
          Runs,            \* the Run and Delegate messages of an execution
          MailboxSize,     \* capacity of an actor's mailbox
          RunBuffer,       \* capacity of a Run's EventChan
          MaxTexts,        \* bound: text events of one Run
          MaxSends,        \* bound: messages of the clients
          OwnChannels      \* does every Subscribe bring a new channel?

ASSUME AgentAssumption ==
    /\ NoAgent \notin Agents
    /\ Agents \cap {"new", "sent", "dropped"} = {}
    /\ NoChannel \notin Channels
    /\ MailboxSize \in Nat \ {0} /\ RunBuffer \in Nat \ {0}
    /\ MaxTexts \in Nat /\ MaxSends \in Nat
    /\ OwnChannels \in BOOLEAN

VARIABLES running,       \* System.isRunning
          loop,          \* per agent: "on", or why its actorLoop returned
          mailbox,       \* per agent: the messages to handle
          cancelled,     \* per agent: a.ctx is done
          agentClosed,   \* per agent: a.agent.Close has been called
          subscribers,   \* per agent: the channel of each subscriber
          closed,        \* the channels that have been closed
          listener,      \* history, per channel: what became of its Subscribe
          run,           \* per Run: its message, its goroutine, its waiter
          crashed,       \* the agent whose goroutine ended the process
          sends          \* messages sent by the clients so far

vars == <<running, loop, mailbox, cancelled, agentClosed, subscribers, closed,
          listener, run, crashed, sends>>

-----------------------------------------------------------------------------
Events == {"text", "done", "error"}

Message == [op : {"run"}, run : Runs]
      \cup [op : {"delegate"}, run : Runs, target : Agents]
      \cup [op : {"subscribe"}, id : SubscriberIds, chan : Channels]
      \cup [op : {"unsubscribe"}, id : SubscriberIds]
      \cup [op : {"stop", "pill"}]

NoAnswer == {"pending"}

\* The goroutine of a Run, and the goroutine that waits for a delegated one.
Run == [agent     : Agents \cup {NoAgent},  \* who serves it
        delegated : BOOLEAN,                \* sent by handleDelegate
        ctx       : BOOLEAN,                \* is its own Context done?
        pc        : {"new", "sent", "lost", "waiting", "sending", "listing",
                     "broadcasting", "ended"},
        event     : Events,                 \* the event in hand
        texts     : 0 .. MaxTexts,          \* the texts so far
        over      : BOOLEAN,                \* the agent closed its stream
        last      : Events,                 \* the stream's final event
        chan      : Seq(Events),            \* EventChan
        todo      : SUBSET Channels,        \* subscribers still to notify
        heard     : SUBSET Events,          \* result and lastError
        answer    : (SUBSET Events) \cup {NoAnswer, {"not found"}}]

NewRun == [agent |-> NoAgent, delegated |-> FALSE, ctx |-> FALSE, pc |-> "new",
           event |-> "text", texts |-> 0, over |-> FALSE, last |-> "text",
           chan |-> <<>>, todo |-> {}, heard |-> {}, answer |-> NoAnswer]

Init ==
    /\ running = TRUE
    /\ loop = [a \in Agents |-> "on"]
    /\ mailbox = [a \in Agents |-> <<>>]
    /\ cancelled = [a \in Agents |-> FALSE]
    /\ agentClosed = [a \in Agents |-> FALSE]
    /\ subscribers = [a \in Agents |-> [i \in SubscriberIds |-> NoChannel]]
    /\ closed = {}
    /\ listener = [c \in Channels |-> "new"]
    /\ run = [r \in Runs |-> NewRun]
    /\ crashed = NoAgent
    /\ sends = 0

\* Can a message to a reach its mailbox?
Reaches(a) == running /\ loop[a] = "on" /\ Len(mailbox[a]) < MailboxSize

\* Mutant: The Run listens to its own context only.
ExecDoneOfMessage(r) == run[r].ctx

\* MergeContexts: the Run stops with its agent or with its own context.
ExecDone(r) == run[r].ctx \/ cancelled[run[r].agent]

-----------------------------------------------------------------------------
(* The clients: any goroutine that holds a PID.                             *)

\* Mutant: A full mailbox takes the message all the same.
TellUnbounded(a, m) ==
    /\ sends < MaxSends /\ sends' = sends + 1
    /\ mailbox' = IF running /\ loop[a] = "on"
                  THEN [mailbox EXCEPT ![a] = Append(@, m)] ELSE mailbox
    /\ UNCHANGED <<running, loop, cancelled, agentClosed, subscribers, closed,
                   crashed>>

Tell(a, m) ==
    /\ sends < MaxSends /\ sends' = sends + 1
    /\ mailbox' = IF Reaches(a) THEN [mailbox EXCEPT ![a] = Append(@, m)]
                                ELSE mailbox
    /\ UNCHANGED <<running, loop, cancelled, agentClosed, subscribers, closed,
                   crashed>>

SendRun(a, r) ==
    /\ run[r].pc = "new"
    /\ run' = [run EXCEPT ![r].agent = a,
                          ![r].pc = IF Reaches(a) THEN "sent" ELSE "lost"]
    /\ Tell(a, [op |-> "run", run |-> r]) /\ UNCHANGED listener

\* A delegation that reaches no handler has no waiter either.
SendDelegate(a, b, r) ==
    /\ run[r].pc = "new"
    /\ run' = [run EXCEPT ![r].agent = b, ![r].delegated = TRUE,
                          ![r].pc = IF Reaches(a) THEN "sent" ELSE "lost"]
    /\ Tell(a, [op |-> "delegate", run |-> r, target |-> b]) /\ UNCHANGED listener

SendSubscribe(a, i, c) ==
    /\ OwnChannels => listener[c] = "new"
    /\ listener' = [listener EXCEPT ![c] = IF @ = "new" THEN "sent" ELSE @]
    /\ Tell(a, [op |-> "subscribe", id |-> i, chan |-> c]) /\ UNCHANGED run

SendUnsubscribe(a, i) ==
    Tell(a, [op |-> "unsubscribe", id |-> i]) /\ UNCHANGED <<run, listener>>

SendStop(a) == Tell(a, [op |-> "stop"]) /\ UNCHANGED <<run, listener>>

\* System.Stop, by whoever holds the PID.
SendPill(a) == Tell(a, [op |-> "pill"]) /\ UNCHANGED <<run, listener>>

CancelRun(r) ==
    /\ run[r].pc # "new" /\ ~run[r].ctx
    /\ run' = [run EXCEPT ![r].ctx = TRUE]
    /\ UNCHANGED <<running, loop, mailbox, cancelled, agentClosed, subscribers,
                   closed, listener, crashed, sends>>

\* The client of a Run reads its EventChan, or does not.
ReadEvent(r) ==
    /\ ~run[r].delegated /\ run[r].chan # <<>>
    /\ run' = [run EXCEPT ![r].chan = Tail(@)]
    /\ UNCHANGED <<running, loop, mailbox, cancelled, agentClosed, subscribers,
                   closed, listener, crashed, sends>>

\* ShutdownWithTimeout: nothing is delivered any more and every loop is told
\* to return.
Shutdown ==
    /\ running /\ running' = FALSE
    /\ UNCHANGED <<loop, mailbox, cancelled, agentClosed, subscribers, closed,
                   listener, run, crashed, sends>>

-----------------------------------------------------------------------------
(* The actor: Receive, one message at a time.                               *)

Handles(a, op) ==
    /\ loop[a] = "on" /\ mailbox[a] # <<>> /\ Head(mailbox[a]).op = op

HandleRun(a) ==
    /\ Handles(a, "run")
    /\ mailbox' = [mailbox EXCEPT ![a] = Tail(@)]
    /\ run' = [run EXCEPT ![Head(mailbox[a]).run].pc = "waiting"]
    /\ UNCHANGED <<running, loop, cancelled, agentClosed, subscribers, closed,
                   listener, crashed, sends>>

\* The Run goes to the target with a fresh channel.  Should it be lost on the
\* way, at a full mailbox or because the target's loop has ended and its name
\* is still registered, nobody closes that channel and the waiter waits for ever.
HandleDelegate(a) ==
    /\ Handles(a, "delegate")
    /\ LET r == Head(mailbox[a]).run
           b == Head(mailbox[a]).target
           rest == [mailbox EXCEPT ![a] = Tail(@)]
       IN  \/ /\ loop[b] # "on"
              /\ mailbox' = rest
              /\ run' = [run EXCEPT ![r].answer = {"not found"}, ![r].pc = "lost"]
           \/ /\ mailbox' = rest
              /\ run' = [run EXCEPT ![r].pc = "lost"]
           \/ /\ loop[b] = "on" /\ running /\ Len(rest[b]) < MailboxSize
              /\ mailbox' = [rest EXCEPT ![b] = Append(@, [op |-> "run", run |-> r])]
              /\ UNCHANGED run
    /\ UNCHANGED <<running, loop, cancelled, agentClosed, subscribers, closed,
                   listener, crashed, sends>>

\* A second Subscribe with the same ID replaces the first; neither it nor
\* Unsubscribe closes the channel that is dropped.
Drop(a, i) ==
    [c \in Channels |-> IF c = subscribers[a][i] THEN "dropped" ELSE listener[c]]

HandleSubscribe(a) ==
    /\ Handles(a, "subscribe")
    /\ mailbox' = [mailbox EXCEPT ![a] = Tail(@)]
    /\ LET m == Head(mailbox[a])
       IN  /\ subscribers' = [subscribers EXCEPT ![a][m.id] = m.chan]
           /\ listener' = [Drop(a, m.id) EXCEPT ![m.chan] = a]
    /\ UNCHANGED <<running, loop, cancelled, agentClosed, closed, run, crashed,
                   sends>>

\* Mutant: Unsubscribe closes the channel it drops.
HandleUnsubscribeClosing(a) ==
    /\ Handles(a, "unsubscribe")
    /\ mailbox' = [mailbox EXCEPT ![a] = Tail(@)]
    /\ LET i == Head(mailbox[a]).id
       IN  /\ subscribers' = [subscribers EXCEPT ![a][i] = NoChannel]
           /\ listener' = Drop(a, i)
           /\ closed' = closed \cup ({subscribers[a][i]} \ {NoChannel})
    /\ UNCHANGED <<running, loop, cancelled, agentClosed, run, crashed, sends>>

HandleUnsubscribe(a) ==
    /\ Handles(a, "unsubscribe")
    /\ mailbox' = [mailbox EXCEPT ![a] = Tail(@)]
    /\ LET i == Head(mailbox[a]).id
       IN  /\ subscribers' = [subscribers EXCEPT ![a][i] = NoChannel]
           /\ listener' = Drop(a, i)
    /\ UNCHANGED <<running, loop, cancelled, agentClosed, closed, run, crashed,
                   sends>>

Subscribed(a) == {i \in SubscriberIds : subscribers[a][i] # NoChannel}

\* handleStop closes the channels in the order of a map: done are the
\* subscribers it gets to before the end, or before the first channel that is
\* closed already, which panics and leaves the subscribers as they are.
CanClose(a, done) ==
    \A i \in done :
        /\ subscribers[a][i] \notin closed
        /\ \A j \in done : subscribers[a][i] = subscribers[a][j] => i = j

\* Mutant: handleStop forgets to reset the map.
HandleStopUnreset(a, done) ==
    /\ done = Subscribed(a) /\ CanClose(a, done)
    /\ cancelled' = [cancelled EXCEPT ![a] = TRUE]
    /\ closed' = closed \cup {subscribers[a][i] : i \in done}
    /\ agentClosed' = [agentClosed EXCEPT ![a] = TRUE]
    /\ UNCHANGED subscribers

\* Mutant: handleStop returns at once the second time.
HandleStopOnce(a, done) ==
    /\ done = Subscribed(a) /\ CanClose(a, done)
    /\ cancelled' = [cancelled EXCEPT ![a] = TRUE]
    /\ agentClosed' = [agentClosed EXCEPT ![a] = TRUE]
    /\ IF cancelled[a]
       THEN UNCHANGED <<closed, subscribers>>
       ELSE /\ closed' = closed \cup {subscribers[a][i] : i \in done}
            /\ subscribers' = [subscribers EXCEPT ![a] =
                                   [i \in SubscriberIds |-> NoChannel]]

HandleStop(a, done) ==
    /\ done \subseteq Subscribed(a) /\ CanClose(a, done)
    /\ \/ done = Subscribed(a)
       \/ \E i \in Subscribed(a) \ done : ~CanClose(a, done \cup {i})
    /\ cancelled' = [cancelled EXCEPT ![a] = TRUE]
    /\ closed' = closed \cup {subscribers[a][i] : i \in done}
    /\ IF done = Subscribed(a)
       THEN /\ subscribers' = [subscribers EXCEPT ![a] =
                                   [i \in SubscriberIds |-> NoChannel]]
            /\ agentClosed' = [agentClosed EXCEPT ![a] = TRUE]
       ELSE UNCHANGED <<subscribers, agentClosed>>

\* agent.Stop: handleStop, then StopSelf, which sends the pill unless
\* handleStop panics; the pill may be lost.
HandleStopMessage(a) ==
    /\ Handles(a, "stop")
    /\ \E done \in SUBSET SubscriberIds :
           /\ HandleStop(a, done)
           /\ \/ mailbox' = [mailbox EXCEPT ![a] = Tail(@)]
              \/ /\ done = Subscribed(a) /\ running
                 /\ mailbox' = [mailbox EXCEPT ![a] = Append(Tail(@), [op |-> "pill"])]
    /\ UNCHANGED <<running, loop, listener, run, crashed, sends>>

\* A PoisonPill: Receive(Stopping), and the loop returns whether or not
\* handleStop panics.
HandlePill(a) ==
    /\ Handles(a, "pill")
    /\ \E done \in SUBSET SubscriberIds :
           /\ HandleStop(a, done)
           /\ loop' = [loop EXCEPT ![a] = IF done = Subscribed(a)
                                          THEN "stopped" ELSE "panicked"]
    /\ mailbox' = [mailbox EXCEPT ![a] = <<>>]
    /\ UNCHANGED <<running, listener, run, crashed, sends>>

\* The loop sees its context cancelled: no Stopping, so no handleStop.
LoopCancelled(a) ==
    /\ ~running /\ loop[a] = "on"
    /\ loop' = [loop EXCEPT ![a] = "cut"]
    /\ mailbox' = [mailbox EXCEPT ![a] = <<>>]
    /\ UNCHANGED <<running, cancelled, agentClosed, subscribers, closed, listener,
                   run, crashed, sends>>

-----------------------------------------------------------------------------
(* The goroutine of a Run.                                                  *)

RunUnchanged == UNCHANGED <<running, loop, mailbox, cancelled, agentClosed,
                            subscribers, closed, listener, sends>>

\* The agent's next event.
RunEvent(r, e) ==
    /\ run[r].pc = "waiting" /\ ~run[r].over
    /\ e = "text" => run[r].texts < MaxTexts
    /\ run' = [run EXCEPT ![r].event = e, ![r].pc = "sending",
                          ![r].texts = IF e = "text" THEN @ + 1 ELSE @,
                          ![r].over = e # "text",
                          ![r].last = e]
    /\ RunUnchanged /\ UNCHANGED crashed

\* The agent has closed its stream: the goroutine returns and closes EventChan.
RunOver(r) ==
    /\ run[r].pc = "waiting" /\ (run[r].over \/ ExecDone(r))
    /\ run' = [run EXCEPT ![r].pc = "ended"]
    /\ RunUnchanged /\ UNCHANGED crashed

\* Mutant: The goroutine drops the event its client has no room for.
RunForwardOrDrop(r) ==
    /\ run[r].pc = "sending"
    /\ run' = [run EXCEPT ![r].chan = IF Len(@) < RunBuffer
                                      THEN Append(@, run[r].event) ELSE @,
                          ![r].pc = "listing"]
    /\ RunUnchanged /\ UNCHANGED crashed

RunForward(r) ==
    /\ run[r].pc = "sending" /\ Len(run[r].chan) < RunBuffer
    /\ run' = [run EXCEPT ![r].chan = Append(@, run[r].event), ![r].pc = "listing"]
    /\ RunUnchanged /\ UNCHANGED crashed

\* Mutant: The early return leaves the channel open.
RunGiveUpOpen(r) ==
    /\ run[r].pc = "sending" /\ ExecDone(r)
    /\ run' = [run EXCEPT ![r].pc = "lost"]
    /\ RunUnchanged /\ UNCHANGED crashed

\* The other branch of the select: return, and close EventChan.
RunGiveUp(r) ==
    /\ run[r].pc = "sending" /\ ExecDone(r)
    /\ run' = [run EXCEPT ![r].pc = "ended"]
    /\ RunUnchanged /\ UNCHANGED crashed

\* broadcastEvent copies the subscribers under the lock ...
RunList(r) ==
    /\ run[r].pc = "listing"
    /\ run' = [run EXCEPT ![r].todo = Range(subscribers[run[r].agent]) \ {NoChannel},
                          ![r].pc = "broadcasting"]
    /\ RunUnchanged /\ UNCHANGED crashed

\* ... and sends to the copy without it.  A full channel and one whose filter
\* leaves the event out are passed over.
RunBroadcast(r, c) ==
    /\ run[r].pc = "broadcasting" /\ c \in run[r].todo
    /\ run' = [run EXCEPT ![r].todo = @ \ {c}]
    /\ \/ c \in closed /\ crashed' = run[r].agent
       \/ UNCHANGED crashed
    /\ RunUnchanged

RunBroadcastDone(r) ==
    /\ run[r].pc = "broadcasting" /\ run[r].todo = {}
    /\ run' = [run EXCEPT ![r].pc = "waiting"]
    /\ RunUnchanged /\ UNCHANGED crashed

-----------------------------------------------------------------------------
(* The goroutine that waits for a delegated Run.                            *)

WaiterHears(r) ==
    /\ run[r].delegated /\ run[r].chan # <<>>
    /\ run' = [run EXCEPT ![r].chan = Tail(@),
                          ![r].heard = @ \cup ({Head(run[r].chan)} \ {"text"})]
    /\ RunUnchanged /\ UNCHANGED crashed

WaiterAnswers(r) ==
    /\ run[r].delegated /\ run[r].chan = <<>> /\ run[r].pc = "ended"
    /\ run[r].answer = NoAnswer
    /\ run' = [run EXCEPT ![r].answer = run[r].heard]
    /\ RunUnchanged /\ UNCHANGED crashed

-----------------------------------------------------------------------------
Client ==
    \/ \E a \in Agents :
           \/ \E r \in Runs : SendRun(a, r) \/ \E b \in Agents : SendDelegate(a, b, r)
           \/ \E i \in SubscriberIds :
                  SendUnsubscribe(a, i) \/ \E c \in Channels : SendSubscribe(a, i, c)
           \/ SendStop(a) \/ SendPill(a)
    \/ \E r \in Runs : CancelRun(r) \/ ReadEvent(r)
    \/ Shutdown

Receive(a) ==
    \/ HandleRun(a) \/ HandleDelegate(a)
    \/ HandleSubscribe(a) \/ HandleUnsubscribe(a)
    \/ HandleStopMessage(a) \/ HandlePill(a) \/ LoopCancelled(a)

RunGoroutine(r) ==
    \/ \E e \in Events : RunEvent(r, e)
    \/ RunOver(r) \/ RunForward(r) \/ RunGiveUp(r)
    \/ RunList(r) \/ (\E c \in Channels : RunBroadcast(r, c)) \/ RunBroadcastDone(r)

Waiter(r) == WaiterHears(r) \/ WaiterAnswers(r)

Alive == crashed = NoAgent

Next == /\ Alive
        /\ \/ Client
           \/ \E a \in Agents : Receive(a)
           \/ \E r \in Runs : RunGoroutine(r) \/ Waiter(r)

Spec == Init /\ [][Next]_vars

\* Every goroutine is scheduled for as long as the process lives; no client
\* has to send, to read or to cancel anything.
FairSpec ==
    /\ Spec
    /\ \A a \in Agents : WF_vars(Alive /\ Receive(a))
    /\ \A r \in Runs : WF_vars(Alive /\ RunGoroutine(r)) /\ WF_vars(Alive /\ Waiter(r))

-----------------------------------------------------------------------------
(* Properties                                                               *)

\* The two contexts a Run hangs on, each by itself.
CutShort(r) == run[r].ctx \/ cancelled[run[r].agent]

AgentTypeOK ==
    /\ running \in BOOLEAN
    /\ loop \in [Agents -> {"on", "stopped", "panicked", "cut"}]
    /\ mailbox \in [Agents -> Seq(Message)]
    /\ \A a \in Agents : Len(mailbox[a]) <= MailboxSize
    /\ cancelled \in [Agents -> BOOLEAN]
    /\ agentClosed \in [Agents -> BOOLEAN]
    /\ subscribers \in [Agents -> [SubscriberIds -> Channels \cup {NoChannel}]]
    /\ closed \subseteq Channels
    /\ listener \in [Channels -> Agents \cup {"new", "sent", "dropped"}]
    /\ run \in [Runs -> Run]
    /\ \A r \in Runs : Len(run[r].chan) <= RunBuffer
    /\ crashed \in Agents \cup {NoAgent}
    /\ sends \in 0 .. MaxSends

\* handleStop runs twice for an agent that gets Stop: once for the message and
\* once for the Stopping its own pill brings, with other messages handled in
\* between.  It never closes a channel twice (agent.go:241-247).
StopNeverPanics ==
    \A a \in Agents : loop[a] = "on" => CanClose(a, Subscribed(a))

\* Every listener is told that there is nothing more to come: once an agent
\* has gone through Stopping, the channels it had accepted and not dropped are
\* closed, whenever they were subscribed (agent.go:233-252, 269-282).
ListenersReleased ==
    \A c \in Channels : \A a \in Agents :
        listener[c] = a /\ loop[a] = "stopped" => c \in closed

\* Only an agent that has been stopped can bring the process down with a send
\* on a closed channel: closing a channel concerns its own agent and nobody
\* else's (agent.go:243-245, 300-302; README.md:105).
OnlyStoppedAgentsCrash == crashed # NoAgent => cancelled[crashed]

\* What a Delegate answers is what the Run came to: the result or the error
\* its stream ended with, both or neither only if the Run was cut short
\* (agent.go:349-369).
AnswerIsTheOutcome ==
    \A r \in Runs : run[r].answer \in SUBSET Events =>
        run[r].answer = {run[r].last} \/ CutShort(r)

\* A Delegate whose Run is taken up is answered, whatever becomes of the
\* target meanwhile (agent.go:160-188, 349-370).
DelegationIsAnswered ==
    \A r \in Runs : (run[r].delegated /\ run[r].pc = "waiting")
                        ~> (run[r].answer # NoAnswer \/ ~Alive)

\* A Run that is cancelled, by its own context or by the stop of its agent,
\* ends and closes its channel even if its client has stopped reading
\* (agent.go:158, 173-177).
CancelledRunEnds ==
    \A r \in Runs : (run[r].pc = "sending" /\ CutShort(r))
                        ~> (run[r].pc = "ended" \/ ~Alive)

=============================================================================
