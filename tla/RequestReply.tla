----------------------------- MODULE RequestReply -----------------------------
(***************************************************************************)
(* Calls between goroutines and actors: System.Request with Context.Reply  *)
(* (pkg/actor/system.go, types.go), Ask and AskWithContext with            *)
(* RequestMessage.Reply (helpers.go), and Context.Forward.                 *)
(*                                                                         *)
(* A call blocks its caller, and the caller may be an actor inside its     *)
(* Receive: it handles nothing until the call is over.  A Request travels  *)
(* as an envelope that holds the reply channel and the context, which      *)
(* Forward does not pass on; an Ask holds its channel in the message,      *)
(* which Forward does pass on.                                             *)
(*                                                                         *)
(* The runtime is reduced to its queues: the system mailbox with the       *)
(* dispatcher, a mailbox and a loop per actor; an actor may end between    *)
(* two messages.  ActorSystem has the rest.                                *)
(***************************************************************************)
EXTENDS Naturals, Sequences

CONSTANTS Clients,      \* the goroutines that are not actors
          Actors,
          NoActor,      \* the nil PID
          MailboxSize,  \* config.MailboxSize
          InboxSize,    \* props.MailboxSize
          Ops,          \* bound: what the code of each caller does
          MaxCalls      \* bound: the number of calls, forwardings and shutdowns

ASSUME CallAssumption ==
  /\ Clients \intersect Actors = {}
  /\ NoActor \notin Actors \cup Clients
  /\ MailboxSize \in Nat /\ InboxSize \in Nat /\ MaxCalls \in Nat
  /\ Ops \in [Clients \cup Actors ->
               SUBSET {"request", "ask", "askContext", "forward", "shutdown"}]

VARIABLES isRunning,   \* System.isRunning
          mailbox,     \* System.mailbox
          inbox,       \* per actor: cell.mailbox
          loop,        \* per actor: where its goroutine stands
          current,     \* per actor: the envelope it handles
          call,        \* per caller: the call it is in
          chan,        \* per call: the one place of its reply channel
          done,        \* the calls whose context or timer has ended
          outcome,     \* history, per caller: what its last call returned
          calls,       \* the number of calls begun
          others        \* the number of forwardings and shutdowns

vars == <<isRunning, mailbox, inbox, loop, current, call, chan, done,
          outcome, calls, others>>
actorVars  == <<inbox, loop, current>>
callVars   == <<call, chan, done, outcome, calls>>

-----------------------------------------------------------------------------
Callers == Clients \cup Actors
Numbers == 1 .. MaxCalls
Kinds   == {"request", "ask", "askContext"}

NoCall == [step |-> "none", number |-> 0, kind |-> "none", target |-> NoActor]
Calls  == [step : {"offer", "wait"}, number : Numbers, kind : Kinds,
           target : Actors \cup {NoActor}]  \* of a Request

\* number: the call whose reply channel the envelope (how = "request") or its
\* message (how = "ask") holds; a message that holds none is "plain".
Envelope == [target : Actors, how : {"request", "ask"}, number : Numbers]
       \cup [target : Actors, how : {"plain"}, number : {0}]
NoEnvelope == [target |-> NoActor, how |-> "none", number |-> 0]

\* How a call looks from outside.  A reply that comes into the channel of a
\* call that has returned is nobody's.
Outstanding(t) ==
  [number |-> call[t].number, kind |-> call[t].kind, target |-> call[t].target,
   answer |-> IF call[t] = NoCall THEN NoActor ELSE chan[call[t].number]]

Remote == INSTANCE RemoteCall
  WITH outstanding <- [t \in Callers |-> Outstanding(t)], begun <- calls

RequestTypeOK ==
  /\ isRunning \in BOOLEAN
  /\ mailbox \in Seq(Envelope) /\ Len(mailbox) <= MailboxSize
  /\ inbox \in [Actors -> Seq(Envelope)]
  /\ \A a \in Actors : Len(inbox[a]) <= InboxSize
  /\ loop \in [Actors -> {"select", "receive", "replying", "ended"}]
  /\ current \in [Actors -> Envelope \cup {NoEnvelope}]
  /\ call \in [Callers -> Calls \cup {NoCall}]
  /\ chan \in [Numbers -> Actors \cup {NoActor}]
  /\ done \subseteq Numbers
  /\ outcome \in [Callers -> Remote!Outcomes]
  /\ calls \in 0 .. MaxCalls /\ others \in 0 .. MaxCalls

Init ==
  /\ isRunning = TRUE
  /\ mailbox = <<>>
  /\ inbox = [a \in Actors |-> <<>>]
  /\ loop = [a \in Actors |-> "select"]
  /\ current = [a \in Actors |-> NoEnvelope]
  /\ call = [t \in Callers |-> NoCall]
  /\ chan = [n \in Numbers |-> NoActor]
  /\ done = {}
  /\ outcome = [t \in Callers |-> Remote!Pending]
  /\ calls = 0 /\ others = 0

-----------------------------------------------------------------------------
(* Sending                                                                  *)

\* Mutant: the queue has no bound.
SendUnbounded(e) == mailbox' = IF isRunning THEN Append(mailbox, e) ELSE mailbox

\* System.SendWithSender: a full mailbox, or a system that does not run,
\* loses the message.
Send(e) ==
  mailbox' = IF isRunning /\ Len(mailbox) < MailboxSize THEN Append(mailbox, e)
                                                        ELSE mailbox

\* User code runs in a client between two calls, and in Receive.
Active(t) ==
  /\ call[t] = NoCall
  /\ t \in Actors => loop[t] = "receive"

NewCall(t, op) == op \in Ops[t] /\ Active(t) /\ calls + others < MaxCalls /\ calls' = calls + 1

Enter(t, step, kind, a) ==
  /\ call' = [call EXCEPT ![t] = [step |-> step, number |-> calls', kind |-> kind, target |-> a]]
  /\ outcome' = [outcome EXCEPT ![t] = Remote!Pending]

-----------------------------------------------------------------------------
(* The callers                                                              *)

\* Request, before its first select: the context with its timer starts here.
RequestBegin(t) ==
  /\ NewCall(t, "request")
  /\ \/ /\ isRunning
        /\ \E a \in Actors : Enter(t, "offer", "request", a)
     \/ /\ ~isRunning
        /\ outcome' = [outcome EXCEPT ![t] = Remote!Refused]
        /\ UNCHANGED call
  /\ UNCHANGED <<isRunning, mailbox, actorVars, chan, done, others>>

\* The first select puts the envelope, running system or not.
RequestPut(t) ==
  /\ call[t].step = "offer"
  /\ Len(mailbox) < MailboxSize
  /\ mailbox' = Append(mailbox, [target |-> call[t].target, how |-> "request",
                                 number |-> call[t].number])
  /\ call' = [call EXCEPT ![t].step = "wait"]
  /\ UNCHANGED <<isRunning, actorVars, chan, done, outcome, calls, others>>

\* Ask and AskWithContext: Tell, and wait whether or not it was lost.
AskBegin(t) ==
  /\ \E k \in {"ask", "askContext"}, a \in Actors :
       /\ NewCall(t, k)
       /\ Enter(t, "wait", k, NoActor)
       /\ Send([target |-> a, how |-> "ask", number |-> calls'])
  /\ UNCHANGED <<isRunning, actorVars, chan, done, others>>

\* The timeout of the context or of the timer, or the cancellation of the
\* caller's context, which may never come.
Expire(t) ==
  /\ call[t] # NoCall /\ call[t].number \notin done
  /\ done' = done \cup {call[t].number}
  /\ UNCHANGED <<isRunning, mailbox, actorVars, call, chan, outcome, calls, others>>

\* The deferred cancel ends the context of a Request; the timer of an Ask is
\* nobody's then.
Return(t, result) ==
  /\ outcome' = [outcome EXCEPT ![t] = result]
  /\ call' = [call EXCEPT ![t] = NoCall]
  /\ done' = IF call[t].kind = "request" THEN done \cup {call[t].number}
                                       ELSE done \ {call[t].number}

TakeReply(t) ==
  /\ call[t].step = "wait" /\ chan[call[t].number] # NoActor
  /\ Return(t, Remote!AnswerBy(chan[call[t].number]))
  /\ chan' = [chan EXCEPT ![call[t].number] = NoActor]
  /\ UNCHANGED <<isRunning, mailbox, actorVars, calls, others>>

\* Mutant: the first select has no case for the context.
GiveUpWaiting(t) ==
  /\ call[t].step = "wait" /\ call[t].number \in done
  /\ Return(t, Remote!GivenUp)
  /\ UNCHANGED <<isRunning, mailbox, actorVars, chan, calls, others>>

\* Either select, even when its other case is ready.
GiveUp(t) ==
  /\ call[t] # NoCall /\ call[t].number \in done
  /\ Return(t, Remote!GivenUp)
  /\ UNCHANGED <<isRunning, mailbox, actorVars, chan, calls, others>>

-----------------------------------------------------------------------------
(* The runtime                                                              *)

\* dispatchMessage: an actor that ended or whose mailbox is full gets nothing.
\* Shutdown ends the dispatcher: nothing need ever be dispatched.
Dispatch ==
  /\ mailbox # <<>>
  /\ mailbox' = Tail(mailbox)
  /\ LET e == Head(mailbox)
     IN  inbox' = IF loop[e.target] # "ended" /\ Len(inbox[e.target]) < InboxSize
                  THEN [inbox EXCEPT ![e.target] = Append(@, e)] ELSE inbox
  /\ UNCHANGED <<isRunning, loop, current, callVars, others>>

Shutdown(u) ==
  /\ "shutdown" \in Ops[u] /\ Active(u) /\ isRunning
  /\ isRunning' = FALSE
  /\ calls + others < MaxCalls /\ others' = others + 1
  /\ UNCHANGED <<mailbox, actorVars, callVars>>

Take(a) ==
  /\ loop[a] = "select" /\ inbox[a] # <<>>
  /\ current' = [current EXCEPT ![a] = Head(inbox[a])]
  /\ inbox' = [inbox EXCEPT ![a] = Tail(@)]
  /\ loop' = [loop EXCEPT ![a] = "receive"]
  /\ UNCHANGED <<isRunning, mailbox, callVars, others>>

\* Receive returns, or panics and is resumed or restarted.
Finish(a) ==
  /\ loop[a] = "receive" /\ call[a] = NoCall
  /\ loop' = [loop EXCEPT ![a] = "select"]
  /\ current' = [current EXCEPT ![a] = NoEnvelope]
  /\ UNCHANGED <<isRunning, mailbox, inbox, callVars, others>>

\* A pill or the cancelled context ends the actor; what waits is lost.
End(a) ==
  /\ loop[a] = "select"
  /\ loop' = [loop EXCEPT ![a] = "ended"]
  /\ inbox' = [inbox EXCEPT ![a] = <<>>]
  /\ UNCHANGED <<isRunning, mailbox, current, callVars, others>>

-----------------------------------------------------------------------------
(* What Receive does with its message                                       *)

\* Context.Reply to a Request: nothing once the context is done ...
Reply(a) ==
  /\ Active(a) /\ current[a].how = "request" /\ current[a].number \notin done
  /\ loop' = [loop EXCEPT ![a] = "replying"]
  /\ UNCHANGED <<isRunning, mailbox, inbox, current, callVars, others>>

\* Mutant: the reply is sent after the check, without a select.
ReplyBlocking(a) ==
  /\ loop[a] = "replying" /\ chan[current[a].number] = NoActor
  /\ loop' = [loop EXCEPT ![a] = "receive"]
  /\ chan' = [chan EXCEPT ![current[a].number] = a]
  /\ UNCHANGED <<isRunning, mailbox, inbox, current, call, done, outcome, calls, others>>

\* ... and otherwise a select that puts, sees the end of the context, or
\* finds the channel full.
ReplySelect(a) ==
  /\ loop[a] = "replying"
  /\ loop' = [loop EXCEPT ![a] = "receive"]
  /\ LET n == current[a].number
     IN  \/ /\ chan[n] = NoActor
            /\ chan' = [chan EXCEPT ![n] = a]
         \/ /\ n \in done \/ chan[n] # NoActor
            /\ UNCHANGED chan
  /\ UNCHANGED <<isRunning, mailbox, inbox, current, call, done, outcome, calls, others>>

\* RequestMessage.Reply: a full channel drops the value.
AskReply(a) ==
  /\ Active(a) /\ current[a].how = "ask"
  /\ chan[current[a].number] = NoActor
  /\ chan' = [chan EXCEPT ![current[a].number] = a]
  /\ UNCHANGED <<isRunning, mailbox, actorVars, call, done, outcome, calls, others>>

\* Mutant: Forward passes the reply channel on.
ForwardWithReply(a) ==
  /\ "forward" \in Ops[a] /\ Active(a)
  /\ calls + others < MaxCalls /\ others' = others + 1
  /\ \E b \in Actors : Send([current[a] EXCEPT !.target = b])
  /\ UNCHANGED <<isRunning, actorVars, callVars>>

\* Context.Forward sends the message, but not the envelope's channel.
Forward(a) ==
  /\ "forward" \in Ops[a] /\ Active(a)
  /\ calls + others < MaxCalls /\ others' = others + 1
  /\ \E b \in Actors :
       Send(IF current[a].how = "request"
            THEN [target |-> b, how |-> "plain", number |-> 0]
            ELSE [current[a] EXCEPT !.target = b])
  /\ UNCHANGED <<isRunning, actorVars, callVars>>

-----------------------------------------------------------------------------
Caller(t) == RequestBegin(t) \/ RequestPut(t) \/ AskBegin(t) \/ Expire(t)
             \/ TakeReply(t) \/ GiveUp(t)
Receive(a) == Reply(a) \/ ReplySelect(a) \/ AskReply(a) \/ Forward(a)

Next ==
  \/ \E t \in Callers : Caller(t)
  \/ \E a \in Actors : Take(a) \/ Finish(a) \/ End(a) \/ Receive(a)
  \/ \E u \in Clients : Shutdown(u)
  \/ Dispatch

\* Timers fire, selects return, and a Receive comes to its end.  Nobody need
\* cancel the context of an AskWithContext, and nobody need reply.
TimerFires(t) == call[t].kind \in {"request", "ask"} /\ Expire(t)
Fairness ==
  /\ \A t \in Callers : WF_vars(TimerFires(t)) /\ WF_vars(TakeReply(t) \/ GiveUp(t))
  /\ \A a \in Actors : WF_vars(Finish(a)) /\ WF_vars(ReplySelect(a))

Spec == Init /\ [][Next]_vars
FairSpec == Spec /\ Fairness

-----------------------------------------------------------------------------

\* Request, Ask and AskWithContext keep the promise of RemoteCall: an answer
\* that is returned was given to this call while it was outstanding, by the
\* requested actor, or for an Ask by one that it was forwarded to, and never
\* by an actor that was waiting for a call of its own (system.go:345-381,
\* types.go:118-148, helpers.go:59-100).
AnswersAreOwn == Remote!Calls

\* Whatever is lost, forwarded, stopped or shut down, and although actors call
\* one another and themselves in circles, every Request and every Ask returns,
\* and an AskWithContext does once it is answered or its context is done.
Ends(t) == \/ call[t].kind # "askContext"
           \/ chan[call[t].number] # NoActor \/ call[t].number \in done
CallsReturn ==
  \A t \in Callers : call[t] # NoCall /\ Ends(t) ~> call[t] = NoCall

\* No actor stays in its Receive for ever: not for a call that nobody answers,
\* nor for a channel that nobody reads, but for an AskWithContext.
LoopsResume ==
  \A a \in Actors : []<>(loop[a] \in {"select", "ended"} \/ call[a].kind = "askContext")
=============================================================================
