-------------------------- MODULE RequestReplyProofs --------------------------
(***************************************************************************)
(* Proofs about RequestReply, for any clients, actors, sizes of mailboxes  *)
(* and operations of the callers: its types, and that it implements        *)
(* RemoteCall.  Envelopes and calls belong together by their numbers.      *)
(***************************************************************************)
EXTENDS RequestReply, TLAPS

InCall(t) == call[t] # NoCall

\* A call has a number of its own that was given out; an actor that is in a
\* call is in its Receive; what is still offered is a Request to an actor.
CallOK(t) ==
  InCall(t) =>
    /\ call[t].number \in 1 .. calls
    /\ t \in Actors => loop[t] = "receive"
    /\ call[t].kind = "request" => call[t].target \in Actors
    /\ call[t].step = "offer" => call[t].kind = "request"
    /\ \A s \in Callers \ {t} : InCall(s) => call[s].number # call[t].number

\* An envelope that holds the channel of a call was made for that call: by
\* Request for the actor that was asked, or by Ask.
EnvelopeOK(e) ==
  e.how \in {"request", "ask"} =>
    /\ e.number \in 1 .. calls
    /\ \A t \in Callers : InCall(t) /\ call[t].number = e.number =>
         IF e.how = "request" THEN call[t].kind = "request" /\ call[t].target = e.target
                              ELSE call[t].kind # "request"

\* Whatever an actor has got, or handles, was addressed to it.
WaitsFor(a) ==
  \A i \in 1 .. Len(inbox[a]) : inbox[a][i].target = a /\ EnvelopeOK(inbox[a][i])
Handles(a) ==
  /\ EnvelopeOK(current[a])
  /\ loop[a] \in {"receive", "replying"} => current[a] \in Envelope /\ current[a].target = a
  /\ loop[a] = "replying" => current[a].how = "request"

CallInv ==
  /\ RequestTypeOK
  /\ \A t \in Callers : CallOK(t)
  /\ \A n \in Numbers : n > calls => chan[n] = NoActor
  /\ \A i \in 1 .. Len(mailbox) : EnvelopeOK(mailbox[i])
  /\ \A a \in Actors : WaitsFor(a) /\ Handles(a)

-----------------------------------------------------------------------------
(* Types *)

LEMMA SendTypes ==
  ASSUME RequestTypeOK, NEW e \in Envelope,
         (mailbox' = Append(mailbox, e) /\ Len(mailbox) < MailboxSize) \/ Send(e)
  PROVE  mailbox' \in Seq(Envelope) /\ Len(mailbox') <= MailboxSize
<1>1. CASE mailbox' = Append(mailbox, e) /\ Len(mailbox) < MailboxSize
  BY <1>1, CallAssumption DEF RequestTypeOK
<1>2. CASE mailbox' = mailbox
  BY <1>2 DEF RequestTypeOK
<1> QED
  BY <1>1, <1>2 DEF Send

LEMMA OutcomesAre ==
  /\ {Remote!Pending, Remote!Refused, Remote!GivenUp} \subseteq Remote!Outcomes
  /\ \A a \in Actors : Remote!AnswerBy(a) \in Remote!Outcomes
BY DEF Remote!Outcomes

\* The next call has a number, and is recorded under it.
LEMMA NewCallTypes ==
  ASSUME RequestTypeOK, NEW t \in Callers, NEW op, NewCall(t, op)
  PROVE  /\ calls' = calls + 1 /\ calls' \in Numbers /\ calls' \in 0 .. MaxCalls
         /\ calls \in Nat /\ ~InCall(t)
         /\ \A step \in {"offer", "wait"}, kind \in Kinds, a \in Actors \cup {NoActor} :
              Enter(t, step, kind, a) =>
                /\ call' \in [Callers -> Calls \cup {NoCall}]
                /\ call'[t] = [step |-> step, number |-> calls', kind |-> kind, target |-> a]
                /\ \A s \in Callers \ {t} : call'[s] = call[s]
                /\ outcome' \in [Callers -> Remote!Outcomes]
<1>1. /\ calls' = calls + 1 /\ calls' \in Numbers /\ calls' \in 0 .. MaxCalls
      /\ calls \in Nat /\ ~InCall(t)
  BY CallAssumption DEF NewCall, Numbers, RequestTypeOK, InCall, Active
<1>2. ASSUME NEW step \in {"offer", "wait"}, NEW kind \in Kinds, NEW a \in Actors \cup {NoActor},
             Enter(t, step, kind, a)
      PROVE  /\ call' \in [Callers -> Calls \cup {NoCall}]
             /\ call'[t] = [step |-> step, number |-> calls', kind |-> kind, target |-> a]
             /\ \A s \in Callers \ {t} : call'[s] = call[s]
             /\ outcome' \in [Callers -> Remote!Outcomes]
  <2> DEFINE c == [step |-> step, number |-> calls', kind |-> kind, target |-> a]
  <2>1. c \in Calls
    BY <1>1 DEF Calls
  <2>2. call' = [call EXCEPT ![t] = c] /\ outcome' = [outcome EXCEPT ![t] = Remote!Pending]
    BY <1>2 DEF Enter
  <2> HIDE DEF c
  <2>3. call'[t] = c /\ call' \in [Callers -> Calls \cup {NoCall}]
        /\ \A s \in Callers \ {t} : call'[s] = call[s]
    BY <2>1, <2>2 DEF RequestTypeOK
  <2>4. outcome' \in [Callers -> Remote!Outcomes]
    BY <2>2, OutcomesAre DEF RequestTypeOK
  <2> QED
    BY <2>3, <2>4 DEF c
<1> QED
  BY <1>1, <1>2

\* What a caller that leaves its call leaves behind.
LEMMA ReturnTypes ==
  ASSUME RequestTypeOK, NEW t \in Callers, InCall(t), NEW r \in Remote!Outcomes, Return(t, r)
  PROVE  /\ call' \in [Callers -> Calls \cup {NoCall}] /\ done' \subseteq Numbers
         /\ outcome' \in [Callers -> Remote!Outcomes]
         /\ ~InCall(t)' /\ \A s \in Callers \ {t} : call'[s] = call[s]
         /\ call[t] \in Calls /\ call[t].number \in Numbers
<1>1. call[t] \in Calls /\ call[t].number \in Numbers
  BY DEF RequestTypeOK, InCall, Calls
<1>2. /\ call' = [call EXCEPT ![t] = NoCall] /\ outcome' = [outcome EXCEPT ![t] = r]
      /\ done' \in {done \cup {call[t].number}, done \ {call[t].number}}
  BY DEF Return
<1>3. call' \in [Callers -> Calls \cup {NoCall}] /\ call'[t] = NoCall
      /\ \A s \in Callers \ {t} : call'[s] = call[s]
  BY <1>2 DEF RequestTypeOK
<1>4. done' \subseteq Numbers /\ outcome' \in [Callers -> Remote!Outcomes]
  BY <1>1, <1>2 DEF RequestTypeOK
<1> QED
  BY <1>1, <1>3, <1>4 DEF InCall

LEMMA StepOf ==
  ASSUME RequestTypeOK, NEW t \in Callers, call[t].step \in {"offer", "wait"}
  PROVE  InCall(t) /\ call[t] \in Calls /\ call[t].number \in Numbers
<1>1. call[t] # NoCall
  BY DEF NoCall
<1> QED
  BY <1>1 DEF RequestTypeOK, InCall, Calls

LEMMA ForwardTypes ==
  ASSUME CallInv, NEW a \in Actors, loop[a] = "receive", NEW b \in Actors
  PROVE  /\ current[a] \in Envelope
         /\ (IF current[a].how = "request" THEN [target |-> b, how |-> "plain", number |-> 0]
             ELSE [current[a] EXCEPT !.target = b]) \in Envelope
<1>1. current[a] \in Envelope
  BY DEF CallInv, Handles
<1>2. CASE current[a].how = "request"
  BY <1>1, <1>2 DEF Envelope
<1>3. CASE current[a].how # "request"
  <2>1. [current[a] EXCEPT !.target = b] =
          [target |-> b, how |-> current[a].how, number |-> current[a].number]
    BY <1>1 DEF Envelope
  <2> QED
    BY <1>1, <1>3, <2>1 DEF Envelope
<1> QED
  BY <1>1, <1>2, <1>3

LEMMA TypeStep ==
  ASSUME CallInv, [Next]_vars
  PROVE  RequestTypeOK'
<1>0. RequestTypeOK
  BY DEF CallInv
<1> USE <1>0
<1>1. ASSUME NEW t \in Callers, RequestBegin(t) PROVE RequestTypeOK'
  <2>1. /\ calls' \in 0 .. MaxCalls
        /\ call' \in [Callers -> Calls \cup {NoCall}] /\ outcome' \in [Callers -> Remote!Outcomes]
    <3>1. NewCall(t, "request")
      BY <1>1 DEF RequestBegin
    <3>2. CASE \E a \in Actors : Enter(t, "offer", "request", a)
      BY <3>1, <3>2, NewCallTypes DEF Kinds
    <3>3. CASE outcome' = [outcome EXCEPT ![t] = Remote!Refused] /\ UNCHANGED call
      BY <3>1, <3>3, NewCallTypes, OutcomesAre DEF RequestTypeOK
    <3> QED
      BY <1>1, <3>2, <3>3, <3>1, NewCallTypes DEF RequestBegin
  <2> QED
    BY <1>1, <2>1 DEF RequestBegin, RequestTypeOK, actorVars
<1>2. ASSUME NEW t \in Callers, RequestPut(t) PROVE RequestTypeOK'
  <2> DEFINE e == [target |-> call[t].target, how |-> "request", number |-> call[t].number]
  <2>1. call[t].step = "offer" /\ mailbox' = Append(mailbox, e) /\ Len(mailbox) < MailboxSize
        /\ call' = [call EXCEPT ![t].step = "wait"]
        /\ UNCHANGED <<isRunning, actorVars, chan, done, outcome, calls, others>>
    BY <1>2 DEF RequestPut
  <2>2. InCall(t) /\ call[t] \in Calls
    BY <2>1, StepOf
  <2>3. call[t].target \in Actors /\ call[t].number \in Numbers
    BY <2>1, <2>2 DEF CallInv, CallOK, Calls
  <2>4. e \in Envelope
    BY <2>3 DEF Envelope
  <2> HIDE DEF e
  <2>5. mailbox' \in Seq(Envelope) /\ Len(mailbox') <= MailboxSize
    BY <2>1, <2>4, SendTypes
  <2>6. [call[t] EXCEPT !.step = "wait"] \in Calls
    BY <2>2 DEF Calls
  <2>7. call' \in [Callers -> Calls \cup {NoCall}]
    BY <2>1, <2>6 DEF RequestTypeOK
  <2> QED
    BY <2>1, <2>5, <2>7 DEF RequestTypeOK, actorVars
<1>3. ASSUME NEW t \in Callers, AskBegin(t) PROVE RequestTypeOK'
  <2>1. PICK k \in {"ask", "askContext"}, a \in Actors :
          /\ NewCall(t, k) /\ Enter(t, "wait", k, NoActor)
          /\ Send([target |-> a, how |-> "ask", number |-> calls'])
    BY <1>3 DEF AskBegin
  <2>2. /\ calls' \in 0 .. MaxCalls /\ calls' \in Numbers
        /\ call' \in [Callers -> Calls \cup {NoCall}] /\ outcome' \in [Callers -> Remote!Outcomes]
    BY <2>1, NewCallTypes DEF Kinds
  <2>3. [target |-> a, how |-> "ask", number |-> calls'] \in Envelope
    BY <2>2 DEF Envelope
  <2>4. mailbox' \in Seq(Envelope) /\ Len(mailbox') <= MailboxSize
    BY <2>1, <2>3, SendTypes
  <2> QED
    BY <1>3, <2>2, <2>4 DEF AskBegin, RequestTypeOK, actorVars
<1>4. ASSUME NEW t \in Callers, Expire(t) PROVE RequestTypeOK'
  BY <1>4 DEF Expire, RequestTypeOK, actorVars, Calls
<1>5. ASSUME NEW t \in Callers, TakeReply(t) PROVE RequestTypeOK'
  <2>1. InCall(t) /\ call[t].number \in Numbers
    BY <1>5, StepOf DEF TakeReply
  <2>2. chan[call[t].number] \in Actors
    BY <1>5, <2>1 DEF TakeReply, RequestTypeOK
  <2>3. Return(t, Remote!AnswerBy(chan[call[t].number]))
    BY <1>5 DEF TakeReply
  <2>4. /\ call' \in [Callers -> Calls \cup {NoCall}] /\ done' \subseteq Numbers
        /\ outcome' \in [Callers -> Remote!Outcomes]
    BY <2>1, <2>2, <2>3, ReturnTypes, OutcomesAre
  <2>5. chan' \in [Numbers -> Actors \cup {NoActor}]
    BY <1>5 DEF TakeReply, RequestTypeOK
  <2> QED
    BY <1>5, <2>4, <2>5 DEF TakeReply, RequestTypeOK, actorVars
<1>6. ASSUME NEW t \in Callers, GiveUp(t) PROVE RequestTypeOK'
  <2>1. /\ call' \in [Callers -> Calls \cup {NoCall}] /\ done' \subseteq Numbers
        /\ outcome' \in [Callers -> Remote!Outcomes]
    BY <1>6, ReturnTypes, OutcomesAre DEF GiveUp, InCall
  <2> QED
    BY <1>6, <2>1 DEF GiveUp, RequestTypeOK, actorVars
<1>7. CASE Dispatch
  <2> DEFINE e == Head(mailbox)
  <2>1. /\ e \in Envelope /\ Tail(mailbox) \in Seq(Envelope) /\ Len(Tail(mailbox)) <= MailboxSize
        /\ e.target \in Actors
    <3>1. mailbox # <<>> /\ mailbox \in Seq(Envelope) /\ Len(mailbox) <= MailboxSize
      BY <1>7 DEF Dispatch, RequestTypeOK
    <3>2. e \in Envelope /\ Tail(mailbox) \in Seq(Envelope) /\ Len(Tail(mailbox)) <= MailboxSize
      BY <3>1, CallAssumption
    <3> QED
      BY <3>2 DEF Envelope
  <2>2. /\ mailbox' = Tail(mailbox)
        /\ \/ UNCHANGED inbox
           \/ inbox' = [inbox EXCEPT ![e.target] = Append(@, e)] /\ Len(inbox[e.target]) < InboxSize
        /\ UNCHANGED <<isRunning, loop, current, callVars, others>>
    BY <1>7 DEF Dispatch
  <2> HIDE DEF e
  <2>3. /\ inbox' \in [Actors -> Seq(Envelope)]
        /\ \A a \in Actors : Len(inbox'[a]) <= InboxSize
    <3>1. CASE UNCHANGED inbox
      BY <3>1 DEF RequestTypeOK
    <3>2. CASE inbox' = [inbox EXCEPT ![e.target] = Append(@, e)]
               /\ Len(inbox[e.target]) < InboxSize
      <4>1. Append(inbox[e.target], e) \in Seq(Envelope)
            /\ Len(Append(inbox[e.target], e)) <= InboxSize
        BY <2>1, <3>2, CallAssumption DEF RequestTypeOK
      <4> QED
        BY <2>1, <3>2, <4>1 DEF RequestTypeOK
    <3> QED
      BY <2>2, <3>1, <3>2
  <2> QED
    BY <2>1, <2>2, <2>3 DEF RequestTypeOK, callVars
<1>8. ASSUME NEW u \in Clients, Shutdown(u) PROVE RequestTypeOK'
  <2>1. others' \in 0 .. MaxCalls
    <3>1. calls + others < MaxCalls /\ others' = others + 1 /\ calls \in Nat /\ others \in Nat
      BY <1>8, CallAssumption DEF Shutdown, RequestTypeOK
    <3> QED
      BY <3>1, CallAssumption
  <2> QED
    BY <1>8, <2>1 DEF Shutdown, RequestTypeOK, actorVars, callVars
<1>9. ASSUME NEW a \in Actors, Take(a) PROVE RequestTypeOK'
  <2>1. Head(inbox[a]) \in Envelope /\ Tail(inbox[a]) \in Seq(Envelope)
        /\ Len(Tail(inbox[a])) <= InboxSize
    BY <1>9, CallAssumption DEF Take, RequestTypeOK
  <2>2. /\ inbox' \in [Actors -> Seq(Envelope)]
        /\ \A b \in Actors : Len(inbox'[b]) <= InboxSize
    BY <1>9, <2>1 DEF Take, RequestTypeOK
  <2>3. /\ current' \in [Actors -> Envelope \cup {NoEnvelope}]
        /\ loop' \in [Actors -> {"select", "receive", "replying", "ended"}]
    BY <1>9, <2>1 DEF Take, RequestTypeOK
  <2> QED
    BY <1>9, <2>2, <2>3 DEF Take, RequestTypeOK, callVars
<1>10. ASSUME NEW a \in Actors, Finish(a) PROVE RequestTypeOK'
  BY <1>10 DEF Finish, RequestTypeOK, callVars
<1>11. ASSUME NEW a \in Actors, End(a) PROVE RequestTypeOK'
  <2>1. <<>> \in Seq(Envelope) /\ Len(<<>>) <= InboxSize
    BY CallAssumption
  <2> QED
    BY <1>11, <2>1 DEF End, RequestTypeOK, callVars
<1>12. ASSUME NEW a \in Actors, Reply(a) PROVE RequestTypeOK'
  BY <1>12 DEF Reply, RequestTypeOK, callVars
<1>13. ASSUME NEW a \in Actors, ReplySelect(a) PROVE RequestTypeOK'
  BY <1>13 DEF ReplySelect, RequestTypeOK
<1>14. ASSUME NEW a \in Actors, AskReply(a) PROVE RequestTypeOK'
  BY <1>14 DEF AskReply, RequestTypeOK, actorVars
<1>15. ASSUME NEW a \in Actors, Forward(a) PROVE RequestTypeOK'
  <2>1. loop[a] = "receive" /\ others' \in 0 .. MaxCalls
    BY <1>15, CallAssumption DEF Forward, Active, RequestTypeOK
  <2>2. PICK b \in Actors :
          Send(IF current[a].how = "request" THEN [target |-> b, how |-> "plain", number |-> 0]
               ELSE [current[a] EXCEPT !.target = b])
    BY <1>15 DEF Forward
  <2>3. mailbox' \in Seq(Envelope) /\ Len(mailbox') <= MailboxSize
    BY <2>1, <2>2, SendTypes, ForwardTypes
  <2> QED
    BY <1>15, <2>1, <2>3 DEF Forward, RequestTypeOK, actorVars, callVars
<1>16. CASE UNCHANGED vars
  BY <1>16 DEF vars, RequestTypeOK
<1> QED
  BY <1>1, <1>2, <1>3, <1>4, <1>5, <1>6, <1>7, <1>8, <1>9, <1>10, <1>11, <1>12, <1>13,
     <1>14, <1>15, <1>16 DEF Next, Caller, Receive

-----------------------------------------------------------------------------
(* Calls *)

\* What a step may do to the calls, as it looks to an envelope on its way: a
\* call is over, goes on as the one that it was, or is the newest.
SameCall(t) ==
  InCall(t) /\ call'[t].number = call[t].number /\ call'[t].kind = call[t].kind
            /\ call'[t].target = call[t].target
Newest(t) == calls' = calls + 1 /\ call'[t].number = calls'
CallsAge ==
  /\ calls' \in {calls, calls + 1}
  /\ \A t \in Callers : InCall(t)' => SameCall(t) \/ Newest(t)

\* The four ways of a step with the calls.
Begins(t) ==
  /\ ~InCall(t) /\ calls' = calls + 1
  /\ \A s \in Callers \ {t} : call'[s] = call[s]
  /\ \/ call'[t] = call[t]
     \/ /\ call'[t].number = calls'
        /\ \/ call'[t].kind = "request" /\ call'[t].target \in Actors
           \/ call'[t].kind # "request" /\ call'[t].step = "wait"
Puts(t) ==
  /\ InCall(t) /\ call[t] \in Calls /\ call[t].step = "offer" /\ calls' = calls
  /\ call' = [call EXCEPT ![t].step = "wait"]
Returns(t) ==
  InCall(t) /\ ~InCall(t)' /\ calls' = calls /\ \A s \in Callers \ {t} : call'[s] = call[s]

LEMMA CallWays ==
  ASSUME CallInv, [Next]_vars
  PROVE  \/ \E t \in Callers :
              ((Begins(t) /\ (t \in Actors => loop[t] = "receive")) \/ Puts(t) \/ Returns(t))
              /\ UNCHANGED loop
         \/ UNCHANGED <<call, calls>>
<1>0. RequestTypeOK
  BY DEF CallInv
<1>1. ASSUME NEW t \in Callers, RequestBegin(t)
      PROVE  Begins(t) /\ (t \in Actors => loop[t] = "receive") /\ UNCHANGED loop
  <2>1. NewCall(t, "request")
    BY <1>1 DEF RequestBegin
  <2>2. (t \in Actors => loop[t] = "receive") /\ UNCHANGED loop
    BY <1>1, <2>1 DEF RequestBegin, NewCall, Active, actorVars
  <2>3. CASE \E a \in Actors : Enter(t, "offer", "request", a)
    <3>1. PICK a \in Actors : Enter(t, "offer", "request", a)
      BY <2>3
    <3>2. call'[t] = [step |-> "offer", number |-> calls', kind |-> "request", target |-> a]
          /\ \A s \in Callers \ {t} : call'[s] = call[s]
      BY <1>0, <2>1, <3>1, NewCallTypes DEF Kinds
    <3> QED
      BY <1>0, <2>1, <2>2, <3>2, NewCallTypes DEF Begins
  <2>4. CASE UNCHANGED call
    BY <1>0, <2>1, <2>2, <2>4, NewCallTypes DEF Begins
  <2> QED
    BY <1>1, <2>3, <2>4 DEF RequestBegin
<1>2. ASSUME NEW t \in Callers, AskBegin(t)
      PROVE  Begins(t) /\ (t \in Actors => loop[t] = "receive") /\ UNCHANGED loop
  <2>1. PICK k \in {"ask", "askContext"} : NewCall(t, k) /\ Enter(t, "wait", k, NoActor)
    BY <1>2 DEF AskBegin
  <2>2. call'[t] = [step |-> "wait", number |-> calls', kind |-> k, target |-> NoActor]
        /\ \A s \in Callers \ {t} : call'[s] = call[s]
    BY <1>0, <2>1, NewCallTypes DEF Kinds
  <2>3. (t \in Actors => loop[t] = "receive") /\ UNCHANGED loop
    BY <1>2, <2>1 DEF AskBegin, NewCall, Active, actorVars
  <2> QED
    BY <1>0, <2>1, <2>2, <2>3, NewCallTypes DEF Begins
<1>3. ASSUME NEW t \in Callers, RequestPut(t) PROVE Puts(t) /\ UNCHANGED loop
  BY <1>0, <1>3, StepOf DEF RequestPut, Puts, actorVars
<1>4. ASSUME NEW t \in Callers, TakeReply(t) PROVE Returns(t) /\ UNCHANGED loop
  <2>1. InCall(t) /\ chan[call[t].number] \in Actors
        /\ Return(t, Remote!AnswerBy(chan[call[t].number]))
    BY <1>0, <1>4, StepOf DEF TakeReply, RequestTypeOK
  <2> QED
    BY <1>0, <1>4, <2>1, ReturnTypes, OutcomesAre DEF TakeReply, Returns, actorVars
<1>5. ASSUME NEW t \in Callers, GiveUp(t) PROVE Returns(t) /\ UNCHANGED loop
  BY <1>0, <1>5, ReturnTypes, OutcomesAre DEF GiveUp, InCall, Returns, actorVars
<1>6. ASSUME \/ \E t \in Callers : Expire(t)
             \/ \E a \in Actors : Take(a) \/ Finish(a) \/ End(a) \/ Receive(a)
             \/ \E u \in Clients : Shutdown(u)
             \/ Dispatch \/ UNCHANGED vars
      PROVE  UNCHANGED <<call, calls>>
  BY <1>6 DEF Expire, Take, Finish, End, Receive, Reply, ReplySelect, AskReply, Forward, Shutdown,
     Dispatch, vars, callVars
<1> QED
  BY <1>1, <1>2, <1>3, <1>4, <1>5, <1>6 DEF Next, Caller

LEMMA CallsAgeStep ==
  ASSUME CallInv, [Next]_vars
  PROVE  CallsAge
<1>1. ASSUME NEW t \in Callers, Begins(t) PROVE CallsAge
  BY <1>1 DEF Begins, CallsAge, SameCall, Newest, InCall
<1>2. ASSUME NEW t \in Callers, Puts(t) PROVE CallsAge
  BY <1>2 DEF Puts, CallsAge, SameCall, InCall, CallInv, RequestTypeOK, Calls
<1>3. ASSUME NEW t \in Callers, Returns(t) PROVE CallsAge
  BY <1>3 DEF Returns, CallsAge, SameCall, InCall
<1>4. CASE UNCHANGED <<call, calls>>
  BY <1>4 DEF CallsAge, SameCall, InCall
<1> QED
  BY <1>1, <1>2, <1>3, <1>4, CallWays

\* An actor that is in a call stays in its Receive.
LEMMA InCallStays ==
  ASSUME CallInv, [Next]_vars, NEW a \in Actors, InCall(a), InCall(a)'
  PROVE  loop'[a] = "receive"
<1>1. loop[a] = "receive" /\ loop \in [Actors -> {"select", "receive", "replying", "ended"}]
      /\ call[a] # NoCall /\ a \in Callers
  BY DEF CallInv, CallOK, InCall, RequestTypeOK, Callers
<1> QED
  BY <1>1, CallWays DEF Next, Caller, Receive, Dispatch, Take, Finish, End, Reply, ReplySelect, AskReply,
     Forward, Shutdown, Expire, RequestBegin, RequestPut, AskBegin, TakeReply, GiveUp,
     actorVars, Active, vars

LEMMA CallStep ==
  ASSUME CallInv, [Next]_vars, NEW t \in Callers
  PROVE  CallOK(t)'
<1>0. /\ \A s \in Callers : CallOK(s)
      /\ calls \in Nat /\ call \in [Callers -> Calls \cup {NoCall}]
  BY DEF CallInv, RequestTypeOK
<1>1. ASSUME NEW u \in Callers, Begins(u), u \in Actors => loop[u] = "receive", UNCHANGED loop
      PROVE  CallOK(t)'
  <2>1. CASE t # u
    BY <1>0, <1>1, <2>1 DEF CallOK, Begins, InCall
  <2>2. CASE t = u
    BY <1>0, <1>1, <2>2 DEF CallOK, Begins, InCall
  <2> QED
    BY <2>1, <2>2
<1>2. ASSUME NEW u \in Callers, Puts(u), UNCHANGED loop PROVE CallOK(t)'
  <2>1. /\ call'[u].number = call[u].number /\ call'[u].kind = call[u].kind
        /\ call'[u].target = call[u].target /\ call'[u].step = "wait"
        /\ \A s \in Callers \ {u} : call'[s] = call[s]
    BY <1>0, <1>2 DEF Puts, Calls
  <2> QED
    BY <1>0, <1>2, <2>1 DEF CallOK, Puts, InCall
<1>3. ASSUME NEW u \in Callers, Returns(u), UNCHANGED loop PROVE CallOK(t)'
  BY <1>0, <1>3 DEF CallOK, Returns, InCall
<1>4. ASSUME UNCHANGED <<call, calls>> PROVE CallOK(t)'
  <2>1. InCall(t) /\ t \in Actors => loop'[t] = "receive"
    BY <1>4, InCallStays DEF InCall
  <2> QED
    BY <1>0, <1>4, <2>1 DEF CallOK, InCall
<1> QED
  BY <1>1, <1>2, <1>3, <1>4, CallWays

-----------------------------------------------------------------------------
(* Envelopes *)

\* An envelope on its way belongs to the calls after a step as before it.
LEMMA EnvelopeAges ==
  ASSUME CallInv, CallsAge, NEW e, EnvelopeOK(e), e.number \in Nat
  PROVE  EnvelopeOK(e)'
<1>1. calls \in Nat /\ calls' \in Nat /\ calls <= calls'
  BY DEF CallInv, RequestTypeOK, CallsAge
<1>2. ASSUME e.how \in {"request", "ask"} PROVE e.number \in 1 .. calls'
  BY <1>1, <1>2 DEF EnvelopeOK
<1>3. ASSUME e.how \in {"request", "ask"}, NEW t \in Callers, InCall(t)', call'[t].number = e.number
      PROVE  IF e.how = "request" THEN call'[t].kind = "request" /\ call'[t].target = e.target
                                  ELSE call'[t].kind # "request"
  <2>1. e.number \in 1 .. calls
    BY <1>3 DEF EnvelopeOK
  <2>2. ~Newest(t)
    BY <1>1, <1>3, <2>1 DEF Newest
  <2>3. SameCall(t)
    BY <1>3, <2>2 DEF CallsAge
  <2> QED
    BY <1>3, <2>3 DEF EnvelopeOK, SameCall
<1> QED
  BY <1>2, <1>3 DEF EnvelopeOK

LEMMA EnvelopesAre ==
  /\ \A e \in Envelope \cup {NoEnvelope} : e.number \in Nat
  /\ \A e \in Envelope : e.target \in Actors
BY DEF Envelope, NoEnvelope, Numbers

\* What a step may do to the mailbox of the system.
LEMMA MailboxWays ==
  ASSUME CallInv, [Next]_vars, CallsAge, \A t \in Callers : CallOK(t)'
  PROVE  \/ mailbox' = mailbox
         \/ mailbox # <<>> /\ mailbox' = Tail(mailbox)
         \/ \E e \in Envelope : EnvelopeOK(e)' /\ mailbox' = Append(mailbox, e)
<1>0. RequestTypeOK /\ calls \in Nat
  BY DEF CallInv, RequestTypeOK
<1>1. ASSUME NEW t \in Callers, RequestPut(t)
      PROVE  \E e \in Envelope : EnvelopeOK(e)' /\ mailbox' = Append(mailbox, e)
  <2> DEFINE e == [target |-> call[t].target, how |-> "request", number |-> call[t].number]
  <2>1. InCall(t) /\ call[t] \in Calls /\ call[t].number \in Numbers /\ call[t].step = "offer"
        /\ call' = [call EXCEPT ![t].step = "wait"] /\ calls' = calls
    BY <1>0, <1>1, StepOf DEF RequestPut
  <2>2. call[t].kind = "request" /\ call[t].target \in Actors /\ call[t].number \in 1 .. calls
    BY <2>1 DEF CallInv, CallOK
  <2>3. /\ e \in Envelope /\ e.how = "request" /\ e.number = call[t].number
        /\ e.target = call[t].target
    BY <2>1, <2>2 DEF Envelope
  <2>4. mailbox' = Append(mailbox, e)
    BY <1>1 DEF RequestPut
  <2> HIDE DEF e
  <2>5. /\ InCall(t)' /\ call'[t].number = call[t].number /\ call'[t].kind = "request"
        /\ call'[t].target = call[t].target
    <3>1. call'[t] = [call[t] EXCEPT !.step = "wait"]
      BY <1>0, <2>1 DEF RequestTypeOK
    <3> QED
      BY <2>1, <2>2, <3>1 DEF Calls, InCall, NoCall
  <2>6. \A s \in Callers : InCall(s)' /\ call'[s].number = call[t].number => s = t
    BY <2>5 DEF CallOK
  <2>7. ASSUME NEW n, NEW k, n = call[t].number, k = call[t].target, NEW d \in Envelope,
               d.how = "request", d.number = n, d.target = k
        PROVE  EnvelopeOK(d)'
    BY <2>1, <2>2, <2>5, <2>6, <2>7 DEF EnvelopeOK
  <2>8. \E d \in Envelope : d = e /\ d.how = "request" /\ d.number = call[t].number
                            /\ d.target = call[t].target
    BY <2>3
  <2> QED
    BY <2>4, <2>7, <2>8
<1>2. ASSUME NEW t \in Callers, AskBegin(t)
      PROVE  mailbox' = mailbox \/ \E e \in Envelope : EnvelopeOK(e)' /\ mailbox' = Append(mailbox, e)
  <2>1. PICK k \in {"ask", "askContext"}, a \in Actors :
          /\ NewCall(t, k) /\ Enter(t, "wait", k, NoActor)
          /\ Send([target |-> a, how |-> "ask", number |-> calls'])
    BY <1>2 DEF AskBegin
  <2>2. calls' = calls + 1 /\ calls' \in Numbers
        /\ call'[t] = [step |-> "wait", number |-> calls', kind |-> k, target |-> NoActor]
        /\ \A s \in Callers \ {t} : call'[s] = call[s]
    BY <1>0, <2>1, NewCallTypes DEF Kinds
  <2>3. \A s \in Callers : InCall(s)' /\ call'[s].number = calls' => s = t
    BY <1>0, <2>2 DEF CallInv, CallOK, InCall
  <2>4. PICK e \in Envelope : e = [target |-> a, how |-> "ask", number |-> calls']
    BY <2>2 DEF Envelope
  <2>5. e.how = "ask" /\ e.number = calls'
    BY <2>4
  <2>6. calls' \in 1 .. calls' /\ call'[t].kind # "request"
    BY <1>0, <2>2
  <2>7. EnvelopeOK(e)'
    BY <2>3, <2>5, <2>6 DEF EnvelopeOK
  <2> QED
    BY <2>1, <2>4, <2>7 DEF Send
<1>3. ASSUME NEW a \in Actors, Forward(a)
      PROVE  mailbox' = mailbox \/ \E e \in Envelope : EnvelopeOK(e)' /\ mailbox' = Append(mailbox, e)
  <2>1. PICK b \in Actors :
          Send(IF current[a].how = "request" THEN [target |-> b, how |-> "plain", number |-> 0]
               ELSE [current[a] EXCEPT !.target = b])
    BY <1>3 DEF Forward
  <2>2. loop[a] = "receive"
    BY <1>3 DEF Forward, Active
  <2>3. PICK e \in Envelope :
          e = (IF current[a].how = "request" THEN [target |-> b, how |-> "plain", number |-> 0]
               ELSE [current[a] EXCEPT !.target = b])
    BY <2>2, ForwardTypes
  <2>4. CASE current[a].how = "request"
    BY <2>1, <2>3, <2>4 DEF Send, EnvelopeOK
  <2>5. CASE current[a].how # "request"
    <3>1. current[a] \in Envelope /\ EnvelopeOK(current[a])
      BY <2>2 DEF CallInv, Handles
    <3>2. e.how = current[a].how /\ e.number = current[a].number
      BY <2>3, <2>5, <3>1 DEF Envelope
    <3>3. EnvelopeOK(e)
      BY <2>5, <3>1, <3>2 DEF EnvelopeOK
    <3>4. EnvelopeOK(e)'
      BY <3>3, EnvelopeAges, EnvelopesAre
    <3> QED
      BY <2>1, <2>3, <3>4 DEF Send
  <2> QED
    BY <2>4, <2>5
<1>4. CASE Dispatch
  BY <1>4 DEF Dispatch
<1>5. ASSUME \/ \E t \in Callers : RequestBegin(t) \/ Expire(t) \/ TakeReply(t) \/ GiveUp(t)
             \/ \E a \in Actors : Take(a) \/ Finish(a) \/ End(a) \/ Reply(a) \/ ReplySelect(a)
                                  \/ AskReply(a)
             \/ \E u \in Clients : Shutdown(u)
             \/ UNCHANGED vars
      PROVE  mailbox' = mailbox
  BY <1>5 DEF RequestBegin, Expire, TakeReply, GiveUp, Take, Finish, End, Reply, ReplySelect,
     AskReply, Shutdown, vars
<1> QED
  BY <1>1, <1>2, <1>3, <1>4, <1>5 DEF Next, Caller, Receive

LEMMA MailboxStep ==
  ASSUME CallInv, [Next]_vars, CallsAge, \A t \in Callers : CallOK(t)', NEW i \in 1 .. Len(mailbox')
  PROVE  EnvelopeOK(mailbox[i])'
<1>0. mailbox \in Seq(Envelope) /\ \A j \in 1 .. Len(mailbox) : EnvelopeOK(mailbox[j])
  BY DEF CallInv, RequestTypeOK
<1>1. \A j \in 1 .. Len(mailbox) : \A e : e = mailbox[j] => EnvelopeOK(e)'
  BY <1>0, EnvelopeAges, EnvelopesAre
<1>2. CASE mailbox' = mailbox
  <2>1. PICK e : e = mailbox[i]
    OBVIOUS
  <2> QED
    BY <1>1, <1>2, <2>1 DEF EnvelopeOK
<1>3. CASE mailbox # <<>> /\ mailbox' = Tail(mailbox)
  <2>1. PICK e : e = mailbox[i + 1]
    OBVIOUS
  <2>2. i + 1 \in 1 .. Len(mailbox) /\ mailbox'[i] = e
    BY <1>0, <1>3, <2>1
  <2>3. EnvelopeOK(e)'
    BY <1>1, <2>1, <2>2
  <2> QED
    BY <2>2, <2>3 DEF EnvelopeOK
<1>4. CASE \E e \in Envelope : EnvelopeOK(e)' /\ mailbox' = Append(mailbox, e)
  <2>1. PICK e \in Envelope : EnvelopeOK(e)' /\ mailbox' = Append(mailbox, e)
    BY <1>4
  <2>2. CASE i \in 1 .. Len(mailbox)
    <3>1. PICK d : d = mailbox[i]
      OBVIOUS
    <3>2. mailbox'[i] = d /\ EnvelopeOK(d)'
      BY <1>0, <1>1, <2>1, <2>2, <3>1
    <3> QED
      BY <3>2 DEF EnvelopeOK
  <2>3. CASE i \notin 1 .. Len(mailbox)
    <3>1. mailbox'[i] = e
      BY <1>0, <2>1, <2>3
    <3> QED
      BY <2>1, <3>1 DEF EnvelopeOK
  <2> QED
    BY <2>2, <2>3
<1> QED
  BY <1>2, <1>3, <1>4, MailboxWays

LEMMA WaitsForStep ==
  ASSUME CallInv, [Next]_vars, CallsAge, NEW a \in Actors
  PROVE  WaitsFor(a)'
<1>0. /\ mailbox \in Seq(Envelope) /\ \A j \in 1 .. Len(mailbox) : EnvelopeOK(mailbox[j])
      /\ inbox \in [Actors -> Seq(Envelope)] /\ inbox[a] \in Seq(Envelope) /\ WaitsFor(a)
  BY DEF CallInv, RequestTypeOK
<1>1. \A j \in 1 .. Len(inbox[a]) : \A e : e = inbox[a][j] => e.target = a /\ EnvelopeOK(e)'
  BY <1>0, EnvelopeAges, EnvelopesAre DEF WaitsFor
<1>2. ASSUME \A i \in 1 .. Len(inbox'[a]) : \E e : inbox'[a][i] = e /\ e.target = a /\ EnvelopeOK(e)'
      PROVE  WaitsFor(a)'
  BY <1>2 DEF WaitsFor, EnvelopeOK
<1>3. CASE inbox'[a] = inbox[a]
  BY <1>1, <1>2, <1>3
<1>4. CASE inbox[a] # <<>> /\ inbox'[a] = Tail(inbox[a])
  <2>1. ASSUME NEW i \in 1 .. Len(inbox'[a])
        PROVE  i + 1 \in 1 .. Len(inbox[a]) /\ inbox'[a][i] = inbox[a][i + 1]
    BY <1>0, <1>4
  <2> QED
    BY <1>1, <1>2, <2>1
<1>5. CASE inbox'[a] = <<>>
  BY <1>2, <1>5
<1>6. CASE mailbox # <<>> /\ Head(mailbox).target = a
           /\ inbox'[a] = Append(inbox[a], Head(mailbox))
  <2>1. PICK e : e = Head(mailbox)
    OBVIOUS
  <2>2. e \in Envelope /\ EnvelopeOK(e) /\ e.target = a
    BY <1>0, <1>6, <2>1
  <2>3. EnvelopeOK(e)'
    BY <2>2, EnvelopeAges, EnvelopesAre
  <2>4. ASSUME NEW i \in 1 .. Len(inbox'[a])
        PROVE  \/ i \in 1 .. Len(inbox[a]) /\ inbox'[a][i] = inbox[a][i]
               \/ inbox'[a][i] = e
    BY <1>0, <1>6, <2>1, <2>2
  <2> QED
    BY <1>1, <1>2, <2>2, <2>3, <2>4
<1>7. ASSUME Dispatch
      PROVE  \/ inbox'[a] = inbox[a]
             \/ mailbox # <<>> /\ Head(mailbox).target = a
                /\ inbox'[a] = Append(inbox[a], Head(mailbox))
  BY <1>0, <1>7 DEF Dispatch
<1>8. ASSUME NEW b \in Actors, Take(b) \/ End(b)
      PROVE  \/ inbox'[a] \in {inbox[a], <<>>} 
             \/ inbox[a] # <<>> /\ inbox'[a] = Tail(inbox[a])
  BY <1>0, <1>8 DEF Take, End
<1>9. ASSUME \/ \E t \in Callers : Caller(t)
             \/ \E b \in Actors : Finish(b) \/ Receive(b)
             \/ \E u \in Clients : Shutdown(u)
             \/ UNCHANGED vars
      PROVE  inbox'[a] = inbox[a]
  BY <1>9 DEF Caller, RequestBegin, RequestPut, AskBegin, Expire, TakeReply, GiveUp, Finish,
     Receive, Reply, ReplySelect, AskReply, Forward, Shutdown, vars, actorVars
<1> QED
  BY <1>3, <1>4, <1>5, <1>6, <1>7, <1>8, <1>9 DEF Next

LEMMA HandlesStep ==
  ASSUME CallInv, [Next]_vars, CallsAge, NEW a \in Actors
  PROVE  Handles(a)'
<1>0. /\ inbox \in [Actors -> Seq(Envelope)] /\ inbox[a] \in Seq(Envelope)
      /\ current \in [Actors -> Envelope \cup {NoEnvelope}]
      /\ loop \in [Actors -> {"select", "receive", "replying", "ended"}]
      /\ Handles(a) /\ WaitsFor(a)
  BY DEF CallInv, RequestTypeOK
<1>1. ASSUME NEW e \in Envelope \cup {NoEnvelope}, current'[a] = e, EnvelopeOK(e),
             loop'[a] \in {"receive", "replying"} => e \in Envelope /\ e.target = a,
             loop'[a] = "replying" => e.how = "request"
      PROVE  Handles(a)'
  <2>1. EnvelopeOK(e)'
    BY <1>1, EnvelopeAges, EnvelopesAre
  <2> QED
    BY <1>1, <2>1 DEF Handles, EnvelopeOK
<1>2. ASSUME current'[a] = current[a],
             \/ loop'[a] = loop[a] \/ loop'[a] \in {"select", "ended"}
             \/ loop[a] = "receive" /\ loop'[a] = "replying" /\ current[a].how = "request"
             \/ loop[a] = "replying" /\ loop'[a] = "receive"
      PROVE  Handles(a)'
  <2>1. PICK e \in Envelope \cup {NoEnvelope} : e = current[a]
    BY <1>0
  <2> QED
    BY <1>0, <1>1, <1>2, <2>1 DEF Handles
<1>3. ASSUME NEW b \in Actors, Take(b) PROVE Handles(a)'
  <2>1. CASE b # a
    BY <1>0, <1>2, <1>3, <2>1 DEF Take
  <2>2. CASE b = a
    <3>1. PICK e : e = Head(inbox[a])
      OBVIOUS
    <3>2. inbox[a] # <<>> /\ current'[a] = e /\ loop'[a] = "receive"
      BY <1>0, <1>3, <2>2, <3>1 DEF Take
    <3>3. e \in Envelope /\ e.target = a /\ EnvelopeOK(e)
      BY <1>0, <3>1, <3>2 DEF WaitsFor
    <3> QED
      BY <1>1, <3>2, <3>3
  <2> QED
    BY <2>1, <2>2
<1>4. ASSUME NEW b \in Actors, Finish(b) PROVE Handles(a)'
  <2>1. CASE b # a
    BY <1>0, <1>2, <1>4, <2>1 DEF Finish
  <2>2. CASE b = a
    <3>1. current'[a] = NoEnvelope /\ loop'[a] = "select"
      BY <1>0, <1>4, <2>2 DEF Finish
    <3>2. EnvelopeOK(NoEnvelope)
      BY DEF EnvelopeOK, NoEnvelope
    <3> QED
      BY <1>1, <3>1, <3>2
  <2> QED
    BY <2>1, <2>2
<1>5. ASSUME NEW b \in Actors, End(b) \/ Reply(b) \/ ReplySelect(b)
      PROVE  /\ current'[a] = current[a]
             /\ \/ loop'[a] = loop[a] \/ loop'[a] \in {"select", "ended"}
                \/ loop[a] = "receive" /\ loop'[a] = "replying" /\ current[a].how = "request"
                \/ loop[a] = "replying" /\ loop'[a] = "receive"
  BY <1>0, <1>5 DEF End, Reply, Active, ReplySelect
<1>6. ASSUME \/ \E t \in Callers : Caller(t)
             \/ \E b \in Actors : AskReply(b) \/ Forward(b)
             \/ \E u \in Clients : Shutdown(u)
             \/ Dispatch \/ UNCHANGED vars
      PROVE  UNCHANGED <<current, loop>>
  BY <1>6 DEF Caller, RequestBegin, RequestPut, AskBegin, Expire, TakeReply, GiveUp,
     AskReply, Forward, Shutdown, Dispatch, vars, actorVars
<1> QED
  BY <1>2, <1>3, <1>4, <1>5, <1>6 DEF Next, Receive

\* What a step may do to the reply channels: the answer is taken, or an actor
\* in its Receive answers the call whose envelope it handles.
Answers(a, n) ==
  /\ n = current[a].number /\ n \in Numbers /\ n <= calls
  /\ current[a].how \in {"request", "ask"} /\ EnvelopeOK(current[a]) /\ current[a].target = a
  /\ call[a] = NoCall
  /\ chan[n] = NoActor /\ chan' = [chan EXCEPT ![n] = a]
  /\ UNCHANGED <<call, outcome, calls>>

LEMMA ReplyWays ==
  ASSUME CallInv, NEW a \in Actors, ReplySelect(a) \/ AskReply(a)
  PROVE  UNCHANGED chan \/ \E n \in Numbers : Answers(a, n)
<1>1. ASSUME ReplySelect(a)
      PROVE  UNCHANGED chan \/ \E n \in Numbers : Answers(a, n)
  <2>1. /\ current[a].how = "request" /\ current[a] \in Envelope /\ current[a].target = a
        /\ EnvelopeOK(current[a])
    BY <1>1 DEF ReplySelect, CallInv, Handles
  <2>2. current[a].number \in Numbers /\ current[a].number <= calls
    BY <2>1 DEF Envelope, EnvelopeOK, CallInv, RequestTypeOK
  <2>3. call[a] = NoCall
    BY <1>1 DEF ReplySelect, CallInv, CallOK, InCall, Callers
  <2> QED
    BY <1>1, <2>1, <2>2, <2>3 DEF ReplySelect, Answers
<1>2. ASSUME AskReply(a) PROVE \E n \in Numbers : Answers(a, n)
  <2>1. /\ current[a].how = "ask" /\ current[a] \in Envelope /\ current[a].target = a
        /\ EnvelopeOK(current[a])
    BY <1>2 DEF AskReply, Active, CallInv, Handles
  <2>2. current[a].number \in Numbers /\ current[a].number <= calls
    BY <2>1 DEF Envelope, EnvelopeOK, CallInv, RequestTypeOK
  <2> QED
    BY <1>2, <2>1, <2>2 DEF AskReply, Active, Answers
<1> QED
  BY <1>1, <1>2

LEMMA ChanWays ==
  ASSUME CallInv, [Next]_vars
  PROVE  \/ UNCHANGED chan
         \/ \E t \in Callers : TakeReply(t)
         \/ \E a \in Actors, n \in Numbers : Answers(a, n)
<1>1. ASSUME \/ \E t \in Callers : RequestBegin(t) \/ RequestPut(t) \/ AskBegin(t) \/ Expire(t)
                                   \/ GiveUp(t)
             \/ \E a \in Actors : Take(a) \/ Finish(a) \/ End(a) \/ Reply(a) \/ Forward(a)
             \/ \E u \in Clients : Shutdown(u)
             \/ Dispatch \/ UNCHANGED vars
      PROVE  UNCHANGED chan
  BY <1>1 DEF RequestBegin, RequestPut, AskBegin, Expire, GiveUp, Take, Finish, End, Reply,
     Forward, Shutdown, Dispatch, vars, callVars
<1> QED
  BY <1>1, ReplyWays DEF Next, Caller, Receive

LEMMA ChanStep ==
  ASSUME CallInv, [Next]_vars, CallsAge, NEW n \in Numbers, n > calls'
  PROVE  chan'[n] = NoActor
<1>1. /\ calls \in Nat /\ calls' \in Nat /\ calls <= calls'
      /\ chan \in [Numbers -> Actors \cup {NoActor}]
  BY DEF CallInv, RequestTypeOK, CallsAge
<1>2. n > calls /\ chan[n] = NoActor
  BY <1>1 DEF CallInv, Numbers
<1>3. ASSUME NEW t \in Callers, TakeReply(t) PROVE chan'[n] = NoActor
  BY <1>1, <1>2, <1>3 DEF TakeReply
<1>4. ASSUME NEW a \in Actors, NEW m \in Numbers, Answers(a, m) PROVE chan'[n] = NoActor
  BY <1>1, <1>2, <1>4 DEF Answers, Numbers
<1> QED
  BY <1>2, <1>3, <1>4, ChanWays

LEMMA InvStep ==
  ASSUME CallInv, [Next]_vars
  PROVE  CallInv'
<1>1. CallsAge /\ RequestTypeOK'
  BY CallsAgeStep, TypeStep
<1>2. \A t \in Callers : CallOK(t)'
  BY CallStep
<1>3. \A n \in Numbers : n > calls' => chan'[n] = NoActor
  BY <1>1, ChanStep
<1>4. \A i \in 1 .. Len(mailbox') : EnvelopeOK(mailbox[i])'
  BY <1>1, <1>2, MailboxStep
<1>5. \A a \in Actors : WaitsFor(a)' /\ Handles(a)'
  BY <1>1, WaitsForStep, HandlesStep
<1> QED
  BY <1>1, <1>2, <1>3, <1>4, <1>5 DEF CallInv

LEMMA InvInit == Init => CallInv
<1> SUFFICES ASSUME Init PROVE CallInv
  OBVIOUS
<1>1. RequestTypeOK
  BY CallAssumption, OutcomesAre DEF Init, RequestTypeOK
<1>2. /\ \A t \in Callers : CallOK(t)
      /\ \A n \in Numbers : n > calls => chan[n] = NoActor
  BY DEF Init, CallOK, InCall
<1>3. /\ \A i \in 1 .. Len(mailbox) : EnvelopeOK(mailbox[i])
      /\ \A a \in Actors : WaitsFor(a) /\ Handles(a)
  BY DEF Init, WaitsFor, Handles, EnvelopeOK, NoEnvelope
<1> QED
  BY <1>1, <1>2, <1>3 DEF CallInv

THEOREM CallInvariant == Spec => []CallInv
BY InvInit, InvStep, PTL DEF Spec

\* The queues, calls and channels stay what they are declared to be: no queue
\* is longer than it was made, and no reply goes to a call that was not begun.
THEOREM RequestTypeCorrect == Spec => []RequestTypeOK
<1>1. CallInv => RequestTypeOK
  BY DEF CallInv
<1> QED
  BY <1>1, CallInvariant, PTL

-----------------------------------------------------------------------------
(* RequestReply implements RemoteCall *)

Outside == [t \in Callers |-> Outstanding(t)]

LEMMA OutsideAt == \A t \in Callers : Outside[t] = Outstanding(t)
BY DEF Outside

LEMMA OutsideChanges ==
  ASSUME NEW t \in Callers, NEW r, Outstanding(t)' = r,
         \A s \in Callers \ {t} : Outstanding(s)' = Outstanding(s)
  PROVE  Outside' = [Outside EXCEPT ![t] = r]
BY DEF Outside

LEMMA OutsideStays ==
  ASSUME \A s \in Callers : Outstanding(s)' = Outstanding(s)
  PROVE  Outside' = Outside
BY DEF Outside

LEMMA OutstandingStays ==
  ASSUME NEW t \in Callers, call'[t] = call[t],
         InCall(t) => chan'[call[t].number] = chan[call[t].number]
  PROVE  Outstanding(t)' = Outstanding(t)
BY DEF Outstanding, InCall, NoCall

\* A caller looks idle from outside exactly when it is in no call.
LEMMA IdleIsNone ==
  ASSUME CallInv, NEW t \in Callers
  PROVE  Outstanding(t) = Remote!None <=> ~InCall(t)
<1>1. ASSUME ~InCall(t) PROVE Outstanding(t) = Remote!None
  BY <1>1 DEF Outstanding, InCall, NoCall, Remote!None
<1>2. ASSUME InCall(t) PROVE Outstanding(t).number # 0
  BY <1>2 DEF CallInv, CallOK, Outstanding
<1>3. Remote!None.number = 0
  BY DEF Remote!None
<1> QED
  BY <1>1, <1>2, <1>3

LEMMA BeginImplements ==
  ASSUME CallInv, NEW t \in Callers, NEW op, NewCall(t, op),
         NEW step \in {"offer", "wait"}, NEW kind \in Kinds, NEW a \in Actors \cup {NoActor},
         Enter(t, step, kind, a), UNCHANGED chan
  PROVE  Remote!Begin(t)
<1>1. RequestTypeOK
  BY DEF CallInv
<1>2. /\ calls' = calls + 1 /\ calls \in Nat /\ calls' \in Numbers /\ ~InCall(t)
      /\ call'[t] = [step |-> step, number |-> calls', kind |-> kind, target |-> a]
      /\ \A s \in Callers \ {t} : call'[s] = call[s]
  BY <1>1, NewCallTypes
<1>3. calls < MaxCalls
  BY <1>1, <1>2, CallAssumption DEF Numbers
<1>4. chan'[calls'] = NoActor
  BY <1>2 DEF CallInv
<1>5. call'[t] # NoCall /\ call'[t].number = calls' /\ call'[t].kind = kind /\ call'[t].target = a
  BY <1>2 DEF NoCall, Numbers
<1>6. Outstanding(t)' = [number |-> calls', kind |-> kind, target |-> a, answer |-> NoActor]
  BY <1>4, <1>5 DEF Outstanding, NoCall
<1>7. \A s \in Callers \ {t} : Outstanding(s)' = Outstanding(s)
  BY <1>2, OutstandingStays
<1>8. Outside' = [Outside EXCEPT ![t] =
                    [number |-> calls', kind |-> kind, target |-> a, answer |-> NoActor]]
  BY <1>6, <1>7, OutsideChanges
<1>9. Outside[t] = Remote!None
  BY <1>2, IdleIsNone, OutsideAt
<1>10. outcome' = [outcome EXCEPT ![t] = Remote!Pending] /\ kind \in Remote!Kinds
  BY DEF Enter, Kinds, Remote!Kinds
<1> QED
  BY <1>2, <1>3, <1>8, <1>9, <1>10 DEF Remote!Begin, Outside

LEMMA RefuseImplements ==
  ASSUME CallInv, NEW t \in Callers, NEW op, NewCall(t, op), UNCHANGED <<call, chan>>,
         outcome' = [outcome EXCEPT ![t] = Remote!Refused]
  PROVE  Remote!Refuse(t)
<1>1. RequestTypeOK
  BY DEF CallInv
<1>2. calls' = calls + 1 /\ calls \in Nat /\ calls' \in Numbers /\ ~InCall(t)
  BY <1>1, NewCallTypes
<1>3. calls < MaxCalls
  BY <1>1, <1>2, CallAssumption DEF Numbers
<1>4. Outside' = Outside
  BY OutstandingStays, OutsideStays
<1>5. Outside[t] = Remote!None
  BY <1>2, IdleIsNone, OutsideAt
<1> QED
  BY <1>2, <1>3, <1>4, <1>5 DEF Remote!Refuse, Outside

LEMMA ReturnImplements ==
  ASSUME CallInv, NEW t \in Callers, InCall(t), NEW r \in Remote!Outcomes, Return(t, r),
         chan' = chan \/ chan' = [chan EXCEPT ![call[t].number] = NoActor], calls' = calls
  PROVE  Remote!Finished(t, r) /\ Outside[t] = Outstanding(t) /\ Outside[t] # Remote!None
<1>1. RequestTypeOK
  BY DEF CallInv
<1>2. /\ ~InCall(t)' /\ \A s \in Callers \ {t} : call'[s] = call[s]
  BY <1>1, ReturnTypes
<1>3. Outstanding(t)' = Remote!None
  BY <1>2 DEF Outstanding, InCall, NoCall, Remote!None
<1>4. ASSUME NEW s \in Callers \ {t} PROVE Outstanding(s)' = Outstanding(s)
  <2>1. InCall(s) => call[s].number # call[t].number
    BY DEF CallInv, CallOK
  <2>2. InCall(s) => chan'[call[s].number] = chan[call[s].number]
    BY <1>1, <2>1 DEF RequestTypeOK, InCall, Calls
  <2> QED
    BY <1>2, <2>2, OutstandingStays
<1>5. Outside' = [Outside EXCEPT ![t] = Remote!None]
  BY <1>3, <1>4, OutsideChanges
<1>6. outcome' = [outcome EXCEPT ![t] = r]
  BY DEF Return
<1> QED
  BY <1>5, <1>6, IdleIsNone, OutsideAt DEF Remote!Finished, Outside

LEMMA TakeReplyImplements ==
  ASSUME CallInv, NEW t \in Callers, TakeReply(t)
  PROVE  Remote!TakeAnswer(t)
<1>1. InCall(t) /\ call[t].number \in Numbers
  BY StepOf DEF TakeReply, CallInv
<1>2. chan[call[t].number] \in Actors /\ chan[call[t].number] # NoActor
  BY <1>1 DEF TakeReply, CallInv, RequestTypeOK
<1>3. /\ Return(t, Remote!AnswerBy(chan[call[t].number])) /\ calls' = calls
      /\ chan' = [chan EXCEPT ![call[t].number] = NoActor]
  BY DEF TakeReply
<1>4. Outstanding(t).answer = chan[call[t].number]
  BY <1>1 DEF Outstanding, InCall
<1>5. /\ Remote!Finished(t, Remote!AnswerBy(chan[call[t].number]))
      /\ Outside[t] = Outstanding(t) /\ Outside[t] # Remote!None
  BY <1>1, <1>2, <1>3, ReturnImplements, OutcomesAre
<1> QED
  BY <1>2, <1>4, <1>5 DEF Remote!TakeAnswer, Outside

LEMMA GiveUpImplements ==
  ASSUME CallInv, NEW t \in Callers, GiveUp(t)
  PROVE  Remote!GiveUp(t)
<1>1. InCall(t) /\ Return(t, Remote!GivenUp) /\ chan' = chan /\ calls' = calls
  BY DEF GiveUp, InCall
<1>2. Remote!Finished(t, Remote!GivenUp) /\ Outside[t] # Remote!None
  BY <1>1, ReturnImplements, OutcomesAre
<1> QED
  BY <1>2 DEF Remote!GiveUp, Outside

\* An answer goes to the one call it was asked in, or to nobody.
LEMMA AnswerImplements ==
  ASSUME CallInv, NEW a \in Actors, NEW n \in Numbers, Answers(a, n)
  PROVE  (\E t \in Callers : Remote!Answer(a, t)) \/ UNCHANGED Remote!remoteVars
<1>1. RequestTypeOK /\ a \in Callers
  BY DEF CallInv, Callers
<1>2. chan'[n] = a /\ \A m \in Numbers \ {n} : chan'[m] = chan[m]
  BY <1>1 DEF Answers, RequestTypeOK
<1>3. \A s \in Callers : InCall(s) => call[s].number \in Numbers
  BY <1>1 DEF RequestTypeOK, InCall, Calls
<1>4. ASSUME NEW s \in Callers, ~(InCall(s) /\ call[s].number = n)
      PROVE  Outstanding(s)' = Outstanding(s)
  BY <1>2, <1>3, <1>4, OutstandingStays DEF Answers
<1>5. CASE \E t \in Callers : InCall(t) /\ call[t].number = n
  <2>1. PICK t \in Callers : InCall(t) /\ call[t].number = n
    BY <1>5
  <2>2. \A s \in Callers \ {t} : Outstanding(s)' = Outstanding(s)
    <3>1. \A s \in Callers \ {t} : InCall(s) => call[s].number # n
      BY <2>1 DEF CallInv, CallOK
    <3> QED
      BY <1>4, <3>1
  <2>3. Outstanding(t) = [number |-> n, kind |-> call[t].kind, target |-> call[t].target,
                          answer |-> NoActor]
    BY <2>1 DEF Outstanding, InCall, Answers
  <2>4. Outstanding(t)' = [number |-> n, kind |-> call[t].kind, target |-> call[t].target,
                           answer |-> a]
    BY <1>2, <2>1 DEF Outstanding, InCall, Answers, NoCall
  <2>5. Outstanding(t)' = [Outstanding(t) EXCEPT !.answer = a]
    BY <2>3, <2>4
  <2>6. Outside' = [Outside EXCEPT ![t] = [Outstanding(t) EXCEPT !.answer = a]]
    BY <2>2, <2>5, OutsideChanges
  <2>7. Outside' = [Outside EXCEPT ![t].answer = a]
    BY <2>6, OutsideAt
  <2>8. Outside[t] # Remote!None /\ Outside[t].answer = NoActor /\ Outside[a] = Remote!None
    BY <1>1, <2>1, <2>3, IdleIsNone, OutsideAt DEF Answers, InCall
  <2>9. Outside[t].kind = "request" => Outside[t].target = a
    <3>1. Outside[t].kind = call[t].kind /\ Outside[t].target = call[t].target
      BY <2>3, OutsideAt
    <3>2. call[t].kind = "request" => call[t].target = a
      BY <2>1 DEF Answers, EnvelopeOK
    <3> QED
      BY <3>1, <3>2
  <2>10. UNCHANGED <<outcome, calls>>
    BY DEF Answers
  <2>11. Remote!Answer(a, t)
    BY <2>7, <2>8, <2>9, <2>10 DEF Remote!Answer, Outside
  <2> QED
    BY <2>11
<1>6. CASE ~\E t \in Callers : InCall(t) /\ call[t].number = n
  <2>1. Outside' = Outside
    BY <1>4, <1>6, OutsideStays
  <2> QED
    BY <2>1 DEF Remote!remoteVars, Outside, Answers
<1> QED
  BY <1>5, <1>6

\* Everything else happens unseen.
LEMMA UnseenImplements ==
  ASSUME CallInv,
         \/ \E t \in Callers : RequestPut(t) \/ Expire(t)
         \/ \E a \in Actors : Take(a) \/ Finish(a) \/ End(a) \/ Reply(a) \/ Forward(a)
         \/ \E u \in Clients : Shutdown(u)
         \/ Dispatch \/ UNCHANGED vars
  PROVE  UNCHANGED Remote!remoteVars
<1>1. ASSUME NEW t \in Callers, RequestPut(t) PROVE UNCHANGED Remote!remoteVars
  <2>1. InCall(t) /\ call[t] \in Calls /\ call[t].number \in Numbers
        /\ call' = [call EXCEPT ![t].step = "wait"] /\ UNCHANGED <<chan, outcome, calls>>
    BY <1>1, StepOf DEF RequestPut, CallInv
  <2>2. /\ call'[t] = [step |-> "wait", number |-> call[t].number, kind |-> call[t].kind,
                       target |-> call[t].target]
        /\ \A s \in Callers \ {t} : call'[s] = call[s]
    BY <2>1 DEF CallInv, RequestTypeOK, Calls
  <2>3. call'[t] # NoCall /\ call[t] # NoCall
    BY <2>1, <2>2 DEF NoCall, InCall
  <2>4. Outstanding(t)' = Outstanding(t)
    BY <2>1, <2>2, <2>3 DEF Outstanding, NoCall
  <2>5. Outside' = Outside
    BY <2>1, <2>2, <2>4, OutstandingStays, OutsideStays
  <2> QED
    BY <2>1, <2>5 DEF Remote!remoteVars, Outside
<1>2. ASSUME UNCHANGED <<call, chan, outcome, calls>> PROVE UNCHANGED Remote!remoteVars
  <2>1. Outside' = Outside
    BY <1>2, OutstandingStays, OutsideStays
  <2> QED
    BY <1>2, <2>1 DEF Remote!remoteVars, Outside
<1>3. ASSUME \/ \E t \in Callers : Expire(t)
             \/ \E a \in Actors : Take(a) \/ Finish(a) \/ End(a) \/ Reply(a) \/ Forward(a)
             \/ \E u \in Clients : Shutdown(u)
             \/ Dispatch \/ UNCHANGED vars
      PROVE  UNCHANGED <<call, chan, outcome, calls>>
  BY <1>3 DEF Expire, Take, Finish, End, Reply, Forward, Shutdown, Dispatch, vars, callVars
<1> QED
  BY <1>1, <1>2, <1>3

LEMMA StepImplements == CallInv /\ [Next]_vars => [Remote!RemoteNext]_(Remote!remoteVars)
<1> SUFFICES ASSUME CallInv, [Next]_vars
             PROVE  Remote!RemoteNext \/ UNCHANGED Remote!remoteVars
  OBVIOUS
<1>0. Remote!Callers = Callers
  BY DEF Remote!Callers, Callers
<1>1. ASSUME NEW t \in Callers, RequestBegin(t) PROVE Remote!Begin(t) \/ Remote!Refuse(t)
  <2>1. NewCall(t, "request") /\ UNCHANGED chan
    BY <1>1 DEF RequestBegin
  <2>2. CASE \E a \in Actors : Enter(t, "offer", "request", a)
    BY <2>1, <2>2, BeginImplements DEF Kinds
  <2>3. CASE outcome' = [outcome EXCEPT ![t] = Remote!Refused] /\ UNCHANGED call
    BY <2>1, <2>3, RefuseImplements
  <2> QED
    BY <1>1, <2>2, <2>3 DEF RequestBegin
<1>2. ASSUME NEW t \in Callers, AskBegin(t) PROVE Remote!Begin(t)
  <2>1. PICK k \in {"ask", "askContext"} : NewCall(t, k) /\ Enter(t, "wait", k, NoActor)
    BY <1>2 DEF AskBegin
  <2> QED
    BY <1>2, <2>1, BeginImplements DEF AskBegin, Kinds
<1>3. ASSUME NEW a \in Actors, ReplySelect(a) \/ AskReply(a)
      PROVE  (\E t \in Callers : Remote!Answer(a, t)) \/ UNCHANGED Remote!remoteVars
  <2>1. CASE UNCHANGED chan
    <3>1. UNCHANGED <<call, chan, outcome, calls>>
      BY <1>3, <2>1 DEF ReplySelect, AskReply
    <3>2. Outside' = Outside
      BY <3>1, OutstandingStays, OutsideStays
    <3> QED
      BY <3>1, <3>2 DEF Remote!remoteVars, Outside
  <2>2. CASE \E n \in Numbers : Answers(a, n)
    BY <2>2, AnswerImplements
  <2> QED
    BY <1>3, <2>1, <2>2, ReplyWays
<1> QED
  BY <1>0, <1>1, <1>2, <1>3, TakeReplyImplements, GiveUpImplements, UnseenImplements
  DEF Next, Caller, Receive, Remote!RemoteNext

LEMMA InitImplements == Init => Remote!RemoteInit
<1> SUFFICES ASSUME Init PROVE Remote!RemoteInit
  OBVIOUS
<1>1. \A t \in Callers : Outstanding(t) = Remote!None
  BY DEF Init, Outstanding, NoCall, Remote!None
<1>2. Outside = [t \in Callers |-> Remote!None]
  BY <1>1 DEF Outside
<1> QED
  BY <1>2 DEF Init, Outside, Remote!RemoteInit, Remote!Callers, Callers

\* Request, Ask and AskWithContext keep the promise of RemoteCall, whatever is
\* lost, forwarded, expired or shut down, for any number of callers and actors,
\* any mailboxes, and whatever each of them calls: an answer that is returned
\* was given to this very call, while it was outstanding, by an actor that was
\* waiting for none of its own and, for a Request, by the one it was made to.
THEOREM Implements == Spec => AnswersAreOwn
BY CallInvariant, InitImplements, StepImplements, PTL DEF Spec, AnswersAreOwn, Remote!Calls
===============================================================================
