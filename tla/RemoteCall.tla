------------------------------ MODULE RemoteCall ------------------------------
(***************************************************************************)
(* What System.Request, actor.Ask and actor.AskWithContext promise their   *)
(* callers: a call comes back once, refused, given up, or with the one     *)
(* answer some actor gave to this very call while it was outstanding.      *)
(*                                                                         *)
(* The caller may itself be an actor in the middle of its Receive.  Then   *)
(* it answers nobody until its own call is over: two actors that call one  *)
(* another at once cannot both be answered, and none can answer itself.    *)
(* Nothing here knows of queues, channels, contexts or timers.             *)
(***************************************************************************)
EXTENDS Naturals

CONSTANTS Clients,    \* the goroutines that are not actors
          Actors,
          NoActor,
          MaxCalls    \* bound: the number of calls

VARIABLES outstanding,  \* per caller: its call, and the answer given to it
          outcome,      \* per caller: what its last call came back with
          begun         \* the number of calls begun

remoteVars == <<outstanding, outcome, begun>>

Callers == Clients \cup Actors
Kinds   == {"request", "ask", "askContext"}

None    == [number |-> 0, kind |-> "none", target |-> NoActor, answer |-> NoActor]
Pending == [result |-> "pending", by |-> NoActor]
Refused == [result |-> "refused", by |-> NoActor]
GivenUp == [result |-> "givenUp", by |-> NoActor]
AnswerBy(a) == [result |-> "answer", by |-> a]

Outcomes == {Pending, Refused, GivenUp} \cup {AnswerBy(a) : a \in Actors}

RemoteInit ==
  /\ outstanding = [t \in Callers |-> None]
  /\ outcome = [t \in Callers |-> Pending]
  /\ begun = 0

Begin(t) ==
  /\ outstanding[t] = None /\ begun < MaxCalls /\ begun' = begun + 1
  /\ \E k \in Kinds, a \in Actors \cup {NoActor} :
       outstanding' = [outstanding EXCEPT ![t] =
                         [number |-> begun', kind |-> k, target |-> a, answer |-> NoActor]]
  /\ outcome' = [outcome EXCEPT ![t] = Pending]

\* A system that does not run refuses a Request.
Refuse(t) ==
  /\ outstanding[t] = None /\ begun < MaxCalls /\ begun' = begun + 1
  /\ outcome' = [outcome EXCEPT ![t] = Refused]
  /\ UNCHANGED outstanding

\* Actor a answers the call of t.  A Request is answered by the actor it was
\* made to, whoever the message was forwarded to; an Ask by any who got it.
Answer(a, t) ==
  /\ outstanding[t] # None /\ outstanding[t].answer = NoActor
  /\ outstanding[a] = None
  /\ outstanding[t].kind = "request" => outstanding[t].target = a
  /\ outstanding' = [outstanding EXCEPT ![t].answer = a]
  /\ UNCHANGED <<outcome, begun>>

Finished(t, result) ==
  /\ outcome' = [outcome EXCEPT ![t] = result]
  /\ outstanding' = [outstanding EXCEPT ![t] = None]
  /\ UNCHANGED begun

TakeAnswer(t) ==
  /\ outstanding[t] # None /\ outstanding[t].answer # NoActor
  /\ Finished(t, AnswerBy(outstanding[t].answer))

\* Even if there is an answer.
GiveUp(t) == outstanding[t] # None /\ Finished(t, GivenUp)

RemoteNext ==
  \/ \E t \in Callers : Begin(t) \/ Refuse(t) \/ TakeAnswer(t) \/ GiveUp(t)
  \/ \E a \in Actors, t \in Callers : Answer(a, t)

Calls == RemoteInit /\ [][RemoteNext]_remoteVars
=============================================================================
