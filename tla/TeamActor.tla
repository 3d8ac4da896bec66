------------------------------ MODULE TeamActor ------------------------------
(***************************************************************************)
(* TeamActor (pkg/team/actor.go) as its callers reach it, through the Do*  *)
(* functions of pkg/team/helpers.go.  A Do* function makes a reply channel *)
(* of capacity one, Tells the actor, and selects between the channel and a *)
(* timer; the actor handles one message at a time and replies with TrySend,*)
(* whether or not anybody still listens.                                   *)
(*                                                                         *)
(* Nothing is synchronised but the mailbox.  That callers nevertheless see *)
(* one consistent team (the comment of TeamActor) is what Service states.  *)
(*                                                                         *)
(* The handlers are TeamService!Outcomes: they run alone and whole, so     *)
(* they mean the same here and there.  DoGetTask is left out: its reply is *)
(* a pointer into the board, no message passing covers its reads.          *)
(***************************************************************************)
EXTENDS Hierarchy, Functions

CONSTANTS Clients, Ops, MaxTasks, MaxCalls,   \* as in TeamService
          MailboxSize                         \* capacity of the actor's mailbox

ASSUME TeamActorAssumption ==
    MaxTasks \in Nat /\ MaxCalls \in Nat /\ MailboxSize \in Nat \ {0}

VARIABLES team,      \* the fields of TeamActor
          mailbox,   \* the messages that wait for the actor
          wait,      \* per client: the Do* call it is in, with its channel
          answer,    \* per client: what its last Do* call returned
          loop,      \* "on", or why the actorLoop has returned
          calls      \* the number of messages sent, for the bound MaxCalls

vars == <<team, mailbox, wait, answer, loop, calls>>

\* A call is named by its number: so is its reply channel, and its message.
Numbers == 1 .. MaxCalls
Idle == [step |-> "idle"]

\* How a call looks from outside: until its reply is in the channel, it is
\* asked.  A message whose call has returned is late.
Call(u) ==
    IF wait[u] = Idle THEN Idle
    ELSE IF wait[u].chan = <<>>
         THEN [step |-> "asked", number |-> wait[u].number, ask |-> wait[u].ask]
         ELSE [step |-> "done", reply |-> Head(wait[u].chan)]

Waits(n) == \E u \in Clients : wait[u] # Idle /\ wait[u].number = n

Late == {m \in Range(mailbox) : m.ask.op # "pill" /\ ~Waits(m.number)}

Promise == INSTANCE TeamService
    WITH call <- [u \in Clients |-> Call(u)], late <- Late

Pill == [number |-> 0, ask |-> [op |-> "pill"]]
Messages == [number : Numbers, ask : Promise!Asks \cup Promise!Posts] \cup {Pill}

Init ==
    /\ team = Promise!NewTeam
    /\ mailbox = <<>>
    /\ wait = [u \in Clients |-> Idle]
    /\ answer = [u \in Clients |-> Promise!NoReply]
    /\ loop = "on"
    /\ calls = 0

-----------------------------------------------------------------------------
(* The callers: Do* functions, and messages sent without one.               *)

\* Mutant: a full mailbox is no reason to drop a message.
TellUnbounded(m) ==
    mailbox' = IF loop = "on" THEN Append(mailbox, m) ELSE mailbox

\* PID.Tell, through the system's mailbox, which may be full as well.
Tell(m) ==
    \/ UNCHANGED mailbox
    \/ /\ loop = "on" /\ Len(mailbox) < MailboxSize
       /\ mailbox' = Append(mailbox, m)

Send == calls < MaxCalls /\ calls' = calls + 1

\* The Do* functions with a timeout: each makes a channel, sends, and waits.
Do(u) ==
    /\ wait[u] = Idle /\ Send
    /\ \E q \in Promise!Asks :
           /\ q.op \in Ops
           /\ wait' = [wait EXCEPT ![u] = [number |-> calls', ask |-> q, chan |-> <<>>]]
           /\ Tell([number |-> calls', ask |-> q])
    /\ UNCHANGED <<team, answer, loop>>

\* RemoveMemberMsg, DoReportProgress and DoShutdown; System.Stop.
Post ==
    /\ Send
    /\ \/ \E q \in Promise!Posts : q.op \in Ops /\ Tell([number |-> calls', ask |-> q])
       \/ Tell(Pill)
    /\ UNCHANGED <<team, wait, answer, loop>>

\* The select takes the reply ...
DoReturn(u) ==
    /\ wait[u] # Idle /\ wait[u].chan # <<>>
    /\ answer' = [answer EXCEPT ![u] = Head(wait[u].chan)]
    /\ wait' = [wait EXCEPT ![u] = Idle]
    /\ UNCHANGED <<team, mailbox, loop, calls>>

\* ... or the timer, even if there is a reply.
DoTimeout(u) ==
    /\ wait[u] # Idle
    /\ answer' = [answer EXCEPT ![u] = Promise!Deadline]
    /\ wait' = [wait EXCEPT ![u] = Idle]
    /\ UNCHANGED <<team, mailbox, loop, calls>>

-----------------------------------------------------------------------------
(* The actor.                                                               *)

\* Mutant: one reply channel for all calls of a client.
ReplyAnyone(n, reply) ==
    wait' = [u \in Clients |-> IF wait[u] # Idle /\ wait[u].chan = <<>>
                               THEN [wait[u] EXCEPT !.chan = <<reply>>] ELSE wait[u]]

\* actor.TrySend(m.ReplyChan, reply): a channel that was given up is nobody's.
Reply(n, reply) ==
    wait' = [u \in Clients |->
        IF wait[u] # Idle /\ wait[u].number = n /\ wait[u].chan = <<>>
        THEN [wait[u] EXCEPT !.chan = <<reply>>] ELSE wait[u]]

\* Receive of any message but ShutdownMsg.
Handle ==
    /\ loop = "on" /\ mailbox # <<>>
    /\ LET m == Head(mailbox)
       IN  /\ m.ask.op \notin {"pill", "shutdown"}
           /\ mailbox' = Tail(mailbox)
           /\ \E o \in Promise!Outcomes(team, m.ask) :
                  /\ team' = o.team
                  /\ IF o.reply = Promise!NoReply THEN UNCHANGED wait
                                                  ELSE Reply(m.number, o.reply)
    /\ UNCHANGED <<answer, loop, calls>>

\* ShutdownMsg: handleShutdown, and StopSelf sends the pill, which is handled
\* after everything that waits already, or is lost.
HandleShutdown ==
    /\ loop = "on" /\ mailbox # <<>> /\ Head(mailbox).ask.op = "shutdown"
    /\ team' = Promise!Disbanded(team)
    /\ mailbox' \in {Tail(mailbox), Append(Tail(mailbox), Pill)}
    /\ UNCHANGED <<wait, answer, loop, calls>>

\* Mutant: Stopping leaves it to ShutdownMsg to close the members.
StoppingKeeps ==
    /\ loop = "on" /\ mailbox # <<>> /\ Head(mailbox) = Pill
    /\ loop' = "stopped" /\ mailbox' = <<>>
    /\ UNCHANGED <<team, wait, answer, calls>>

\* The pill: Receive(Stopping), and the loop returns.
Stopping ==
    /\ loop = "on" /\ mailbox # <<>> /\ Head(mailbox) = Pill
    /\ team' = Promise!Disbanded(team)
    /\ loop' = "stopped" /\ mailbox' = <<>>
    /\ UNCHANGED <<wait, answer, calls>>

\* System.Shutdown cancels the loop's context.
LoopCancelled ==
    /\ loop = "on"
    /\ loop' = "cut" /\ mailbox' = <<>>
    /\ UNCHANGED <<team, wait, answer, calls>>

Next ==
    \/ \E u \in Clients : Do(u) \/ DoReturn(u) \/ DoTimeout(u)
    \/ Post
    \/ Handle \/ HandleShutdown \/ Stopping \/ LoopCancelled

Spec == Init /\ [][Next]_vars

-----------------------------------------------------------------------------
(* Properties                                                               *)

TeamActorTypeOK ==
    /\ team \in Promise!TeamState
    /\ mailbox \in Seq(Messages) /\ Len(mailbox) <= MailboxSize
    /\ wait \in [Clients -> {Idle} \cup
                 [number : Numbers, ask : Promise!Asks, chan : Seq(Promise!Replies)]]
    /\ answer \in [Clients -> Promise!Replies]
    /\ loop \in {"on", "stopped", "cut"}
    /\ calls \in 0 .. MaxCalls

\* The comment of TeamActor: messages are the only way in, and handling them
\* one by one keeps the state consistent.  To its callers the team is one that
\* serves each request at one moment while it is asked; no timer makes a call
\* return what another call was answered (actor.go:12-17, helpers.go:15-29).
Consistent == Promise!Service

\* A team that went through Stopping has closed its members, those that were
\* added after ShutdownMsg had closed the others too (actor.go:83-85, 208-211).
StoppedTeamIsEmpty == loop = "stopped" => DOMAIN team.members = {} /\ team.leader = NoId

\* A team is led by one of its members whenever it has any, however removals,
\* closings, forks and shutdowns follow one another.
TeamIsLed ==
    IF DOMAIN team.members = {} THEN team.leader = NoId
                                ELSE team.leader \in DOMAIN team.members
=============================================================================
