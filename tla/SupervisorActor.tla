---------------------------- MODULE SupervisorActor ----------------------------
(***************************************************************************)
(* SupervisorActor of pkg/actor/supervisor.go: the children it starts from *)
(* its specs, remembers in a map of its own, and stops.  It runs on the    *)
(* runtime of pkg/actor/system.go, reduced to names: a name has a holder,  *)
(* a message goes to whoever holds its name when it is dispatched, and an  *)
(* actor that has ended leaves its name before it is taken, by name, out   *)
(* of its parent's children.                                               *)
(*                                                                         *)
(* A factory may panic.  The strategy of the supervisor's own parent then  *)
(* restarts it, at once or from a timer, which may fire after the          *)
(* supervisor has ended and another one has got its name; or it resumes,   *)
(* stops or escalates.                                                     *)
(* A child may escalate its failure, which brings a Terminated to whoever  *)
(* is called like its parent.                                              *)
(* Props of a spec, if given, are taken to name it as the spec does.       *)
(***************************************************************************)
EXTENDS Naturals, Sequences, FiniteSets

CONSTANTS Supervisors,  \* the incarnations of the supervisor's name
          Nobody,       \* the nil *actorCell
          Specs,        \* config.Children: the names, in order
          Supervisor,   \* the supervisor's name
          Parent,       \* the name of its own parent
          MailboxSize,  \* config.MailboxSize
          InboxSize,    \* of the supervisor's cell.mailbox
          MaxPanics,    \* bound: the times a factory panics
          MaxEscalated, \* bound: the times a child escalates
          MaxCalls      \* bound: the calls of clients

Names == {Specs[i] : i \in DOMAIN Specs}

ASSUME SupervisorAssumption ==
  /\ Nobody \notin Supervisors
  /\ Specs \in Seq(Names) /\ Supervisor \notin Names /\ Parent \notin Names \cup {Supervisor}
  /\ \A i, j \in DOMAIN Specs : Specs[i] = Specs[j] => i = j
  /\ MailboxSize \in Nat /\ InboxSize \in Nat
  /\ MaxPanics \in Nat /\ MaxEscalated \in Nat /\ MaxCalls \in Nat

VARIABLES holder,     \* System.actors, of the supervisor's name
          sup,        \* per supervisor: its goroutine
          known,      \* per supervisor: the names in SupervisorActor.children
          linked,     \* per supervisor: the names in cell.children
          timers,     \* per supervisor: the delayed restarts that wait
          child,      \* System.actors, of the names of the specs
          unlinks,    \* per name: the ended actors still to be unlinked
          mailbox,    \* System.mailbox
          escalated,  \* history: the names whose holder has escalated
          unstopped,  \* history: the names a pill for which was lost
          adrift,     \* history: the supervisors that failed and were resumed,
                      \* or lost a Started or a pill
          panics, escalations, calls   \* for the bounds

vars == <<holder, sup, known, linked, timers, child, unlinks, mailbox,
          escalated, unstopped, adrift, panics, escalations, calls>>
childVars   == <<child, unlinks>>
historyVars == <<escalated, unstopped, adrift>>
boundVars   == <<panics, escalations, calls>>

-----------------------------------------------------------------------------
\* todo: the specs to start; or the names to stop, in any order.
Steps == {"unborn", "select", "starting", "stopping", "cleanup", "ended"}
InLoop(s) == sup[s].step \in {"select", "starting"}
Absent == [owner |-> Nobody, state |-> "absent"]
\* The holder of a name: who spawned it, and whether its pill has arrived.
Children == [owner : Supervisors \cup {Nobody}, state : {"live", "poisoned"}]
Messages == [to : Names \cup {Supervisor}, kind : {"Started", "Pill"}]
       \cup [to : {Supervisor}, kind : {"Terminated"}, who : Names]
       \cup [to : {Parent}, kind : {"Terminated"}, who : {Supervisor}]

SupervisorTypeOK ==
  /\ holder \in Supervisors \cup {Nobody}
  /\ \A s \in Supervisors :
       /\ sup[s].step \in Steps
       /\ sup[s].inbox \in Seq(Messages) /\ Len(sup[s].inbox) <= InboxSize
       /\ sup[s].specs \in Seq(Names) /\ sup[s].names \subseteq Names
  /\ known \in [Supervisors -> SUBSET Names]
  /\ linked \in [Supervisors -> SUBSET Names]
  /\ timers \in [Supervisors -> Nat]
  /\ child \in [Names -> Children \cup {Absent}]
  /\ unlinks \in [Names -> Nat]
  /\ mailbox \in Seq(Messages) /\ Len(mailbox) <= MailboxSize

Init ==
  /\ holder = Nobody
  /\ sup = [s \in Supervisors |->
              [step |-> "unborn", inbox |-> <<>>, specs |-> <<>>, names |-> {}]]
  /\ known = [s \in Supervisors |-> {}]
  /\ linked = [s \in Supervisors |-> {}]
  /\ timers = [s \in Supervisors |-> 0]
  /\ child = [n \in Names |-> Absent]
  /\ unlinks = [n \in Names |-> 0]
  /\ mailbox = <<>>
  /\ escalated = {} /\ unstopped = {} /\ adrift = {}
  /\ panics = 0 /\ escalations = 0 /\ calls = 0

Goto(s, step) == sup' = [sup EXCEPT ![s].step = step]

\* System.Send: a full mailbox loses the message.
HasRoom == Len(mailbox) < MailboxSize
Send(m) == mailbox' = IF HasRoom THEN Append(mailbox, m) ELSE mailbox

\* Two messages, one after the other.
SendBoth(m, n) ==
  LET room == MailboxSize - Len(mailbox)
  IN  mailbox' = mailbox \o SubSeq(<<m, n>>, 1, IF room < 2 THEN room ELSE 2)

Started(n) == [to |-> n, kind |-> "Started"]
Pill(n) == [to |-> n, kind |-> "Pill"]
Terminated(n, who) == [to |-> n, kind |-> "Terminated", who |-> who]

\* The supervisor counts on the last message of these.
LostIf(s, full) == adrift' = IF full THEN adrift \cup {s} ELSE adrift

\* System.Stop: nothing for a name without a holder.
Stop(n) ==
  IF child[n] = Absent THEN UNCHANGED <<mailbox, unstopped>>
  ELSE Send(Pill(n)) /\ unstopped' = IF HasRoom THEN unstopped ELSE unstopped \cup {n}

-----------------------------------------------------------------------------
(* Clients                                                                  *)

Call == calls < MaxCalls /\ calls' = calls + 1

\* A supervisor is spawned under its name, with a new SupervisorActor.
SpawnSupervisor(s) ==
  /\ Call /\ holder = Nobody /\ sup[s].step = "unborn"
  /\ holder' = s
  /\ Goto(s, "select")
  /\ Send(Started(Supervisor))
  /\ UNCHANGED <<known, linked, timers, childVars, historyVars, panics, escalations>>

\* A sibling of the supervisor fails, and all of them are restarted.
RestartSupervisor ==
  /\ Call /\ holder # Nobody
  /\ Send(Started(Supervisor))
  /\ UNCHANGED <<holder, sup, known, linked, timers, childVars, historyVars, panics, escalations>>

StopSupervisor ==
  /\ Call /\ holder # Nobody
  /\ Send(Pill(Supervisor))
  /\ UNCHANGED <<holder, sup, known, linked, timers, childVars, historyVars, panics, escalations>>

\* Somebody else takes the name of a spec, or stops its holder.
SpawnStranger(n) ==
  /\ Call /\ child[n] = Absent
  /\ child' = [child EXCEPT ![n] = [owner |-> Nobody, state |-> "live"]]
  /\ Send(Started(n))
  /\ UNCHANGED <<holder, sup, known, linked, timers, unlinks, historyVars, panics, escalations>>

StopChild(n) ==
  /\ Call /\ child[n] # Absent
  /\ Send(Pill(n))
  /\ UNCHANGED <<holder, sup, known, linked, timers, childVars, historyVars, panics, escalations>>

-----------------------------------------------------------------------------
(* The dispatcher                                                           *)

\* To a child only a pill makes a difference; its own mailbox may be full.
Poisons(m) == m.kind = "Pill" /\ child[m.to].state = "live"
DeliverToChild(m) ==
  /\ \/ ~Poisons(m) /\ UNCHANGED <<child, unstopped>>
     \/ Poisons(m) /\ child' = [child EXCEPT ![m.to].state = "poisoned"] /\ UNCHANGED unstopped
     \/ Poisons(m) /\ unstopped' = unstopped \cup {m.to} /\ UNCHANGED child
  /\ UNCHANGED <<sup, adrift>>

\* A message for an actor that has left its loop is never handled.
DeliverToSupervisor(m) ==
  /\ IF holder # Nobody /\ InLoop(holder)
     THEN LET full == Len(sup[holder].inbox) >= InboxSize
          IN  /\ sup' = IF full THEN sup ELSE [sup EXCEPT ![holder].inbox = Append(@, m)]
              /\ LostIf(holder, full /\ m.kind # "Terminated")
     ELSE UNCHANGED <<sup, adrift>>
  /\ UNCHANGED <<child, unstopped>>

Dispatch ==
  /\ mailbox # <<>> /\ mailbox' = Tail(mailbox)
  /\ LET m == Head(mailbox)
     IN  \/ m.to = Supervisor /\ DeliverToSupervisor(m)
         \/ m.to \in Names /\ DeliverToChild(m)
         \/ m.to = Parent /\ UNCHANGED <<sup, child, unstopped, adrift>>
  /\ UNCHANGED <<holder, known, linked, timers, unlinks, escalated, boundVars>>

-----------------------------------------------------------------------------
(* SupervisorActor.Receive                                                  *)

Takes(s, kind) ==
  /\ sup[s].step = "select" /\ sup[s].inbox # <<>>
  /\ Head(sup[s].inbox).kind = kind

ReceiveStarted(s) ==
  /\ Takes(s, "Started")
  /\ sup' = [sup EXCEPT ![s].step = "starting", ![s].inbox = Tail(@), ![s].specs = Specs]
  /\ UNCHANGED <<holder, known, linked, timers, childVars, mailbox, historyVars, boundVars>>

\* One round of the loop over the specs: Factory, and SpawnWithProps, which
\* returns the holder of the name if there is one, or sends the new one Started.
StartChild(s) ==
  /\ sup[s].step = "starting" /\ sup[s].specs # <<>>
  /\ LET n == Head(sup[s].specs)
     IN  /\ known' = [known EXCEPT ![s] = @ \cup {n}]
         /\ IF child[n] # Absent THEN UNCHANGED <<child, linked, mailbox>>
            ELSE /\ child' = [child EXCEPT ![n] = [owner |-> s, state |-> "live"]]
                 /\ linked' = [linked EXCEPT ![s] = @ \cup {n}]
                 /\ Send(Started(n))
  /\ sup' = [sup EXCEPT ![s].specs = Tail(@)]
  /\ UNCHANGED <<holder, timers, unlinks, historyVars, boundVars>>

AllStarted(s) ==
  /\ sup[s].step = "starting" /\ sup[s].specs = <<>>
  /\ Goto(s, "select")
  /\ UNCHANGED <<holder, known, linked, timers, childVars, mailbox, historyVars, boundVars>>

\* Mutant: a restart does not send Started.
FactoryPanicsUnrestarted(s) ==
  /\ sup[s].step = "starting" /\ sup[s].specs # <<>>
  /\ panics < MaxPanics /\ panics' = panics + 1
  /\ sup' = [sup EXCEPT ![s].step = "select", ![s].specs = <<>>]
  /\ UNCHANGED <<holder, known, linked, timers, childVars, mailbox, historyVars,
                 escalations, calls>>

\* applyDirective for the supervisor, with what the strategy of its own parent
\* has answered.  Receive(Restarting) is ignored by a SupervisorActor.
Directive(s) ==
  \/ /\ Send(Started(Supervisor)) /\ LostIf(s, ~HasRoom)         \* Restart
     /\ UNCHANGED timers
  \/ /\ timers' = [timers EXCEPT ![s] = @ + 1]                    \* ... with a delay
     /\ UNCHANGED <<mailbox, adrift>>
  \/ /\ adrift' = adrift \cup {s}                                 \* Resume
     /\ UNCHANGED <<mailbox, timers>>
  \/ /\ Send(Pill(Supervisor)) /\ LostIf(s, ~HasRoom)            \* Stop
     /\ UNCHANGED timers
  \/ /\ SendBoth(Terminated(Parent, Supervisor), Pill(Supervisor)) \* Escalate
     /\ LostIf(s, Len(mailbox) + 2 > MailboxSize)
     /\ UNCHANGED timers

\* Factory panics half way.
FactoryPanics(s) ==
  /\ sup[s].step = "starting" /\ sup[s].specs # <<>>
  /\ panics < MaxPanics /\ panics' = panics + 1
  /\ sup' = [sup EXCEPT ![s].step = "select", ![s].specs = <<>>]
  /\ Directive(s)
  /\ UNCHANGED <<holder, known, linked, childVars, escalated, unstopped, escalations, calls>>

\* The timer does not ask what has become of its actor.
TimerFires(s) ==
  /\ timers[s] > 0 /\ timers' = [timers EXCEPT ![s] = @ - 1]
  /\ Send(Started(Supervisor)) /\ LostIf(s, ~HasRoom)
  /\ UNCHANGED <<holder, sup, known, linked, childVars, escalated, unstopped, boundVars>>

ReceiveTerminated(s) ==
  /\ Takes(s, "Terminated")
  /\ known' = [known EXCEPT ![s] = @ \ {Head(sup[s].inbox).who}]
  /\ sup' = [sup EXCEPT ![s].inbox = Tail(@)]
  /\ UNCHANGED <<holder, linked, timers, childVars, mailbox, historyVars, boundVars>>

\* Mutant: the children are left to the clean-up.
ReceiveStoppingIdle(s) ==
  /\ Takes(s, "Pill")
  /\ sup' = [sup EXCEPT ![s].step = "stopping", ![s].inbox = <<>>]
  /\ UNCHANGED <<holder, known, linked, timers, childVars, mailbox, historyVars, boundVars>>

\* The pill brings Stopping, and the loop ends.
ReceiveStopping(s) ==
  /\ Takes(s, "Pill")
  /\ sup' = [sup EXCEPT ![s].step = "stopping", ![s].inbox = <<>>, ![s].names = known[s]]
  /\ UNCHANGED <<holder, known, linked, timers, childVars, mailbox, historyVars, boundVars>>

\* The names whose turn is yet to come: of the supervisor's own map, which
\* nobody else changes, or of cell.children, which is read as it is.
ToStop(s) == IF sup[s].step = "cleanup" THEN sup[s].names \cap linked[s] ELSE sup[s].names

\* The same loop twice: in Receive(Stopping) and in cleanupActor.
StopNext(s) ==
  /\ sup[s].step \in {"stopping", "cleanup"}
  /\ \E n \in ToStop(s) :
       /\ sup' = [sup EXCEPT ![s].names = @ \ {n}]
       /\ Stop(n)
  /\ UNCHANGED <<holder, known, linked, timers, childVars, escalated, adrift, boundVars>>

Cleanup(s) ==
  /\ sup[s].step = "stopping" /\ ToStop(s) = {}
  /\ sup' = [sup EXCEPT ![s].step = "cleanup", ![s].names = linked[s]]
  /\ UNCHANGED <<holder, known, linked, timers, childVars, mailbox, historyVars, boundVars>>

Unregister(s) ==
  /\ sup[s].step = "cleanup" /\ ToStop(s) = {}
  /\ Goto(s, "ended") /\ holder' = Nobody
  /\ UNCHANGED <<known, linked, timers, childVars, mailbox, historyVars, boundVars>>

-----------------------------------------------------------------------------
(* The children                                                             *)

Owned(n) == child[n].owner # Nobody

\* Receive panics and the strategy says Escalate: Terminated to the parent's
\* name, and a pill to its own.
Escalate(n) ==
  /\ child[n].state = "live" /\ Owned(n)
  /\ escalations < MaxEscalated /\ escalations' = escalations + 1
  /\ escalated' = escalated \cup {n}
  /\ SendBoth(Terminated(Supervisor, n), Pill(n))
  /\ UNCHANGED <<holder, sup, known, linked, timers, childVars, unstopped, adrift, panics, calls>>

\* The child's loop and clean-up: it leaves the registry ...
ChildEnds(n) ==
  /\ child[n].state = "poisoned"
  /\ child' = [child EXCEPT ![n] = Absent]
  /\ unlinks' = IF Owned(n) THEN [unlinks EXCEPT ![n] = @ + 1] ELSE unlinks
  /\ UNCHANGED <<holder, sup, known, linked, timers, mailbox, historyVars, boundVars>>

\* ... and then the children of whoever has its parent's name.
Unlink(n) ==
  /\ unlinks[n] > 0 /\ unlinks' = [unlinks EXCEPT ![n] = @ - 1]
  /\ linked' = IF holder = Nobody THEN linked ELSE [linked EXCEPT ![holder] = @ \ {n}]
  /\ UNCHANGED <<holder, sup, known, timers, child, mailbox, historyVars, boundVars>>

-----------------------------------------------------------------------------
Step(s) == \/ ReceiveStarted(s) \/ StartChild(s) \/ AllStarted(s) \/ ReceiveTerminated(s)
           \/ ReceiveStopping(s) \/ StopNext(s) \/ Cleanup(s) \/ Unregister(s)

Next ==
  \/ \E s \in Supervisors : SpawnSupervisor(s) \/ FactoryPanics(s) \/ TimerFires(s) \/ Step(s)
  \/ \E n \in Names : \/ SpawnStranger(n) \/ StopChild(n)
                      \/ Escalate(n) \/ ChildEnds(n) \/ Unlink(n)
  \/ RestartSupervisor \/ StopSupervisor \/ Dispatch

\* The goroutines of the runtime and its timers go on; nobody need panic.
Fairness ==
  /\ \A s \in Supervisors : WF_vars(Step(s)) /\ WF_vars(TimerFires(s))
  /\ \A n \in Names : WF_vars(ChildEnds(n)) /\ WF_vars(Unlink(n))
  /\ WF_vars(Dispatch)

Spec == Init /\ [][Next]_vars
FairSpec == Spec /\ Fairness

-----------------------------------------------------------------------------

\* A supervisor that has ended leaves no child of its own behind: none that was
\* not told to stop, although the runtime loses entries of cell.children, names
\* change hands and timers start supervisors that have ended.  The exceptions:
\* a pill was lost, or a child of that name has escalated, whose Terminated may
\* come when its successor is in the map (supervisor.go:356-381, system.go:615).
ToldToStop(n) ==
  \/ child[n].state = "poisoned"
  \/ \E i \in DOMAIN mailbox : mailbox[i] = Pill(n)
NoOrphans ==
  \A n \in Names \ (escalated \cup unstopped) :
    Owned(n) /\ sup[child[n].owner].step = "ended" => ToldToStop(n)

\* A supervisor whose factory panics half way through the specs starts every
\* child in the end, if it was restarted for it, at once or with a delay, and
\* is not stopped (supervisor.go:358-369, system.go:612-646).  The exceptions
\* leave it with the specs before the panic, for good: its failure was resumed,
\* or the Started or the pill that was to follow is lost at a full mailbox
\* (system.go:627-629, 499-508).
SpecsAreStarted ==
  \A s \in Supervisors :
    sup[s].step = "starting" ~> known[s] = Names \/ ~InLoop(s) \/ s \in adrift
=============================================================================
