------------------------- MODULE SupervisorActorProofs -------------------------
(***************************************************************************)
(* Proofs about SupervisorActor, for any specs, any number of incarnations *)
(* and any mailbox: a supervisor that has ended leaves no child behind.    *)
(* The argument never mentions cell.children: the supervisor's own map     *)
(* holds every child it owns, until the pill has been sent to each.        *)
(***************************************************************************)
EXTENDS SupervisorActor, TLAPS

Inboxes == {q \in Seq(Messages) : Len(q) <= InboxSize}
SupRecord == [step : Steps, inbox : Inboxes, specs : Seq(Names), names : SUBSET Names]

Typed == SupervisorTypeOK /\ sup \in [Supervisors -> SupRecord]

\* Terminated comes only from a child that has escalated; the supervisor's own
\* goes to its parent.
Elements(q) == {q[i] : i \in 1 .. Len(q)}
Tells(m) == m.kind = "Terminated" => m.who \in escalated
TerminatedIsTrue ==
  /\ \A m \in Elements(mailbox) : m.to = Parent \/ Tells(m)
  /\ \A s \in Supervisors : \A m \in Elements(sup[s].inbox) : Tells(m)

Open   == {"unborn", "select", "starting"}
Closed == {"cleanup", "ended"}

\* A child is in the map of its owner; from Stopping on it is still to be told
\* to stop, or has been.
Kept(n) ==
  Owned(n) /\ n \notin escalated =>
    LET o == child[n].owner
    IN  /\ sup[o].step \in Open => n \in known[o]
        /\ sup[o].step = "stopping" /\ n \notin unstopped => n \in sup[o].names \/ ToldToStop(n)
        /\ sup[o].step \in Closed /\ n \notin unstopped => ToldToStop(n)

OwnerInv == Typed /\ TerminatedIsTrue /\ \A n \in Names : Kept(n)

-----------------------------------------------------------------------------
(* Queues *)

LEMMA QueueElements ==
  ASSUME NEW q \in Seq(Messages)
  PROVE  /\ Elements(q) \subseteq Messages
         /\ q # <<>> => /\ Head(q) \in Messages /\ Tail(q) \in Seq(Messages)
                        /\ Elements(q) = {Head(q)} \cup Elements(Tail(q))
                        /\ Len(Tail(q)) <= Len(q)
         /\ \A m \in Messages : /\ Append(q, m) \in Seq(Messages)
                                /\ Elements(Append(q, m)) = Elements(q) \cup {m}
                                /\ Len(Append(q, m)) = Len(q) + 1
<1>1. Elements(q) \subseteq Messages
  BY DEF Elements
<1>2. ASSUME q # <<>>
      PROVE  /\ Head(q) \in Messages /\ Tail(q) \in Seq(Messages)
             /\ Elements(q) = {Head(q)} \cup Elements(Tail(q))
             /\ Len(Tail(q)) <= Len(q)
  <2>1. /\ Head(q) \in Messages /\ Tail(q) \in Seq(Messages) /\ Head(q) = q[1]
        /\ Len(q) \in Nat \ {0} /\ Len(Tail(q)) = Len(q) - 1
        /\ \A i \in 1 .. Len(q) - 1 : Tail(q)[i] = q[i + 1]
    BY <1>2
  <2>2. ASSUME NEW i \in 1 .. Len(q) PROVE q[i] \in {Head(q)} \cup Elements(Tail(q))
    <3>1. CASE i = 1
      BY <2>1, <3>1
    <3>2. CASE i # 1
      <4>1. i - 1 \in 1 .. Len(q) - 1 /\ q[i] = Tail(q)[i - 1]
        BY <2>1, <3>2
      <4> QED
        BY <2>1, <4>1 DEF Elements
    <3> QED
      BY <3>1, <3>2
  <2>3. ASSUME NEW i \in 1 .. Len(Tail(q)) PROVE Tail(q)[i] \in Elements(q)
    <3>1. i + 1 \in 1 .. Len(q) /\ Tail(q)[i] = q[i + 1]
      BY <2>1
    <3> QED
      BY <3>1 DEF Elements
  <2>4. Head(q) \in Elements(q)
    <3>1. 1 \in 1 .. Len(q)
      BY <2>1
    <3> QED
      BY <2>1, <3>1 DEF Elements
  <2> QED
    BY <2>1, <2>2, <2>3, <2>4 DEF Elements
<1>3. ASSUME NEW m \in Messages
      PROVE  /\ Append(q, m) \in Seq(Messages)
             /\ Elements(Append(q, m)) = Elements(q) \cup {m}
             /\ Len(Append(q, m)) = Len(q) + 1
  <2> DEFINE r == Append(q, m)
  <2>1. /\ r \in Seq(Messages) /\ Len(q) \in Nat /\ Len(r) = Len(q) + 1
        /\ \A i \in 1 .. Len(q) : r[i] = q[i]
        /\ r[Len(q) + 1] = m
    OBVIOUS
  <2> HIDE DEF r
  <2>2. 1 .. Len(r) = (1 .. Len(q)) \cup {Len(q) + 1}
    BY <2>1
  <2>3. Elements(r) = Elements(q) \cup {m}
    BY <2>1, <2>2 DEF Elements
  <2> QED
    BY <2>1, <2>3 DEF r
<1> QED
  BY <1>1, <1>2, <1>3

LEMMA MessagesAre ==
  /\ \A n \in Names \cup {Supervisor} :
       /\ Started(n) \in Messages /\ Started(n).kind # "Terminated"
       /\ Pill(n) \in Messages /\ Pill(n).kind # "Terminated"
  /\ \A n \in Names : /\ Terminated(Supervisor, n) \in Messages
                      /\ Terminated(Supervisor, n).who = n
  /\ Terminated(Parent, Supervisor) \in Messages /\ Terminated(Parent, Supervisor).to = Parent
  /\ \A m \in Messages : /\ m.to \in Names /\ m.kind = "Pill" => m = Pill(m.to)
                         /\ m.kind = "Terminated" => m.to = Parent \/ m.who \in Names
                         /\ m.to \in Names \cup {Supervisor, Parent}
BY SupervisorAssumption DEF Messages, Started, Pill, Terminated

\* The mailbox only grows, by messages of M and by nothing else.
Grows(M) ==
  /\ mailbox' \in Seq(Messages) /\ Len(mailbox') <= MailboxSize
  /\ Elements(mailbox) \subseteq Elements(mailbox')
  /\ Elements(mailbox') \subseteq Elements(mailbox) \cup M

LEMMA SendGrows ==
  ASSUME Typed, NEW m \in Messages, Send(m)
  PROVE  Grows({m}) /\ (HasRoom => m \in Elements(mailbox'))
<1>1. mailbox \in Seq(Messages) /\ Len(mailbox) <= MailboxSize /\ Len(mailbox) \in Nat
  BY DEF Typed, SupervisorTypeOK
<1>2. CASE HasRoom
  BY <1>1, <1>2, QueueElements, SupervisorAssumption DEF Send, HasRoom, Grows
<1>3. CASE ~HasRoom
  BY <1>1, <1>3 DEF Send, Grows
<1> QED
  BY <1>2, <1>3

LEMMA UnchangedGrows ==
  ASSUME Typed, UNCHANGED mailbox
  PROVE  \A M : Grows(M)
BY DEF Grows, Typed, SupervisorTypeOK

\* Both messages, the first of them, or none.
LEMMA SendBothGrows ==
  ASSUME Typed, NEW t \in Messages, NEW p \in Messages, SendBoth(t, p)
  PROVE  Grows({t, p})
<1> DEFINE ms == <<t, p>>
           room == MailboxSize - Len(mailbox)
           k == IF room < 2 THEN room ELSE 2
<1>1. /\ mailbox' = mailbox \o SubSeq(ms, 1, k)
      /\ mailbox \in Seq(Messages) /\ Len(mailbox) \in Nat /\ Len(mailbox) <= MailboxSize
  BY DEF SendBoth, Typed, SupervisorTypeOK
<1>2. k \in 0 .. 2 /\ Len(mailbox) + k <= MailboxSize
  BY <1>1, SupervisorAssumption
<1>3. ms \in Seq(Messages) /\ Len(ms) = 2 /\ ms[1] = t /\ ms[2] = p
  OBVIOUS
<1> HIDE DEF ms, k
<1> DEFINE r == SubSeq(ms, 1, k)
<1>4. /\ r \in Seq(Messages) /\ Len(r) = k
      /\ \A i \in 1 .. k : r[i] \in {t, p}
  BY <1>2, <1>3
<1>5. mailbox' = mailbox \o r
  BY <1>1
<1> HIDE DEF r
<1>6. /\ mailbox' \in Seq(Messages) /\ Len(mailbox') = Len(mailbox) + k
      /\ \A i \in 1 .. Len(mailbox') :
           mailbox'[i] = IF i <= Len(mailbox) THEN mailbox[i] ELSE r[i - Len(mailbox)]
  BY <1>1, <1>2, <1>4, <1>5
<1>7. Elements(mailbox) \subseteq Elements(mailbox')
  BY <1>1, <1>2, <1>6 DEF Elements
<1>8. ASSUME NEW i \in 1 .. Len(mailbox') PROVE mailbox'[i] \in Elements(mailbox) \cup {t, p}
  <2>1. CASE i <= Len(mailbox)
    BY <1>1, <1>6, <2>1 DEF Elements
  <2>2. CASE ~(i <= Len(mailbox))
    <3>1. i - Len(mailbox) \in 1 .. k
      BY <1>1, <1>2, <1>6, <2>2
    <3> QED
      BY <1>4, <1>6, <2>2, <3>1
  <2> QED
    BY <2>1, <2>2
<1>9. Elements(mailbox') \subseteq Elements(mailbox) \cup {t, p}
  BY <1>8 DEF Elements
<1> QED
  BY <1>2, <1>6, <1>7, <1>9 DEF Grows

\* Stop sends a pill to the holder of the name, or records that it was lost.
LEMMA StopGrows ==
  ASSUME Typed, NEW n \in Names, Stop(n)
  PROVE  /\ Grows({Pill(n)}) /\ unstopped \subseteq unstopped'
         /\ Owned(n) => n \in unstopped' \/ Pill(n) \in Elements(mailbox')
<1>1. CASE child[n] = Absent
  <2>1. Grows({Pill(n)}) /\ unstopped' = unstopped
    BY <1>1, UnchangedGrows DEF Stop
  <2> QED
    BY <1>1, <2>1 DEF Owned, Absent
<1>2. CASE child[n] # Absent
  BY <1>2, SendGrows, MessagesAre DEF Stop
<1> QED
  BY <1>1, <1>2

-----------------------------------------------------------------------------
(* Supervisors *)

Becomes(s, step, inbox, specs, names) ==
  sup' = [sup EXCEPT ![s] = [step |-> step, inbox |-> inbox, specs |-> specs, names |-> names]]

Fits(step, inbox, specs, names) ==
  step \in Steps /\ inbox \in Inboxes /\ specs \in Seq(Names) /\ names \subseteq Names

Became(s, step, inbox, names) ==
  /\ sup' \in [Supervisors -> SupRecord]
  /\ sup'[s].step = step /\ sup'[s].inbox = inbox /\ sup'[s].names = names
  /\ \A o \in Supervisors \ {s} : sup'[o] = sup[o]

LEMMA BecomesTypes ==
  ASSUME Typed, NEW s \in Supervisors, NEW step, NEW inbox, NEW specs, NEW names,
         Fits(step, inbox, specs, names), Becomes(s, step, inbox, specs, names)
  PROVE  Became(s, step, inbox, names)
<1> DEFINE r == [step |-> step, inbox |-> inbox, specs |-> specs, names |-> names]
<1>1. r \in SupRecord /\ r.step = step /\ r.inbox = inbox /\ r.names = names
  BY DEF SupRecord, Fits
<1>2. sup' = [sup EXCEPT ![s] = r]
  BY DEF Becomes
<1> HIDE DEF r
<1> QED
  BY <1>1, <1>2 DEF Typed, Became

LEMMA SupIs ==
  ASSUME Typed, NEW s \in Supervisors
  PROVE  /\ sup[s] = [step |-> sup[s].step, inbox |-> sup[s].inbox, specs |-> sup[s].specs,
                      names |-> sup[s].names]
         /\ sup[s].step \in Steps /\ sup[s].inbox \in Inboxes /\ sup[s].inbox \in Seq(Messages)
         /\ sup[s].specs \in Seq(Names) /\ sup[s].names \in SUBSET Names
BY DEF Typed, SupRecord, Inboxes

\* What the steps of a supervisor make of it.  The whole record that a step leaves behind ...
LEMMA SupBecomes ==
  ASSUME Typed, NEW s \in Supervisors
  PROVE  /\ ReceiveStarted(s) => Becomes(s, "starting", Tail(sup[s].inbox), Specs, sup[s].names)
         /\ StartChild(s) =>
              Becomes(s, sup[s].step, sup[s].inbox, Tail(sup[s].specs), sup[s].names)
         /\ FactoryPanics(s) => Becomes(s, "select", sup[s].inbox, <<>>, sup[s].names)
         /\ ReceiveTerminated(s) =>
              Becomes(s, sup[s].step, Tail(sup[s].inbox), sup[s].specs, sup[s].names)
         /\ ReceiveStopping(s) => Becomes(s, "stopping", <<>>, sup[s].specs, known[s])
         /\ Cleanup(s) => Becomes(s, "cleanup", sup[s].inbox, sup[s].specs, linked[s])
         /\ \A n \in Names : sup' = [sup EXCEPT ![s].names = @ \ {n}] =>
              Becomes(s, sup[s].step, sup[s].inbox, sup[s].specs, sup[s].names \ {n})
         /\ \A step : Goto(s, step) =>
              Becomes(s, step, sup[s].inbox, sup[s].specs, sup[s].names)
         /\ \A m : sup' = [sup EXCEPT ![s].inbox = Append(@, m)] =>
              Becomes(s, sup[s].step, Append(sup[s].inbox, m), sup[s].specs, sup[s].names)
<1> USE SupIs
<1>1. ReceiveStarted(s) => Becomes(s, "starting", Tail(sup[s].inbox), Specs, sup[s].names)
  BY DEF ReceiveStarted, Becomes
<1>2. StartChild(s) => Becomes(s, sup[s].step, sup[s].inbox, Tail(sup[s].specs), sup[s].names)
  BY DEF StartChild, Becomes
<1>3. FactoryPanics(s) => Becomes(s, "select", sup[s].inbox, <<>>, sup[s].names)
  BY DEF FactoryPanics, Becomes
<1>4. ReceiveTerminated(s) =>
        Becomes(s, sup[s].step, Tail(sup[s].inbox), sup[s].specs, sup[s].names)
  BY DEF ReceiveTerminated, Becomes
<1>5. ReceiveStopping(s) => Becomes(s, "stopping", <<>>, sup[s].specs, known[s])
  BY DEF ReceiveStopping, Becomes
<1>6. Cleanup(s) => Becomes(s, "cleanup", sup[s].inbox, sup[s].specs, linked[s])
  BY DEF Cleanup, Becomes
<1>7. \A n \in Names : sup' = [sup EXCEPT ![s].names = @ \ {n}] =>
        Becomes(s, sup[s].step, sup[s].inbox, sup[s].specs, sup[s].names \ {n})
  BY DEF Becomes
<1>8. \A step : Goto(s, step) => Becomes(s, step, sup[s].inbox, sup[s].specs, sup[s].names)
  BY DEF Goto, Becomes
<1>9. \A m : sup' = [sup EXCEPT ![s].inbox = Append(@, m)] =>
        Becomes(s, sup[s].step, Append(sup[s].inbox, m), sup[s].specs, sup[s].names)
  BY DEF Becomes
<1> QED
  BY <1>1, <1>2, <1>3, <1>4, <1>5, <1>6, <1>7, <1>8, <1>9

LEMMA TakesHead ==
  ASSUME Typed, NEW s \in Supervisors, sup[s].inbox # <<>>
  PROVE  /\ Tail(sup[s].inbox) \in Inboxes /\ Head(sup[s].inbox) \in Messages
         /\ Elements(Tail(sup[s].inbox)) \subseteq Elements(sup[s].inbox)
         /\ Head(sup[s].inbox) \in Elements(sup[s].inbox)
<1>1. sup[s].inbox \in Seq(Messages) /\ Len(sup[s].inbox) <= InboxSize
  BY SupIs DEF Inboxes
<1>2. Tail(sup[s].inbox) \in Inboxes
  BY <1>1, SupervisorAssumption DEF Inboxes
<1> QED
  BY <1>1, <1>2, QueueElements

\* ... and what the rest of the proof needs to know of it.
LEMMA SupWays ==
  ASSUME Typed, NEW s \in Supervisors
  PROVE  /\ ReceiveStarted(s) => Became(s, "starting", Tail(sup[s].inbox), sup[s].names)
         /\ StartChild(s) => Became(s, "starting", sup[s].inbox, sup[s].names)
         /\ FactoryPanics(s) => Became(s, "select", sup[s].inbox, sup[s].names)
         /\ ReceiveTerminated(s) => Became(s, "select", Tail(sup[s].inbox), sup[s].names)
         /\ ReceiveStopping(s) => Became(s, "stopping", <<>>, known[s])
         /\ Cleanup(s) => Became(s, "cleanup", sup[s].inbox, linked[s])
         /\ \A n \in Names : sup' = [sup EXCEPT ![s].names = @ \ {n}] =>
              Became(s, sup[s].step, sup[s].inbox, sup[s].names \ {n})
         /\ \A step \in Steps : Goto(s, step) => Became(s, step, sup[s].inbox, sup[s].names)
         /\ \A m \in Messages : Len(sup[s].inbox) < InboxSize
                               /\ sup' = [sup EXCEPT ![s].inbox = Append(@, m)] =>
              Became(s, sup[s].step, Append(sup[s].inbox, m), sup[s].names)
<1>0. /\ sup[s].step \in Steps /\ sup[s].inbox \in Inboxes
      /\ sup[s].specs \in Seq(Names) /\ sup[s].names \subseteq Names
      /\ {"select", "starting", "stopping", "cleanup"} \subseteq Steps
      /\ known[s] \subseteq Names /\ linked[s] \subseteq Names
      /\ <<>> \in Inboxes /\ <<>> \in Seq(Names) /\ Specs \in Seq(Names)
  BY SupIs, SupervisorAssumption DEF Steps, Typed, SupervisorTypeOK, Inboxes
<1>1. ASSUME ReceiveStarted(s) PROVE Became(s, "starting", Tail(sup[s].inbox), sup[s].names)
  <2>1. Becomes(s, "starting", Tail(sup[s].inbox), Specs, sup[s].names) /\ sup[s].inbox # <<>>
    BY <1>1, SupBecomes DEF ReceiveStarted, Takes
  <2>2. Fits("starting", Tail(sup[s].inbox), Specs, sup[s].names)
    BY <1>0, <2>1, TakesHead DEF Fits
  <2> QED
    BY <2>1, <2>2, BecomesTypes
<1>2. ASSUME StartChild(s) PROVE Became(s, "starting", sup[s].inbox, sup[s].names)
  <2>1. /\ Becomes(s, "starting", sup[s].inbox, Tail(sup[s].specs), sup[s].names)
        /\ sup[s].specs # <<>>
    BY <1>2, SupBecomes DEF StartChild
  <2>2. Tail(sup[s].specs) \in Seq(Names)
    BY <1>0, <2>1
  <2>3. Fits("starting", sup[s].inbox, Tail(sup[s].specs), sup[s].names)
    BY <1>0, <2>2 DEF Fits
  <2> QED
    BY <2>1, <2>3, BecomesTypes
<1>3. ASSUME FactoryPanics(s) PROVE Became(s, "select", sup[s].inbox, sup[s].names)
  <2>1. Becomes(s, "select", sup[s].inbox, <<>>, sup[s].names)
    BY <1>3, SupBecomes DEF FactoryPanics
  <2>2. Fits("select", sup[s].inbox, <<>>, sup[s].names)
    BY <1>0 DEF Fits
  <2> QED
    BY <2>1, <2>2, BecomesTypes
<1>4. ASSUME ReceiveTerminated(s) PROVE Became(s, "select", Tail(sup[s].inbox), sup[s].names)
  <2>1. Becomes(s, "select", Tail(sup[s].inbox), sup[s].specs, sup[s].names) /\ sup[s].inbox # <<>>
    BY <1>4, SupBecomes DEF ReceiveTerminated, Takes
  <2>2. Fits("select", Tail(sup[s].inbox), sup[s].specs, sup[s].names)
    BY <1>0, <2>1, TakesHead DEF Fits
  <2> QED
    BY <2>1, <2>2, BecomesTypes
<1>5. ASSUME ReceiveStopping(s) PROVE Became(s, "stopping", <<>>, known[s])
  <2>1. Becomes(s, "stopping", <<>>, sup[s].specs, known[s])
    BY <1>5, SupBecomes DEF ReceiveStopping
  <2>2. Fits("stopping", <<>>, sup[s].specs, known[s])
    BY <1>0 DEF Fits
  <2> QED
    BY <2>1, <2>2, BecomesTypes
<1>6. ASSUME Cleanup(s) PROVE Became(s, "cleanup", sup[s].inbox, linked[s])
  <2>1. Becomes(s, "cleanup", sup[s].inbox, sup[s].specs, linked[s])
    BY <1>6, SupBecomes DEF Cleanup
  <2>2. Fits("cleanup", sup[s].inbox, sup[s].specs, linked[s])
    BY <1>0 DEF Fits
  <2> QED
    BY <2>1, <2>2, BecomesTypes
<1>7. ASSUME NEW n \in Names, sup' = [sup EXCEPT ![s].names = @ \ {n}]
      PROVE  Became(s, sup[s].step, sup[s].inbox, sup[s].names \ {n})
  <2>1. Becomes(s, sup[s].step, sup[s].inbox, sup[s].specs, sup[s].names \ {n})
    BY <1>7, SupBecomes
  <2>2. Fits(sup[s].step, sup[s].inbox, sup[s].specs, sup[s].names \ {n})
    BY <1>0 DEF Fits
  <2> QED
    BY <2>1, <2>2, BecomesTypes
<1>8. ASSUME NEW step \in Steps, Goto(s, step) PROVE Became(s, step, sup[s].inbox, sup[s].names)
  <2>1. Becomes(s, step, sup[s].inbox, sup[s].specs, sup[s].names)
    BY <1>8, SupBecomes DEF Goto
  <2>2. Fits(step, sup[s].inbox, sup[s].specs, sup[s].names)
    BY <1>0 DEF Fits
  <2> QED
    BY <2>1, <2>2, BecomesTypes
<1>9. ASSUME NEW m \in Messages, Len(sup[s].inbox) < InboxSize,
             sup' = [sup EXCEPT ![s].inbox = Append(@, m)]
      PROVE  Became(s, sup[s].step, Append(sup[s].inbox, m), sup[s].names)
  <2>1. Becomes(s, sup[s].step, Append(sup[s].inbox, m), sup[s].specs, sup[s].names)
    BY <1>9, SupBecomes
  <2>2. Append(sup[s].inbox, m) \in Inboxes
    <3>0. sup[s].inbox \in Seq(Messages)
      BY SupIs
    <3>1. sup[s].inbox \in Seq(Messages) /\ Len(sup[s].inbox) \in Nat
      BY <3>0
    <3>2. Append(sup[s].inbox, m) \in Seq(Messages) /\ Len(Append(sup[s].inbox, m)) <= InboxSize
      BY <1>9, <3>1, QueueElements, SupervisorAssumption
    <3> QED
      BY <3>2 DEF Inboxes
  <2>3. Fits(sup[s].step, Append(sup[s].inbox, m), sup[s].specs, sup[s].names)
    BY <1>0, <2>2 DEF Fits
  <2> QED
    BY <2>1, <2>3, BecomesTypes
<1> QED
  BY <1>1, <1>2, <1>3, <1>4, <1>5, <1>6, <1>7, <1>8, <1>9

-----------------------------------------------------------------------------
(* What most steps keep *)

LEMMA TellsStep ==
  ASSUME TerminatedIsTrue, escalated \subseteq escalated',
         \A m \in Elements(mailbox') :
           m \in Elements(mailbox) \/ m.kind # "Terminated" \/ m.to = Parent \/ m.who \in escalated',
         \A s \in Supervisors : \A m \in Elements(sup'[s].inbox) :
           m \in Elements(sup[s].inbox) \/ (m \in Elements(mailbox) /\ m.to # Parent)
  PROVE  TerminatedIsTrue'
BY DEF TerminatedIsTrue, Tells

\* The supervisor goes on, but not from one part of its life to the next.
SamePart(o) ==
  /\ sup'[o].step \in Open <=> sup[o].step \in Open
  /\ sup'[o].step \in Closed <=> sup[o].step \in Closed
  /\ sup'[o].step = "stopping" => sup[o].step = "stopping" /\ sup'[o].names = sup[o].names

\* Nothing happens to the child n, nor to what its owner knows of it.
Calm(n) ==
  Owned(n)' =>
    LET o == child[n].owner
    IN  /\ child'[n].owner = o /\ SamePart(o)
        /\ n \in known[o] => n \in known'[o] \cup escalated'
        /\ ToldToStop(n) => ToldToStop(n)'

LEMMA CalmKeeps ==
  ASSUME NEW n \in Names, Kept(n), Calm(n), escalated \subseteq escalated',
         unstopped \subseteq unstopped'
  PROVE  Kept(n)'
BY DEF Kept, Calm, Owned, SamePart

LEMMA ToldIs ==
  ASSUME Typed, NEW n
  PROVE  ToldToStop(n) <=> child[n].state = "poisoned" \/ Pill(n) \in Elements(mailbox)
<1>1. DOMAIN mailbox = 1 .. Len(mailbox)
  BY DEF Typed, SupervisorTypeOK
<1> QED
  BY <1>1 DEF ToldToStop, Elements

\* As long as the mailbox only grows, nobody forgets a pill.
LEMMA GrowsKeepsTold ==
  ASSUME Typed, NEW M, Grows(M), NEW n \in Names, child'[n] = child[n], ToldToStop(n)
  PROVE  ToldToStop(n)'
<1>1. DOMAIN mailbox' = 1 .. Len(mailbox')
  BY DEF Grows
<1> QED
  BY <1>1, ToldIs DEF Grows, ToldToStop, Elements

\* The owner of a child is a supervisor.
LEMMA OwnerIs ==
  ASSUME Typed, NEW n \in Names
  PROVE  Owned(n) => child[n].owner \in Supervisors
BY DEF Typed, SupervisorTypeOK, Children, Absent, Owned

-----------------------------------------------------------------------------
(* The steps of clients and of the runtime *)

LEMMA ClientStep ==
  ASSUME OwnerInv,
         \/ \E s \in Supervisors : SpawnSupervisor(s) \/ TimerFires(s)
         \/ \E n \in Names : SpawnStranger(n) \/ StopChild(n)
         \/ RestartSupervisor \/ StopSupervisor
  PROVE  OwnerInv'
<1>0. Typed /\ TerminatedIsTrue /\ \A n \in Names : Kept(n)
  BY DEF OwnerInv
<1>1. ASSUME NEW m \in Messages, Grows({m}), m.kind # "Terminated",
             UNCHANGED <<child, known, escalated, unstopped>>,
             \A o \in Supervisors : SamePart(o) /\ sup'[o].inbox = sup[o].inbox
      PROVE  TerminatedIsTrue' /\ \A n \in Names : Kept(n)'
  <2>1. TerminatedIsTrue'
    BY <1>0, <1>1, TellsStep DEF Grows
  <2>2. ASSUME NEW n \in Names PROVE Kept(n)'
    <3>1. Calm(n)
      BY <1>0, <1>1, GrowsKeepsTold, OwnerIs DEF Calm, Owned
    <3> QED
      BY <1>0, <1>1, <3>1, CalmKeeps
  <2> QED
    BY <2>1, <2>2
\* Who only sends.
<1>2. ASSUME NEW m \in Messages, Send(m), m.kind # "Terminated", timers' \in [Supervisors -> Nat],
             UNCHANGED <<holder, sup, child, known, linked, unlinks, escalated, unstopped>>
      PROVE  OwnerInv'
  <2>1. Grows({m})
    BY <1>0, <1>2, SendGrows
  <2>2. \A o \in Supervisors : SamePart(o) /\ sup'[o].inbox = sup[o].inbox
    BY <1>2 DEF SamePart
  <2>3. TerminatedIsTrue' /\ \A n \in Names : Kept(n)'
    BY <1>1, <1>2, <2>1, <2>2
  <2>4. Typed'
    BY <1>0, <1>2, <2>1 DEF Typed, SupervisorTypeOK, Grows
  <2> QED
    BY <2>3, <2>4 DEF OwnerInv
<1>3. /\ Started(Supervisor) \in Messages /\ Started(Supervisor).kind # "Terminated"
      /\ \A n \in Names \cup {Supervisor} : Pill(n) \in Messages /\ Pill(n).kind # "Terminated"
      /\ \A n \in Names : Started(n) \in Messages /\ Started(n).kind # "Terminated"
      /\ timers \in [Supervisors -> Nat]
  BY <1>0, MessagesAre DEF Typed, SupervisorTypeOK
<1>4. ASSUME NEW s \in Supervisors, SpawnSupervisor(s) PROVE OwnerInv'
  <2>1. /\ Grows({Started(Supervisor)})
        /\ UNCHANGED <<child, known, linked, timers, unlinks, escalated, unstopped>>
    BY <1>0, <1>3, <1>4, SendGrows DEF SpawnSupervisor, childVars, historyVars
  <2>2. /\ sup' \in [Supervisors -> SupRecord]
        /\ sup[s].step = "unborn" /\ sup'[s].step = "select" /\ sup'[s].inbox = sup[s].inbox
        /\ \A o \in Supervisors \ {s} : sup'[o] = sup[o]
    <3>1. Goto(s, "select") /\ sup[s].step = "unborn" /\ "select" \in Steps
      BY <1>4 DEF SpawnSupervisor, Steps
    <3>2. Became(s, "select", sup[s].inbox, sup[s].names)
      BY <1>0, <3>1, SupWays
    <3> QED
      BY <3>1, <3>2 DEF Became
  <2>3. \A o \in Supervisors : SamePart(o) /\ sup'[o].inbox = sup[o].inbox
    BY <2>2 DEF SamePart, Open, Closed
  <2>4. TerminatedIsTrue' /\ \A n \in Names : Kept(n)'
    BY <1>1, <1>3, <2>1, <2>3
  <2>5. holder' = s
    BY <1>4 DEF SpawnSupervisor
  <2>6. Typed'
    BY <1>0, <2>1, <2>2, <2>5 DEF Typed, SupervisorTypeOK, SupRecord, Inboxes, Grows
  <2> QED
    BY <2>4, <2>6 DEF OwnerInv
<1>5. ASSUME NEW s \in Supervisors, TimerFires(s) PROVE OwnerInv'
  BY <1>2, <1>3, <1>5 DEF TimerFires, childVars
<1>6. ASSUME NEW n \in Names, StopChild(n) PROVE OwnerInv'
  BY <1>2, <1>3, <1>6 DEF StopChild, childVars, historyVars
<1>7. CASE StopSupervisor
  BY <1>2, <1>3, <1>7 DEF StopSupervisor, childVars, historyVars
<1>8. CASE RestartSupervisor
  BY <1>2, <1>3, <1>8 DEF RestartSupervisor, childVars, historyVars
<1>9. ASSUME NEW n \in Names, SpawnStranger(n) PROVE OwnerInv'
  <2>1. /\ child' = [child EXCEPT ![n] = [owner |-> Nobody, state |-> "live"]]
        /\ Grows({Started(n)})
        /\ UNCHANGED <<holder, sup, known, linked, timers, unlinks, escalated, unstopped>>
    BY <1>0, <1>3, <1>9, SendGrows DEF SpawnStranger, historyVars
  <2>2. /\ child' \in [Names -> Children \cup {Absent}] /\ ~Owned(n)'
        /\ \A k \in Names \ {n} : child'[k] = child[k]
    BY <1>0, <2>1 DEF Typed, SupervisorTypeOK, Children, Owned
  <2>3. ASSUME NEW k \in Names PROVE Kept(k)'
    <3>1. k # n /\ ToldToStop(k) => ToldToStop(k)'
      BY <1>0, <2>1, <2>2, GrowsKeepsTold
    <3>2. Calm(k)
      BY <2>1, <2>2, <3>1 DEF Calm, SamePart
    <3> QED
      BY <1>0, <2>1, <3>2, CalmKeeps
  <2>4. TerminatedIsTrue'
    BY <1>0, <1>3, <2>1, TellsStep DEF Grows
  <2>5. Typed'
    BY <1>0, <2>1, <2>2 DEF Typed, SupervisorTypeOK, Grows
  <2> QED
    BY <2>3, <2>4, <2>5 DEF OwnerInv
<1> QED
  BY <1>4, <1>5, <1>6, <1>7, <1>8, <1>9


\* A message leaves the mailbox: for a child its pill counts, which may be lost.
LEMMA DispatchStep ==
  ASSUME OwnerInv, Dispatch
  PROVE  OwnerInv'
<1>0. Typed /\ TerminatedIsTrue /\ \A n \in Names : Kept(n)
  BY DEF OwnerInv
<1> DEFINE m == Head(mailbox)
<1>1. /\ mailbox # <<>> /\ mailbox' = Tail(mailbox) /\ mailbox \in Seq(Messages)
      /\ Len(mailbox) <= MailboxSize
      /\ UNCHANGED <<holder, known, linked, timers, unlinks, escalated>>
  BY <1>0 DEF Dispatch, Typed, SupervisorTypeOK
<1>2. /\ m \in Messages /\ Tail(mailbox) \in Seq(Messages)
      /\ Elements(mailbox) = {m} \cup Elements(mailbox')
      /\ Len(mailbox') <= Len(mailbox) /\ Len(mailbox) \in Nat /\ Len(mailbox') \in Nat
  BY <1>1, QueueElements
<1>3. Len(mailbox') <= MailboxSize
  BY <1>1, <1>2, SupervisorAssumption
<1>4. \/ m.to = Supervisor /\ DeliverToSupervisor(m)
      \/ m.to \in Names /\ DeliverToChild(m)
      \/ m.to = Parent /\ UNCHANGED <<sup, child, unstopped, adrift>>
  BY DEF Dispatch
<1>5. \A k \in Names : Pill(k).to = k
  BY DEF Pill
<1> HIDE DEF m
\* What a delivery may do.
<1>6. ASSUME sup' \in [Supervisors -> SupRecord], unstopped \subseteq unstopped',
             \A o \in Supervisors :
               /\ sup'[o].step = sup[o].step /\ sup'[o].names = sup[o].names
               /\ \/ sup'[o].inbox = sup[o].inbox
                  \/ Elements(sup'[o].inbox) \subseteq Elements(sup[o].inbox) \cup {m}
                     /\ m.to # Parent,
             child' \in [Names -> Children \cup {Absent}],
             \A k \in Names :
               /\ child'[k].owner = child[k].owner
               /\ \/ child'[k] = child[k] /\ m # Pill(k)
                  \/ child'[k].state = "poisoned" \/ k \in unstopped' \/ ~Owned(k)
      PROVE  OwnerInv'
  <2>1. TerminatedIsTrue'
    BY <1>0, <1>1, <1>2, <1>6, TellsStep
  <2>2. ASSUME NEW k \in Names PROVE Kept(k)'
    <3>1. CASE k \in unstopped'
      BY <1>0, <1>1, <1>6, <3>1, OwnerIs DEF Kept, Owned, Open, Closed
    <3>2. CASE k \notin unstopped'
      <4>1. Owned(k) /\ ToldToStop(k) => ToldToStop(k)'
        <5>1. CASE child'[k].state = "poisoned"
          BY <5>1 DEF ToldToStop
        <5>2. CASE child'[k] = child[k] /\ m # Pill(k)
          <6>1. DOMAIN mailbox' = 1 .. Len(mailbox')
            BY <1>1, <1>2
          <6> QED
            BY <1>0, <1>2, <5>2, <6>1, ToldIs DEF ToldToStop, Elements
        <5> QED
          BY <1>6, <3>2, <5>1, <5>2
      <4>2. Calm(k)
        BY <1>0, <1>1, <1>6, <4>1, OwnerIs DEF Calm, SamePart, Owned
      <4> QED
        BY <1>0, <1>1, <1>6, <4>2, CalmKeeps
    <3> QED
      BY <3>1, <3>2
  <2>3. Typed'
    BY <1>0, <1>1, <1>2, <1>3, <1>6 DEF Typed, SupervisorTypeOK, SupRecord, Inboxes
  <2> QED
    BY <2>1, <2>2, <2>3 DEF OwnerInv
<1>7. child \in [Names -> Children \cup {Absent}] /\ sup \in [Supervisors -> SupRecord]
  BY <1>0 DEF Typed, SupervisorTypeOK
<1>8. CASE m.to = Supervisor /\ DeliverToSupervisor(m)
  <2>1. child' = child /\ unstopped' = unstopped /\ \A k \in Names : m # Pill(k)
    BY <1>5, <1>8, SupervisorAssumption DEF DeliverToSupervisor
  <2>2. m.to # Parent
    BY <1>8, SupervisorAssumption
  <2>3. CASE sup' = sup
    BY <1>6, <1>7, <2>1, <2>3
  <2>4. CASE /\ holder # Nobody /\ Len(sup[holder].inbox) < InboxSize
             /\ sup' = [sup EXCEPT ![holder].inbox = Append(@, m)]
    <3>1. holder \in Supervisors
      BY <1>0, <2>4 DEF Typed, SupervisorTypeOK
    <3>2. Became(holder, sup[holder].step, Append(sup[holder].inbox, m), sup[holder].names)
      BY <1>0, <1>2, <2>4, <3>1, SupWays
    <3>3. Elements(Append(sup[holder].inbox, m)) = Elements(sup[holder].inbox) \cup {m}
      BY <1>0, <1>2, <3>1, SupIs, QueueElements
    <3>4. /\ sup' \in [Supervisors -> SupRecord]
          /\ \A o \in Supervisors :
               /\ sup'[o].step = sup[o].step /\ sup'[o].names = sup[o].names
               /\ \/ sup'[o].inbox = sup[o].inbox
                  \/ Elements(sup'[o].inbox) \subseteq Elements(sup[o].inbox) \cup {m}
      BY <3>2, <3>3 DEF Became
    <3> QED
      BY <1>6, <1>7, <2>1, <2>2, <3>4
  <2>5. \/ sup' = sup
        \/ /\ holder # Nobody /\ ~(Len(sup[holder].inbox) >= InboxSize)
           /\ sup' = [sup EXCEPT ![holder].inbox = Append(@, m)]
    BY <1>8 DEF DeliverToSupervisor
  <2>6. holder # Nobody => Len(sup[holder].inbox) \in Nat
    <3>1. holder # Nobody => holder \in Supervisors
      BY <1>0 DEF Typed, SupervisorTypeOK
    <3>2. holder # Nobody => sup[holder].inbox \in Seq(Messages)
      BY <1>0, <3>1, SupIs
    <3> QED
      BY <3>2
  <2> QED
    BY <2>3, <2>4, <2>5, <2>6, SupervisorAssumption
<1>9. CASE m.to \in Names /\ DeliverToChild(m)
  <2>1. PICK n \in Names : n = m.to
    BY <1>9
  <2>2. sup' = sup /\ \A k \in Names \ {n} : m # Pill(k)
    BY <1>5, <1>9, <2>1 DEF DeliverToChild
  <2>3. child[n] \in Children \cup {Absent}
    BY <1>7
  <2>4. CASE ~Poisons(m) /\ UNCHANGED <<child, unstopped>>
    <3>1. m = Pill(n) => child[n].state = "poisoned" \/ ~Owned(n)
      BY <2>1, <2>3, <2>4 DEF Poisons, Pill, Children, Absent, Owned
    <3> QED
      BY <1>6, <1>7, <2>1, <2>2, <2>4, <3>1
  <2>5. CASE child' = [child EXCEPT ![n].state = "poisoned"] /\ UNCHANGED unstopped /\ Poisons(m)
    <3>1. /\ [child[n] EXCEPT !.state = "poisoned"] = [owner |-> child[n].owner, state |-> "poisoned"]
          /\ child[n].owner \in Supervisors \cup {Nobody}
      BY <2>1, <2>3, <2>5 DEF Children, Absent, Poisons
    <3>2. child' = [child EXCEPT ![n] = [owner |-> child[n].owner, state |-> "poisoned"]]
      BY <2>5, <3>1
    <3>3. /\ child' \in [Names -> Children \cup {Absent}] /\ child'[n].state = "poisoned"
          /\ child'[n].owner = child[n].owner
          /\ \A k \in Names \ {n} : child'[k] = child[k]
      BY <1>7, <3>1, <3>2 DEF Children
    <3> QED
      BY <1>6, <1>7, <2>2, <2>5, <3>3
  <2>6. CASE unstopped' = unstopped \cup {n} /\ UNCHANGED child
    BY <1>6, <1>7, <2>2, <2>6
  <2> QED
    BY <1>9, <2>1, <2>4, <2>5, <2>6 DEF DeliverToChild
<1>10. CASE m.to = Parent /\ UNCHANGED <<sup, child, unstopped, adrift>>
  <2>1. \A k \in Names : m # Pill(k)
    BY <1>5, <1>10, SupervisorAssumption
  <2> QED
    BY <1>6, <1>7, <1>10, <2>1
<1> QED
  BY <1>4, <1>8, <1>9, <1>10

-----------------------------------------------------------------------------
(* The steps of a child *)

LEMMA ChildStep ==
  ASSUME OwnerInv, NEW n \in Names, ChildEnds(n) \/ Unlink(n)
  PROVE  OwnerInv'
<1>0. Typed /\ TerminatedIsTrue /\ \A k \in Names : Kept(k)
  BY DEF OwnerInv
<1>1. UNCHANGED <<holder, sup, known, timers, mailbox, escalated, unstopped>>
  BY DEF ChildEnds, Unlink, historyVars
<1>2. /\ child' \in [Names -> Children \cup {Absent}]
      /\ \A k \in Names : child'[k] = child[k] \/ ~Owned(k)'
  <2>1. child \in [Names -> Children \cup {Absent}]
    BY <1>0 DEF Typed, SupervisorTypeOK
  <2>2. CASE ChildEnds(n)
    BY <2>1, <2>2 DEF ChildEnds, Owned, Absent
  <2>3. CASE Unlink(n)
    BY <2>1, <2>3 DEF Unlink
  <2> QED
    BY <2>2, <2>3
<1>3. unlinks' \in [Names -> Nat] /\ linked' \in [Supervisors -> SUBSET Names]
  <2>1. /\ unlinks \in [Names -> Nat] /\ linked \in [Supervisors -> SUBSET Names]
        /\ holder \in Supervisors \cup {Nobody}
    BY <1>0 DEF Typed, SupervisorTypeOK
  <2>2. CASE ChildEnds(n)
    BY <2>1, <2>2 DEF ChildEnds
  <2>3. CASE Unlink(n)
    BY <2>1, <2>3 DEF Unlink
  <2> QED
    BY <2>2, <2>3
<1>4. TerminatedIsTrue'
  BY <1>0, <1>1, TellsStep
<1>5. ASSUME NEW k \in Names PROVE Kept(k)'
  <2>1. Calm(k)
    BY <1>1, <1>2 DEF Calm, SamePart, ToldToStop
  <2> QED
    BY <1>0, <1>1, <2>1, CalmKeeps
<1>6. Typed'
  BY <1>0, <1>1, <1>2, <1>3 DEF Typed, SupervisorTypeOK
<1> QED
  BY <1>4, <1>5, <1>6 DEF OwnerInv

LEMMA EscalateStep ==
  ASSUME OwnerInv, NEW n \in Names, Escalate(n)
  PROVE  OwnerInv'
<1>0. Typed /\ TerminatedIsTrue /\ \A k \in Names : Kept(k)
  BY DEF OwnerInv
<1>1. /\ UNCHANGED <<holder, sup, known, linked, timers, child, unlinks, unstopped>>
      /\ escalated' = escalated \cup {n}
  BY DEF Escalate, childVars
<1>2. Grows({Terminated(Supervisor, n), Pill(n)})
  BY <1>0, MessagesAre, SendBothGrows DEF Escalate
<1>3. TerminatedIsTrue'
  BY <1>0, <1>1, <1>2, MessagesAre, TellsStep DEF Grows
<1>4. ASSUME NEW k \in Names PROVE Kept(k)'
  <2>1. ToldToStop(k) => ToldToStop(k)'
    BY <1>0, <1>1, <1>2, GrowsKeepsTold
  <2>2. Calm(k)
    BY <1>1, <2>1 DEF Calm, SamePart
  <2> QED
    BY <1>0, <1>1, <2>2, CalmKeeps
<1>5. Typed'
  BY <1>0, <1>1, <1>2 DEF Typed, SupervisorTypeOK, Grows
<1> QED
  BY <1>3, <1>4, <1>5 DEF OwnerInv

-----------------------------------------------------------------------------
(* The steps of a supervisor *)

\* A supervisor that goes on with its own record alone.
Alone(s) == /\ \A o \in Supervisors \ {s} : sup'[o] = sup[o]
            /\ sup' \in [Supervisors -> SupRecord]

LEMMA EmptyQueue ==
  <<>> \in Seq(Messages) /\ <<>> \in Seq(Names) /\ <<>> \in Inboxes /\ Elements(<<>>) = {}
BY SupervisorAssumption DEF Elements, Inboxes

LEMMA AloneTells ==
  ASSUME TerminatedIsTrue, NEW s \in Supervisors, Alone(s), UNCHANGED escalated,
         Elements(sup'[s].inbox) \subseteq Elements(sup[s].inbox),
         \A m \in Elements(mailbox') :
           m \in Elements(mailbox) \/ m.kind # "Terminated" \/ m.to = Parent
  PROVE  TerminatedIsTrue'
<1>1. \A o \in Supervisors : o = s \/ sup'[o] = sup[o]
  BY DEF Alone
<1> QED
  BY <1>1, TellsStep

\* Within one part of its life a supervisor may do anything but give up what it
\* knows of children that have not escalated.
LEMMA SamePartKeeps ==
  ASSUME Typed, NEW s \in Supervisors, Alone(s), SamePart(s), UNCHANGED child,
         escalated \subseteq escalated', unstopped \subseteq unstopped',
         Elements(mailbox) \subseteq Elements(mailbox'), mailbox' \in Seq(Messages),
         \A o \in Supervisors : known[o] \subseteq known'[o] \cup escalated',
         NEW n \in Names, Kept(n)
  PROVE  Kept(n)'
<1>1. \A o \in Supervisors : SamePart(o)
  BY DEF Alone, SamePart
<1>2. ToldToStop(n) => ToldToStop(n)'
  <2>1. DOMAIN mailbox' = 1 .. Len(mailbox')
    OBVIOUS
  <2> QED
    BY <2>1, ToldIs DEF ToldToStop, Elements
<1>3. Calm(n)
  BY <1>1, <1>2, OwnerIs DEF Calm, Owned
<1> QED
  BY <1>3, CalmKeeps

LEMMA StartedStep ==
  ASSUME OwnerInv, NEW s \in Supervisors, ReceiveStarted(s) \/ AllStarted(s) \/ Unregister(s)
  PROVE  OwnerInv'
<1>0. Typed /\ TerminatedIsTrue /\ \A k \in Names : Kept(k)
  BY DEF OwnerInv
<1>1. /\ UNCHANGED <<known, linked, timers, child, unlinks, mailbox, escalated, unstopped>>
      /\ holder' \in {holder, Nobody}
  BY DEF ReceiveStarted, AllStarted, Unregister, childVars, historyVars
<1>2. Alone(s) /\ SamePart(s) /\ Elements(sup'[s].inbox) \subseteq Elements(sup[s].inbox)
  <2>1. CASE ReceiveStarted(s)
    <3>1. /\ sup[s].step = "select" /\ sup[s].inbox # <<>>
          /\ Became(s, "starting", Tail(sup[s].inbox), sup[s].names)
      BY <1>0, <2>1, SupWays DEF ReceiveStarted, Takes
    <3>2. Elements(Tail(sup[s].inbox)) \subseteq Elements(sup[s].inbox)
      BY <1>0, <3>1, TakesHead
    <3> QED
      BY <3>1, <3>2 DEF Alone, SamePart, Open, Closed, Became
  <2>2. ASSUME NEW step \in Steps, Goto(s, step),
               \/ sup[s].step = "starting" /\ step = "select"
               \/ sup[s].step = "cleanup" /\ step = "ended"
        PROVE  Alone(s) /\ SamePart(s) /\ Elements(sup'[s].inbox) \subseteq Elements(sup[s].inbox)
    <3>1. Became(s, step, sup[s].inbox, sup[s].names)
      BY <1>0, <2>2, SupWays
    <3> QED
      BY <2>2, <3>1 DEF Alone, SamePart, Open, Closed, Became
  <2> QED
    BY <2>1, <2>2 DEF AllStarted, Unregister, Steps
<1>3. mailbox \in Seq(Messages)
  BY <1>0 DEF Typed, SupervisorTypeOK
<1>4. TerminatedIsTrue'
  BY <1>0, <1>1, <1>2, AloneTells
<1>5. \A k \in Names : Kept(k)'
  BY <1>0, <1>1, <1>2, <1>3, SamePartKeeps
<1>6. Typed'
  BY <1>0, <1>1, <1>2 DEF Typed, SupervisorTypeOK, SupRecord, Inboxes, Alone
<1> QED
  BY <1>4, <1>5, <1>6 DEF OwnerInv

LEMMA PanicStep ==
  ASSUME OwnerInv, NEW s \in Supervisors, FactoryPanics(s)
  PROVE  OwnerInv'
<1>0. Typed /\ TerminatedIsTrue /\ \A k \in Names : Kept(k)
  BY DEF OwnerInv
<1>1. UNCHANGED <<holder, known, linked, child, unlinks, escalated, unstopped>>
  BY DEF FactoryPanics, childVars
<1>2. /\ Alone(s) /\ SamePart(s) /\ sup'[s].inbox = sup[s].inbox
  <2>1. sup[s].step = "starting" /\ Became(s, "select", sup[s].inbox, sup[s].names)
    BY <1>0, SupWays DEF FactoryPanics
  <2> QED
    BY <2>1 DEF Alone, SamePart, Open, Closed, Became
<1>3. PICK M \in SUBSET Messages :
        /\ Grows(M) /\ \A m \in M : m.kind # "Terminated" \/ m.to = Parent
        /\ timers' \in [Supervisors -> Nat]
  <2>1. timers \in [Supervisors -> Nat]
    BY <1>0 DEF Typed, SupervisorTypeOK
  <2>2. ASSUME NEW m \in Messages, m.kind # "Terminated", Send(m), UNCHANGED timers
        PROVE  \E M \in SUBSET Messages :
                 /\ Grows(M) /\ \A x \in M : x.kind # "Terminated" \/ x.to = Parent
                 /\ timers' \in [Supervisors -> Nat]
    <3>1. Grows({m}) /\ {m} \in SUBSET Messages
      BY <1>0, <2>2, SendGrows
    <3> QED
      BY <2>1, <2>2, <3>1
  <2>3. CASE SendBoth(Terminated(Parent, Supervisor), Pill(Supervisor)) /\ UNCHANGED timers
    <3> DEFINE M == {Terminated(Parent, Supervisor), Pill(Supervisor)}
    <3>1. Grows(M) /\ M \in SUBSET Messages
      BY <1>0, <2>3, MessagesAre, SendBothGrows
    <3>2. \A x \in M : x.kind # "Terminated" \/ x.to = Parent
      BY MessagesAre
    <3> QED
      BY <2>1, <2>3, <3>1, <3>2
  <2>4. CASE UNCHANGED mailbox /\ timers' \in [Supervisors -> Nat]
    <3>1. Grows({})
      BY <1>0, <2>4, UnchangedGrows
    <3> QED
      BY <2>4, <3>1
  <2>5. \/ \E m \in {Started(Supervisor), Pill(Supervisor)} : Send(m) /\ UNCHANGED timers
        \/ SendBoth(Terminated(Parent, Supervisor), Pill(Supervisor)) /\ UNCHANGED timers
        \/ timers' = [timers EXCEPT ![s] = @ + 1] /\ UNCHANGED mailbox
        \/ UNCHANGED <<mailbox, timers>>
    BY DEF FactoryPanics, Directive
  <2>6. [timers EXCEPT ![s] = @ + 1] \in [Supervisors -> Nat]
    BY <2>1
  <2> QED
    BY <2>1, <2>2, <2>3, <2>4, <2>5, <2>6, MessagesAre
<1>4. TerminatedIsTrue'
  BY <1>0, <1>1, <1>2, <1>3, AloneTells DEF Grows
<1>5. \A k \in Names : Kept(k)'
  BY <1>0, <1>1, <1>2, <1>3, SamePartKeeps DEF Grows
<1>6. Typed'
  BY <1>0, <1>1, <1>2, <1>3 DEF Typed, SupervisorTypeOK, SupRecord, Inboxes, Alone, Grows
<1> QED
  BY <1>4, <1>5, <1>6 DEF OwnerInv

\* What a Terminated takes from the map has escalated.
LEMMA TerminatedStep ==
  ASSUME OwnerInv, NEW s \in Supervisors, ReceiveTerminated(s)
  PROVE  OwnerInv'
<1>0. Typed /\ TerminatedIsTrue /\ \A k \in Names : Kept(k)
  BY DEF OwnerInv
<1>1. /\ UNCHANGED <<holder, linked, timers, child, unlinks, mailbox, escalated, unstopped>>
      /\ known' = [known EXCEPT ![s] = @ \ {Head(sup[s].inbox).who}]
      /\ sup[s].inbox # <<>> /\ Head(sup[s].inbox).kind = "Terminated"
  BY DEF ReceiveTerminated, Takes, childVars, historyVars
<1>2. Head(sup[s].inbox).who \in escalated
  BY <1>0, <1>1, TakesHead DEF TerminatedIsTrue, Tells
<1>3. /\ Alone(s) /\ SamePart(s) /\ Elements(sup'[s].inbox) \subseteq Elements(sup[s].inbox)
  <2>1. sup[s].step = "select" /\ Became(s, "select", Tail(sup[s].inbox), sup[s].names)
    BY <1>0, SupWays DEF ReceiveTerminated, Takes
  <2>2. Elements(Tail(sup[s].inbox)) \subseteq Elements(sup[s].inbox)
    BY <1>0, <1>1, TakesHead
  <2> QED
    BY <2>1, <2>2 DEF Alone, SamePart, Open, Closed, Became
<1>4. /\ known' \in [Supervisors -> SUBSET Names] /\ mailbox \in Seq(Messages)
      /\ \A o \in Supervisors : known[o] \subseteq known'[o] \cup escalated
  BY <1>0, <1>1, <1>2 DEF Typed, SupervisorTypeOK
<1>5. TerminatedIsTrue'
  BY <1>0, <1>1, <1>3, AloneTells
<1>6. \A k \in Names : Kept(k)'
  BY <1>0, <1>1, <1>3, <1>4, SamePartKeeps
<1>7. Typed'
  BY <1>0, <1>1, <1>3, <1>4 DEF Typed, SupervisorTypeOK, SupRecord, Inboxes, Alone
<1> QED
  BY <1>5, <1>6, <1>7 DEF OwnerInv

\* The child that is spawned enters the map with it.
LEMMA StartChildStep ==
  ASSUME OwnerInv, NEW s \in Supervisors, StartChild(s)
  PROVE  OwnerInv'
<1>0. Typed /\ TerminatedIsTrue /\ \A k \in Names : Kept(k)
  BY DEF OwnerInv
<1>1. /\ UNCHANGED <<holder, timers, unlinks, escalated, unstopped>>
      /\ sup[s].step = "starting" /\ sup[s].specs # <<>>
  BY DEF StartChild, historyVars
<1>2. sup[s].specs \in Seq(Names)
  BY <1>0, SupIs
<1>3. PICK n \in Names : n = Head(sup[s].specs)
  BY <1>1, <1>2
<1>4. /\ known' = [known EXCEPT ![s] = @ \cup {n}]
      /\ \/ child[n] # Absent /\ UNCHANGED <<child, linked, mailbox>>
         \/ /\ child[n] = Absent /\ Send(Started(n))
            /\ child' = [child EXCEPT ![n] = [owner |-> s, state |-> "live"]]
            /\ linked' = [linked EXCEPT ![s] = @ \cup {n}]
  BY <1>3 DEF StartChild
<1>5. /\ Alone(s) /\ SamePart(s) /\ sup'[s].inbox = sup[s].inbox /\ sup'[s].step = "starting"
  <2>1. Became(s, "starting", sup[s].inbox, sup[s].names)
    BY <1>0, SupWays
  <2> QED
    BY <1>1, <2>1 DEF Alone, SamePart, Open, Closed, Became
<1>6. /\ known' \in [Supervisors -> SUBSET Names] /\ linked' \in [Supervisors -> SUBSET Names]
      /\ \A o \in Supervisors : known[o] \subseteq known'[o]
      /\ n \in known'[s]
      /\ child' \in [Names -> Children \cup {Absent}]
      /\ \A k \in Names \ {n} : child'[k] = child[k]
      /\ child'[n] = child[n] \/ child'[n].owner = s
  <2>1. /\ known \in [Supervisors -> SUBSET Names] /\ linked \in [Supervisors -> SUBSET Names]
        /\ child \in [Names -> Children \cup {Absent}]
    BY <1>0 DEF Typed, SupervisorTypeOK
  <2>2. [owner |-> s, state |-> "live"] \in Children
    BY DEF Children
  <2> QED
    BY <1>4, <2>1, <2>2
<1>7. Grows({Started(n)})
  BY <1>0, <1>4, MessagesAre, SendGrows, UnchangedGrows
<1>8. TerminatedIsTrue'
  BY <1>0, <1>1, <1>5, <1>7, MessagesAre, AloneTells DEF Grows
<1>9. ASSUME NEW k \in Names PROVE Kept(k)'
  <2>1. CASE child'[k] = child[k]
    <3>1. \A o \in Supervisors : SamePart(o)
      BY <1>5 DEF Alone, SamePart
    <3>2. ToldToStop(k) => ToldToStop(k)'
      BY <1>0, <1>7, <2>1, GrowsKeepsTold
    <3>3. Calm(k)
      BY <1>0, <1>1, <1>6, <2>1, <3>1, <3>2, OwnerIs DEF Calm, Owned
    <3> QED
      BY <1>0, <1>1, <3>3, CalmKeeps
  <2>2. CASE k = n /\ child'[n].owner = s
    BY <1>5, <1>6, <2>2 DEF Kept, Closed
  <2> QED
    BY <1>6, <2>1, <2>2
<1>10. Typed'
  BY <1>0, <1>1, <1>5, <1>6, <1>7 DEF Typed, SupervisorTypeOK, SupRecord, Inboxes, Alone, Grows
<1> QED
  BY <1>8, <1>9, <1>10 DEF OwnerInv

\* Stopping: the names still to be told are all that the map holds.
LEMMA StoppingStep ==
  ASSUME OwnerInv, NEW s \in Supervisors, ReceiveStopping(s)
  PROVE  OwnerInv'
<1>0. Typed /\ TerminatedIsTrue /\ \A k \in Names : Kept(k)
  BY DEF OwnerInv
<1>1. /\ UNCHANGED <<holder, known, linked, timers, child, unlinks, mailbox, escalated, unstopped>>
      /\ sup[s].step = "select"
  BY DEF ReceiveStopping, Takes, childVars, historyVars
<1>2. Became(s, "stopping", <<>>, known[s])
  BY <1>0, SupWays
<1>3. Alone(s)
  BY <1>2 DEF Alone, Became
<1>4. TerminatedIsTrue'
  BY <1>0, <1>1, <1>2, <1>3, EmptyQueue, AloneTells DEF Became
<1>5. ASSUME NEW k \in Names PROVE Kept(k)'
  <2>1. CASE child[k].owner = s
    BY <1>0, <1>1, <1>2, <2>1 DEF Kept, Owned, Open, Closed, Became
  <2>2. CASE child[k].owner # s
    <3>1. Calm(k)
      BY <1>0, <1>1, <1>3, <2>2, OwnerIs DEF Calm, Alone, SamePart, Owned, ToldToStop
    <3> QED
      BY <1>0, <1>1, <3>1, CalmKeeps
  <2> QED
    BY <2>1, <2>2
<1>6. Typed'
  BY <1>0, <1>1, <1>3 DEF Typed, SupervisorTypeOK, SupRecord, Inboxes, Alone
<1> QED
  BY <1>4, <1>5, <1>6 DEF OwnerInv

\* A name goes from the list with its pill sent, or lost and recorded.
LEMMA StopNextStep ==
  ASSUME OwnerInv, NEW s \in Supervisors, StopNext(s)
  PROVE  OwnerInv'
<1>0. Typed /\ TerminatedIsTrue /\ \A k \in Names : Kept(k)
  BY DEF OwnerInv
<1>1. /\ UNCHANGED <<holder, known, linked, timers, child, unlinks, escalated>>
      /\ sup[s].step \in {"stopping", "cleanup"} /\ sup[s].names \subseteq Names
  BY <1>0, SupIs DEF StopNext, childVars
<1>2. PICK n \in Names : sup' = [sup EXCEPT ![s].names = @ \ {n}] /\ Stop(n)
  BY <1>1 DEF StopNext, ToStop
<1>3. Became(s, sup[s].step, sup[s].inbox, sup[s].names \ {n})
  BY <1>0, <1>2, SupWays
<1>4. Alone(s) /\ sup'[s].inbox = sup[s].inbox
  BY <1>3 DEF Alone, Became
<1>5. /\ Grows({Pill(n)}) /\ unstopped \subseteq unstopped'
      /\ Owned(n) => n \in unstopped' \/ Pill(n) \in Elements(mailbox')
  BY <1>0, <1>2, StopGrows
<1>6. \A k \in Names : ToldToStop(k) => ToldToStop(k)'
  BY <1>0, <1>1, <1>5, GrowsKeepsTold
<1>7. TerminatedIsTrue'
  BY <1>0, <1>1, <1>4, <1>5, MessagesAre, AloneTells DEF Grows
<1>8. ASSUME NEW k \in Names PROVE Kept(k)'
  <2>1. CASE child[k].owner = s
    <3>1. sup'[s].step = sup[s].step /\ sup'[s].names = sup[s].names \ {n}
      BY <1>3 DEF Became
    <3>2. Pill(k) \in Elements(mailbox') => ToldToStop(k)'
      <4>1. DOMAIN mailbox' = 1 .. Len(mailbox')
        BY <1>5 DEF Grows
      <4> QED
        BY <4>1 DEF Elements, ToldToStop
    <3>3. Owned(k)' <=> Owned(k)
      BY <1>1 DEF Owned
    <3>4. Owned(k) /\ k = n /\ k \notin unstopped' => ToldToStop(k)'
      BY <1>5, <3>2
    <3>5. Owned(k)' /\ k \notin escalated' =>
            /\ sup[s].step = "stopping" /\ k \notin unstopped => k \in sup[s].names \/ ToldToStop(k)
            /\ sup[s].step \in Closed /\ k \notin unstopped => ToldToStop(k)
      BY <1>0, <1>1, <2>1, <3>3 DEF Kept
    <3>6. sup[s].step \notin Open
      BY <1>1 DEF Open
    <3> QED
      BY <1>1, <1>5, <1>6, <2>1, <3>1, <3>3, <3>4, <3>5, <3>6 DEF Kept
  <2>2. CASE child[k].owner # s
    <3>1. Calm(k)
      BY <1>0, <1>1, <1>4, <1>6, <2>2, OwnerIs DEF Calm, Alone, SamePart, Owned
    <3> QED
      BY <1>0, <1>1, <1>5, <3>1, CalmKeeps
  <2> QED
    BY <2>1, <2>2
<1>9. Typed'
  <2>1. mailbox' \in Seq(Messages) /\ Len(mailbox') <= MailboxSize
    BY <1>5 DEF Grows
  <2> QED
    BY <1>0, <1>1, <1>4, <2>1 DEF Typed, SupervisorTypeOK, SupRecord, Inboxes, Alone
<1> QED
  BY <1>7, <1>8, <1>9 DEF OwnerInv

\* With nothing left to tell, everything has been told: what cleanupActor finds
\* in cell.children does not matter.
LEMMA CleanupStep ==
  ASSUME OwnerInv, NEW s \in Supervisors, Cleanup(s)
  PROVE  OwnerInv'
<1>0. Typed /\ TerminatedIsTrue /\ \A k \in Names : Kept(k)
  BY DEF OwnerInv
<1>1. /\ UNCHANGED <<holder, known, linked, timers, child, unlinks, mailbox, escalated, unstopped>>
      /\ sup[s].step = "stopping" /\ sup[s].names = {}
  BY DEF Cleanup, ToStop, childVars, historyVars
<1>2. Became(s, "cleanup", sup[s].inbox, linked[s])
  BY <1>0, SupWays
<1>3. Alone(s) /\ sup'[s].inbox = sup[s].inbox
  BY <1>2 DEF Alone, Became
<1>4. TerminatedIsTrue'
  BY <1>0, <1>1, <1>3, AloneTells
<1>5. ASSUME NEW k \in Names PROVE Kept(k)'
  <2>1. ToldToStop(k)' <=> ToldToStop(k)
    BY <1>1 DEF ToldToStop
  <2>2. CASE child[k].owner = s
    BY <1>0, <1>1, <1>2, <2>1, <2>2 DEF Kept, Owned, Open, Closed, Became
  <2>3. CASE child[k].owner # s
    <3>1. Calm(k)
      BY <1>0, <1>1, <1>3, <2>1, <2>3, OwnerIs DEF Calm, Alone, SamePart, Owned
    <3> QED
      BY <1>0, <1>1, <3>1, CalmKeeps
  <2> QED
    BY <2>2, <2>3
<1>6. Typed'
  BY <1>0, <1>1, <1>3 DEF Typed, SupervisorTypeOK, SupRecord, Inboxes, Alone
<1> QED
  BY <1>4, <1>5, <1>6 DEF OwnerInv

-----------------------------------------------------------------------------
(* The theorems *)

LEMMA OwnerInit ==
  ASSUME Init
  PROVE  OwnerInv
<1>1. Typed
  <2>1. sup \in [Supervisors -> SupRecord]
    BY EmptyQueue DEF Init, SupRecord, Steps
  <2>2. mailbox \in Seq(Messages) /\ Len(mailbox) <= MailboxSize
    BY EmptyQueue, SupervisorAssumption DEF Init
  <2> QED
    BY <2>1, <2>2, SupervisorAssumption DEF Init, Typed, SupervisorTypeOK, SupRecord, Inboxes
<1>2. TerminatedIsTrue
  BY EmptyQueue DEF Init, TerminatedIsTrue
<1>3. \A n \in Names : Kept(n)
  BY DEF Init, Kept, Owned, Absent
<1> QED
  BY <1>1, <1>2, <1>3 DEF OwnerInv

LEMMA OwnerStep ==
  ASSUME OwnerInv, [Next]_vars
  PROVE  OwnerInv'
<1>1. ASSUME NEW s \in Supervisors, SpawnSupervisor(s) \/ TimerFires(s) PROVE OwnerInv'
  BY <1>1, ClientStep
<1>2. ASSUME NEW s \in Supervisors, FactoryPanics(s) PROVE OwnerInv'
  BY <1>2, PanicStep
<1>3. ASSUME NEW s \in Supervisors, Step(s) PROVE OwnerInv'
  BY <1>3, StartedStep, StartChildStep, TerminatedStep, StoppingStep, StopNextStep, CleanupStep
     DEF Step
<1>4. ASSUME NEW n \in Names, SpawnStranger(n) \/ StopChild(n) PROVE OwnerInv'
  BY <1>4, ClientStep
<1>5. ASSUME NEW n \in Names, Escalate(n) PROVE OwnerInv'
  BY <1>5, EscalateStep
<1>6. ASSUME NEW n \in Names, ChildEnds(n) \/ Unlink(n) PROVE OwnerInv'
  BY <1>6, ChildStep
<1>7. CASE RestartSupervisor \/ StopSupervisor
  BY <1>7, ClientStep
<1>8. CASE Dispatch
  BY <1>8, DispatchStep
<1>9. CASE UNCHANGED vars
  BY <1>9 DEF vars, childVars, OwnerInv, Typed, SupervisorTypeOK, SupRecord, TerminatedIsTrue,
              Tells, Elements, Kept, Owned, ToldToStop
<1> QED
  BY <1>1, <1>2, <1>3, <1>4, <1>5, <1>6, <1>7, <1>8, <1>9 DEF Next

\* What a supervisor knows of its children holds in every reachable state.
THEOREM OwnerInvariant == Spec => []OwnerInv
BY OwnerInit, OwnerStep, PTL DEF Spec

\* The variables have their types.
THEOREM SupervisorTypeCorrect == Spec => []SupervisorTypeOK
<1>1. OwnerInv => SupervisorTypeOK
  BY DEF OwnerInv, Typed
<1> QED
  BY <1>1, OwnerInvariant, PTL

\* A supervisor that has ended has told every child it owns to stop, whatever
\* became of its entries in cell.children, of its name and of its timers; except
\* where a pill was lost or a child of that name has escalated.
THEOREM OrphansCorrect == Spec => []NoOrphans
<1>1. OwnerInv => NoOrphans
  BY OwnerIs DEF OwnerInv, NoOrphans, Kept, Closed
<1> QED
  BY <1>1, OwnerInvariant, PTL
===============================================================================
