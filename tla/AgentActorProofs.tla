--------------------------- MODULE AgentActorProofs ---------------------------
(* Proofs about AgentActor, for any agents, subscribers, channels, runs and   *)
(* bounds.  What concerns the channels of the subscribers holds as long as    *)
(* every subscription brings one of its own; the types and the answers of the *)
(* delegated Runs, at the end, hold whatever they bring.                      *)
EXTENDS AgentActor, SequenceTheorems, TLAPS

-----------------------------------------------------------------------------
(* The invariant *)

Types ==
    /\ loop \in [Agents -> {"on", "stopped", "panicked", "cut"}]
    /\ mailbox \in [Agents -> Seq(Message)]
    /\ cancelled \in [Agents -> BOOLEAN]
    /\ subscribers \in [Agents -> [SubscriberIds -> Channels \cup {NoChannel}]]
    /\ closed \subseteq Channels
    /\ listener \in [Channels -> Agents \cup {"new", "sent", "dropped"}]

\* A channel that is on its way to an agent is in one message only.
Offer(a, k) == k \in 1 .. Len(mailbox[a]) /\ mailbox[a][k].op = "subscribe"

OffersInv ==
    /\ \A a \in Agents : \A k \in Nat : Offer(a, k) => listener[mailbox[a][k].chan] = "sent"
    /\ \A a, b \in Agents : \A k, l \in Nat :
           Offer(a, k) /\ Offer(b, l) /\ mailbox[a][k].chan = mailbox[b][l].chan
               => a = b /\ k = l

\* A channel has one subscription, with the agent that accepted it.
SubscribersInv ==
    /\ \A a \in Agents : \A i \in SubscriberIds :
           subscribers[a][i] # NoChannel =>
               listener[subscribers[a][i]] = a /\ subscribers[a][i] \notin closed
    /\ \A a \in Agents : \A i, j \in SubscriberIds :
           subscribers[a][i] # NoChannel /\ subscribers[a][i] = subscribers[a][j] => i = j
    /\ \A c \in Channels : \A a \in Agents :
           listener[c] = a => c \in closed \/ \E i \in SubscriberIds : subscribers[a][i] = c

ClosedInv ==
    \A c \in closed : listener[c] \in Agents /\ cancelled[listener[c]]

StoppedInv ==
    \A a \in Agents : loop[a] = "stopped" =>
        \A i \in SubscriberIds : subscribers[a][i] = NoChannel

\* A broadcast goes to channels that its agent has accepted, and may have
\* dropped since.
Notifies(r, c) ==
    \/ listener[c] = "dropped"
    \/ run[r].agent \in Agents /\ listener[c] = run[r].agent

Shape(x) == {"agent", "todo", "pc"} \subseteq DOMAIN x

RunsInv ==
    /\ run = [r \in Runs |-> run[r]]
    /\ \A r \in Runs :
           /\ Shape(run[r])
           /\ run[r].todo \subseteq Channels
           /\ run[r].pc = "new" => run[r].todo = {}
           /\ run[r].pc = "new" \/ run[r].agent \in Agents
           /\ \A c \in run[r].todo : Notifies(r, c)

\* The Run of a message that waits has an agent.
Good == {m \in Message : m.op \in {"run", "delegate"} => run[m.run].agent \in Agents}
GoodInv == mailbox \in [Agents -> Seq(Good)]

CrashInv == crashed # NoAgent => crashed \in Agents /\ cancelled[crashed]

\* All but GoodInv.
ChannelInv == /\ Types /\ OffersInv /\ SubscribersInv /\ ClosedInv /\ StoppedInv
              /\ RunsInv /\ CrashInv

LEMMA Strings ==
    /\ "new" \notin Agents /\ "sent" \notin Agents /\ "dropped" \notin Agents
    /\ NoAgent \notin Agents /\ NoChannel \notin Channels
BY AgentAssumption

LEMMA MessageIs ==
    \A m \in Message :
        /\ m.op = "subscribe" => m.id \in SubscriberIds /\ m.chan \in Channels
        /\ m.op = "unsubscribe" => m.id \in SubscriberIds
        /\ m.op = "run" => m.run \in Runs
        /\ m.op = "delegate" => m.run \in Runs /\ m.target \in Agents
BY DEF Message

LEMMA ChannelInit == Init => ChannelInv
<1> SUFFICES ASSUME Init PROVE ChannelInv
  OBVIOUS
<1>1. Types
  <2>1. <<>> \in Seq(Message)
    BY EmptySeq
  <2> QED
    BY <2>1 DEF Init, Types
<1>2. OffersInv
  BY DEF Init, OffersInv, Offer
<1>3. SubscribersInv /\ ClosedInv /\ StoppedInv
  BY Strings DEF Init, SubscribersInv, ClosedInv, StoppedInv
<1>4. RunsInv
  BY DEF Init, RunsInv, NewRun, Shape
<1>5. CrashInv
  BY DEF Init, CrashInv
<1> QED
  BY <1>1, <1>2, <1>3, <1>4, <1>5 DEF ChannelInv

-----------------------------------------------------------------------------
(* The mailboxes *)

\* What a step leaves in the mailboxes of the subscriptions on their way: those
\* of a, if it is an agent, less its first message.
Mail(a) ==
    /\ mailbox' \in [Agents -> Seq(Message)]
    /\ \A b \in Agents : \A k \in Nat :
           LET l == IF b = a THEN k + 1 ELSE k
           IN  Offer(b, k)' => Offer(b, l) /\ mailbox'[b][k] = mailbox[b][l]

LEMMA SeqFacts ==
    \A S : \A s \in Seq(S) :
        /\ \A m \in S : /\ Append(s, m) \in Seq(S) /\ Len(Append(s, m)) = Len(s) + 1
                        /\ \A k \in 1 .. Len(s) : Append(s, m)[k] = s[k]
                        /\ Append(s, m)[Len(s) + 1] = m
        /\ s # <<>> => /\ Head(s) \in S /\ Head(s) = s[1] /\ Len(s) > 0
                       /\ Tail(s) \in Seq(S) /\ Len(Tail(s)) = Len(s) - 1
                       /\ \A k \in 1 .. Len(Tail(s)) : Tail(s)[k] = s[k + 1]
        /\ Len(s) \in Nat
BY AppendProperties, HeadTailProperties

LEMMA MailSame == ASSUME Types, UNCHANGED mailbox PROVE Mail(NoAgent)
BY Strings DEF Types, Mail, Offer

LEMMA MailTell ==
    ASSUME Types, NEW a \in Agents, NEW m \in Message, m.op # "subscribe", Tell(a, m)
    PROVE  Mail(NoAgent)
<1>1. CASE UNCHANGED mailbox
  BY <1>1, MailSame
<1>2. CASE mailbox' = [mailbox EXCEPT ![a] = Append(@, m)]
  <2>1. mailbox[a] \in Seq(Message)
    BY DEF Types
  <2>2. mailbox' \in [Agents -> Seq(Message)]
    BY <1>2, <2>1, SeqFacts DEF Types
  <2>3. ASSUME NEW b \in Agents, NEW k \in Nat, Offer(b, k)'
        PROVE  Offer(b, k) /\ mailbox'[b][k] = mailbox[b][k]
    <3>1. CASE b # a
      BY <1>2, <2>3, <3>1 DEF Types, Offer
    <3>2. CASE b = a
      <4>1. mailbox'[a] = Append(mailbox[a], m)
        BY <1>2 DEF Types
      <4>2. k # Len(mailbox[a]) + 1 /\ k \in 1 .. Len(mailbox[a])
        BY <2>1, <2>3, <3>2, <4>1, SeqFacts DEF Offer
      <4> QED
        BY <2>1, <2>3, <3>2, <4>1, <4>2, SeqFacts DEF Offer
    <3> QED
      BY <3>1, <3>2
  <2> QED
    BY <2>2, <2>3, Strings DEF Mail
<1> QED
  BY <1>1, <1>2 DEF Tell

LEMMA TakeShifts ==
    ASSUME Types, NEW a \in Agents, mailbox[a] # <<>>, NEW k \in Nat,
           k \in 1 .. Len(Tail(mailbox[a]))
    PROVE  k + 1 \in 1 .. Len(mailbox[a]) /\ Tail(mailbox[a])[k] = mailbox[a][k + 1]
<1>1. mailbox[a] \in Seq(Message)
  BY DEF Types
<1> QED
  BY <1>1, SeqFacts

LEMMA MailTake ==
    ASSUME Types, NEW a \in Agents, mailbox[a] # <<>>, mailbox' = [mailbox EXCEPT ![a] = Tail(@)]
    PROVE  Mail(a)
<1>1. mailbox' \in [Agents -> Seq(Message)]
  BY SeqFacts DEF Types
<1>2. ASSUME NEW b \in Agents, b # a, NEW k \in Nat, Offer(b, k)'
      PROVE  Offer(b, k) /\ mailbox'[b][k] = mailbox[b][k]
  BY <1>2 DEF Types, Offer
<1>3. ASSUME NEW k \in Nat, Offer(a, k)'
      PROVE  Offer(a, k + 1) /\ mailbox'[a][k] = mailbox[a][k + 1]
  <2>1. mailbox'[a] = Tail(mailbox[a])
    BY DEF Types
  <2> QED
    BY <1>3, <2>1, TakeShifts DEF Offer
<1> QED
  BY <1>1, <1>2, <1>3 DEF Mail

\* A message that is no subscription comes in behind.
LEMMA MailTakeAppend ==
    ASSUME Types, NEW a \in Agents, mailbox[a] # <<>>, NEW b \in Agents,
           NEW m \in Message, m.op # "subscribe", NEW rest,
           rest = [mailbox EXCEPT ![a] = Tail(@)],
           mailbox' = [rest EXCEPT ![b] = Append(@, m)]
    PROVE  Mail(a)
<1>1. rest \in [Agents -> Seq(Message)]
  BY SeqFacts DEF Types
<1>2. mailbox' \in [Agents -> Seq(Message)]
  BY <1>1, SeqFacts
<1>3. ASSUME NEW d \in Agents, NEW k \in Nat, Offer(d, k)'
      PROVE  k \in 1 .. Len(rest[d]) /\ mailbox'[d][k] = rest[d][k]
  <2>1. CASE d # b
    BY <1>1, <1>3, <2>1 DEF Offer
  <2>2. CASE d = b
    <3>1. mailbox'[b] = Append(rest[b], m) /\ rest[b] \in Seq(Message)
      BY <1>1
    <3>2. k # Len(rest[b]) + 1 /\ k \in 1 .. Len(rest[b])
      BY <1>3, <2>2, <3>1, SeqFacts DEF Offer
    <3>3. mailbox'[b][k] = rest[b][k]
      <4>1. \A j \in 1 .. Len(rest[b]) : Append(rest[b], m)[j] = rest[b][j]
        BY <3>1, SeqFacts
      <4> QED
        BY <3>1, <3>2, <4>1
    <3> QED
      BY <2>2, <3>2, <3>3
  <2> QED
    BY <2>1, <2>2
<1>4. ASSUME NEW d \in Agents, d # a, NEW k \in Nat, Offer(d, k)'
      PROVE  Offer(d, k) /\ mailbox'[d][k] = mailbox[d][k]
  <2>1. rest[d] = mailbox[d]
    BY <1>4 DEF Types
  <2>2. k \in 1 .. Len(rest[d]) /\ mailbox'[d][k] = rest[d][k]
    BY <1>3, <1>4
  <2> QED
    BY <1>4, <2>1, <2>2 DEF Offer
<1>5. ASSUME NEW k \in Nat, Offer(a, k)'
      PROVE  Offer(a, k + 1) /\ mailbox'[a][k] = mailbox[a][k + 1]
  <2>1. rest[a] = Tail(mailbox[a])
    BY DEF Types
  <2>2. k \in 1 .. Len(rest[a]) /\ mailbox'[a][k] = rest[a][k]
    BY <1>3, <1>5
  <2>3. k + 1 \in 1 .. Len(mailbox[a]) /\ mailbox'[a][k] = mailbox[a][k + 1]
    BY <2>1, <2>2, TakeShifts
  <2> QED
    BY <1>5, <2>3 DEF Offer
<1>6. ASSUME NEW d \in Agents, NEW k \in Nat
      PROVE  LET l == IF d = a THEN k + 1 ELSE k
             IN  Offer(d, k)' => Offer(d, l) /\ mailbox'[d][k] = mailbox[d][l]
  <2>1. CASE d = a
    BY <1>5, <2>1
  <2>2. CASE d # a
    BY <1>4, <2>2
  <2> QED
    BY <2>1, <2>2
<1> QED
  BY <1>2, <1>6 DEF Mail

LEMMA MailClear ==
    ASSUME Types, NEW a \in Agents, mailbox' = [mailbox EXCEPT ![a] = <<>>]
    PROVE  Mail(NoAgent)
<1>1. mailbox' \in [Agents -> Seq(Message)]
  BY EmptySeq DEF Types
<1>2. ASSUME NEW b \in Agents, NEW k \in Nat, Offer(b, k)'
      PROVE  Offer(b, k) /\ mailbox'[b][k] = mailbox[b][k]
  BY <1>2 DEF Types, Offer
<1> QED
  BY <1>1, <1>2, Strings DEF Mail

\* The subscriptions that are still on their way.
LEMMA OffersKeep ==
    ASSUME OffersInv, NEW a, Mail(a),
           \A b \in Agents : \A k \in Nat :
               Offer(b, k)' => listener'[mailbox'[b][k].chan] = listener[mailbox'[b][k].chan]
    PROVE  OffersInv'
<1> DEFINE At(b, k) == IF b = a THEN k + 1 ELSE k
<1>1. ASSUME NEW b \in Agents, NEW k \in Nat, Offer(b, k)'
      PROVE  Offer(b, At(b, k)) /\ mailbox'[b][k] = mailbox[b][At(b, k)] /\ At(b, k) \in Nat
  BY <1>1 DEF Mail
<1>2. ASSUME NEW b \in Agents, NEW k \in Nat, Offer(b, k)'
      PROVE  listener'[mailbox'[b][k].chan] = "sent"
  BY <1>1, <1>2 DEF OffersInv
<1>3. ASSUME NEW b \in Agents, NEW d \in Agents, NEW k \in Nat, NEW l \in Nat,
             Offer(b, k)', Offer(d, l)', mailbox'[b][k].chan = mailbox'[d][l].chan
      PROVE  b = d /\ k = l
  <2>1. b = d /\ At(b, k) = At(d, l)
    BY <1>1, <1>3 DEF OffersInv
  <2> QED
    BY <2>1
<1> QED
  BY <1>2, <1>3 DEF OffersInv

-----------------------------------------------------------------------------
(* The runs *)

\* A step that leaves the lists of channels and the agents of the runs alone.
Quiet ==
    /\ run' = [r \in Runs |-> run'[r]]
    /\ \A r \in Runs :
           /\ Shape(run'[r])
           /\ run'[r].todo = run[r].todo
           /\ run'[r].agent = run[r].agent
           /\ run'[r].pc = "new" => run[r].pc = "new"
           /\ run'[r].pc = "new" \/ run[r].agent \in Agents

LEMMA QuietSame == ASSUME RunsInv, UNCHANGED run PROVE Quiet
BY DEF RunsInv, Quiet

\* The channels a run still has to notify stay its agent's, or dropped.
LEMMA QuietKeeps ==
    ASSUME RunsInv, Quiet,
           \A r \in Runs : \A c \in Channels : Notifies(r, c) =>
               listener'[c] = "dropped" \/ listener'[c] = listener[c]
    PROVE  RunsInv'
<1>1. ASSUME NEW r \in Runs, NEW c \in run[r].todo PROVE Notifies(r, c)'
  BY DEF RunsInv, Quiet, Notifies
<1> QED
  BY <1>1 DEF RunsInv, Quiet

LEMMA EventQuiet ==
    ASSUME RunsInv, NEW r \in Runs, NEW e, RunEvent(r, e) PROVE Quiet
BY DEF RunsInv, RunEvent, Quiet, Shape

LEMMA RunQuiet ==
    ASSUME RunsInv, NEW r \in Runs,
           \/ RunOver(r) \/ RunForward(r) \/ RunGiveUp(r) \/ RunBroadcastDone(r)
           \/ CancelRun(r) \/ ReadEvent(r)
    PROVE  Quiet
<1>1. CASE RunOver(r)
  BY <1>1 DEF RunsInv, RunOver, Quiet, Shape
<1>2. CASE RunForward(r)
  BY <1>2 DEF RunsInv, RunForward, Quiet, Shape
<1>3. CASE RunGiveUp(r)
  BY <1>3 DEF RunsInv, RunGiveUp, Quiet, Shape
<1>4. CASE RunBroadcastDone(r)
  BY <1>4 DEF RunsInv, RunBroadcastDone, Quiet, Shape
<1>5. CASE CancelRun(r)
  BY <1>5 DEF RunsInv, CancelRun, Quiet, Shape
<1>6. CASE ReadEvent(r)
  BY <1>6 DEF RunsInv, ReadEvent, Quiet, Shape
<1> QED
  BY <1>1, <1>2, <1>3, <1>4, <1>5, <1>6

LEMMA WaiterQuiet == ASSUME RunsInv, NEW r \in Runs, Waiter(r) PROVE Quiet
<1>1. CASE WaiterHears(r)
  BY <1>1 DEF RunsInv, WaiterHears, Quiet, Shape
<1>2. CASE WaiterAnswers(r)
  BY <1>2 DEF RunsInv, WaiterAnswers, Quiet, Shape
<1> QED
  BY <1>1, <1>2 DEF Waiter

-----------------------------------------------------------------------------
(* What the steps do to the subscriptions *)

\* A step that changes neither subscriptions nor what becomes of them.
LEMMA SameSubscriptions ==
    ASSUME ChannelInv, NEW a, Mail(a), Quiet,
           UNCHANGED <<loop, cancelled, subscribers, closed, listener, crashed>>
    PROVE  ChannelInv'
<1>1. Types' /\ SubscribersInv' /\ ClosedInv' /\ StoppedInv' /\ CrashInv'
  BY DEF ChannelInv, Types, Mail, SubscribersInv, ClosedInv, StoppedInv, CrashInv
<1>2. OffersInv'
  BY OffersKeep DEF ChannelInv
<1>3. RunsInv'
  BY QuietKeeps DEF ChannelInv
<1> QED
  BY <1>1, <1>2, <1>3 DEF ChannelInv

\* A message from a client that is no subscription.
LEMMA TellSteps ==
    ASSUME ChannelInv, NEW a \in Agents, NEW m \in Message, m.op # "subscribe",
           Tell(a, m), UNCHANGED listener, Quiet
    PROVE  ChannelInv'
<1>1. Mail(NoAgent)
  BY MailTell DEF ChannelInv
<1> QED
  BY <1>1, SameSubscriptions DEF Tell

LEMMA SendRunStep ==
    ASSUME ChannelInv, NEW a \in Agents, NEW r \in Runs, SendRun(a, r)
    PROVE  ChannelInv'
<1> DEFINE m == [op |-> "run", run |-> r]
<1>1. m \in Message /\ m.op # "subscribe"
  BY DEF Message
<1>2. Mail(NoAgent)
  BY <1>1, MailTell DEF ChannelInv, SendRun
<1>3. UNCHANGED <<loop, cancelled, subscribers, closed, listener, crashed>>
  BY DEF SendRun, Tell
<1>4. RunsInv'
  <2>1. /\ run' = [s \in Runs |-> run'[s]]
        /\ \A s \in Runs : Shape(run'[s]) /\ run'[s].todo = run[s].todo
        /\ \A s \in Runs \ {r} : run'[s] = run[s]
        /\ run[r].todo = {} /\ run'[r].agent \in Agents
    BY DEF SendRun, ChannelInv, RunsInv, Shape
  <2> QED
    BY <2>1, <1>3 DEF ChannelInv, RunsInv, Notifies
<1>5. Types' /\ SubscribersInv' /\ ClosedInv' /\ StoppedInv' /\ CrashInv'
  BY <1>2, <1>3 DEF ChannelInv, Types, Mail, SubscribersInv, ClosedInv, StoppedInv, CrashInv
<1>6. OffersInv'
  BY <1>2, <1>3, OffersKeep DEF ChannelInv
<1> QED
  BY <1>4, <1>5, <1>6 DEF ChannelInv

LEMMA SendDelegateStep ==
    ASSUME ChannelInv, NEW a \in Agents, NEW b \in Agents, NEW r \in Runs, SendDelegate(a, b, r)
    PROVE  ChannelInv'
<1> DEFINE m == [op |-> "delegate", run |-> r, target |-> b]
<1>1. m \in Message /\ m.op # "subscribe"
  BY DEF Message
<1>2. Mail(NoAgent)
  BY <1>1, MailTell DEF ChannelInv, SendDelegate
<1>3. UNCHANGED <<loop, cancelled, subscribers, closed, listener, crashed>>
  BY DEF SendDelegate, Tell
<1>4. RunsInv'
  <2>1. /\ run' = [s \in Runs |-> run'[s]]
        /\ \A s \in Runs : Shape(run'[s]) /\ run'[s].todo = run[s].todo
        /\ \A s \in Runs \ {r} : run'[s] = run[s]
        /\ run[r].todo = {} /\ run'[r].agent \in Agents
    BY DEF SendDelegate, ChannelInv, RunsInv, Shape
  <2> QED
    BY <2>1, <1>3 DEF ChannelInv, RunsInv, Notifies
<1>5. Types' /\ SubscribersInv' /\ ClosedInv' /\ StoppedInv' /\ CrashInv'
  BY <1>2, <1>3 DEF ChannelInv, Types, Mail, SubscribersInv, ClosedInv, StoppedInv, CrashInv
<1>6. OffersInv'
  BY <1>2, <1>3, OffersKeep DEF ChannelInv
<1> QED
  BY <1>4, <1>5, <1>6 DEF ChannelInv

\* A channel of its own: no agent has it, and no message.
LEMMA SendSubscribeStep ==
    ASSUME OwnChannels, ChannelInv, NEW a \in Agents, NEW i \in SubscriberIds, NEW c \in Channels,
           SendSubscribe(a, i, c)
    PROVE  ChannelInv'
<1> DEFINE m == [op |-> "subscribe", id |-> i, chan |-> c]
<1>1. /\ listener[c] = "new" /\ listener' = [listener EXCEPT ![c] = "sent"]
      /\ UNCHANGED <<loop, cancelled, subscribers, closed, crashed, run>>
  BY DEF SendSubscribe, Tell
<1>2. /\ listener' \in [Channels -> Agents \cup {"new", "sent", "dropped"}]
      /\ listener'[c] = "sent"
      /\ \A d \in Channels \ {c} : listener'[d] = listener[d]
  BY <1>1 DEF ChannelInv, Types
<1>3. mailbox' \in [Agents -> Seq(Message)]
  <2>1. m \in Message
    BY DEF Message
  <2> QED
    BY <2>1, SeqFacts DEF ChannelInv, Types, SendSubscribe, Tell
\* What waits in a mailbox waited there before, or is the new message.
<1>4. ASSUME NEW b \in Agents, NEW k \in Nat, Offer(b, k)'
      PROVE  \/ /\ Offer(b, k) /\ mailbox'[b][k] = mailbox[b][k]
                /\ mailbox[b][k].chan \in Channels \ {c}
             \/ b = a /\ k = Len(mailbox[a]) + 1 /\ mailbox'[b][k].chan = c
  <2>1. Offer(b, k) => mailbox[b][k].chan \in Channels \ {c}
    <3>1. Offer(b, k) => mailbox[b][k] \in Message
      BY DEF Offer, ChannelInv, Types
    <3>2. Offer(b, k) => listener[mailbox[b][k].chan] = "sent"
      BY DEF ChannelInv, OffersInv
    <3> QED
      BY <1>1, <3>1, <3>2, MessageIs DEF Offer
  <2>2. CASE mailbox'[b] = mailbox[b]
    BY <1>4, <2>1, <2>2 DEF Offer
  <2>3. CASE b = a /\ mailbox'[a] = Append(mailbox[a], m)
    <3>1. m \in Message /\ mailbox[a] \in Seq(Message)
      BY DEF Message, ChannelInv, Types
    <3>2. /\ k \in 1 .. Len(mailbox[a]) \/ k = Len(mailbox[a]) + 1
          /\ mailbox'[a][Len(mailbox[a]) + 1] = m
          /\ \A l \in 1 .. Len(mailbox[a]) : mailbox'[a][l] = mailbox[a][l]
      BY <1>4, <2>3, <3>1, SeqFacts DEF Offer
    <3> QED
      BY <1>4, <2>1, <2>3, <3>2 DEF Offer
  <2> QED
    BY <2>2, <2>3 DEF SendSubscribe, Tell, ChannelInv, Types
<1>5. OffersInv'
  <2>1. ASSUME NEW b \in Agents, NEW k \in Nat, Offer(b, k)'
        PROVE  listener'[mailbox'[b][k].chan] = "sent"
    BY <1>2, <1>4, <2>1 DEF ChannelInv, OffersInv
  <2>2. ASSUME NEW b \in Agents, NEW d \in Agents, NEW k \in Nat, NEW l \in Nat,
               Offer(b, k)', Offer(d, l)', mailbox'[b][k].chan = mailbox'[d][l].chan
        PROVE  b = d /\ k = l
    BY <1>4, <2>2 DEF ChannelInv, OffersInv
  <2> QED
    BY <2>1, <2>2 DEF OffersInv
<1>6. SubscribersInv' /\ ClosedInv' /\ StoppedInv' /\ CrashInv'
  BY <1>1, <1>2, Strings DEF ChannelInv, Types, SubscribersInv, ClosedInv, StoppedInv, CrashInv
<1>7. RunsInv'
  <2>1. \A r \in Runs : \A d \in Channels : Notifies(r, d) => listener'[d] = listener[d]
    BY <1>1, <1>2, Strings DEF Notifies
  <2> QED
    BY <1>1, <2>1, QuietSame, QuietKeeps DEF ChannelInv
<1> QED
  BY <1>1, <1>2, <1>3, <1>5, <1>6, <1>7 DEF ChannelInv, Types

\* What listener becomes when a subscription is dropped.
LEMMA DropIs ==
    ASSUME ChannelInv, NEW a \in Agents, NEW i \in SubscriberIds
    PROVE  /\ Drop(a, i) \in [Channels -> Agents \cup {"new", "sent", "dropped"}]
           /\ \A c \in Channels : Drop(a, i)[c] =
                  IF c = subscribers[a][i] THEN "dropped" ELSE listener[c]
           /\ \A c \in Channels : c = subscribers[a][i] => listener[c] = a /\ c \notin closed
<1>1. subscribers[a][i] \in Channels => listener[subscribers[a][i]] = a
                                       /\ subscribers[a][i] \notin closed
  BY Strings DEF ChannelInv, SubscribersInv
<1> QED
  BY <1>1 DEF Drop, ChannelInv, Types

LEMMA HeadOffer ==
    ASSUME ChannelInv, NEW a \in Agents, Handles(a, "subscribe")
    PROVE  /\ Head(mailbox[a]).id \in SubscriberIds /\ Head(mailbox[a]).chan \in Channels
           /\ Offer(a, 1) /\ Head(mailbox[a]) = mailbox[a][1]
           /\ listener[Head(mailbox[a]).chan] = "sent"
<1>1. mailbox[a] \in Seq(Message) /\ mailbox[a] # <<>>
  BY DEF ChannelInv, Types, Handles
<1>2. Head(mailbox[a]) \in Message /\ Head(mailbox[a]) = mailbox[a][1] /\ 1 \in 1 .. Len(mailbox[a])
  BY <1>1, SeqFacts
<1>3. Offer(a, 1)
  BY <1>2 DEF Offer, Handles
<1> QED
  BY <1>2, <1>3, MessageIs DEF Handles, ChannelInv, OffersInv

LEMMA SubscribeStep ==
    ASSUME ChannelInv, NEW a \in Agents, HandleSubscribe(a)
    PROVE  ChannelInv'
<1>1. PICK i \in SubscriberIds, c \in Channels :
        /\ i = Head(mailbox[a]).id /\ c = Head(mailbox[a]).chan
        /\ Offer(a, 1) /\ mailbox[a][1].chan = c /\ listener[c] = "sent"
  BY HeadOffer DEF HandleSubscribe
<1>2. /\ subscribers' = [subscribers EXCEPT ![a][i] = c]
      /\ listener' = [Drop(a, i) EXCEPT ![c] = a]
      /\ UNCHANGED <<loop, cancelled, closed, run, crashed>>
      /\ loop[a] = "on" /\ Mail(a)
  BY <1>1, MailTake DEF HandleSubscribe, Handles, ChannelInv
<1>3. /\ listener' \in [Channels -> Agents \cup {"new", "sent", "dropped"}]
      /\ listener'[c] = a
      /\ \A d \in Channels \ {c} :
             listener'[d] = IF d = subscribers[a][i] THEN "dropped" ELSE listener[d]
  BY <1>2, DropIs
<1>4. /\ subscribers' \in [Agents -> [SubscriberIds -> Channels \cup {NoChannel}]]
      /\ subscribers'[a][i] = c
      /\ \A b \in Agents, j \in SubscriberIds :
             b # a \/ j # i => subscribers'[b][j] = subscribers[b][j]
  BY <1>2 DEF ChannelInv, Types
<1>5. Types'
  BY <1>2, <1>3, <1>4 DEF ChannelInv, Types, Mail
<1>6. c \notin closed /\ \A b \in Agents, j \in SubscriberIds : subscribers[b][j] # c
  <2>1. c \notin closed
    BY <1>1, Strings DEF ChannelInv, ClosedInv
  <2>2. ASSUME NEW b \in Agents, NEW j \in SubscriberIds PROVE subscribers[b][j] # c
    BY <1>1, Strings DEF ChannelInv, SubscribersInv
  <2> QED
    BY <2>1, <2>2
<1>7. OffersInv'
  <2>1. ASSUME NEW b \in Agents, NEW k \in Nat, Offer(b, k)'
        PROVE  listener'[mailbox'[b][k].chan] = listener[mailbox'[b][k].chan]
    <3>1. PICK l \in Nat : /\ Offer(b, l) /\ mailbox'[b][k] = mailbox[b][l]
                           /\ ~(b = a /\ l = 1)
      <4>1. CASE b = a
        BY <1>2, <2>1, <4>1, k + 1 \in Nat, k + 1 # 1 \/ k = 0 DEF Mail, Offer
      <4>2. CASE b # a
        BY <1>2, <2>1, <4>2 DEF Mail
      <4> QED
        BY <4>1, <4>2
    <3>2. mailbox[b][l] \in Message /\ mailbox[b][l].op = "subscribe"
      BY <3>1 DEF Offer, ChannelInv, Types
    <3>3. listener[mailbox[b][l].chan] = "sent" /\ mailbox[b][l].chan # c
      BY <1>1, <3>1 DEF ChannelInv, OffersInv
    <3>4. mailbox[b][l].chan \in Channels
      BY <3>2, MessageIs
    <3>5. mailbox[b][l].chan # subscribers[a][i]
      BY <3>3, <3>4, DropIs, Strings
    <3> QED
      BY <1>3, <3>1, <3>3, <3>4, <3>5
  <2> QED
    BY <1>2, <2>1, OffersKeep DEF ChannelInv
<1>8. SubscribersInv'
  <2>1. ASSUME NEW b \in Agents, NEW j \in SubscriberIds, subscribers'[b][j] # NoChannel
        PROVE  listener'[subscribers'[b][j]] = b /\ subscribers'[b][j] \notin closed
    <3>1. CASE b = a /\ j = i
      BY <1>3, <1>4, <1>6, <3>1
    <3>2. CASE b # a \/ j # i
      <4>1. /\ subscribers'[b][j] = subscribers[b][j] /\ subscribers[b][j] \in Channels \ {c}
            /\ listener[subscribers[b][j]] = b /\ subscribers[b][j] \notin closed
        BY <1>4, <1>6, <2>1, <3>2 DEF ChannelInv, Types, SubscribersInv
      <4>2. subscribers[b][j] # subscribers[a][i]
        BY <2>1, <3>2, <4>1, DropIs DEF ChannelInv, SubscribersInv
      <4> QED
        BY <1>3, <4>1, <4>2
    <3> QED
      BY <3>1, <3>2
  <2>2. ASSUME NEW b \in Agents, NEW j \in SubscriberIds, NEW k \in SubscriberIds,
               subscribers'[b][j] # NoChannel, subscribers'[b][j] = subscribers'[b][k]
        PROVE  j = k
    BY <1>4, <1>6, <2>2 DEF ChannelInv, SubscribersInv
  <2>3. ASSUME NEW d \in Channels, NEW b \in Agents, listener'[d] = b
        PROVE  d \in closed \/ \E j \in SubscriberIds : subscribers'[b][j] = d
    <3>1. CASE d = c
      BY <1>3, <1>4, <2>3, <3>1
    <3>2. CASE d # c
      <4>1. d # subscribers[a][i] /\ listener[d] = b
        BY <1>3, <2>3, <3>2, Strings
      <4> QED
        BY <1>4, <4>1 DEF ChannelInv, SubscribersInv
    <3> QED
      BY <3>1, <3>2
  <2> QED
    BY <1>2, <2>1, <2>2, <2>3 DEF SubscribersInv
<1>9. ClosedInv' /\ StoppedInv' /\ CrashInv'
  <2>1. ASSUME NEW d \in closed PROVE listener'[d] = listener[d] /\ d \in Channels
    <3>1. d \in Channels /\ d # c
      BY <1>6 DEF ChannelInv, Types
    <3>2. d # subscribers[a][i]
      BY <3>1, DropIs
    <3> QED
      BY <1>3, <3>1, <3>2
  <2> QED
    BY <1>2, <1>4, <2>1 DEF ChannelInv, ClosedInv, StoppedInv, CrashInv
<1>10. RunsInv'
  <2>1. \A r \in Runs : \A d \in Channels : Notifies(r, d) =>
          listener'[d] = "dropped" \/ listener'[d] = listener[d]
    BY <1>1, <1>3, Strings DEF Notifies
  <2> QED
    BY <1>2, <2>1, QuietSame, QuietKeeps DEF ChannelInv
<1> QED
  BY <1>2, <1>5, <1>7, <1>8, <1>9, <1>10 DEF ChannelInv

LEMMA UnsubscribeStep ==
    ASSUME ChannelInv, NEW a \in Agents, HandleUnsubscribe(a)
    PROVE  ChannelInv'
<1>1. PICK i \in SubscriberIds :
        /\ subscribers' = [subscribers EXCEPT ![a][i] = NoChannel]
        /\ listener' = Drop(a, i)
  <2>1. mailbox[a] \in Seq(Message) /\ mailbox[a] # <<>>
    BY DEF ChannelInv, Types, HandleUnsubscribe, Handles
  <2>2. Head(mailbox[a]) \in Message
    BY <2>1, SeqFacts
  <2>3. Head(mailbox[a]).id \in SubscriberIds
    BY <2>2, MessageIs DEF HandleUnsubscribe, Handles
  <2> QED
    BY <2>3 DEF HandleUnsubscribe
<1>2. /\ UNCHANGED <<loop, cancelled, closed, run, crashed>>
      /\ loop[a] = "on" /\ Mail(a)
  BY MailTake DEF HandleUnsubscribe, Handles, ChannelInv
<1>3. /\ listener' \in [Channels -> Agents \cup {"new", "sent", "dropped"}]
      /\ \A d \in Channels :
             listener'[d] = IF d = subscribers[a][i] THEN "dropped" ELSE listener[d]
  BY <1>1, DropIs
<1>4. /\ subscribers' \in [Agents -> [SubscriberIds -> Channels \cup {NoChannel}]]
      /\ subscribers'[a][i] = NoChannel
      /\ \A b \in Agents, j \in SubscriberIds :
             b # a \/ j # i => subscribers'[b][j] = subscribers[b][j]
  BY <1>1 DEF ChannelInv, Types
<1>5. Types'
  BY <1>2, <1>3, <1>4 DEF ChannelInv, Types, Mail
<1>6. \A d \in Channels : listener[d] = "sent" => listener'[d] = "sent"
  BY <1>3, DropIs, Strings
<1>7. OffersInv'
  <2>1. ASSUME NEW b \in Agents, NEW k \in Nat, Offer(b, k)'
        PROVE  listener'[mailbox'[b][k].chan] = listener[mailbox'[b][k].chan]
    <3>1. PICK l \in Nat : Offer(b, l) /\ mailbox'[b][k] = mailbox[b][l]
      <4>1. CASE b = a
        BY <1>2, <2>1, <4>1, k + 1 \in Nat DEF Mail
      <4>2. CASE b # a
        BY <1>2, <2>1, <4>2 DEF Mail
      <4> QED
        BY <4>1, <4>2
    <3>2. mailbox[b][l] \in Message /\ mailbox[b][l].op = "subscribe"
      BY <3>1 DEF Offer, ChannelInv, Types
    <3>3. listener[mailbox[b][l].chan] = "sent" /\ mailbox[b][l].chan \in Channels
      BY <3>1, <3>2, MessageIs DEF ChannelInv, OffersInv
    <3> QED
      BY <1>6, <3>1, <3>3
  <2> QED
    BY <1>2, <2>1, OffersKeep DEF ChannelInv
<1>8. SubscribersInv'
  <2>1. ASSUME NEW b \in Agents, NEW j \in SubscriberIds, subscribers'[b][j] # NoChannel
        PROVE  listener'[subscribers'[b][j]] = b /\ subscribers'[b][j] \notin closed
    <3>1. b # a \/ j # i
      BY <1>4, <2>1
    <3>2. /\ subscribers'[b][j] = subscribers[b][j] /\ subscribers[b][j] \in Channels
          /\ listener[subscribers[b][j]] = b /\ subscribers[b][j] \notin closed
      BY <1>4, <2>1, <3>1 DEF ChannelInv, Types, SubscribersInv
    <3>3. subscribers[b][j] # subscribers[a][i]
      BY <2>1, <3>1, <3>2, DropIs DEF ChannelInv, SubscribersInv
    <3> QED
      BY <1>3, <3>2, <3>3
  <2>2. ASSUME NEW b \in Agents, NEW j \in SubscriberIds, NEW k \in SubscriberIds,
               subscribers'[b][j] # NoChannel, subscribers'[b][j] = subscribers'[b][k]
        PROVE  j = k
    BY <1>4, <2>2 DEF ChannelInv, SubscribersInv
  <2>3. ASSUME NEW d \in Channels, NEW b \in Agents, listener'[d] = b
        PROVE  d \in closed \/ \E j \in SubscriberIds : subscribers'[b][j] = d
    <3>1. d # subscribers[a][i] /\ listener[d] = b
      BY <1>3, <2>3, Strings
    <3> QED
      BY <1>4, <3>1 DEF ChannelInv, SubscribersInv
  <2> QED
    BY <1>2, <2>1, <2>2, <2>3 DEF SubscribersInv
<1>9. ClosedInv' /\ StoppedInv' /\ CrashInv'
  <2>1. ASSUME NEW d \in closed PROVE listener'[d] = listener[d] /\ d \in Channels
    BY <1>3, DropIs DEF ChannelInv, Types
  <2> QED
    BY <1>2, <1>4, <2>1 DEF ChannelInv, ClosedInv, StoppedInv, CrashInv
<1>10. RunsInv'
  <2>1. \A r \in Runs : \A d \in Channels : Notifies(r, d) =>
          listener'[d] = "dropped" \/ listener'[d] = listener[d]
    BY <1>3
  <2> QED
    BY <1>2, <2>1, QuietSame, QuietKeeps DEF ChannelInv
<1> QED
  BY <1>2, <1>5, <1>7, <1>8, <1>9, <1>10 DEF ChannelInv

-----------------------------------------------------------------------------
(* Stopping *)

\* Since no subscription has a closed channel or that of another, handleStop
\* gets through all of them.
LEMMA CanAlwaysClose ==
    ASSUME SubscribersInv, NEW a \in Agents, NEW done \in SUBSET Subscribed(a)
    PROVE  CanClose(a, done)
BY DEF SubscribersInv, Subscribed, CanClose

LEMMA StopIsComplete ==
    ASSUME SubscribersInv, NEW a \in Agents, NEW done, HandleStop(a, done)
    PROVE  done = Subscribed(a)
<1>1. ASSUME NEW i \in Subscribed(a) \ done PROVE CanClose(a, done \cup {i})
  <2>1. done \cup {i} \in SUBSET Subscribed(a)
    BY DEF HandleStop
  <2> QED
    BY <2>1, CanAlwaysClose
<1> QED
  BY <1>1 DEF HandleStop

LEMMA StopStep ==
    ASSUME ChannelInv, NEW a \in Agents, NEW done, HandleStop(a, done), NEW b, Mail(b),
           loop' \in [Agents -> {"on", "stopped", "panicked", "cut"}],
           \A d \in Agents \ {a} : loop'[d] = loop[d], loop[a] = "on",
           UNCHANGED <<listener, run, crashed>>
    PROVE  ChannelInv'
<1>1. done = Subscribed(a)
  BY StopIsComplete DEF ChannelInv
<1>2. /\ cancelled' \in [Agents -> BOOLEAN] /\ cancelled'[a]
      /\ \A d \in Agents : cancelled[d] => cancelled'[d]
  BY DEF HandleStop, ChannelInv, Types
<1>3. /\ subscribers' \in [Agents -> [SubscriberIds -> Channels \cup {NoChannel}]]
      /\ \A i \in SubscriberIds : subscribers'[a][i] = NoChannel
      /\ \A d \in Agents \ {a} : subscribers'[d] = subscribers[d]
  <2>1. subscribers' = [subscribers EXCEPT ![a] = [i \in SubscriberIds |-> NoChannel]]
    BY <1>1 DEF HandleStop
  <2> QED
    BY <2>1 DEF ChannelInv, Types
<1>4. /\ closed' \subseteq Channels
      /\ \A c \in closed' : c \in closed \/ listener[c] = a
      /\ closed \subseteq closed'
      /\ \A c \in Channels : listener[c] = a => c \in closed'
  <2>1. closed' = closed \cup {subscribers[a][i] : i \in Subscribed(a)}
    BY <1>1 DEF HandleStop
  <2>2. \A i \in Subscribed(a) : subscribers[a][i] \in Channels /\ listener[subscribers[a][i]] = a
    BY DEF Subscribed, ChannelInv, Types, SubscribersInv
  <2>3. ASSUME NEW c \in Channels, listener[c] = a PROVE c \in closed'
    BY <2>1, <2>3, Strings DEF Subscribed, ChannelInv, SubscribersInv
  <2> QED
    BY <2>1, <2>2, <2>3 DEF ChannelInv, Types
<1>5. Types'
  BY <1>2, <1>3, <1>4 DEF ChannelInv, Types, Mail
<1>6. OffersInv'
  BY OffersKeep DEF ChannelInv
<1>7. SubscribersInv'
  <2>1. ASSUME NEW d \in Agents, NEW j \in SubscriberIds, subscribers'[d][j] # NoChannel
        PROVE  listener[subscribers'[d][j]] = d /\ subscribers'[d][j] \notin closed' /\ d # a
    <3>1. d # a /\ subscribers'[d][j] = subscribers[d][j]
      BY <1>3, <2>1
    <3>2. listener[subscribers[d][j]] = d /\ subscribers[d][j] \notin closed
      BY <2>1, <3>1 DEF ChannelInv, SubscribersInv
    <3> QED
      BY <1>4, <3>1, <3>2
  <2>2. ASSUME NEW d \in Agents, NEW j \in SubscriberIds, NEW k \in SubscriberIds,
               subscribers'[d][j] # NoChannel, subscribers'[d][j] = subscribers'[d][k]
        PROVE  j = k
    BY <1>3, <2>1, <2>2 DEF ChannelInv, SubscribersInv
  <2>3. ASSUME NEW c \in Channels, NEW d \in Agents, listener[c] = d
        PROVE  c \in closed' \/ \E j \in SubscriberIds : subscribers'[d][j] = c
    BY <1>3, <1>4, <2>3 DEF ChannelInv, SubscribersInv
  <2> QED
    BY <2>1, <2>2, <2>3 DEF SubscribersInv
<1>8. ClosedInv' /\ CrashInv'
  BY <1>2, <1>4 DEF ChannelInv, ClosedInv, CrashInv
<1>9. StoppedInv'
  BY <1>3 DEF ChannelInv, StoppedInv
<1>10. RunsInv'
  BY QuietSame, QuietKeeps DEF ChannelInv
<1> QED
  BY <1>5, <1>6, <1>7, <1>8, <1>9, <1>10 DEF ChannelInv

LEMMA StopMessageStep ==
    ASSUME ChannelInv, NEW a \in Agents, HandleStopMessage(a) PROVE ChannelInv'
<1>1. PICK done : HandleStop(a, done)
  BY DEF HandleStopMessage
<1>2. mailbox[a] # <<>> /\ loop[a] = "on" /\ UNCHANGED <<loop, listener, run, crashed>>
  BY DEF HandleStopMessage, Handles
<1>3. Mail(a)
  <2> DEFINE m == [op |-> "pill"]
             rest == [mailbox EXCEPT ![a] = Tail(@)]
  <2>1. m \in Message /\ m.op # "subscribe"
    BY DEF Message
  <2>2. CASE mailbox' = rest
    BY <1>2, <2>2, MailTake DEF ChannelInv
  <2>3. CASE mailbox' = [mailbox EXCEPT ![a] = Append(Tail(@), m)]
    <3>1. mailbox' = [rest EXCEPT ![a] = Append(@, m)]
      BY <2>3 DEF ChannelInv, Types
    <3> HIDE DEF m
    <3> QED
      BY <1>2, <2>1, <3>1, MailTakeAppend DEF ChannelInv
  <2> QED
    BY <2>2, <2>3 DEF HandleStopMessage
<1> QED
  BY <1>1, <1>2, <1>3, StopStep DEF ChannelInv, Types

LEMMA PillStep ==
    ASSUME ChannelInv, NEW a \in Agents, HandlePill(a) PROVE ChannelInv'
<1>1. PICK done : /\ HandleStop(a, done)
                  /\ loop' = [loop EXCEPT ![a] = IF done = Subscribed(a)
                                                 THEN "stopped" ELSE "panicked"]
  BY DEF HandlePill
<1>2. loop[a] = "on" /\ UNCHANGED <<listener, run, crashed>>
  BY DEF HandlePill, Handles
<1>3. Mail(NoAgent)
  BY MailClear DEF HandlePill, ChannelInv
<1>4. /\ loop' \in [Agents -> {"on", "stopped", "panicked", "cut"}]
      /\ \A d \in Agents \ {a} : loop'[d] = loop[d]
  BY <1>1 DEF ChannelInv, Types
<1> QED
  BY <1>1, <1>2, <1>3, <1>4, StopStep

LEMMA CancelledStep ==
    ASSUME ChannelInv, NEW a \in Agents, LoopCancelled(a) PROVE ChannelInv'
<1>1. /\ loop' = [loop EXCEPT ![a] = "cut"]
      /\ UNCHANGED <<cancelled, subscribers, closed, listener, run, crashed>>
  BY DEF LoopCancelled
<1>2. Mail(NoAgent)
  BY MailClear DEF LoopCancelled, ChannelInv
<1>3. /\ loop' \in [Agents -> {"on", "stopped", "panicked", "cut"}]
      /\ \A d \in Agents : loop'[d] = "stopped" => loop[d] = "stopped"
  BY <1>1 DEF ChannelInv, Types
<1>4. Types' /\ SubscribersInv' /\ ClosedInv' /\ StoppedInv' /\ CrashInv'
  BY <1>1, <1>2, <1>3 DEF ChannelInv, Types, Mail, SubscribersInv, ClosedInv, StoppedInv, CrashInv
<1>5. OffersInv'
  BY <1>1, <1>2, OffersKeep DEF ChannelInv
<1>6. RunsInv'
  BY <1>1, QuietSame, QuietKeeps DEF ChannelInv
<1> QED
  BY <1>4, <1>5, <1>6 DEF ChannelInv

-----------------------------------------------------------------------------
(* Running *)

LEMMA GoodHead ==
    ASSUME GoodInv, NEW a \in Agents, mailbox[a] # <<>>
    PROVE  /\ Head(mailbox[a]) \in Message /\ Tail(mailbox[a]) \in Seq(Good)
           /\ Head(mailbox[a]).op \in {"run", "delegate"} =>
                  /\ Head(mailbox[a]).run \in Runs
                  /\ run[Head(mailbox[a]).run].agent \in Agents
           /\ Head(mailbox[a]).op = "delegate" => Head(mailbox[a]).target \in Agents
<1>1. Head(mailbox[a]) \in Good /\ Tail(mailbox[a]) \in Seq(Good)
  BY SeqFacts DEF GoodInv
<1> QED
  BY <1>1, MessageIs DEF Good

LEMMA RunStep ==
    ASSUME ChannelInv, GoodInv, NEW a \in Agents, HandleRun(a) PROVE ChannelInv'
<1>1. PICK r \in Runs : run[r].agent \in Agents /\ run' = [run EXCEPT ![r].pc = "waiting"]
  BY GoodHead DEF HandleRun, Handles
<1>2. Quiet
  BY <1>1 DEF ChannelInv, RunsInv, Quiet, Shape
<1>3. Mail(a)
  BY MailTake DEF HandleRun, Handles, ChannelInv
<1> QED
  BY <1>2, <1>3, SameSubscriptions DEF HandleRun

LEMMA DelegateStep ==
    ASSUME ChannelInv, GoodInv, NEW a \in Agents, HandleDelegate(a) PROVE ChannelInv'
<1>1. PICK r \in Runs, b \in Agents :
        /\ r = Head(mailbox[a]).run /\ b = Head(mailbox[a]).target
        /\ run[r].agent \in Agents /\ mailbox[a] # <<>>
  BY GoodHead DEF HandleDelegate, Handles
<1>2. Quiet
  <2>1. CASE run' = [run EXCEPT ![r].answer = {"not found"}, ![r].pc = "lost"]
    BY <1>1, <2>1 DEF ChannelInv, RunsInv, Quiet, Shape
  <2>2. CASE run' = [run EXCEPT ![r].pc = "lost"]
    BY <1>1, <2>2 DEF ChannelInv, RunsInv, Quiet, Shape
  <2>3. CASE UNCHANGED run
    BY <2>3, QuietSame DEF ChannelInv
  <2> QED
    BY <1>1, <2>1, <2>2, <2>3 DEF HandleDelegate
<1>3. Mail(a)
  <2> DEFINE m == [op |-> "run", run |-> r]
             rest == [mailbox EXCEPT ![a] = Tail(@)]
  <2>1. m \in Message /\ m.op # "subscribe"
    BY DEF Message
  <2>2. CASE mailbox' = rest
    BY <1>1, <2>2, MailTake DEF ChannelInv
  <2>3. CASE mailbox' = [rest EXCEPT ![b] = Append(@, m)]
    <3> HIDE DEF m
    <3> QED
      BY <1>1, <2>1, <2>3, MailTakeAppend DEF ChannelInv
  <2> QED
    BY <1>1, <2>2, <2>3 DEF HandleDelegate
<1> QED
  BY <1>2, <1>3, SameSubscriptions DEF HandleDelegate

\* A copy of the subscribers is a set of channels their agent has accepted.
LEMMA ListStep ==
    ASSUME ChannelInv, NEW r \in Runs, RunList(r) PROVE ChannelInv'
<1> DEFINE heard == Range(subscribers[run[r].agent]) \ {NoChannel}
<1>1. run[r].agent \in Agents
  BY DEF RunList, ChannelInv, RunsInv
<1>2. ASSUME NEW c \in heard PROVE c \in Channels /\ listener[c] = run[r].agent
  BY <1>1 DEF Range, ChannelInv, Types, SubscribersInv
<1>3. /\ run' = [s \in Runs |-> run'[s]]
      /\ \A s \in Runs : Shape(run'[s]) /\ run'[s].agent = run[s].agent
      /\ \A s \in Runs \ {r} : run'[s] = run[s]
      /\ run'[r].todo = heard /\ run'[r].pc = "broadcasting"
  BY DEF RunList, ChannelInv, RunsInv, Shape
<1>4. UNCHANGED <<loop, mailbox, cancelled, subscribers, closed, listener, crashed>>
  BY DEF RunList, RunUnchanged
<1>5. RunsInv'
  <2>1. \A c \in run'[r].todo : c \in Channels /\ Notifies(r, c)'
    BY <1>1, <1>2, <1>3, <1>4 DEF Notifies
  <2>2. ASSUME NEW s \in Runs, s # r PROVE \A c \in run'[s].todo : Notifies(s, c)'
    BY <1>3, <1>4, <2>2 DEF Notifies, ChannelInv, RunsInv
  <2> HIDE DEF heard
  <2> QED
    BY <1>1, <1>3, <2>1, <2>2 DEF ChannelInv, RunsInv
<1>6. Types' /\ SubscribersInv' /\ ClosedInv' /\ StoppedInv' /\ CrashInv'
  BY <1>4 DEF ChannelInv, Types, SubscribersInv, ClosedInv, StoppedInv, CrashInv
<1>7. OffersInv'
  BY <1>4 DEF ChannelInv, OffersInv, Offer
<1> QED
  BY <1>5, <1>6, <1>7 DEF ChannelInv

\* If the channel is closed, it is its agent's, which has been stopped.
LEMMA BroadcastStep ==
    ASSUME ChannelInv, NEW r \in Runs, NEW c \in Channels, RunBroadcast(r, c) PROVE ChannelInv'
<1>1. /\ run' = [s \in Runs |-> run'[s]]
      /\ \A s \in Runs : /\ Shape(run'[s]) /\ run'[s].agent = run[s].agent
                         /\ run'[s].pc = run[s].pc /\ run'[s].todo \subseteq run[s].todo
  BY DEF RunBroadcast, ChannelInv, RunsInv, Shape
<1>2. UNCHANGED <<loop, mailbox, cancelled, subscribers, closed, listener>>
  BY DEF RunBroadcast, RunUnchanged
<1>3. CrashInv'
  <2>1. CASE c \in closed /\ crashed' = run[r].agent
    <3>1. Notifies(r, c) /\ listener[c] \in Agents /\ cancelled[listener[c]]
      BY <2>1 DEF RunBroadcast, ChannelInv, RunsInv, ClosedInv
    <3>2. listener[c] = run[r].agent
      BY <3>1, Strings DEF Notifies
    <3> QED
      BY <1>2, <2>1, <3>1, <3>2 DEF CrashInv
  <2>2. CASE UNCHANGED crashed
    BY <1>2, <2>2 DEF ChannelInv, CrashInv
  <2> QED
    BY <2>1, <2>2 DEF RunBroadcast
<1>4. RunsInv'
  BY <1>1, <1>2 DEF ChannelInv, RunsInv, Notifies
<1>5. Types' /\ SubscribersInv' /\ ClosedInv' /\ StoppedInv' /\ OffersInv'
  BY <1>2 DEF ChannelInv, Types, SubscribersInv, ClosedInv, StoppedInv, OffersInv, Offer
<1> QED
  BY <1>3, <1>4, <1>5 DEF ChannelInv

-----------------------------------------------------------------------------
(* Messages carry runs that have an agent *)

AgentsKept == \A r \in Runs : run[r].agent \in Agents => run'[r].agent \in Agents

LEMMA GoodKept ==
    ASSUME GoodInv, AgentsKept PROVE mailbox \in [Agents -> Seq(Good')]
<1>1. Good \subseteq Good'
  BY MessageIs DEF AgentsKept, Good
<1>2. ASSUME NEW a \in Agents PROVE mailbox[a] \in Seq(Good')
  <2>1. mailbox[a] \in Seq(Good)
    BY DEF GoodInv
  <2> HIDE DEF Good
  <2> QED
    BY <1>1, <2>1, SeqDef
<1> QED
  BY <1>2 DEF GoodInv

LEMMA GoodIs ==
    /\ \A m \in Message : m.op \notin {"run", "delegate"} => m \in Good
    /\ \A r \in Runs : run[r].agent \in Agents =>
           /\ [op |-> "run", run |-> r] \in Good
           /\ \A b \in Agents : [op |-> "delegate", run |-> r, target |-> b] \in Good
BY DEF Good, Message

LEMMA MailPut ==
    \A S : \A f \in [Agents -> Seq(S)] : \A a \in Agents : \A m \in S :
        [f EXCEPT ![a] = Append(@, m)] \in [Agents -> Seq(S)]
BY SeqFacts

LEMMA MailNext ==
    \A S : \A f \in [Agents -> Seq(S)] : \A a \in Agents :
        f[a] # <<>> => [f EXCEPT ![a] = Tail(@)] \in [Agents -> Seq(S)]
BY SeqFacts

LEMMA GoodTold ==
    ASSUME GoodInv, AgentsKept, NEW a \in Agents, NEW m \in Good', Tell(a, m) PROVE GoodInv'
<1>1. CASE UNCHANGED mailbox
  BY <1>1, GoodKept DEF GoodInv
<1>2. CASE mailbox' = [mailbox EXCEPT ![a] = Append(@, m)]
  <2>1. mailbox \in [Agents -> Seq(Good')]
    BY GoodKept
  <2> HIDE DEF Good
  <2> QED
    BY <1>2, <2>1, MailPut DEF GoodInv
<1> QED
  BY <1>1, <1>2 DEF Tell

LEMMA GoodTaken ==
    ASSUME GoodInv, AgentsKept, NEW a \in Agents, mailbox[a] # <<>>
    PROVE  [mailbox EXCEPT ![a] = Tail(@)] \in [Agents -> Seq(Good')]
<1>1. mailbox \in [Agents -> Seq(Good')]
  BY GoodKept
<1> HIDE DEF Good
<1> QED
  BY <1>1, MailNext

LEMMA GoodInit == Init => GoodInv
BY EmptySeq DEF Init, GoodInv

LEMMA GoodClient == ASSUME ChannelInv, GoodInv, Client PROVE GoodInv'
<1>1. ASSUME UNCHANGED run PROVE AgentsKept
  BY <1>1 DEF AgentsKept
<1>2. ASSUME NEW a \in Agents, NEW r \in Runs, SendRun(a, r) PROVE GoodInv'
  <2> DEFINE m == [op |-> "run", run |-> r]
  <2>1. AgentsKept /\ run'[r].agent \in Agents
    BY <1>2 DEF SendRun, ChannelInv, RunsInv, Shape, AgentsKept
  <2>2. m \in Good' /\ Tell(a, m)
    BY <1>2, <2>1 DEF SendRun, Good, Message
  <2> HIDE DEF m
  <2> QED
    BY <2>1, <2>2, GoodTold
<1>3. ASSUME NEW a \in Agents, NEW b \in Agents, NEW r \in Runs, SendDelegate(a, b, r)
      PROVE  GoodInv'
  <2> DEFINE m == [op |-> "delegate", run |-> r, target |-> b]
  <2>1. AgentsKept /\ run'[r].agent \in Agents
    BY <1>3 DEF SendDelegate, ChannelInv, RunsInv, Shape, AgentsKept
  <2>2. m \in Good' /\ Tell(a, m)
    BY <1>3, <2>1 DEF SendDelegate, Good, Message
  <2> HIDE DEF m
  <2> QED
    BY <2>1, <2>2, GoodTold
<1>4. ASSUME NEW a \in Agents, NEW m \in Message, m.op \notin {"run", "delegate"},
             Tell(a, m), UNCHANGED run
      PROVE  GoodInv'
  <2>1. m \in Good'
    BY <1>4 DEF Good
  <2> QED
    BY <1>1, <1>4, <2>1, GoodTold
<1>5. ASSUME NEW a \in Agents, NEW i \in SubscriberIds, SendUnsubscribe(a, i) PROVE GoodInv'
  <2>1. [op |-> "unsubscribe", id |-> i] \in Message
    BY DEF Message
  <2> QED
    BY <1>4, <1>5, <2>1 DEF SendUnsubscribe
<1>6. ASSUME NEW a \in Agents, NEW i \in SubscriberIds, NEW c \in Channels,
             SendSubscribe(a, i, c)
      PROVE  GoodInv'
  <2>1. [op |-> "subscribe", id |-> i, chan |-> c] \in Message
    BY DEF Message
  <2> QED
    BY <1>4, <1>6, <2>1 DEF SendSubscribe
<1>7. ASSUME NEW a \in Agents, SendStop(a) \/ SendPill(a) PROVE GoodInv'
  <2>1. [op |-> "stop"] \in Message /\ [op |-> "pill"] \in Message
    BY DEF Message
  <2> QED
    BY <1>4, <1>7, <2>1 DEF SendStop, SendPill
<1>8. ASSUME NEW r \in Runs, CancelRun(r) \/ ReadEvent(r) PROVE GoodInv'
  <2>1. Quiet /\ UNCHANGED mailbox
    BY <1>8, RunQuiet DEF ChannelInv, CancelRun, ReadEvent
  <2> QED
    BY <2>1, GoodKept DEF Quiet, AgentsKept, GoodInv
<1>9. CASE Shutdown
  BY <1>1, <1>9, GoodKept DEF Shutdown, GoodInv
<1> QED
  BY <1>2, <1>3, <1>5, <1>6, <1>7, <1>8, <1>9 DEF Client

LEMMA GoodReceive ==
    ASSUME ChannelInv, GoodInv, NEW a \in Agents, Receive(a) PROVE GoodInv'
<1> DEFINE rest == [mailbox EXCEPT ![a] = Tail(@)]
<1>1. ASSUME UNCHANGED run PROVE AgentsKept
  BY <1>1 DEF AgentsKept
<1>2. ASSUME AgentsKept, mailbox[a] # <<>>, mailbox' = rest PROVE GoodInv'
  BY <1>2, GoodTaken DEF GoodInv
<1>3. CASE HandleRun(a)
  <2>1. PICK r \in Runs : run' = [run EXCEPT ![r].pc = "waiting"]
    BY <1>3, GoodHead DEF HandleRun, Handles
  <2>2. AgentsKept
    BY <2>1 DEF AgentsKept, ChannelInv, RunsInv, Shape
  <2> QED
    BY <1>2, <1>3, <2>2 DEF HandleRun, Handles
<1>4. CASE HandleDelegate(a)
  <2>1. PICK r \in Runs, b \in Agents :
          /\ r = Head(mailbox[a]).run /\ b = Head(mailbox[a]).target
          /\ run[r].agent \in Agents /\ mailbox[a] # <<>>
    BY <1>4, GoodHead DEF HandleDelegate, Handles
  <2>2. AgentsKept
    <3>1. CASE run' = [run EXCEPT ![r].answer = {"not found"}, ![r].pc = "lost"]
      BY <3>1 DEF AgentsKept, ChannelInv, RunsInv, Shape
    <3>2. CASE run' = [run EXCEPT ![r].pc = "lost"]
      BY <3>2 DEF AgentsKept, ChannelInv, RunsInv, Shape
    <3> QED
      BY <1>1, <1>4, <2>1, <3>1, <3>2 DEF HandleDelegate
  <2>3. CASE mailbox' = rest
    BY <1>2, <2>1, <2>2, <2>3
  <2>4. CASE mailbox' = [rest EXCEPT ![b] = Append(@, [op |-> "run", run |-> r])]
    <3> DEFINE m == [op |-> "run", run |-> r]
    <3>1. m \in Good'
      BY <2>1, <2>2 DEF AgentsKept, Good, Message
    <3>2. rest \in [Agents -> Seq(Good')]
      BY <2>1, <2>2, GoodTaken
    <3> HIDE DEF m, rest, Good
    <3> QED
      BY <2>4, <3>1, <3>2, MailPut DEF GoodInv, m
  <2> QED
    BY <1>4, <2>1, <2>3, <2>4 DEF HandleDelegate
<1>5. CASE HandleSubscribe(a) \/ HandleUnsubscribe(a)
  BY <1>1, <1>2, <1>5 DEF HandleSubscribe, HandleUnsubscribe, Handles
<1>6. CASE HandleStopMessage(a)
  <2> DEFINE m == [op |-> "pill"]
  <2>1. mailbox[a] # <<>> /\ UNCHANGED run
    BY <1>6 DEF HandleStopMessage, Handles
  <2>2. CASE mailbox' = rest
    BY <1>1, <1>2, <2>1, <2>2
  <2>3. CASE mailbox' = [mailbox EXCEPT ![a] = Append(Tail(@), m)]
    <3>1. mailbox' = [rest EXCEPT ![a] = Append(@, m)]
      BY <2>3 DEF GoodInv
    <3>2. m \in Good'
      BY DEF Good, Message
    <3>3. rest \in [Agents -> Seq(Good')]
      BY <1>1, <2>1, GoodTaken
    <3> HIDE DEF m, rest, Good
    <3> QED
      BY <3>1, <3>2, <3>3, MailPut DEF GoodInv
  <2> QED
    BY <1>6, <2>2, <2>3 DEF HandleStopMessage
<1>7. CASE HandlePill(a) \/ LoopCancelled(a)
  <2>1. UNCHANGED run /\ mailbox' = [mailbox EXCEPT ![a] = <<>>]
    BY <1>7 DEF HandlePill, LoopCancelled
  <2>2. mailbox \in [Agents -> Seq(Good')] /\ <<>> \in Seq(Good')
    BY <1>1, <2>1, GoodKept, EmptySeq
  <2> HIDE DEF Good
  <2> QED
    BY <2>1, <2>2 DEF GoodInv
<1> QED
  BY <1>3, <1>4, <1>5, <1>6, <1>7 DEF Receive

LEMMA GoodGoroutine ==
    ASSUME ChannelInv, GoodInv, NEW r \in Runs, RunGoroutine(r) \/ Waiter(r) PROVE GoodInv'
<1>1. UNCHANGED mailbox
  BY DEF RunGoroutine, Waiter, RunUnchanged, RunEvent, RunOver, RunForward, RunGiveUp,
         RunList, RunBroadcast, RunBroadcastDone, WaiterHears, WaiterAnswers
<1>2. AgentsKept
  <2>1. CASE RunList(r)
    BY <2>1 DEF RunList, AgentsKept, ChannelInv, RunsInv, Shape
  <2>2. CASE \E c \in Channels : RunBroadcast(r, c)
    BY <2>2 DEF RunBroadcast, AgentsKept, ChannelInv, RunsInv, Shape
  <2>3. CASE Quiet
    BY <2>3 DEF Quiet, AgentsKept
  <2> QED
    BY <2>1, <2>2, <2>3, EventQuiet, RunQuiet, WaiterQuiet DEF RunGoroutine, ChannelInv
<1> QED
  BY <1>1, <1>2, GoodKept DEF GoodInv

-----------------------------------------------------------------------------
(* Every step *)

LEMMA ClientStep == ASSUME OwnChannels, ChannelInv, Client PROVE ChannelInv'
<1>1. ASSUME NEW a \in Agents, NEW m \in Message, m.op # "subscribe",
             Tell(a, m), UNCHANGED <<run, listener>>
      PROVE  ChannelInv'
  <2>1. Quiet
    BY <1>1, QuietSame DEF ChannelInv
  <2> QED
    BY <1>1, <2>1, TellSteps
<1>2. ASSUME NEW a \in Agents, NEW i \in SubscriberIds, SendUnsubscribe(a, i)
      PROVE  ChannelInv'
  <2>1. [op |-> "unsubscribe", id |-> i] \in Message
    BY DEF Message
  <2> QED
    BY <1>1, <1>2, <2>1 DEF SendUnsubscribe
<1>3. ASSUME NEW a \in Agents, SendStop(a) \/ SendPill(a) PROVE ChannelInv'
  <2>1. [op |-> "stop"] \in Message /\ [op |-> "pill"] \in Message
    BY DEF Message
  <2> QED
    BY <1>1, <1>3, <2>1 DEF SendStop, SendPill
<1>4. ASSUME NEW r \in Runs, CancelRun(r) \/ ReadEvent(r) PROVE ChannelInv'
  <2>1. Quiet /\ Mail(NoAgent)
    BY <1>4, RunQuiet, MailSame DEF ChannelInv, CancelRun, ReadEvent
  <2> QED
    BY <1>4, <2>1, SameSubscriptions DEF CancelRun, ReadEvent
<1>5. CASE Shutdown
  <2>1. Quiet /\ Mail(NoAgent)
    BY <1>5, QuietSame, MailSame DEF ChannelInv, Shutdown
  <2> QED
    BY <1>5, <2>1, SameSubscriptions DEF Shutdown
<1> QED
  BY <1>2, <1>3, <1>4, <1>5, SendRunStep, SendDelegateStep, SendSubscribeStep DEF Client

LEMMA ReceiveStep ==
    ASSUME ChannelInv, GoodInv, NEW a \in Agents, Receive(a) PROVE ChannelInv'
BY RunStep, DelegateStep, SubscribeStep, UnsubscribeStep, StopMessageStep, PillStep,
   CancelledStep DEF Receive

LEMMA GoroutineStep ==
    ASSUME ChannelInv, NEW r \in Runs, RunGoroutine(r) \/ Waiter(r) PROVE ChannelInv'
<1>1. ASSUME Quiet, RunUnchanged, UNCHANGED crashed PROVE ChannelInv'
  <2>1. Mail(NoAgent)
    BY <1>1, MailSame DEF RunUnchanged, ChannelInv
  <2> QED
    BY <1>1, <2>1, SameSubscriptions DEF RunUnchanged
<1>2. ASSUME NEW e \in Events, RunEvent(r, e) PROVE ChannelInv'
  <2>1. Quiet
    BY <1>2, EventQuiet DEF ChannelInv
  <2> QED
    BY <1>1, <1>2, <2>1 DEF RunEvent
<1>3. CASE RunOver(r) \/ RunForward(r) \/ RunGiveUp(r) \/ RunBroadcastDone(r)
  <2>1. Quiet
    BY <1>3, RunQuiet DEF ChannelInv
  <2> QED
    BY <1>1, <1>3, <2>1 DEF RunOver, RunForward, RunGiveUp, RunBroadcastDone
<1>4. CASE Waiter(r)
  <2>1. Quiet
    BY <1>4, WaiterQuiet DEF ChannelInv
  <2> QED
    BY <1>1, <1>4, <2>1 DEF Waiter, WaiterHears, WaiterAnswers
<1> QED
  BY <1>2, <1>3, <1>4, ListStep, BroadcastStep DEF RunGoroutine

\* The invariant of an agent system in which every Subscribe brings a channel
\* of its own (agent.go:233-252, 269-305).
THEOREM ChannelsCorrect ==
    ASSUME OwnChannels PROVE Spec => [](ChannelInv /\ GoodInv)
<1>1. Init => ChannelInv /\ GoodInv
  BY ChannelInit, GoodInit
<1>2. ChannelInv /\ GoodInv /\ [Next]_vars => (ChannelInv /\ GoodInv)'
  <2> SUFFICES ASSUME ChannelInv, GoodInv, [Next]_vars PROVE ChannelInv' /\ GoodInv'
    OBVIOUS
  <2>1. CASE Client
    BY <2>1, ClientStep, GoodClient
  <2>2. CASE \E a \in Agents : Receive(a)
    BY <2>2, ReceiveStep, GoodReceive
  <2>3. CASE \E r \in Runs : RunGoroutine(r) \/ Waiter(r)
    BY <2>3, GoroutineStep, GoodGoroutine
  <2>4. CASE UNCHANGED vars
    <3>1. Quiet /\ Mail(NoAgent) /\ AgentsKept
      BY <2>4, QuietSame, MailSame DEF ChannelInv, vars, AgentsKept
    <3>2. ChannelInv'
      BY <2>4, <3>1, SameSubscriptions DEF vars
    <3> QED
      BY <2>4, <3>1, <3>2, GoodKept DEF GoodInv, vars
  <2> QED
    BY <2>1, <2>2, <2>3, <2>4 DEF Next
<1> QED
  BY <1>1, <1>2, PTL DEF Spec

\* handleStop never closes a channel twice, however often it runs and whatever
\* is subscribed in between (agent.go:241-247).
THEOREM StopCorrect == ASSUME OwnChannels PROVE Spec => []StopNeverPanics
<1>1. ChannelInv => StopNeverPanics
  BY CanAlwaysClose DEF ChannelInv, StopNeverPanics
<1> QED
  BY <1>1, ChannelsCorrect, PTL

\* An agent that went through Stopping has closed every channel it accepted
\* and did not drop (agent.go:233-252, 269-282).
THEOREM ListenersCorrect == ASSUME OwnChannels PROVE Spec => []ListenersReleased
<1>1. ChannelInv => ListenersReleased
  BY Strings DEF ChannelInv, StoppedInv, SubscribersInv, ListenersReleased, Types
<1> QED
  BY <1>1, ChannelsCorrect, PTL

\* A broadcast that ends the process is one of an agent that has been stopped
\* (agent.go:243-245, 300-302).
THEOREM CrashesCorrect == ASSUME OwnChannels PROVE Spec => []OnlyStoppedAgentsCrash
<1>1. ChannelInv => OnlyStoppedAgentsCrash
  BY DEF ChannelInv, CrashInv, OnlyStoppedAgentsCrash
<1> QED
  BY <1>1, ChannelsCorrect, PTL

-----------------------------------------------------------------------------
(* Types and answers, whatever channels the subscribers bring *)

\* The message at place k of a mailbox starts the Run r, here or elsewhere.
Carries(a, k, r) ==
    /\ k \in 1 .. Len(mailbox[a])
    /\ mailbox[a][k].op \in {"run", "delegate"} /\ mailbox[a][k].run = r

\* A Run that was sent is in one message at most, and one that has started, or
\* is lost, in none.
TicketsInv ==
    /\ \A a \in Agents : \A k \in Nat : \A r \in Runs : Carries(a, k, r) => run[r].pc = "sent"
    /\ \A a, b \in Agents : \A k, l \in Nat : \A r \in Runs :
           Carries(a, k, r) /\ Carries(b, l, r) => a = b /\ k = l

Owned(x) == IF x.pc = "new" THEN x = NewRun ELSE x.agent \in Agents

\* The final events that the goroutine of a Run has in hand, that wait in its
\* channel, or that its waiter has heard.
Told(x) ==
    x.heard \cup (Range(x.chan) \ {"text"})
        \cup (IF x.pc = "sending" THEN {x.event} \ {"text"} ELSE {})

\* The final event of a stream that is not cut short is somewhere on its way to
\* the waiter until it is the answer.
Faithful(x, cut) ==
    /\ x.answer \in SUBSET Events => x.pc = "ended" /\ x.delegated
    /\ x.delegated /\ ~cut =>
           /\ Told(x) = IF x.over THEN {x.last} ELSE {}
           /\ x.pc = "ended" => x.over
           /\ x.answer \in SUBSET Events => x.answer = {x.last}

AnswersInv ==
    /\ AgentTypeOK /\ TicketsInv
    /\ \A r \in Runs : Owned(run[r]) /\ Faithful(run[r], CutShort(r))

LEMMA AnswersInit == Init => AnswersInv
<1> SUFFICES ASSUME Init PROVE AnswersInv
  OBVIOUS
<1>1. \A a \in Agents : mailbox[a] = <<>> /\ Len(mailbox[a]) = 0
  BY DEF Init
<1>2. NewRun \in Run /\ NewRun.answer \notin SUBSET Events /\ ~NewRun.delegated
  BY AgentAssumption, EmptySeq DEF NewRun, Run, Events, NoAnswer
<1>3. AgentTypeOK
  BY <1>1, <1>2, EmptySeq, AgentAssumption DEF Init, AgentTypeOK, NewRun
<1>4. TicketsInv
  BY <1>1 DEF TicketsInv, Carries
<1>5. \A r \in Runs : Owned(run[r]) /\ Faithful(run[r], CutShort(r))
  BY <1>2 DEF Init, Owned, Faithful, NewRun
<1> QED
  BY <1>3, <1>4, <1>5 DEF AnswersInv

-----------------------------------------------------------------------------
(* The messages of a step *)

Slot(a, c, k) == IF c = a THEN k + 1 ELSE k

\* The first message of a is gone, if a is an agent; all that has come is a
\* message for b, which starts one of the Runs R.
Arrives(a, b, R) ==
    /\ mailbox' \in [Agents -> Seq(Message)]
    /\ \A c \in Agents : Len(mailbox'[c]) <= MailboxSize
    /\ \A c \in Agents : \A k \in Nat : \A r \in Runs :
           Carries(c, k, r)' => \/ Carries(c, Slot(a, c, k), r)
                                \/ r \in R /\ c = b /\ k = Len(mailbox'[b])

Starts(m) == {r \in Runs : m.op \in {"run", "delegate"} /\ m.run = r}

LEMMA ArrivesSame ==
    ASSUME AgentTypeOK, UNCHANGED mailbox PROVE Arrives(NoAgent, NoAgent, {})
BY Strings DEF AgentTypeOK, Arrives, Slot, Carries

LEMMA ArrivesTold ==
    ASSUME AgentTypeOK, NEW a \in Agents, NEW m \in Message, Tell(a, m)
    PROVE  Arrives(NoAgent, a, Starts(m))
<1>1. CASE UNCHANGED mailbox
  BY <1>1, Strings DEF AgentTypeOK, Arrives, Slot, Carries
<1>2. CASE Reaches(a) /\ mailbox' = [mailbox EXCEPT ![a] = Append(@, m)]
  <2>1. /\ mailbox' \in [Agents -> Seq(Message)]
        /\ mailbox'[a] = Append(mailbox[a], m)
        /\ \A c \in Agents : c # a => mailbox'[c] = mailbox[c]
    BY <1>2, SeqFacts DEF AgentTypeOK
  <2>2. /\ Len(mailbox'[a]) = Len(mailbox[a]) + 1 /\ Len(mailbox[a]) \in Nat
        /\ mailbox'[a][Len(mailbox[a]) + 1] = m
        /\ \A k \in 1 .. Len(mailbox[a]) : mailbox'[a][k] = mailbox[a][k]
    BY <2>1, SeqFacts DEF AgentTypeOK
  <2>3. \A c \in Agents : Len(mailbox'[c]) <= MailboxSize
    BY <1>2, <2>1, <2>2, AgentAssumption DEF AgentTypeOK, Reaches
  <2>4. ASSUME NEW c \in Agents, NEW k \in Nat, NEW r \in Runs, Carries(c, k, r)'
        PROVE  Carries(c, k, r) \/ (r \in Starts(m) /\ c = a /\ k = Len(mailbox'[a]))
    <3>1. CASE c # a
      BY <2>1, <2>4, <3>1 DEF Carries
    <3>2. CASE c = a /\ k \in 1 .. Len(mailbox[a])
      BY <2>2, <2>4, <3>2 DEF Carries
    <3>3. CASE c = a /\ k = Len(mailbox[a]) + 1
      BY <2>2, <2>4, <3>3 DEF Carries, Starts
    <3> QED
      BY <2>2, <2>4, <3>1, <3>2, <3>3 DEF Carries
  <2> QED
    BY <2>1, <2>3, <2>4, Strings DEF Arrives, Slot
<1> QED
  BY <1>1, <1>2 DEF Tell

LEMMA ArrivesTaken ==
    ASSUME AgentTypeOK, NEW a \in Agents, mailbox[a] # <<>>,
           mailbox' = [mailbox EXCEPT ![a] = Tail(@)]
    PROVE  Arrives(a, NoAgent, {})
<1>1. /\ mailbox' \in [Agents -> Seq(Message)]
      /\ mailbox'[a] = Tail(mailbox[a]) /\ \A c \in Agents : c # a => mailbox'[c] = mailbox[c]
  BY SeqFacts DEF AgentTypeOK
<1>2. /\ Len(mailbox'[a]) = Len(mailbox[a]) - 1 /\ Len(mailbox[a]) \in Nat
      /\ \A k \in 1 .. Len(mailbox'[a]) : mailbox'[a][k] = mailbox[a][k + 1]
  BY <1>1, SeqFacts DEF AgentTypeOK
<1>3. \A c \in Agents : Len(mailbox'[c]) <= MailboxSize
  BY <1>1, <1>2, AgentAssumption DEF AgentTypeOK
<1>4. \A c \in Agents : \A k \in Nat : \A r \in Runs :
        Carries(c, k, r)' => Carries(c, Slot(a, c, k), r)
  BY <1>1, <1>2 DEF Carries, Slot
<1> QED
  BY <1>1, <1>3, <1>4 DEF Arrives

LEMMA ArrivesMoved ==
    ASSUME AgentTypeOK, NEW a \in Agents, mailbox[a] # <<>>, NEW b \in Agents, NEW m \in Message,
           NEW rest, rest = [mailbox EXCEPT ![a] = Tail(@)], Len(rest[b]) < MailboxSize,
           mailbox' = [rest EXCEPT ![b] = Append(@, m)]
    PROVE  Arrives(a, b, Starts(m))
<1>1. /\ rest \in [Agents -> Seq(Message)]
      /\ rest[a] = Tail(mailbox[a]) /\ \A c \in Agents : c # a => rest[c] = mailbox[c]
  BY SeqFacts DEF AgentTypeOK
<1>2. /\ Len(rest[a]) = Len(mailbox[a]) - 1 /\ Len(mailbox[a]) \in Nat
      /\ \A k \in 1 .. Len(rest[a]) : rest[a][k] = mailbox[a][k + 1]
  BY <1>1, SeqFacts DEF AgentTypeOK
<1>3. \A c \in Agents : Len(rest[c]) <= MailboxSize
  BY <1>1, <1>2, AgentAssumption DEF AgentTypeOK
<1>4. /\ mailbox' \in [Agents -> Seq(Message)]
      /\ mailbox'[b] = Append(rest[b], m) /\ \A c \in Agents : c # b => mailbox'[c] = rest[c]
  BY <1>1, SeqFacts
<1>5. /\ Len(mailbox'[b]) = Len(rest[b]) + 1 /\ Len(rest[b]) \in Nat
      /\ mailbox'[b][Len(rest[b]) + 1] = m
      /\ \A k \in 1 .. Len(rest[b]) : mailbox'[b][k] = rest[b][k]
  BY <1>1, <1>4, SeqFacts
<1>6. ASSUME NEW c \in Agents PROVE Len(mailbox'[c]) <= MailboxSize
  <2>1. CASE c = b
    <3>1. MailboxSize \in Nat
      BY AgentAssumption
    <3> QED
      BY <1>5, <2>1, <3>1
  <2>2. CASE c # b
    BY <1>3, <1>4, <2>2
  <2> QED
    BY <2>1, <2>2
<1>7. ASSUME NEW c \in Agents, NEW k \in Nat, NEW r \in Runs, Carries(c, k, r)'
      PROVE  \/ Carries(c, Slot(a, c, k), r)
             \/ r \in Starts(m) /\ c = b /\ k = Len(mailbox'[b])
  <2> DEFINE e == mailbox'[c][k]
  <2>1. k \in 1 .. Len(mailbox'[c]) /\ e.op \in {"run", "delegate"} /\ e.run = r
    BY <1>7 DEF Carries
  <2>2. CASE c = b /\ k = Len(rest[b]) + 1
    BY <1>5, <2>1, <2>2 DEF Starts
  <2>3. CASE ~(c = b /\ k = Len(rest[b]) + 1)
    <3>1. k \in 1 .. Len(rest[c]) /\ e = rest[c][k]
      <4>1. CASE c # b
        BY <1>4, <2>1, <4>1
      <4>2. CASE c = b
        <5>1. k \in 1 .. Len(rest[b])
          BY <1>5, <2>1, <2>3, <4>2
        <5> QED
          BY <1>5, <4>2, <5>1
      <4> QED
        BY <4>1, <4>2
    <3> HIDE DEF e
    <3>2. CASE c = a
      <4>1. e = mailbox[a][k + 1] /\ k + 1 \in 1 .. Len(mailbox[a])
        BY <1>2, <3>1, <3>2
      <4> QED
        BY <2>1, <3>2, <4>1 DEF Carries, Slot
    <3>3. CASE c # a
      BY <1>1, <2>1, <3>1, <3>3 DEF Carries, Slot
    <3> QED
      BY <3>2, <3>3
  <2> QED
    BY <2>2, <2>3
<1> QED
  BY <1>4, <1>6, <1>7 DEF Arrives

LEMMA ArrivesCleared ==
    ASSUME AgentTypeOK, NEW a \in Agents, mailbox' = [mailbox EXCEPT ![a] = <<>>]
    PROVE  Arrives(NoAgent, NoAgent, {})
<1>1. /\ mailbox' \in [Agents -> Seq(Message)]
      /\ mailbox'[a] = <<>> /\ \A c \in Agents : c # a => mailbox'[c] = mailbox[c]
  BY EmptySeq DEF AgentTypeOK
<1>2. \A c \in Agents : Len(mailbox'[c]) <= MailboxSize
  BY <1>1, AgentAssumption DEF AgentTypeOK
<1>3. \A c \in Agents : \A k \in Nat : \A r \in Runs : Carries(c, k, r)' => c # a
  BY <1>1 DEF Carries
<1> QED
  BY <1>1, <1>2, <1>3, Strings DEF Arrives, Slot, Carries

\* A Run that leaves "sent" is the one whose message was taken.
LEMMA TicketsStep ==
    ASSUME TicketsInv, NEW a, NEW b, NEW R \in SUBSET Runs, Arrives(a, b, R),
           \A r \in R : /\ run'[r].pc = "sent"
                        /\ \A c \in Agents : \A k \in Nat \ {0} : ~Carries(c, Slot(a, c, k), r),
           \A r \in Runs : run[r].pc = "sent" =>
                               run'[r].pc = "sent" \/ (a \in Agents /\ Carries(a, 1, r))
    PROVE  TicketsInv'
<1>1. ASSUME NEW c \in Agents, NEW k \in Nat, NEW r \in Runs, Carries(c, k, r)'
      PROVE  /\ k \in Nat \ {0} /\ Slot(a, c, k) \in Nat
             /\ \/ r \notin R /\ Carries(c, Slot(a, c, k), r)
                \/ r \in R /\ c = b /\ k = Len(mailbox'[b])
  <2>1. k \in Nat \ {0} /\ Slot(a, c, k) \in Nat
    BY <1>1 DEF Carries, Slot
  <2> QED
    BY <1>1, <2>1 DEF Arrives
<1>2. ASSUME NEW c \in Agents, NEW k \in Nat, NEW r \in Runs, Carries(c, k, r)'
      PROVE  run'[r].pc = "sent"
  <2>1. CASE r \in R
    BY <2>1
  <2>2. CASE r \notin R
    <3>1. Carries(c, Slot(a, c, k), r) /\ Slot(a, c, k) \in Nat /\ k \in Nat \ {0}
      BY <1>1, <1>2, <2>2
    <3>2. run[r].pc = "sent"
      BY <3>1 DEF TicketsInv
    <3>3. ~(a \in Agents /\ Carries(a, 1, r))
      <4>1. a \in Agents /\ Carries(a, 1, r) => c = a /\ Slot(a, c, k) = 1
        BY <3>1 DEF TicketsInv
      <4> QED
        BY <3>1, <4>1 DEF Slot
    <3> QED
      BY <3>2, <3>3
  <2> QED
    BY <2>1, <2>2
<1>3. ASSUME NEW c \in Agents, NEW d \in Agents, NEW k \in Nat, NEW l \in Nat, NEW r \in Runs,
             Carries(c, k, r)', Carries(d, l, r)'
      PROVE  c = d /\ k = l
  <2>1. CASE r \in R
    BY <1>1, <1>3, <2>1
  <2>2. CASE r \notin R
    <3>1. /\ Carries(c, Slot(a, c, k), r) /\ Slot(a, c, k) \in Nat
          /\ Carries(d, Slot(a, d, l), r) /\ Slot(a, d, l) \in Nat
      BY <1>1, <1>3, <2>2
    <3>2. c = d /\ Slot(a, c, k) = Slot(a, d, l)
      BY <3>1 DEF TicketsInv
    <3> QED
      BY <3>2 DEF Slot
  <2> QED
    BY <2>1, <2>2
<1> QED
  BY <1>2, <1>3 DEF TicketsInv

-----------------------------------------------------------------------------
(* The Run of a step *)

Grows == \A a \in Agents : cancelled[a] => cancelled'[a]

RunsKept ==
    /\ run' \in [Runs -> Run] /\ \A s \in Runs : Len(run'[s].chan) <= RunBuffer
    /\ \A s \in Runs : (Owned(run[s]) /\ Faithful(run[s], CutShort(s)))'

LEMMA NewRunIs ==
    /\ NewRun \in Run /\ NewRun.pc = "new" /\ NewRun.chan = <<>> /\ NewRun.heard = {}
    /\ ~NewRun.over /\ ~NewRun.delegated /\ ~NewRun.ctx
    /\ NewRun.answer = NoAnswer /\ NoAnswer \notin SUBSET Events
BY AgentAssumption, EmptySeq DEF NewRun, Run, Events, NoAnswer

\* A Run that is cut short stays so.
LEMMA StillFaithful ==
    ASSUME AnswersInv, Grows, NEW s \in Runs, run'[s] = run[s]
    PROVE  (Owned(run[s]) /\ Faithful(run[s], CutShort(s)))'
<1>1. Owned(run[s]) /\ Faithful(run[s], CutShort(s))
  BY DEF AnswersInv
<1>2. CASE run[s].pc = "new"
  BY <1>1, <1>2, NewRunIs DEF Owned, Faithful
<1>3. CASE run[s].pc # "new"
  <2>1. run[s].agent \in Agents
    BY <1>1, <1>3 DEF Owned
  <2>2. CutShort(s) => CutShort(s)'
    BY <2>1 DEF CutShort, Grows
  <2>3. Faithful(run[s], CutShort(s)')
    BY <1>1, <2>2 DEF Faithful
  <2> QED
    BY <1>1, <2>3
<1> QED
  BY <1>2, <1>3

LEMMA RunsSame == ASSUME AnswersInv, Grows, UNCHANGED run PROVE RunsKept
BY StillFaithful DEF AnswersInv, AgentTypeOK, RunsKept

LEMMA RunChanges ==
    ASSUME AnswersInv, Grows, NEW r \in Runs, NEW y \in Run, run' = [run EXCEPT ![r] = y],
           Len(y.chan) <= RunBuffer, Owned(y), Faithful(y, y.ctx \/ cancelled'[y.agent])
    PROVE  RunsKept
<1>1. /\ run' \in [Runs -> Run] /\ run'[r] = y
      /\ \A s \in Runs : s # r => run'[s] = run[s]
  BY DEF AnswersInv, AgentTypeOK
<1>2. \A s \in Runs : Len(run'[s].chan) <= RunBuffer
  BY <1>1 DEF AnswersInv, AgentTypeOK
<1>3. (Owned(run[r]) /\ Faithful(run[r], CutShort(r)))'
  BY <1>1 DEF CutShort
<1> QED
  BY <1>1, <1>2, <1>3, StillFaithful DEF RunsKept

\* Nothing that a Run tells has changed.
LEMMA SameTold ==
    ASSUME NEW x, NEW y, NEW cut \in BOOLEAN, NEW more \in BOOLEAN, Faithful(x, cut), cut => more,
           y.delegated = x.delegated, y.over = x.over, y.last = x.last, y.event = x.event,
           y.chan = x.chan, y.heard = x.heard,
           y.pc = "sending" <=> x.pc = "sending", y.pc = "ended" <=> x.pc = "ended",
           y.answer = x.answer \/ y.answer \notin SUBSET Events
    PROVE  Faithful(y, more)
<1>1. Told(y) = Told(x)
  BY DEF Told
<1> QED
  BY <1>1 DEF Faithful

\* What the invariant says of one Run.
LEMMA TypedRun ==
    ASSUME AnswersInv, NEW r \in Runs
    PROVE  /\ run[r] \in Run /\ Len(run[r].chan) <= RunBuffer /\ run \in [Runs -> Run]
           /\ Owned(run[r]) /\ Faithful(run[r], CutShort(r)) /\ CutShort(r) \in BOOLEAN
BY DEF AnswersInv, AgentTypeOK, CutShort, Run, Owned

\* The elements of a channel that one is put into, or taken from.
LEMMA RangeAppend ==
    ASSUME NEW S, NEW s \in Seq(S), NEW e \in S PROVE Range(Append(s, e)) = Range(s) \cup {e}
<1>1. /\ DOMAIN s = 1 .. Len(s) /\ Len(s) \in Nat
      /\ DOMAIN Append(s, e) = 1 .. Len(s) + 1 /\ Append(s, e)[Len(s) + 1] = e
      /\ \A k \in 1 .. Len(s) : Append(s, e)[k] = s[k]
  BY AppendProperties
<1> QED
  BY <1>1 DEF Range

LEMMA RangeTail ==
    ASSUME NEW S, NEW s \in Seq(S), s # <<>> PROVE Range(s) = Range(Tail(s)) \cup {Head(s)}
<1>1. /\ DOMAIN s = 1 .. Len(s) /\ Len(s) \in Nat \ {0} /\ Head(s) = s[1]
      /\ DOMAIN Tail(s) = 1 .. Len(s) - 1
      /\ \A k \in 1 .. Len(s) - 1 : Tail(s)[k] = s[k + 1]
  BY HeadTailProperties
<1>2. \A k \in 2 .. Len(s) : k - 1 \in 1 .. Len(s) - 1 /\ s[k] = Tail(s)[k - 1]
  BY <1>1
<1>3. Range(Tail(s)) \cup {Head(s)} \subseteq Range(s)
  BY <1>1 DEF Range
<1>4. ASSUME NEW k \in 1 .. Len(s) PROVE s[k] \in Range(Tail(s)) \cup {Head(s)}
  <2>1. CASE k = 1
    BY <1>1, <2>1
  <2>2. CASE k # 1
    <3>1. k - 1 \in DOMAIN Tail(s) /\ s[k] = Tail(s)[k - 1]
      BY <1>1, <1>2, <2>2
    <3> QED
      BY <3>1 DEF Range
  <2> QED
    BY <2>1, <2>2
<1> QED
  BY <1>1, <1>3, <1>4 DEF Range

LEMMA GoroutineChange ==
    ASSUME AnswersInv, UNCHANGED cancelled, NEW r \in Runs, NEW y \in Run,
           run' = [run EXCEPT ![r] = y], Len(y.chan) <= RunBuffer,
           y.agent = run[r].agent, y.ctx = run[r].ctx,
           run[r].pc \notin {"new", "sent"}, y.pc # "new", Faithful(y, CutShort(r))
    PROVE  RunsKept /\ \A s \in Runs : run[s].pc = "sent" => run'[s].pc = "sent"
<1>1. Grows /\ Owned(y) /\ CutShort(r) = (y.ctx \/ cancelled'[y.agent])
  BY TypedRun DEF Grows, Owned, CutShort
<1>2. RunsKept
  BY <1>1, RunChanges
<1> QED
  BY <1>2, TypedRun

LEMMA GoroutineRuns ==
    ASSUME AnswersInv, NEW r \in Runs, RunGoroutine(r) \/ Waiter(r)
    PROVE  RunsKept /\ \A s \in Runs : run[s].pc = "sent" => run'[s].pc = "sent"
<1> DEFINE x == run[r]
            cut == CutShort(r)
<1>0. /\ x \in Run /\ Len(x.chan) <= RunBuffer /\ run \in [Runs -> Run]
      /\ Owned(x) /\ Faithful(x, cut) /\ cut \in BOOLEAN
  BY TypedRun
<1>1. UNCHANGED cancelled
  BY DEF RunGoroutine, Waiter, RunUnchanged, RunEvent, RunOver, RunForward, RunGiveUp,
         RunList, RunBroadcast, RunBroadcastDone, WaiterHears, WaiterAnswers
<1>2. x.pc = "new" => x.chan = <<>> /\ ~x.delegated
  BY <1>0, NewRunIs DEF Owned
<1>3. ASSUME NEW e \in Events, RunEvent(r, e)
      PROVE  \E y \in Run : /\ run' = [run EXCEPT ![r] = y] /\ Faithful(y, cut) /\ y.chan = x.chan
                            /\ y.agent = x.agent /\ y.ctx = x.ctx /\ y.pc = "sending"
                            /\ x.pc = "waiting"
  <2> DEFINE n == IF e = "text" THEN x.texts + 1 ELSE x.texts
              y == [x EXCEPT !.event = e, !.pc = "sending", !.texts = n,
                             !.over = e # "text", !.last = e]
  <2>1. run' = [run EXCEPT ![r] = y] /\ x.pc = "waiting" /\ ~x.over
    BY <1>0, <1>3 DEF RunEvent
  <2>2. n \in 0 .. MaxTexts
    <3>1. x.texts \in 0 .. MaxTexts /\ (e = "text" => x.texts < MaxTexts) /\ MaxTexts \in Nat
      BY <1>0, <1>3, AgentAssumption DEF RunEvent, Run
    <3> HIDE DEF x
    <3> QED
      BY <3>1
  <2> HIDE DEF n
  <2>3. y \in Run
    BY <1>0, <2>2 DEF Run
  <2>4. /\ y.chan = x.chan /\ y.heard = x.heard /\ y.delegated = x.delegated /\ y.answer = x.answer
        /\ y.event = e /\ y.last = e /\ y.over = (e # "text") /\ y.pc = "sending"
        /\ y.agent = x.agent /\ y.ctx = x.ctx
    BY <1>0 DEF Run
  <2> HIDE DEF y, x
  <2>5. Told(y) = Told(x) \cup ({e} \ {"text"})
    BY <2>1, <2>4 DEF Told
  <2>6. Faithful(y, cut)
    BY <1>0, <2>1, <2>4, <2>5 DEF Faithful
  <2> QED
    BY <2>1, <2>3, <2>4, <2>6
<1>4. ASSUME x.pc \in {"waiting", "sending"}, (x.over /\ x.pc = "waiting") \/ cut,
             run' = [run EXCEPT ![r].pc = "ended"]
      PROVE  \E y \in Run : /\ run' = [run EXCEPT ![r] = y] /\ Faithful(y, cut) /\ y.chan = x.chan
                            /\ y.agent = x.agent /\ y.ctx = x.ctx /\ y.pc # "new"
  <2> DEFINE y == [x EXCEPT !.pc = "ended"]
  <2>1. run' = [run EXCEPT ![r] = y]
    BY <1>0, <1>4
  <2>2. /\ y \in Run
        /\ y.chan = x.chan /\ y.heard = x.heard /\ y.delegated = x.delegated /\ y.answer = x.answer
        /\ y.last = x.last /\ y.over = x.over /\ y.pc = "ended"
        /\ y.agent = x.agent /\ y.ctx = x.ctx
    BY <1>0 DEF Run
  <2> HIDE DEF y, x
  <2>3. x.pc = "waiting" => Told(y) = Told(x)
    BY <2>2 DEF Told
  <2>4. Faithful(y, cut)
    BY <1>0, <1>4, <2>2, <2>3 DEF Faithful
  <2> QED
    BY <2>1, <2>2, <2>4
<1>5. CASE RunForward(r)
  <2> DEFINE c == Append(x.chan, x.event)
              y == [x EXCEPT !.chan = c, !.pc = "listing"]
  <2>1. run' = [run EXCEPT ![r] = y] /\ x.pc = "sending" /\ Len(x.chan) < RunBuffer
    BY <1>0, <1>5 DEF RunForward
  <2>2. x.chan \in Seq(Events) /\ x.event \in Events
    BY <1>0 DEF Run
  <2>3. c \in Seq(Events) /\ Len(c) <= RunBuffer
    BY <2>1, <2>2, SeqFacts, AgentAssumption
  <2>4. Range(c) = Range(x.chan) \cup {x.event}
    BY <2>2, RangeAppend
  <2> HIDE DEF c
  <2>5. /\ y \in Run
        /\ y.chan = c /\ y.heard = x.heard /\ y.delegated = x.delegated /\ y.answer = x.answer
        /\ y.last = x.last /\ y.over = x.over /\ y.pc = "listing"
        /\ y.agent = x.agent /\ y.ctx = x.ctx
    BY <1>0, <2>3 DEF Run
  <2> HIDE DEF y, x
  <2>6. Told(y) = Told(x)
    BY <2>1, <2>4, <2>5 DEF Told
  <2>7. Faithful(y, cut)
    BY <1>0, <2>1, <2>5, <2>6 DEF Faithful
  <2> QED
    BY <1>1, <2>1, <2>3, <2>5, <2>7, GoroutineChange DEF x
<1>6. ASSUME NEW p \in {"waiting", "broadcasting"}, NEW t \in SUBSET Channels,
             x.pc \in {"listing", "broadcasting"},
             run' = [run EXCEPT ![r] = [x EXCEPT !.todo = t, !.pc = p]]
      PROVE  RunsKept /\ \A s \in Runs : run[s].pc = "sent" => run'[s].pc = "sent"
  <2> DEFINE y == [x EXCEPT !.todo = t, !.pc = p]
  <2>1. /\ y \in Run
        /\ y.chan = x.chan /\ y.heard = x.heard /\ y.delegated = x.delegated /\ y.answer = x.answer
        /\ y.last = x.last /\ y.over = x.over /\ y.event = x.event /\ y.pc = p
        /\ y.agent = x.agent /\ y.ctx = x.ctx
    BY <1>0 DEF Run
  <2>2. run' = [run EXCEPT ![r] = y]
    BY <1>6
  <2> HIDE DEF y, x
  <2>3. Faithful(y, cut)
    BY <1>0, <1>6, <2>1, SameTold
  <2> QED
    BY <1>0, <1>1, <1>6, <2>1, <2>2, <2>3, GoroutineChange DEF x
<1>7. CASE RunList(r)
  <2> DEFINE t == Range(subscribers[x.agent]) \ {NoChannel}
  <2>1. t \in SUBSET Channels
    <3>1. x.agent \in Agents
      BY <1>0, <1>7 DEF RunList, Owned
    <3> QED
      BY <3>1 DEF AnswersInv, AgentTypeOK, Range
  <2>2. run' = [run EXCEPT ![r] = [x EXCEPT !.todo = t, !.pc = "broadcasting"]] /\ x.pc = "listing"
    BY <1>0, <1>7 DEF RunList
  <2> HIDE DEF t, x
  <2> QED
    BY <1>6, <2>1, <2>2
<1>8. ASSUME NEW c \in Channels, RunBroadcast(r, c)
      PROVE  RunsKept /\ \A s \in Runs : run[s].pc = "sent" => run'[s].pc = "sent"
  <2>1. x.todo \ {c} \in SUBSET Channels
    BY <1>0 DEF Run
  <2>2. /\ run' = [run EXCEPT ![r] = [x EXCEPT !.todo = x.todo \ {c}, !.pc = "broadcasting"]]
        /\ x.pc = "broadcasting"
    BY <1>0, <1>8 DEF RunBroadcast, Run
  <2> HIDE DEF x
  <2> QED
    BY <1>6, <2>1, <2>2
<1>9. CASE RunBroadcastDone(r)
  <2>1. x.todo \in SUBSET Channels
    BY <1>0 DEF Run
  <2>2. /\ run' = [run EXCEPT ![r] = [x EXCEPT !.todo = x.todo, !.pc = "waiting"]]
        /\ x.pc = "broadcasting"
    BY <1>0, <1>9 DEF RunBroadcastDone, Run
  <2> HIDE DEF x
  <2> QED
    BY <1>6, <2>1, <2>2
<1>10. CASE WaiterHears(r)
  <2> DEFINE c == Tail(x.chan)
              h == x.heard \cup ({Head(x.chan)} \ {"text"})
              y == [x EXCEPT !.chan = c, !.heard = h]
  <2>1. run' = [run EXCEPT ![r] = y] /\ x.delegated /\ x.chan # <<>>
    BY <1>0, <1>10 DEF WaiterHears
  <2>2. x.chan \in Seq(Events) /\ x.heard \in SUBSET Events
    BY <1>0 DEF Run
  <2>3. c \in Seq(Events) /\ Len(c) <= RunBuffer /\ h \in SUBSET Events
    BY <1>0, <2>1, <2>2, SeqFacts, AgentAssumption
  <2>4. Range(x.chan) = Range(c) \cup {Head(x.chan)}
    BY <2>1, <2>2, RangeTail
  <2>5. h = x.heard \cup ({Head(x.chan)} \ {"text"})
    OBVIOUS
  <2> HIDE DEF c, h
  <2>6. /\ y \in Run
        /\ y.chan = c /\ y.heard = h /\ y.delegated = x.delegated /\ y.answer = x.answer
        /\ y.last = x.last /\ y.over = x.over /\ y.pc = x.pc /\ y.event = x.event
        /\ y.agent = x.agent /\ y.ctx = x.ctx
    BY <1>0, <2>3 DEF Run
  <2> HIDE DEF y, x
  <2>7. Told(y) = Told(x)
    BY <2>4, <2>5, <2>6 DEF Told
  <2>8. Faithful(y, cut)
    BY <1>0, <2>1, <2>6, <2>7 DEF Faithful
  <2>9. x.pc \notin {"new", "sent"} \/ x.pc = "sent"
    BY <1>2, <2>1
  <2>10. Grows /\ Owned(y) /\ cut = (y.ctx \/ cancelled'[y.agent])
    BY <1>0, <1>1, <2>6, <2>9 DEF x, Grows, Owned, CutShort
  <2>11. RunsKept
    BY <2>1, <2>3, <2>6, <2>8, <2>10, RunChanges
  <2> QED
    BY <1>0, <2>1, <2>6, <2>11 DEF x
<1>11. CASE WaiterAnswers(r)
  <2> DEFINE y == [x EXCEPT !.answer = x.heard]
  <2>1. /\ run' = [run EXCEPT ![r] = y] /\ x.delegated /\ x.chan = <<>> /\ x.pc = "ended"
        /\ x.answer = NoAnswer
    BY <1>0, <1>11 DEF WaiterAnswers
  <2>2. /\ y \in Run
        /\ y.chan = x.chan /\ y.heard = x.heard /\ y.delegated = x.delegated /\ y.answer = x.heard
        /\ y.last = x.last /\ y.over = x.over /\ y.pc = x.pc /\ y.event = x.event
        /\ y.agent = x.agent /\ y.ctx = x.ctx /\ "text" \notin {}
    BY <1>0 DEF Run
  <2> HIDE DEF y, x
  <2>3. Told(y) = Told(x) /\ Told(x) = x.heard
    BY <2>1, <2>2 DEF Told, Range
  <2>4. Faithful(y, cut)
    BY <1>0, <2>1, <2>2, <2>3 DEF Faithful
  <2> QED
    BY <1>0, <1>1, <2>1, <2>2, <2>4, GoroutineChange DEF x
<1>12. ASSUME NEW y \in Run, run' = [run EXCEPT ![r] = y], Faithful(y, cut), y.chan = x.chan,
              y.agent = x.agent, y.ctx = x.ctx, y.pc # "new", x.pc \in {"waiting", "sending"}
       PROVE  RunsKept /\ \A s \in Runs : run[s].pc = "sent" => run'[s].pc = "sent"
  BY <1>0, <1>1, <1>12, GoroutineChange
<1>13. CASE RunOver(r) \/ RunGiveUp(r)
  <2>1. /\ x.pc \in {"waiting", "sending"} /\ ((x.over /\ x.pc = "waiting") \/ cut)
        /\ run' = [run EXCEPT ![r].pc = "ended"]
    BY <1>13 DEF RunOver, RunGiveUp, CutShort, ExecDone
  <2> HIDE DEF x, cut
  <2> QED
    BY <1>4, <1>12, <2>1
<1> QED
  <2>1. ASSUME NEW e \in Events, RunEvent(r, e)
        PROVE  RunsKept /\ \A s \in Runs : run[s].pc = "sent" => run'[s].pc = "sent"
    <3> HIDE DEF x, cut
    <3> QED
      BY <1>3, <1>12, <2>1
  <2> QED
    BY <1>5, <1>7, <1>8, <1>9, <1>10, <1>11, <1>13, <2>1 DEF RunGoroutine, Waiter

-----------------------------------------------------------------------------
(* Every step keeps types and answers *)

RestOK ==
    /\ running \in BOOLEAN
    /\ loop \in [Agents -> {"on", "stopped", "panicked", "cut"}]
    /\ cancelled \in [Agents -> BOOLEAN]
    /\ agentClosed \in [Agents -> BOOLEAN]
    /\ subscribers \in [Agents -> [SubscriberIds -> Channels \cup {NoChannel}]]
    /\ closed \subseteq Channels
    /\ listener \in [Channels -> Agents \cup {"new", "sent", "dropped"}]
    /\ crashed \in Agents \cup {NoAgent}
    /\ sends \in 0 .. MaxSends

MailKept ==
    /\ mailbox' \in [Agents -> Seq(Message)] /\ \A a \in Agents : Len(mailbox'[a]) <= MailboxSize
    /\ TicketsInv'

Kept == RunsKept /\ MailKept /\ RestOK'

LEMMA KeptIs == ASSUME Kept PROVE AnswersInv'
BY DEF Kept, RunsKept, MailKept, RestOK, AnswersInv, AgentTypeOK

LEMMA RestIs == ASSUME AnswersInv PROVE RestOK /\ AgentTypeOK /\ TicketsInv
BY DEF AnswersInv, AgentTypeOK, RestOK

\* Without a new message, and with one that starts nothing.
LEMMA MailFewer ==
    ASSUME AnswersInv, NEW a, NEW b, NEW m \in Message,
           Arrives(a, b, {}) \/ (Arrives(a, b, Starts(m)) /\ Starts(m) = {}),
           \A r \in Runs : run[r].pc = "sent" =>
                               run'[r].pc = "sent" \/ (a \in Agents /\ Carries(a, 1, r))
    PROVE  MailKept
<1>1. Arrives(a, b, {})
  OBVIOUS
<1>2. TicketsInv'
  BY <1>1, RestIs, TicketsStep
<1> QED
  BY <1>1, <1>2 DEF MailKept, Arrives

\* A client sends a Run, or a Delegate, which has not been sent before.
LEMMA SendKeeps ==
    ASSUME AnswersInv, NEW a \in Agents, NEW r \in Runs, NEW m \in Message, Starts(m) = {r},
           run[r].pc = "new", Tell(a, m), NEW y \in Run, run' = [run EXCEPT ![r] = y],
           y.pc = (IF Reaches(a) THEN "sent" ELSE "lost"), y.agent \in Agents,
           y.chan = <<>>, y.heard = {}, y.over = FALSE, y.answer = NoAnswer
    PROVE  RunsKept /\ MailKept
<1>1. /\ run'[r] = y /\ \A s \in Runs : s # r => run'[s] = run[s]
      /\ AgentTypeOK /\ TicketsInv
  BY RestIs, TypedRun
<1>2. RunsKept
  <2>1. Told(y) = {}
    BY DEF Told, Range
  <2>2. Faithful(y, y.ctx \/ cancelled'[y.agent]) /\ Owned(y)
    BY <2>1, NewRunIs DEF Faithful, Owned
  <2>3. Grows /\ Len(y.chan) <= RunBuffer
    BY AgentAssumption DEF Tell, Grows
  <2> QED
    BY <2>2, <2>3, RunChanges
<1>3. \A s \in Runs : run[s].pc = "sent" => run'[s].pc = "sent"
  BY <1>1
<1>4. MailKept
  <2>1. CASE Reaches(a)
    <3>1. Arrives(NoAgent, a, {r})
      BY <1>1, ArrivesTold
    <3>2. \A c \in Agents : \A k \in Nat \ {0} : ~Carries(c, Slot(NoAgent, c, k), r)
      BY <1>1, Strings DEF Slot, TicketsInv
    <3>3. TicketsInv'
      BY <1>1, <1>3, <2>1, <3>1, <3>2, TicketsStep
    <3> QED
      BY <3>1, <3>3 DEF MailKept, Arrives
  <2>2. CASE ~Reaches(a)
    <3>1. Arrives(NoAgent, NoAgent, {})
      BY <1>1, <2>2, ArrivesSame DEF Tell
    <3> QED
      BY <1>3, <3>1, MailFewer
  <2> QED
    BY <2>1, <2>2
<1> QED
  BY <1>2, <1>4

LEMMA ClientKeeps == ASSUME AnswersInv, Client PROVE Kept
<1>1. RestOK /\ AgentTypeOK /\ TicketsInv
  BY RestIs
<1>2. ASSUME NEW a \in Agents, NEW m, Tell(a, m), UNCHANGED listener PROVE RestOK' /\ Grows
  BY <1>1, <1>2, AgentAssumption DEF Tell, RestOK, Grows
<1>3. ASSUME NEW a \in Agents, NEW m \in Message, m.op \notin {"run", "delegate"}, Tell(a, m),
             UNCHANGED run
      PROVE  RunsKept /\ MailKept
  <2>1. Starts(m) = {} /\ Grows
    BY <1>3 DEF Starts, Tell, Grows
  <2>2. MailKept
    BY <1>1, <1>3, <2>1, ArrivesTold, MailFewer
  <2> QED
    BY <1>3, <2>1, <2>2, RunsSame
<1>4. ASSUME NEW a \in Agents, NEW r \in Runs, SendRun(a, r) PROVE Kept
  <2> DEFINE m == [op |-> "run", run |-> r]
              y == [NewRun EXCEPT !.agent = a, !.pc = IF Reaches(a) THEN "sent" ELSE "lost"]
  <2>1. run[r] = NewRun /\ run[r].pc = "new" /\ run \in [Runs -> Run]
    BY <1>4, TypedRun DEF SendRun, Owned
  <2>2. run' = [run EXCEPT ![r] = y]
    BY <1>4, <2>1 DEF SendRun
  <2>3. /\ y \in Run /\ y.pc = (IF Reaches(a) THEN "sent" ELSE "lost") /\ y.agent \in Agents
        /\ y.chan = <<>> /\ y.heard = {} /\ y.over = FALSE /\ y.answer = NoAnswer
    BY NewRunIs DEF Run
  <2>4. m \in Message /\ Starts(m) = {r}
    BY DEF Message, Starts
  <2>5. Tell(a, m) /\ UNCHANGED listener
    BY <1>4 DEF SendRun
  <2> HIDE DEF m, y
  <2> QED
    BY <1>2, <2>1, <2>2, <2>3, <2>4, <2>5, SendKeeps DEF Kept
<1>5. ASSUME NEW a \in Agents, NEW b \in Agents, NEW r \in Runs, SendDelegate(a, b, r) PROVE Kept
  <2> DEFINE m == [op |-> "delegate", run |-> r, target |-> b]
              y == [NewRun EXCEPT !.agent = b, !.delegated = TRUE,
                                  !.pc = IF Reaches(a) THEN "sent" ELSE "lost"]
  <2>1. run[r] = NewRun /\ run[r].pc = "new" /\ run \in [Runs -> Run]
    BY <1>5, TypedRun DEF SendDelegate, Owned
  <2>2. run' = [run EXCEPT ![r] = y]
    BY <1>5, <2>1 DEF SendDelegate
  <2>3. /\ y \in Run /\ y.pc = (IF Reaches(a) THEN "sent" ELSE "lost") /\ y.agent \in Agents
        /\ y.chan = <<>> /\ y.heard = {} /\ y.over = FALSE /\ y.answer = NoAnswer
    BY NewRunIs DEF Run
  <2>4. m \in Message /\ Starts(m) = {r}
    BY DEF Message, Starts
  <2>5. Tell(a, m) /\ UNCHANGED listener
    BY <1>5 DEF SendDelegate
  <2> HIDE DEF m, y
  <2> QED
    BY <1>2, <2>1, <2>2, <2>3, <2>4, <2>5, SendKeeps DEF Kept
<1>6. ASSUME NEW a \in Agents, NEW i \in SubscriberIds, NEW c \in Channels, SendSubscribe(a, i, c)
      PROVE  Kept
  <2>1. [op |-> "subscribe", id |-> i, chan |-> c] \in Message
    BY DEF Message
  <2>2. RestOK'
    BY <1>1, <1>6, AgentAssumption DEF SendSubscribe, Tell, RestOK
  <2> QED
    BY <1>3, <1>6, <2>1, <2>2 DEF SendSubscribe, Kept
<1>7. ASSUME NEW a \in Agents, NEW i \in SubscriberIds, SendUnsubscribe(a, i) PROVE Kept
  <2>1. [op |-> "unsubscribe", id |-> i] \in Message
    BY DEF Message
  <2> QED
    BY <1>2, <1>3, <1>7, <2>1 DEF SendUnsubscribe, Kept
<1>8. ASSUME NEW a \in Agents, SendStop(a) \/ SendPill(a) PROVE Kept
  <2>1. [op |-> "stop"] \in Message /\ [op |-> "pill"] \in Message
    BY DEF Message
  <2> QED
    BY <1>2, <1>3, <1>8, <2>1 DEF SendStop, SendPill, Kept
<1>9. ASSUME NEW r \in Runs, NEW y \in Run, run' = [run EXCEPT ![r] = y], run[r].pc # "new",
             Len(y.chan) <= RunBuffer, y.pc = run[r].pc, y.agent = run[r].agent,
             Faithful(y, y.ctx \/ cancelled[y.agent]),
             UNCHANGED <<running, loop, mailbox, cancelled, agentClosed, subscribers,
                         closed, listener, crashed, sends>>
      PROVE  Kept
  <2>1. Grows /\ Owned(y) /\ RestOK'
    BY <1>1, <1>9, TypedRun DEF Grows, Owned, RestOK
  <2>2. RunsKept
    BY <1>9, <2>1, RunChanges
  <2>3. \A s \in Runs : run[s].pc = "sent" => run'[s].pc = "sent"
    BY <1>9, TypedRun
  <2>4. Arrives(NoAgent, NoAgent, {}) /\ [op |-> "pill"] \in Message
    BY <1>1, <1>9, ArrivesSame DEF Message
  <2>5. MailKept
    BY <2>3, <2>4, MailFewer
  <2> QED
    BY <2>1, <2>2, <2>5 DEF Kept
<1>10. ASSUME NEW r \in Runs, CancelRun(r) PROVE Kept
  <2> DEFINE x == run[r]
              y == [x EXCEPT !.ctx = TRUE]
  <2>0. /\ x \in Run /\ Faithful(x, CutShort(r)) /\ CutShort(r) \in BOOLEAN
        /\ Len(x.chan) <= RunBuffer /\ run \in [Runs -> Run]
    BY TypedRun
  <2>1. run' = [run EXCEPT ![r] = y] /\ x.pc # "new"
    BY <1>10, <2>0 DEF CancelRun
  <2>2. /\ y \in Run
        /\ y.chan = x.chan /\ y.heard = x.heard /\ y.delegated = x.delegated /\ y.answer = x.answer
        /\ y.last = x.last /\ y.over = x.over /\ y.pc = x.pc /\ y.event = x.event
        /\ y.agent = x.agent /\ y.ctx = TRUE
    BY <2>0 DEF Run
  <2> HIDE DEF y, x
  <2>3. Faithful(y, TRUE)
    BY <2>0, <2>2, SameTold
  <2> QED
    BY <1>9, <1>10, <2>0, <2>1, <2>2, <2>3 DEF CancelRun, x
<1>11. ASSUME NEW r \in Runs, ReadEvent(r) PROVE Kept
  <2> DEFINE x == run[r]
              c == Tail(x.chan)
              y == [x EXCEPT !.chan = c]
  <2>0. /\ x \in Run /\ Faithful(x, CutShort(r)) /\ Owned(x)
        /\ Len(x.chan) <= RunBuffer /\ run \in [Runs -> Run]
    BY TypedRun
  <2>1. run' = [run EXCEPT ![r] = y] /\ x.chan # <<>> /\ ~x.delegated
    BY <1>11, <2>0 DEF ReadEvent
  <2>2. x.pc # "new"
    BY <2>0, <2>1, NewRunIs DEF Owned
  <2>3. x.chan \in Seq(Events)
    BY <2>0 DEF Run
  <2>4. c \in Seq(Events) /\ Len(c) <= RunBuffer
    BY <2>0, <2>1, <2>3, SeqFacts, AgentAssumption
  <2> HIDE DEF c
  <2>5. /\ y \in Run /\ y.chan = c /\ y.delegated = x.delegated /\ y.answer = x.answer
        /\ y.pc = x.pc /\ y.agent = x.agent
    BY <2>0, <2>4 DEF Run
  <2> HIDE DEF y, x
  <2>6. Faithful(y, y.ctx \/ cancelled[y.agent])
    BY <2>0, <2>1, <2>5 DEF Faithful
  <2> QED
    BY <1>9, <1>11, <2>1, <2>2, <2>4, <2>5, <2>6 DEF ReadEvent, x
<1>12. CASE Shutdown
  <2>1. RestOK' /\ Grows /\ UNCHANGED <<run, mailbox>>
    BY <1>1, <1>12 DEF Shutdown, RestOK, Grows
  <2>2. Arrives(NoAgent, NoAgent, {}) /\ [op |-> "pill"] \in Message
    BY <1>1, <2>1, ArrivesSame DEF Message
  <2>3. MailKept
    BY <2>1, <2>2, MailFewer
  <2> QED
    BY <2>1, <2>3, RunsSame DEF Kept
<1> QED
  BY <1>4, <1>5, <1>6, <1>7, <1>8, <1>10, <1>11, <1>12 DEF Client

\* The first message is taken, and nothing else changes but what it is about.
LEMMA TakeKeeps ==
    ASSUME AnswersInv, NEW a \in Agents, mailbox[a] # <<>>,
           mailbox' = [mailbox EXCEPT ![a] = Tail(@)],
           \A r \in Runs : run[r].pc = "sent" => run'[r].pc = "sent" \/ Carries(a, 1, r)
    PROVE  MailKept
<1>1. Arrives(a, NoAgent, {}) /\ [op |-> "pill"] \in Message
  BY RestIs, ArrivesTaken DEF Message
<1> QED
  BY <1>1, MailFewer

\* What is known of the first message.
LEMMA FirstMessage ==
    ASSUME AnswersInv, NEW a \in Agents, mailbox[a] # <<>>
    PROVE  /\ Head(mailbox[a]) \in Message /\ Head(mailbox[a]) = mailbox[a][1]
           /\ 1 \in 1 .. Len(mailbox[a])
BY RestIs, SeqFacts DEF AgentTypeOK

LEMMA RunKeeps == ASSUME AnswersInv, NEW a \in Agents, HandleRun(a) PROVE Kept
<1> DEFINE r == Head(mailbox[a]).run
            x == run[r]
            y == [x EXCEPT !.pc = "waiting"]
<1>1. r \in Runs /\ Carries(a, 1, r) /\ mailbox[a] # <<>>
  BY FirstMessage, MessageIs DEF HandleRun, Handles, Carries
<1>2. /\ x \in Run /\ Faithful(x, CutShort(r)) /\ Owned(x) /\ CutShort(r) \in BOOLEAN
      /\ Len(x.chan) <= RunBuffer /\ run \in [Runs -> Run]
  BY <1>1, TypedRun
<1>3. x.pc = "sent"
  BY <1>1 DEF AnswersInv, TicketsInv
<1>4. run' = [run EXCEPT ![r] = y]
  BY <1>1, <1>2 DEF HandleRun
<1>5. UNCHANGED <<running, loop, cancelled, agentClosed, subscribers, closed, listener, crashed,
                 sends>>
  BY DEF HandleRun
<1>6. mailbox' = [mailbox EXCEPT ![a] = Tail(@)]
  BY DEF HandleRun
<1>7. /\ y \in Run
      /\ y.chan = x.chan /\ y.heard = x.heard /\ y.delegated = x.delegated /\ y.answer = x.answer
      /\ y.last = x.last /\ y.over = x.over /\ y.event = x.event /\ y.pc = "waiting"
      /\ y.agent = x.agent /\ y.ctx = x.ctx
  BY <1>2 DEF Run
<1>8. CutShort(r) = (y.ctx \/ cancelled'[y.agent])
  BY <1>5, <1>7 DEF CutShort
<1> HIDE DEF y, x, r
<1>9. Faithful(y, y.ctx \/ cancelled'[y.agent])
  BY <1>2, <1>3, <1>7, <1>8, SameTold
<1>10. Grows /\ Owned(y)
  BY <1>2, <1>3, <1>5, <1>7 DEF Grows, Owned
<1>11. RunsKept
  BY <1>1, <1>2, <1>4, <1>7, <1>9, <1>10, RunChanges
<1>12. \A s \in Runs : run[s].pc = "sent" => run'[s].pc = "sent" \/ Carries(a, 1, s)
  BY <1>1, <1>2, <1>4
<1>13. MailKept
  BY <1>1, <1>6, <1>12, TakeKeeps
<1>14. RestOK'
  BY <1>5, RestIs DEF RestOK
<1> QED
  BY <1>11, <1>13, <1>14 DEF Kept

LEMMA DelegateKeeps == ASSUME AnswersInv, NEW a \in Agents, HandleDelegate(a) PROVE Kept
<1> DEFINE r == Head(mailbox[a]).run
            b == Head(mailbox[a]).target
            x == run[r]
            rest == [mailbox EXCEPT ![a] = Tail(@)]
<1>1. r \in Runs /\ b \in Agents /\ Carries(a, 1, r) /\ mailbox[a] # <<>>
  BY FirstMessage, MessageIs DEF HandleDelegate, Handles, Carries
<1>2. /\ x \in Run /\ Faithful(x, CutShort(r)) /\ Owned(x) /\ CutShort(r) \in BOOLEAN
      /\ Len(x.chan) <= RunBuffer /\ run \in [Runs -> Run]
  BY <1>1, TypedRun
<1>3. x.pc = "sent"
  BY <1>1 DEF AnswersInv, TicketsInv
<1>4. UNCHANGED <<running, loop, cancelled, agentClosed, subscribers, closed, listener, crashed,
                 sends>>
  BY DEF HandleDelegate
<1>5. RestOK' /\ Grows
  BY <1>4, RestIs DEF RestOK, Grows
<1>6. ASSUME NEW w \in {x.answer, {"not found"}}, mailbox' = rest,
             run' = [run EXCEPT ![r] = [x EXCEPT !.answer = w, !.pc = "lost"]]
      PROVE  Kept
  <2> DEFINE y == [x EXCEPT !.answer = w, !.pc = "lost"]
  <2>1. {"not found"} \notin SUBSET Events
    BY DEF Events
  <2>2. /\ y \in Run
        /\ y.chan = x.chan /\ y.heard = x.heard /\ y.delegated = x.delegated
        /\ y.answer = x.answer \/ y.answer \notin SUBSET Events
        /\ y.last = x.last /\ y.over = x.over /\ y.event = x.event /\ y.pc = "lost"
        /\ y.agent = x.agent /\ y.ctx = x.ctx
    BY <1>2, <2>1 DEF Run
  <2>3. CutShort(r) = (y.ctx \/ cancelled'[y.agent]) /\ run' = [run EXCEPT ![r] = y]
    BY <1>4, <1>6, <2>2 DEF CutShort
  <2> HIDE DEF y, x, r
  <2>4. Faithful(y, y.ctx \/ cancelled'[y.agent])
    BY <1>2, <1>3, <2>2, <2>3, SameTold
  <2>5. Owned(y)
    BY <1>2, <1>3, <2>2 DEF Owned
  <2>6. RunsKept
    BY <1>1, <1>2, <1>5, <2>2, <2>3, <2>4, <2>5, RunChanges
  <2>7. \A s \in Runs : run[s].pc = "sent" => run'[s].pc = "sent" \/ Carries(a, 1, s)
    BY <1>1, <1>2, <2>3
  <2>8. MailKept
    BY <1>1, <1>6, <2>7, TakeKeeps
  <2> QED
    BY <1>5, <2>6, <2>8 DEF Kept
<1>7. CASE mailbox' = rest /\ run' = [run EXCEPT ![r].answer = {"not found"}, ![r].pc = "lost"]
  <2>1. run' = [run EXCEPT ![r] = [x EXCEPT !.answer = {"not found"}, !.pc = "lost"]]
    BY <1>1, <1>2, <1>7
  <2> HIDE DEF x, r, rest
  <2> QED
    BY <1>6, <1>7, <2>1
<1>8. CASE mailbox' = rest /\ run' = [run EXCEPT ![r].pc = "lost"]
  <2>1. run' = [run EXCEPT ![r] = [x EXCEPT !.answer = x.answer, !.pc = "lost"]]
    BY <1>1, <1>2, <1>8 DEF Run
  <2> HIDE DEF x, r, rest
  <2> QED
    BY <1>6, <1>8, <2>1
<1>9. CASE /\ Len(rest[b]) < MailboxSize /\ UNCHANGED run
           /\ mailbox' = [rest EXCEPT ![b] = Append(@, [op |-> "run", run |-> r])]
  <2> DEFINE m == [op |-> "run", run |-> r]
  <2>1. m \in Message /\ Starts(m) = {r}
    BY <1>1 DEF Message, Starts
  <2>2. Len(rest[b]) < MailboxSize /\ mailbox' = [rest EXCEPT ![b] = Append(@, m)]
    BY <1>9
  <2> HIDE DEF m, b, r
  <2>3. Arrives(a, b, {r})
    BY <1>1, <2>1, <2>2, RestIs, ArrivesMoved
  <2>4. ASSUME NEW c \in Agents, NEW k \in Nat \ {0} PROVE ~Carries(c, Slot(a, c, k), r)
    <3>1. Slot(a, c, k) \in Nat /\ (c = a => Slot(a, c, k) # 1)
      BY DEF Slot
    <3> QED
      BY <1>1, <3>1, RestIs DEF TicketsInv
  <2>5. run'[r].pc = "sent" /\ \A s \in Runs : run[s].pc = "sent" => run'[s].pc = "sent"
    BY <1>3, <1>9
  <2>6. TicketsInv'
    BY <1>1, <2>3, <2>4, <2>5, RestIs, TicketsStep
  <2>7. MailKept
    BY <2>3, <2>6 DEF MailKept, Arrives
  <2> QED
    BY <1>5, <1>9, <2>7, RunsSame DEF Kept
<1> QED
  BY <1>7, <1>8, <1>9 DEF HandleDelegate

\* Messages that start no Run.
LEMMA OtherKeeps ==
    ASSUME AnswersInv, NEW a \in Agents,
           HandleSubscribe(a) \/ HandleUnsubscribe(a) \/ HandleStopMessage(a)
               \/ HandlePill(a) \/ LoopCancelled(a)
    PROVE  Kept
<1>1. RestOK /\ AgentTypeOK /\ TicketsInv
  BY RestIs
<1>2. UNCHANGED run
  BY DEF HandleSubscribe, HandleUnsubscribe, HandleStopMessage, HandlePill, LoopCancelled
<1>3. ASSUME NEW done, HandleStop(a, done)
      PROVE  /\ Grows /\ cancelled' \in [Agents -> BOOLEAN] /\ agentClosed' \in [Agents -> BOOLEAN]
             /\ subscribers' \in [Agents -> [SubscriberIds -> Channels \cup {NoChannel}]]
             /\ closed' \subseteq Channels
  <2>1. {subscribers[a][i] : i \in done} \subseteq Channels
    BY <1>1, <1>3 DEF HandleStop, Subscribed, RestOK
  <2>2. closed' \subseteq Channels
    BY <1>1, <1>3, <2>1 DEF HandleStop, RestOK
  <2>3. cancelled' = [cancelled EXCEPT ![a] = TRUE]
    BY <1>3 DEF HandleStop
  <2>4. subscribers' \in {subscribers,
                         [subscribers EXCEPT ![a] = [i \in SubscriberIds |-> NoChannel]]}
    BY <1>3 DEF HandleStop
  <2>5. agentClosed' \in {agentClosed, [agentClosed EXCEPT ![a] = TRUE]}
    BY <1>3 DEF HandleStop
  <2>6. Grows /\ cancelled' \in [Agents -> BOOLEAN]
    BY <1>1, <2>3 DEF RestOK, Grows
  <2>7. agentClosed' \in [Agents -> BOOLEAN]
    BY <1>1, <2>5 DEF RestOK
  <2>8. subscribers' \in [Agents -> [SubscriberIds -> Channels \cup {NoChannel}]]
    BY <1>1, <2>4 DEF RestOK
  <2> QED
    BY <2>2, <2>6, <2>7, <2>8
<1>4. RestOK' /\ Grows
  <2>1. CASE HandleSubscribe(a)
    <3>1. Head(mailbox[a]).id \in SubscriberIds /\ Head(mailbox[a]).chan \in Channels
      BY <2>1, FirstMessage, MessageIs DEF HandleSubscribe, Handles
    <3>2. Drop(a, Head(mailbox[a]).id) \in [Channels -> Agents \cup {"new", "sent", "dropped"}]
      BY <1>1 DEF Drop, RestOK
    <3> QED
      BY <1>1, <2>1, <3>1, <3>2 DEF HandleSubscribe, RestOK, Grows
  <2>2. CASE HandleUnsubscribe(a)
    <3>1. Drop(a, Head(mailbox[a]).id) \in [Channels -> Agents \cup {"new", "sent", "dropped"}]
      BY <1>1 DEF Drop, RestOK
    <3> QED
      BY <1>1, <2>2, <3>1 DEF HandleUnsubscribe, RestOK, Grows
  <2>3. CASE HandleStopMessage(a)
    <3>1. PICK done \in SUBSET SubscriberIds : HandleStop(a, done)
      BY <2>3 DEF HandleStopMessage
    <3> QED
      BY <1>1, <1>3, <2>3, <3>1 DEF HandleStopMessage, RestOK
  <2>4. CASE HandlePill(a)
    <3>1. PICK done \in SUBSET SubscriberIds :
            /\ HandleStop(a, done)
            /\ loop' = [loop EXCEPT ![a] = IF done = Subscribed(a) THEN "stopped" ELSE "panicked"]
      BY <2>4 DEF HandlePill
    <3>2. loop' \in [Agents -> {"on", "stopped", "panicked", "cut"}]
      BY <1>1, <3>1 DEF RestOK
    <3> QED
      BY <1>1, <1>3, <2>4, <3>1, <3>2 DEF HandlePill, RestOK
  <2>5. CASE LoopCancelled(a)
    BY <1>1, <2>5 DEF LoopCancelled, RestOK, Grows
  <2> QED
    BY <2>1, <2>2, <2>3, <2>4, <2>5
<1>5. RunsKept
  BY <1>2, <1>4, RunsSame
<1>6. CASE mailbox[a] # <<>> /\ mailbox' = [mailbox EXCEPT ![a] = Tail(@)]
  BY <1>2, <1>4, <1>5, <1>6, TakeKeeps DEF Kept
<1>7. CASE mailbox' = [mailbox EXCEPT ![a] = <<>>]
  <2>1. Arrives(NoAgent, NoAgent, {}) /\ [op |-> "pill"] \in Message
    BY <1>1, <1>7, ArrivesCleared DEF Message
  <2> QED
    BY <1>2, <1>4, <1>5, <2>1, MailFewer DEF Kept
<1>8. CASE mailbox[a] # <<>> /\ mailbox' = [mailbox EXCEPT ![a] = Append(Tail(@), [op |-> "pill"])]
  <2>1. PICK rest, m : rest = [mailbox EXCEPT ![a] = Tail(@)] /\ m = [op |-> "pill"]
    OBVIOUS
  <2>2. m \in Message /\ Starts(m) = {}
    BY <2>1 DEF Message, Starts
  <2>3. rest[a] = Tail(mailbox[a])
    BY <1>1, <2>1 DEF AgentTypeOK
  <2>4. mailbox' = [rest EXCEPT ![a] = Append(@, m)]
    BY <1>1, <1>8, <2>1 DEF AgentTypeOK
  <2>5. Len(rest[a]) < MailboxSize
    <3>1. mailbox[a] \in Seq(Message) /\ Len(mailbox[a]) <= MailboxSize
      BY <1>1 DEF AgentTypeOK
    <3>2. Len(Tail(mailbox[a])) = Len(mailbox[a]) - 1 /\ Len(mailbox[a]) \in Nat
      BY <1>8, <3>1, SeqFacts
    <3>3. MailboxSize \in Nat
      BY AgentAssumption
    <3> QED
      BY <2>3, <3>1, <3>2, <3>3
  <2>6. Arrives(a, a, Starts(m))
    BY <1>1, <1>8, <2>1, <2>2, <2>4, <2>5, ArrivesMoved
  <2> QED
    BY <1>2, <1>4, <1>5, <2>2, <2>6, MailFewer DEF Kept
<1> QED
  BY <1>6, <1>7, <1>8 DEF HandleSubscribe, HandleUnsubscribe, HandleStopMessage, HandlePill,
     LoopCancelled, Handles

LEMMA GoroutineKeeps ==
    ASSUME AnswersInv, NEW r \in Runs, RunGoroutine(r) \/ Waiter(r) PROVE Kept
<1>1. UNCHANGED mailbox
  BY DEF RunGoroutine, Waiter, RunUnchanged, RunEvent, RunOver, RunForward, RunGiveUp,
         RunList, RunBroadcast, RunBroadcastDone, WaiterHears, WaiterAnswers
<1>2. UNCHANGED <<running, loop, cancelled, agentClosed, subscribers, closed, listener, sends>>
  BY DEF RunGoroutine, Waiter, RunUnchanged, RunEvent, RunOver, RunForward, RunGiveUp,
         RunList, RunBroadcast, RunBroadcastDone, WaiterHears, WaiterAnswers
<1>3. crashed' \in Agents \cup {NoAgent}
  <2>1. run[r].agent \in Agents \cup {NoAgent} /\ crashed \in Agents \cup {NoAgent}
    BY TypedRun, RestIs DEF Run, RestOK
  <2> QED
    BY <2>1 DEF RunGoroutine, Waiter, RunEvent, RunOver, RunForward, RunGiveUp,
         RunList, RunBroadcast, RunBroadcastDone, WaiterHears, WaiterAnswers
<1>4. RestOK'
  BY <1>2, <1>3, RestIs DEF RestOK
<1>5. Arrives(NoAgent, NoAgent, {}) /\ [op |-> "pill"] \in Message
  BY <1>1, RestIs, ArrivesSame DEF Message
<1>6. RunsKept /\ \A s \in Runs : run[s].pc = "sent" => run'[s].pc = "sent"
  BY GoroutineRuns
<1>7. MailKept
  BY <1>5, <1>6, MailFewer
<1> QED
  BY <1>4, <1>6, <1>7 DEF Kept

LEMMA AnswersStep == AnswersInv /\ [Next]_vars => AnswersInv'
<1> SUFFICES ASSUME AnswersInv, [Next]_vars PROVE AnswersInv'
  OBVIOUS
<1>1. CASE Client
  BY <1>1, ClientKeeps, KeptIs
<1>2. ASSUME NEW a \in Agents, Receive(a) PROVE AnswersInv'
  BY <1>2, RunKeeps, DelegateKeeps, OtherKeeps, KeptIs DEF Receive
<1>3. ASSUME NEW r \in Runs, RunGoroutine(r) \/ Waiter(r) PROVE AnswersInv'
  BY <1>3, GoroutineKeeps, KeptIs
<1>4. CASE UNCHANGED vars
  BY <1>4 DEF vars, AnswersInv, AgentTypeOK, TicketsInv, Carries, CutShort
<1> QED
  BY <1>1, <1>2, <1>3, <1>4 DEF Next

\* Types and bounds, with or without channels of their own: no mailbox and no
\* channel of a Run holds more than it can.
THEOREM AgentTypeCorrect == Spec => []AgentTypeOK
<1>1. AnswersInv => AgentTypeOK
  BY DEF AnswersInv
<1> QED
  BY <1>1, AnswersInit, AnswersStep, PTL DEF Spec

\* What a Delegate answers is the result or the error that the stream of its
\* Run ended with, unless the Run was cut short (agent.go:349-369).
THEOREM AnswersCorrect == Spec => []AnswerIsTheOutcome
<1>1. AnswersInv => AnswerIsTheOutcome
  BY DEF AnswersInv, Faithful, AnswerIsTheOutcome
<1> QED
  BY <1>1, AnswersInit, AnswersStep, PTL DEF Spec

=============================================================================
