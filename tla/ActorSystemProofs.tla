------------------------- MODULE ActorSystemProofs -------------------------
(***************************************************************************)
(* Proofs about ActorSystem, for every set of names, cells and clients and *)
(* every size of mailbox.  The inductive invariant is                      *)
(*     TypeOK /\ BornCells /\ RegistryIsLive                               *)
(* and the later theorems add to it what each of them needs: GracefulInv,  *)
(* OwnInv and OrderInv.                                                    *)
(***************************************************************************)
EXTENDS ActorSystem, FiniteSetTheorems, TLAPS

\* What a send does to the routing state, seen by the type invariant.
LEMMA SendType ==
  ASSUME TypeOK, NEW n \in Names, NEW kind \in Kinds, NEW about \in MaybeName,
         kind \in {"Watch", "Unwatch", "Terminated"} => about \in Names,
         SendWithSender(n, kind, about)
  PROVE  mailbox' \in Seq(Envelope) /\ deadLetters' \in Nat /\ totalMessages' \in Nat
<1>1. CASE isRunning /\ Enqueue(n, kind, about)
  <2> DEFINE e == [target |-> n, kind |-> kind, about |-> about, id |-> totalMessages + 1]
  <2>1. e \in Envelope
    BY DEF Envelope, TypeOK, MaybeName
  <2>2. mailbox' = Append(mailbox, e)
    BY <1>1 DEF Enqueue
  <2> HIDE DEF e
  <2>3. Append(mailbox, e) \in Seq(Envelope)
    BY <2>1 DEF TypeOK
  <2>. QED
    BY <2>2, <2>3, <1>1 DEF Enqueue, TypeOK
<1>2. CASE DeadLetter
  BY <1>2 DEF DeadLetter, TypeOK
<1>3. CASE UNCHANGED routeVars
  BY <1>3 DEF routeVars, TypeOK
<1>. QED
  BY <1>1, <1>2, <1>3 DEF SendWithSender

LEMMA TryType ==
  ASSUME TypeOK, NEW n \in Names, TrySend(n, "User")
  PROVE  mailbox' \in Seq(Envelope) /\ deadLetters' \in Nat /\ totalMessages' \in Nat
<1>1. CASE isRunning /\ Enqueue(n, "User", NoName)
  <2> DEFINE e == [target |-> n, kind |-> "User", about |-> NoName, id |-> totalMessages + 1]
  <2>1. e \in Envelope
    BY DEF Envelope, TypeOK, Kinds
  <2>2. mailbox' = Append(mailbox, e)
    BY <1>1 DEF Enqueue
  <2> HIDE DEF e
  <2>3. Append(mailbox, e) \in Seq(Envelope)
    BY <2>1 DEF TypeOK
  <2>. QED
    BY <2>2, <2>3, <1>1 DEF Enqueue, TypeOK
<1>2. CASE UNCHANGED routeVars
  BY <1>2 DEF routeVars, TypeOK
<1>. QED
  BY <1>1, <1>2 DEF TrySend

LEMMA LookupType ==
  ASSUME TypeOK, BornCells, NEW t \in Threads, NEW n \in Names, StopLookup(t, n)
  PROVE  /\ call' \in [Threads -> Calls]
         /\ \A s \in Threads : call'[s].step # "none" => Born(call'[s].cell)
BY DEF TypeOK, BornCells, StopLookup, Calls, MaybeCell, Born

\* Each action keeps every variable in its type.
LEMMA TypeStep ==
  ASSUME TypeOK, BornCells, RegistryIsLive, [Next]_vars
  PROVE  TypeOK'
<1>. USE DEF TypeOK, registryVars, routeVars, threadVars, systemVars, worldVars, cellVars, restVars
<1>1. ASSUME NEW t \in Threads, NEW n \in Names, Spawn(t, n) PROVE TypeOK'
  <2>1. mailbox' \in Seq(Envelope) /\ deadLetters' \in Nat /\ totalMessages' \in Nat
    BY <1>1, SendType DEF Spawn, Kinds, MaybeName, BornCells, Born, Free, Handlers, Threads, Calls
  <2>2. \E c \in Cells, p \in MaybeName : Register(c, n, p)
    BY <1>1 DEF Spawn, MaybeName
  <2>3. /\ registry' \in [Names -> MaybeCell] /\ spawner' \in [Cells -> MaybeCell]
        /\ nameOf' \in [Cells -> MaybeName] /\ parentOf' \in [Cells -> MaybeName]
        /\ children' \in [Cells -> SUBSET Names]
        /\ totalActors' \in Int /\ pc' \in [Cells -> Points]
    BY <2>2 DEF Register, MaybeCell, MaybeName, Points, LoopPoints
  <2>. QED
    BY <2>1, <2>3, <1>1 DEF Spawn, OneCall
<1>2. ASSUME NEW t \in Threads, NEW n \in Names, SendUser(t, n) PROVE TypeOK'
  <2>1. mailbox' \in Seq(Envelope) /\ deadLetters' \in Nat /\ totalMessages' \in Nat
    BY <1>2, SendType DEF SendUser, Kinds, MaybeName, BornCells, Born, Free, Handlers, Threads,
       Calls
  <2>. QED
    BY <2>1, <1>2 DEF SendUser, OneCall
<1>3. ASSUME NEW t \in Threads, NEW n \in Names, Stop(t, n) PROVE TypeOK'
  <2>1. call' \in [Threads -> Calls]
    BY <1>3, LookupType DEF Stop, Threads, BornCells
  <2>. QED
    BY <2>1, <1>3 DEF Stop, OneCall
<1>4. ASSUME NEW c \in Cells, NEW n \in Names, SendWatch(c, n) PROVE TypeOK'
  <2>1. PICK kind \in {"Watch", "Unwatch"} : SendWithSender(n, kind, nameOf[c])
    BY <1>4 DEF SendWatch
  <2>2. nameOf[c] \in Names
    BY <1>4 DEF SendWatch, Free, Handlers, BornCells, Threads
  <2>3. mailbox' \in Seq(Envelope) /\ deadLetters' \in Nat /\ totalMessages' \in Nat
    BY <2>1, <2>2, SendType DEF Kinds, MaybeName
  <2>. QED
    BY <2>3, <1>4 DEF SendWatch, OneCall
<1>5. ASSUME NEW u \in Clients, NEW n \in Names, StopGracefully(u, n) PROVE TypeOK'
  <2>1. client[u] \in ClientState
    OBVIOUS
  <2>2. client' \in [Clients -> ClientState]
    BY <2>1, <1>5 DEF StopGracefully, ClientState, ClientOps, MaybeCell
  <2>3. call' \in [Threads -> Calls]
    BY <1>5, <2>1, LookupType DEF StopGracefully, Threads, ClientState
  <2>. QED
    BY <2>2, <2>3, <1>5 DEF StopGracefully, OneCall
<1>6. ASSUME NEW u \in Clients, Broadcast(u) PROVE TypeOK'
  <2>1. client[u] \in ClientState
    OBVIOUS
  <2>2. client' \in [Clients -> ClientState]
    BY <2>1, <1>6 DEF Broadcast, RegisteredNames, ClientState, ClientOps, MaybeCell
  <2>. QED
    BY <2>2, <1>6 DEF Broadcast, OneCall
<1>7. ASSUME NEW u \in Clients, Shutdown(u) PROVE TypeOK'
  <2>1. client' \in [Clients -> ClientState]
    BY <1>7 DEF Shutdown, Begin, Idle, ClientState, ClientOps, MaybeCell
  <2>2. isRunning' \in BOOLEAN
    BY <1>7 DEF Shutdown
  <2>3. calls' \in Nat
    BY <1>7 DEF Shutdown, OneCall
  <2>. QED
    BY <2>1, <2>2, <2>3, <1>7 DEF Shutdown
<1>8. ASSUME NEW c \in Cells, Panic(c) PROVE TypeOK'
  BY <1>8 DEF Panic, Goto, InReceive, OneCall, Points, LoopPoints, LeftLoop
<1>9. ASSUME NEW t \in Threads, StopSend(t) PROVE TypeOK'
  <2>1. mailbox' \in Seq(Envelope) /\ deadLetters' \in Nat /\ totalMessages' \in Nat
    BY <1>9, SendType DEF StopSend, Kinds, MaybeName, BornCells, Born, Free, Handlers, Threads,
       Calls
  <2>. QED
    BY <2>1, <1>9 DEF StopSend, Calls
<1>10. ASSUME NEW t \in Threads, StopMark(t) PROVE TypeOK'
  BY <1>10 DEF StopMark, NoCall, States, Calls, MaybeCell, BornCells, Born
<1>11. ASSUME NEW u \in Clients, Poll(u) PROVE TypeOK'
  <2>1. client[u] \in ClientState
    OBVIOUS
  <2>2. CASE Begin(u, "idle")
    <3>1. client' \in [Clients -> ClientState]
      BY <2>2 DEF Begin, Idle, ClientState, ClientOps, MaybeCell
    <3>. QED
      BY <3>1, <1>11 DEF Poll, ClientStep
  <2>3. CASE ~Begin(u, "idle")
    <3>1. PICK n \in client[u].todo :
            client' = [client EXCEPT
              ![u].op = IF registry[n] = NoCell THEN "stopped" ELSE "readState",
              ![u].seen = registry[n]]
      BY <2>3, <1>11 DEF Poll
    <3>2. n \in Names /\ registry[n] \in MaybeCell
      BY <2>1 DEF ClientState
    <3>3. client' \in [Clients -> ClientState]
      BY <2>1, <3>1, <3>2 DEF ClientState, ClientOps
    <3>. QED
      BY <3>3, <1>11 DEF Poll, ClientStep
  <2>. QED
    BY <2>2, <2>3
<1>12. ASSUME NEW u \in Clients, PollState(u) PROVE TypeOK'
  <2>1. client[u] \in ClientState
    OBVIOUS
  <2>2. client' \in [Clients -> ClientState]
    BY <2>1, <1>12 DEF PollState, ClientState, ClientOps, MaybeCell
  <2>. QED
    BY <2>2, <1>12 DEF PollState, ClientStep
<1>13. ASSUME NEW u \in Clients, BroadcastNext(u) PROVE TypeOK'
  <2>1. client[u] \in ClientState
    OBVIOUS
  <2>2. client' \in [Clients -> ClientState]
    <3>1. CASE Begin(u, "idle")
      BY <3>1 DEF Begin, Idle, ClientState, ClientOps, MaybeCell
    <3>2. CASE \E n \in client[u].todo : client' = [client EXCEPT ![u].todo = @ \ {n}]
      <4>1. PICK n \in client[u].todo : client' = [client EXCEPT ![u].todo = @ \ {n}]
        BY <3>2
      <4>2. client[u].todo \ {n} \in SUBSET Names
        BY <2>1 DEF ClientState
      <4>. QED
        BY <2>1, <4>1, <4>2 DEF ClientState
    <3>. QED
      BY <3>1, <3>2, <1>13 DEF BroadcastNext
  <2>3. mailbox' \in Seq(Envelope) /\ deadLetters' \in Nat /\ totalMessages' \in Nat
    BY <1>13, <2>1, TryType DEF BroadcastNext, ClientState
  <2>. QED
    BY <2>2, <2>3, <1>13 DEF BroadcastNext, ClientStep
<1>14. ASSUME NEW u \in Clients, ShutdownSnapshot(u) PROVE TypeOK'
  <2>1. client[u] \in ClientState
    OBVIOUS
  <2>2. client' \in [Clients -> ClientState]
    BY <2>1, <1>14 DEF ShutdownSnapshot, RegisteredNames, ClientState, ClientOps, MaybeCell
  <2>. QED
    BY <2>2, <1>14 DEF ShutdownSnapshot, ClientStep
<1>15. ASSUME NEW u \in Clients, ShutdownStop(u) PROVE TypeOK'
  <2>1. client[u] \in ClientState
    OBVIOUS
  <2>2. PICK n \in client[u].todo :
          StopLookup(u, n) /\ client' = [client EXCEPT ![u].todo = @ \ {n}]
    BY <1>15 DEF ShutdownStop
  <2>3. n \in Names /\ client[u].todo \ {n} \in SUBSET Names
    BY <2>1 DEF ClientState
  <2>4. client' \in [Clients -> ClientState]
    BY <2>1, <2>2, <2>3 DEF ClientState
  <2>5. call' \in [Threads -> Calls]
    BY <2>2, <2>3, LookupType DEF Threads
  <2>. QED
    BY <2>4, <2>5, <1>15 DEF ShutdownStop
<1>16. ASSUME NEW u \in Clients, ShutdownCancel(u) PROVE TypeOK'
  <2>1. client[u] \in ClientState
    OBVIOUS
  <2>2. client' \in [Clients -> ClientState]
    BY <2>1, <1>16 DEF ShutdownCancel, ClientState, ClientOps, MaybeCell
  <2>. QED
    BY <2>2, <1>16 DEF ShutdownCancel, ClientStep
<1>17. ASSUME NEW u \in Clients, ShutdownReturn(u) PROVE TypeOK'
  <2>1. client[u] \in ClientState
    OBVIOUS
  <2>2. client' \in [Clients -> ClientState]
    BY <2>1, <1>17 DEF ShutdownReturn, Begin, Idle, ClientState, ClientOps, MaybeCell
  <2>. QED
    BY <2>2, <1>17 DEF ShutdownReturn, ClientStep
<1>18. ASSUME NEW u \in Clients, ShutdownTimeout(u) PROVE TypeOK'
  <2>1. client[u] \in ClientState
    OBVIOUS
  <2>2. client' \in [Clients -> ClientState]
    BY <2>1, <1>18 DEF ShutdownTimeout, Begin, Idle, ClientState, ClientOps, MaybeCell
  <2>. QED
    BY <2>2, <1>18 DEF ShutdownTimeout, ClientStep
<1>19. ASSUME DispatcherTake PROVE TypeOK'
  <2>1. dispatcher' \in DispatcherState
    BY <1>19 DEF DispatcherTake, Route, DispatcherState, MaybeEnvelope, MaybeCell, BornCells
  <2>2. inbox' \in [Cells -> Seq(Envelope)] /\ mailbox' \in Seq(Envelope)
    BY <1>19 DEF DispatcherTake, Route, BornCells, Born, DeadLetter
  <2>3. deadLetters' \in Nat
    BY <1>19 DEF DispatcherTake, DeadLetter
  <2>. QED
    BY <2>1, <2>2, <2>3, <1>19 DEF DispatcherTake, Route
<1>20. ASSUME DispatcherLookup PROVE TypeOK'
  <2>1. dispatcher.env \in Envelope /\ dispatcher.env.target \in Names
    BY <1>20 DEF DispatcherLookup, BornCells, Envelope
  <2>2. registry[dispatcher.env.target] \in MaybeCell
    BY <2>1
  <2>3. dispatcher' \in DispatcherState
    <3>1. CASE dispatcher' = [step |-> "select", env |-> NoEnvelope, cell |-> NoCell]
      BY <3>1 DEF DispatcherState, MaybeEnvelope, MaybeCell
    <3>2. CASE dispatcher' = [dispatcher EXCEPT !.step = "deliver",
                                                !.cell = registry[dispatcher.env.target]]
      BY <3>2, <2>2 DEF DispatcherState
    <3>. QED
      BY <3>1, <3>2, <1>20 DEF DispatcherLookup, Route
  <2>4. deadLetters' \in Nat /\ mailbox' = mailbox
    BY <1>20 DEF DispatcherLookup, DeadLetter
  <2>. QED
    BY <2>3, <2>4, <1>20 DEF DispatcherLookup, Route
<1>21. ASSUME DispatcherDeliver PROVE TypeOK'
  <2>1. dispatcher.env \in Envelope /\ dispatcher.cell \in Cells
    BY <1>21 DEF DispatcherDeliver, BornCells, Born
  <2>2. dispatcher' \in DispatcherState
    BY <1>21 DEF DispatcherDeliver, Route, DispatcherState, MaybeEnvelope, MaybeCell
  <2>3. deadLetters' \in Nat /\ mailbox' = mailbox
    BY <1>21 DEF DispatcherDeliver, DeadLetter
  <2>4. Append(inbox[dispatcher.cell], dispatcher.env) \in Seq(Envelope)
    BY <2>1
  <2>5. inbox' \in [Cells -> Seq(Envelope)]
    BY <1>21, <2>1, <2>4 DEF DispatcherDeliver
  <2>. QED
    BY <2>2, <2>3, <2>5, <1>21 DEF DispatcherDeliver, Route
<1>22. ASSUME DispatcherExit PROVE TypeOK'
  <2>1. dispatcher' \in DispatcherState
    BY <1>22 DEF DispatcherExit, Route, DispatcherState, MaybeEnvelope, MaybeCell, BornCells
  <2>2. inbox' \in [Cells -> Seq(Envelope)] /\ mailbox' \in Seq(Envelope)
    BY <1>22 DEF DispatcherExit, Route, BornCells, Born, DeadLetter
  <2>3. deadLetters' \in Nat
    BY <1>22 DEF DispatcherExit, DeadLetter
  <2>. QED
    BY <2>1, <2>2, <2>3, <1>22 DEF DispatcherExit, Route
<1>23. ASSUME ReaperTake PROVE TypeOK'
  BY <1>23 DEF ReaperTake
<1>24. ASSUME ReaperExit PROVE TypeOK'
  BY <1>24 DEF ReaperExit
<1>25. ASSUME NEW c \in Cells, LoopStart(c) PROVE TypeOK'
  BY <1>25 DEF LoopStart, MoveIn, Goto, Points, LoopPoints, LeftLoop, States
<1>26. ASSUME NEW c \in Cells, LoopCancelled(c) PROVE TypeOK'
  BY <1>26 DEF LoopCancelled, Move, Goto, Points, LoopPoints, LeftLoop
<1>27. ASSUME NEW c \in Cells, LoopTake(c) PROVE TypeOK'
  <2>1. Head(inbox[c]) \in Envelope /\ Tail(inbox[c]) \in Seq(Envelope)
    BY <1>27 DEF LoopTake
  <2>2. Head(inbox[c]).kind \in {"Watch", "Unwatch"} => Head(inbox[c]).about \in Names
    BY <2>1 DEF Envelope
  <2>3. watchers' \in [Cells -> SUBSET Names]
    <3> DEFINE w == Head(inbox[c]).about
    <3>1. CASE w \in Names /\ watchers' = [watchers EXCEPT ![c] = @ \cup {w}]
      BY <3>1
    <3>2. CASE watchers' = [watchers EXCEPT ![c] = @ \ {w}]
      BY <3>2
    <3>3. CASE UNCHANGED watchers
      BY <3>3
    <3>. QED
      BY <2>2, <3>1, <3>2, <3>3, <1>27 DEF LoopTake
  <2>4. pc' \in [Cells -> Points]
    BY <1>27 DEF LoopTake, Goto, Points, LoopPoints
  <2>5. inbox' \in [Cells -> Seq(Envelope)] /\ handling' \in [Cells -> MaybeEnvelope]
    BY <1>27, <2>1 DEF LoopTake, MaybeEnvelope
  <2>. QED
    BY <2>3, <2>4, <2>5, <1>27 DEF LoopTake
<1>28. ASSUME NEW c \in Cells, ReceiveReturn(c) PROVE TypeOK'
  BY <1>28 DEF ReceiveReturn, Move, AfterMessage, InReceive, Goto, Points, LoopPoints, LeftLoop
<1>29. ASSUME NEW c \in Cells, DirectiveResume(c) PROVE TypeOK'
  BY <1>29 DEF DirectiveResume, Move, AfterMessage, Goto, Points, LoopPoints, LeftLoop
<1>30. ASSUME NEW c \in Cells, DirectiveRestart(c) PROVE TypeOK'
  BY <1>30 DEF DirectiveRestart, MoveIn, Goto, Points, LoopPoints, LeftLoop, States
<1>31. ASSUME NEW c \in Cells, RestartSend(c) PROVE TypeOK'
  <2>1. mailbox' \in Seq(Envelope) /\ deadLetters' \in Nat /\ totalMessages' \in Nat
    BY <1>31, SendType DEF RestartSend, Kinds, MaybeName, BornCells, Born, Free, Handlers,
       Threads, Calls
  <2>. QED
    BY <2>1, <1>31 DEF RestartSend, SendFrame, Goto, Points, LoopPoints
<1>32. ASSUME NEW c \in Cells, RestartRun(c) PROVE TypeOK'
  BY <1>32 DEF RestartRun, MoveIn, AfterMessage, Goto, Points, LoopPoints, LeftLoop, States
<1>33. ASSUME NEW c \in Cells, DirectiveEscalate(c) PROVE TypeOK'
  <2>1. mailbox' \in Seq(Envelope) /\ deadLetters' \in Nat /\ totalMessages' \in Nat
    BY <1>33, SendType DEF DirectiveEscalate, Kinds, MaybeName, BornCells, Born, Free, Handlers,
       Threads, Calls
  <2>. QED
    BY <2>1, <1>33 DEF DirectiveEscalate, SendFrame, Goto, Points, LoopPoints
<1>34. ASSUME NEW c \in Cells, DirectiveStop(c) PROVE TypeOK'
  <2>1. call' \in [Threads -> Calls]
    BY <1>34, LookupType DEF DirectiveStop, Threads, BornCells
  <2>. QED
    BY <2>1, <1>34 DEF DirectiveStop, Goto, Points, LoopPoints
<1>35. ASSUME NEW c \in Cells, StopSelfReturn(c) PROVE TypeOK'
  BY <1>35 DEF StopSelfReturn, Move, AfterMessage, Goto, Points, LoopPoints, LeftLoop
<1>36. ASSUME NEW c \in Cells, CleanupStopped(c) PROVE TypeOK'
  BY <1>36 DEF CleanupStopped, MoveIn, Goto, Points, LoopPoints, LeftLoop, States
<1>37. ASSUME NEW c \in Cells, StoppedReturn(c) PROVE TypeOK'
  BY <1>37 DEF StoppedReturn, Move, Goto, Points, LoopPoints, LeftLoop
<1>38. ASSUME NEW c \in Cells, NotifyWatcher(c) PROVE TypeOK'
  <2>1. mailbox' \in Seq(Envelope) /\ deadLetters' \in Nat /\ totalMessages' \in Nat
    BY <1>38, SendType DEF NotifyWatcher, Kinds, MaybeName, BornCells, Born, Free, Handlers,
       Threads, Calls
  <2>. QED
    BY <2>1, <1>38 DEF NotifyWatcher, SendFrame
<1>39. ASSUME NEW c \in Cells, NotifyDone(c) PROVE TypeOK'
  BY <1>39 DEF NotifyDone, RangeDone, Goto, Points, LoopPoints, LeftLoop
<1>40. ASSUME NEW c \in Cells, StopChild(c) PROVE TypeOK'
  <2>1. call' \in [Threads -> Calls]
    BY <1>40, LookupType DEF StopChild, Threads, BornCells
  <2>. QED
    BY <2>1, <1>40 DEF StopChild
<1>41. ASSUME NEW c \in Cells, StopChildrenDone(c) PROVE TypeOK'
  BY <1>41 DEF StopChildrenDone, RangeDone, Goto, Points, LoopPoints, LeftLoop
<1>42. ASSUME NEW c \in Cells, Unregister(c) PROVE TypeOK'
  BY <1>42 DEF Unregister, CleanupFrame, Goto, Points, LoopPoints, LeftLoop, MaybeCell
<1>43. ASSUME NEW c \in Cells, Unlink(c) PROVE TypeOK'
  BY <1>43 DEF Unlink, CleanupFrame, Goto, Points, LoopPoints, LeftLoop
<1>44. ASSUME NEW c \in Cells, Release(c) PROVE TypeOK'
  BY <1>44 DEF Release, CleanupFrame, Goto, Points, LoopPoints, LeftLoop
<1>45. CASE UNCHANGED vars
  BY <1>45 DEF vars
<1>. QED
  BY <1>1, <1>2, <1>3, <1>4, <1>5, <1>6, <1>7, <1>8, <1>9, <1>10, <1>11, <1>12, <1>13, <1>14,
     <1>15, <1>16, <1>17, <1>18, <1>19, <1>20, <1>21, <1>22, <1>23, <1>24, <1>25, <1>26, <1>27,
     <1>28, <1>29, <1>30, <1>31, <1>32, <1>33, <1>34, <1>35, <1>36, <1>37, <1>38, <1>39, <1>40,
     <1>41, <1>42, <1>43, <1>44, <1>45
  DEF Next, UserCode, StopSteps, ClientSteps, DispatcherSteps, ReaperSteps, LoopSteps, CleanupSteps

\* A cell once referred to stays born.
LEMMA BornStep ==
  ASSUME TypeOK, BornCells, RegistryIsLive, [Next]_vars
  PROVE  BornCells'
<1>. USE DEF BornCells, Born, registryVars, routeVars, threadVars, systemVars, worldVars, cellVars, restVars
<1>1. ASSUME NEW t \in Threads, NEW n \in Names, Spawn(t, n) PROVE BornCells'
  <2>1. PICK c \in Cells, p \in MaybeName : pc[c] = "unborn" /\ Register(c, n, p)
    BY <1>1 DEF Spawn, MaybeName, Free, Handlers, TypeOK
  <2>2. \A k \in Cells : k # c => pc'[k] = pc[k] /\ nameOf'[k] = nameOf[k]
                                  /\ parentOf'[k] = parentOf[k]
    BY <2>1 DEF Register, TypeOK
  <2>3. pc'[c] = "starting" /\ nameOf'[c] = n
    BY <2>1 DEF Register, TypeOK
  <2>4. \A m \in Names : registry'[m] \in {registry[m], c}
    BY <2>1 DEF Register, TypeOK
  <2>5. \A k : Born(k) => Born(k)'
    BY <2>2, <2>3
  <2>6. UNCHANGED <<call, client, dispatcher>>
    BY <1>1 DEF Spawn
  <2>. QED
    BY <2>2, <2>3, <2>4, <2>5, <2>6
<1>2. ASSUME NEW t \in Threads, NEW n \in Names, SendUser(t, n) PROVE BornCells'
  BY <1>2 DEF SendUser, OneCall, TypeOK
<1>3. ASSUME NEW t \in Threads, NEW n \in Names, Stop(t, n) PROVE BornCells'
  BY <1>3 DEF Stop, StopLookup, OneCall, TypeOK, Threads, NoCall
<1>4. ASSUME NEW c \in Cells, NEW n \in Names, SendWatch(c, n) PROVE BornCells'
  BY <1>4 DEF SendWatch, OneCall, TypeOK
<1>5. ASSUME NEW u \in Clients, NEW n \in Names, StopGracefully(u, n) PROVE BornCells'
  BY <1>5 DEF StopGracefully, StopLookup, OneCall, TypeOK, Threads, NoCall
<1>6. ASSUME NEW u \in Clients, Broadcast(u) PROVE BornCells'
  BY <1>6 DEF Broadcast, OneCall, RegisteredNames, TypeOK
<1>7. ASSUME NEW u \in Clients, Shutdown(u) PROVE BornCells'
  BY <1>7 DEF Shutdown, Begin, OneCall, Idle, TypeOK
<1>8. ASSUME NEW c \in Cells, Panic(c) PROVE BornCells'
  BY <1>8 DEF Panic, Goto, InReceive, OneCall, TypeOK
<1>9. ASSUME NEW t \in Threads, StopSend(t) PROVE BornCells'
  BY <1>9 DEF StopSend, TypeOK, Threads, NoCall
<1>10. ASSUME NEW t \in Threads, StopMark(t) PROVE BornCells'
  BY <1>10 DEF StopMark, NoCall, TypeOK, Threads
<1>11. ASSUME NEW u \in Clients, Poll(u) PROVE BornCells'
  <2>1. UNCHANGED <<pc, nameOf, parentOf, registry, call, dispatcher>>
    BY <1>11 DEF Poll, ClientStep
  <2>2. \A v \in Clients \ {u} : client'[v] = client[v]
    BY <1>11 DEF Poll, Begin, TypeOK
  <2>3. client'[u].op = "readState" => Born(client'[u].seen)
    <3>1. CASE Begin(u, "idle")
      BY <3>1 DEF Begin, Idle, TypeOK
    <3>2. CASE ~Begin(u, "idle")
      <4>1. PICK n \in client[u].todo :
              client' = [client EXCEPT
                ![u].op = IF registry[n] = NoCell THEN "stopped" ELSE "readState",
                ![u].seen = registry[n]]
        BY <3>2, <1>11 DEF Poll
      <4>2. n \in Names
        BY DEF TypeOK, ClientState
      <4>3. /\ client'[u].op = IF registry[n] = NoCell THEN "stopped" ELSE "readState"
            /\ client'[u].seen = registry[n]
        BY <4>1 DEF TypeOK, ClientState
      <4>. QED
        BY <4>2, <4>3
    <3>. QED
      BY <3>1, <3>2
  <2>. QED
    BY <2>1, <2>2, <2>3
<1>12. ASSUME NEW u \in Clients, PollState(u) PROVE BornCells'
  BY <1>12 DEF PollState, ClientStep, TypeOK
<1>13. ASSUME NEW u \in Clients, BroadcastNext(u) PROVE BornCells'
  <2>1. UNCHANGED <<pc, nameOf, parentOf, registry, call, dispatcher>>
    BY <1>13 DEF BroadcastNext, ClientStep
  <2>2. \A v \in Clients \ {u} : client'[v] = client[v]
    BY <1>13 DEF BroadcastNext, Begin, TypeOK
  <2>3. client'[u].op # "readState"
    <3>1. client[u].op = "broadcast" /\ client[u] \in ClientState
      BY <1>13 DEF BroadcastNext, TypeOK
    <3>2. CASE Begin(u, "idle")
      BY <3>2 DEF Begin, Idle, TypeOK
    <3>3. CASE \E n \in client[u].todo : client' = [client EXCEPT ![u].todo = @ \ {n}]
      BY <3>1, <3>3 DEF TypeOK, ClientState
    <3>. QED
      BY <3>2, <3>3, <1>13 DEF BroadcastNext
  <2>. QED
    BY <2>1, <2>2, <2>3
<1>14. ASSUME NEW u \in Clients, ShutdownSnapshot(u) PROVE BornCells'
  BY <1>14 DEF ShutdownSnapshot, ClientStep, RegisteredNames, TypeOK
<1>15. ASSUME NEW u \in Clients, ShutdownStop(u) PROVE BornCells'
  <2>1. UNCHANGED <<pc, nameOf, parentOf, registry, dispatcher>>
    BY <1>15 DEF ShutdownStop
  <2>2. PICK n \in client[u].todo :
          StopLookup(u, n) /\ client' = [client EXCEPT ![u].todo = @ \ {n}]
    BY <1>15 DEF ShutdownStop
  <2>3. n \in Names
    BY DEF TypeOK, ClientState
  <2>4. \A s \in Threads : call'[s].step # "none" => Born(call'[s].cell)
    BY <2>2, <2>3, LookupType DEF Threads
  <2>5. \A v \in Clients : client'[v].op = client[v].op /\ client'[v].seen = client[v].seen
    BY <2>2 DEF TypeOK, ClientState
  <2>. QED
    BY <2>1, <2>4, <2>5
<1>16. ASSUME NEW u \in Clients, ShutdownCancel(u) PROVE BornCells'
  BY <1>16 DEF ShutdownCancel, ClientStep, TypeOK
<1>17. ASSUME NEW u \in Clients, ShutdownReturn(u) PROVE BornCells'
  BY <1>17 DEF ShutdownReturn, ClientStep, Begin, Idle, TypeOK
<1>18. ASSUME NEW u \in Clients, ShutdownTimeout(u) PROVE BornCells'
  BY <1>18 DEF ShutdownTimeout, ClientStep, Begin, Idle, TypeOK
<1>19. ASSUME DispatcherTake PROVE BornCells'
  BY <1>19 DEF DispatcherTake, Route, TypeOK
<1>20. ASSUME DispatcherLookup PROVE BornCells'
  <2>1. UNCHANGED <<pc, nameOf, parentOf, registry, call, client>>
    BY <1>20 DEF DispatcherLookup, Route
  <2>2. dispatcher.env \in Envelope /\ dispatcher.env.target \in Names
    BY <1>20 DEF DispatcherLookup, Envelope
  <2>3. CASE dispatcher'.step = "select"
    BY <2>1, <2>3
  <2>4. CASE dispatcher' = [dispatcher EXCEPT !.step = "deliver",
                                              !.cell = registry[dispatcher.env.target]]
             /\ registry[dispatcher.env.target] # NoCell
    <3>1. dispatcher'.env = dispatcher.env
          /\ dispatcher'.cell = registry[dispatcher.env.target]
      BY <2>4 DEF TypeOK, DispatcherState
    <3>. QED
      BY <2>1, <2>2, <2>4, <3>1
  <2>. QED
    BY <2>3, <2>4, <1>20 DEF DispatcherLookup, Route
<1>21. ASSUME DispatcherDeliver PROVE BornCells'
  BY <1>21 DEF DispatcherDeliver, Route, DeadLetter, TypeOK
<1>22. ASSUME DispatcherExit PROVE BornCells'
  BY <1>22 DEF DispatcherExit, Route, TypeOK
<1>23. ASSUME ReaperTake PROVE BornCells'
  BY <1>23 DEF ReaperTake, TypeOK
<1>24. ASSUME ReaperExit PROVE BornCells'
  BY <1>24 DEF ReaperExit, TypeOK
<1>25. ASSUME NEW c \in Cells, LoopStart(c) PROVE BornCells'
  BY <1>25 DEF LoopStart, MoveIn, Goto, TypeOK
<1>26. ASSUME NEW c \in Cells, LoopCancelled(c) PROVE BornCells'
  BY <1>26 DEF LoopCancelled, Move, Goto, TypeOK
<1>27. ASSUME NEW c \in Cells, LoopTake(c) PROVE BornCells'
  BY <1>27 DEF LoopTake, Goto, TypeOK
<1>28. ASSUME NEW c \in Cells, ReceiveReturn(c) PROVE BornCells'
  BY <1>28 DEF ReceiveReturn, Move, AfterMessage, InReceive, Goto, TypeOK
<1>29. ASSUME NEW c \in Cells, DirectiveResume(c) PROVE BornCells'
  BY <1>29 DEF DirectiveResume, Move, AfterMessage, Goto, TypeOK
<1>30. ASSUME NEW c \in Cells, DirectiveRestart(c) PROVE BornCells'
  BY <1>30 DEF DirectiveRestart, MoveIn, Goto, TypeOK
<1>31. ASSUME NEW c \in Cells, RestartSend(c) PROVE BornCells'
  BY <1>31 DEF RestartSend, SendFrame, Goto, TypeOK
<1>32. ASSUME NEW c \in Cells, RestartRun(c) PROVE BornCells'
  BY <1>32 DEF RestartRun, MoveIn, AfterMessage, Goto, TypeOK
<1>33. ASSUME NEW c \in Cells, DirectiveEscalate(c) PROVE BornCells'
  BY <1>33 DEF DirectiveEscalate, SendFrame, Goto, TypeOK
<1>34. ASSUME NEW c \in Cells, DirectiveStop(c) PROVE BornCells'
  BY <1>34 DEF DirectiveStop, StopLookup, Goto, TypeOK, Threads, NoCall
<1>35. ASSUME NEW c \in Cells, StopSelfReturn(c) PROVE BornCells'
  BY <1>35 DEF StopSelfReturn, Move, AfterMessage, Goto, TypeOK
<1>36. ASSUME NEW c \in Cells, CleanupStopped(c) PROVE BornCells'
  BY <1>36 DEF CleanupStopped, MoveIn, Goto, TypeOK
<1>37. ASSUME NEW c \in Cells, StoppedReturn(c) PROVE BornCells'
  BY <1>37 DEF StoppedReturn, Move, Goto, TypeOK
<1>38. ASSUME NEW c \in Cells, NotifyWatcher(c) PROVE BornCells'
  BY <1>38 DEF NotifyWatcher, SendFrame, TypeOK
<1>39. ASSUME NEW c \in Cells, NotifyDone(c) PROVE BornCells'
  BY <1>39 DEF NotifyDone, RangeDone, Goto, TypeOK
<1>40. ASSUME NEW c \in Cells, StopChild(c) PROVE BornCells'
  BY <1>40 DEF StopChild, StopLookup, TypeOK, Threads, NoCall
<1>41. ASSUME NEW c \in Cells, StopChildrenDone(c) PROVE BornCells'
  BY <1>41 DEF StopChildrenDone, RangeDone, Goto, TypeOK
<1>42. ASSUME NEW c \in Cells, Unregister(c) PROVE BornCells'
  BY <1>42 DEF Unregister, CleanupFrame, Goto, TypeOK
<1>43. ASSUME NEW c \in Cells, Unlink(c) PROVE BornCells'
  BY <1>43 DEF Unlink, CleanupFrame, Goto, TypeOK
<1>44. ASSUME NEW c \in Cells, Release(c) PROVE BornCells'
  BY <1>44 DEF Release, CleanupFrame, Goto, TypeOK
<1>45. CASE UNCHANGED vars
  BY <1>45 DEF vars
<1>. QED
  BY <1>1, <1>2, <1>3, <1>4, <1>5, <1>6, <1>7, <1>8, <1>9, <1>10, <1>11, <1>12, <1>13, <1>14,
     <1>15, <1>16, <1>17, <1>18, <1>19, <1>20, <1>21, <1>22, <1>23, <1>24, <1>25, <1>26, <1>27,
     <1>28, <1>29, <1>30, <1>31, <1>32, <1>33, <1>34, <1>35, <1>36, <1>37, <1>38, <1>39, <1>40,
     <1>41, <1>42, <1>43, <1>44, <1>45
  DEF Next, UserCode, StopSteps, ClientSteps, DispatcherSteps, ReaperSteps, LoopSteps, CleanupSteps

\* The registry and the control points of the cells change together.
LEMMA RegistryStep ==
  ASSUME TypeOK, BornCells, RegistryIsLive, [Next]_vars
  PROVE  RegistryIsLive'
<1>. USE DEF RegistryIsLive, TypeOK, Registered, LoopPoints, registryVars, routeVars, threadVars, systemVars, worldVars, cellVars, restVars
<1>1. ASSUME NEW t \in Threads, NEW n \in Names, Spawn(t, n) PROVE RegistryIsLive'
  <2>1. PICK c \in Cells, p \in MaybeName : pc[c] = "unborn" /\ Register(c, n, p)
    BY <1>1 DEF Spawn, MaybeName, Free, Handlers
  <2>2. \A k \in Cells : k # c => pc'[k] = pc[k] /\ nameOf'[k] = nameOf[k]
    BY <2>1 DEF Register
  <2>3. pc'[c] = "starting" /\ nameOf'[c] = n
    BY <2>1 DEF Register
  <2>4. registry'[n] = c /\ \A m \in Names : m # n => registry'[m] = registry[m]
    BY <2>1 DEF Register
  <2>5. registry[n] = NoCell
    BY <1>1 DEF Spawn
  <2>6. ASSUME NEW m \in Names, registry'[m] # NoCell
        PROVE  nameOf'[registry'[m]] = m /\ pc'[registry'[m]] \in Registered
    <3>1. CASE m = n
      BY <3>1, <2>3, <2>4
    <3>2. CASE m # n
      <4>1. registry[m] \in Cells /\ pc[registry[m]] \in Registered /\ nameOf[registry[m]] = m
        BY <3>2, <2>4, <2>6 DEF MaybeCell
      <4>. QED
        BY <4>1, <3>2, <2>1, <2>2, <2>4
    <3>. QED
      BY <3>1, <3>2
  <2>7. ASSUME NEW k \in Cells, pc'[k] \in Registered
        PROVE  nameOf'[k] \in Names /\ registry'[nameOf'[k]] = k
    <3>1. CASE k = c
      BY <3>1, <2>3, <2>4
    <3>2. CASE k # c
      BY <3>2, <2>2, <2>4, <2>5, <2>7, SystemAssumption
    <3>. QED
      BY <3>1, <3>2
  <2>. QED
    BY <2>6, <2>7
<1>2. ASSUME NEW t \in Threads, NEW n \in Names, SendUser(t, n) PROVE RegistryIsLive'
  BY <1>2 DEF SendUser
<1>3. ASSUME NEW t \in Threads, NEW n \in Names, Stop(t, n) PROVE RegistryIsLive'
  BY <1>3 DEF Stop
<1>4. ASSUME NEW c \in Cells, NEW n \in Names, SendWatch(c, n) PROVE RegistryIsLive'
  BY <1>4 DEF SendWatch
<1>5. ASSUME NEW u \in Clients, NEW n \in Names, StopGracefully(u, n) PROVE RegistryIsLive'
  BY <1>5 DEF StopGracefully
<1>6. ASSUME NEW u \in Clients, Broadcast(u) PROVE RegistryIsLive'
  BY <1>6 DEF Broadcast
<1>7. ASSUME NEW u \in Clients, Shutdown(u) PROVE RegistryIsLive'
  BY <1>7 DEF Shutdown
<1>8. ASSUME NEW c \in Cells, Panic(c) PROVE RegistryIsLive'
  BY <1>8 DEF Panic, Goto, InReceive
<1>9. ASSUME NEW t \in Threads, StopSend(t) PROVE RegistryIsLive'
  BY <1>9 DEF StopSend
<1>10. ASSUME NEW t \in Threads, StopMark(t) PROVE RegistryIsLive'
  BY <1>10 DEF StopMark
<1>11. ASSUME NEW u \in Clients, Poll(u) PROVE RegistryIsLive'
  BY <1>11 DEF Poll, ClientStep
<1>12. ASSUME NEW u \in Clients, PollState(u) PROVE RegistryIsLive'
  BY <1>12 DEF PollState, ClientStep
<1>13. ASSUME NEW u \in Clients, BroadcastNext(u) PROVE RegistryIsLive'
  BY <1>13 DEF BroadcastNext, ClientStep
<1>14. ASSUME NEW u \in Clients, ShutdownSnapshot(u) PROVE RegistryIsLive'
  BY <1>14 DEF ShutdownSnapshot, ClientStep
<1>15. ASSUME NEW u \in Clients, ShutdownStop(u) PROVE RegistryIsLive'
  BY <1>15 DEF ShutdownStop
<1>16. ASSUME NEW u \in Clients, ShutdownCancel(u) PROVE RegistryIsLive'
  BY <1>16 DEF ShutdownCancel, ClientStep
<1>17. ASSUME NEW u \in Clients, ShutdownReturn(u) PROVE RegistryIsLive'
  BY <1>17 DEF ShutdownReturn, ClientStep
<1>18. ASSUME NEW u \in Clients, ShutdownTimeout(u) PROVE RegistryIsLive'
  BY <1>18 DEF ShutdownTimeout, ClientStep
<1>19. ASSUME DispatcherTake PROVE RegistryIsLive'
  BY <1>19 DEF DispatcherTake, Route
<1>20. ASSUME DispatcherLookup PROVE RegistryIsLive'
  BY <1>20 DEF DispatcherLookup, Route
<1>21. ASSUME DispatcherDeliver PROVE RegistryIsLive'
  BY <1>21 DEF DispatcherDeliver, Route
<1>22. ASSUME DispatcherExit PROVE RegistryIsLive'
  BY <1>22 DEF DispatcherExit, Route
<1>23. ASSUME ReaperTake PROVE RegistryIsLive'
  BY <1>23 DEF ReaperTake
<1>24. ASSUME ReaperExit PROVE RegistryIsLive'
  BY <1>24 DEF ReaperExit
<1>25. ASSUME NEW c \in Cells, LoopStart(c) PROVE RegistryIsLive'
  BY <1>25 DEF LoopStart, MoveIn, Goto
<1>26. ASSUME NEW c \in Cells, LoopCancelled(c) PROVE RegistryIsLive'
  BY <1>26 DEF LoopCancelled, Move, Goto
<1>27. ASSUME NEW c \in Cells, LoopTake(c) PROVE RegistryIsLive'
  <2>1. UNCHANGED <<registry, nameOf>>
    BY <1>27 DEF LoopTake
  <2>2. pc[c] \in Registered /\ pc'[c] \in Registered
    BY <1>27 DEF LoopTake, Goto
  <2>3. \A k \in Cells : k # c => pc'[k] = pc[k]
    BY <1>27 DEF LoopTake, Goto
  <2>4. \A k \in Cells : pc'[k] \in Registered <=> pc[k] \in Registered
    BY <2>2, <2>3
  <2>5. \A n \in Names : registry[n] # NoCell => registry[n] \in Cells
    BY DEF MaybeCell
  <2> HIDE DEF TypeOK, Registered
  <2>. QED
    BY <2>1, <2>4, <2>5
<1>28. ASSUME NEW c \in Cells, ReceiveReturn(c) PROVE RegistryIsLive'
  BY <1>28 DEF ReceiveReturn, Move, AfterMessage, InReceive, Goto
<1>29. ASSUME NEW c \in Cells, DirectiveResume(c) PROVE RegistryIsLive'
  BY <1>29 DEF DirectiveResume, Move, AfterMessage, Goto
<1>30. ASSUME NEW c \in Cells, DirectiveRestart(c) PROVE RegistryIsLive'
  BY <1>30 DEF DirectiveRestart, MoveIn, Goto
<1>31. ASSUME NEW c \in Cells, RestartSend(c) PROVE RegistryIsLive'
  BY <1>31 DEF RestartSend, SendFrame, Goto
<1>32. ASSUME NEW c \in Cells, RestartRun(c) PROVE RegistryIsLive'
  BY <1>32 DEF RestartRun, MoveIn, AfterMessage, Goto
<1>33. ASSUME NEW c \in Cells, DirectiveEscalate(c) PROVE RegistryIsLive'
  BY <1>33 DEF DirectiveEscalate, SendFrame, Goto
<1>34. ASSUME NEW c \in Cells, DirectiveStop(c) PROVE RegistryIsLive'
  BY <1>34 DEF DirectiveStop, Goto
<1>35. ASSUME NEW c \in Cells, StopSelfReturn(c) PROVE RegistryIsLive'
  BY <1>35 DEF StopSelfReturn, Move, AfterMessage, Goto
<1>36. ASSUME NEW c \in Cells, CleanupStopped(c) PROVE RegistryIsLive'
  BY <1>36 DEF CleanupStopped, MoveIn, Goto
<1>37. ASSUME NEW c \in Cells, StoppedReturn(c) PROVE RegistryIsLive'
  BY <1>37 DEF StoppedReturn, Move, Goto
<1>38. ASSUME NEW c \in Cells, NotifyWatcher(c) PROVE RegistryIsLive'
  BY <1>38 DEF NotifyWatcher, SendFrame
<1>39. ASSUME NEW c \in Cells, NotifyDone(c) PROVE RegistryIsLive'
  BY <1>39 DEF NotifyDone, RangeDone, Goto
<1>40. ASSUME NEW c \in Cells, StopChild(c) PROVE RegistryIsLive'
  BY <1>40 DEF StopChild
<1>41. ASSUME NEW c \in Cells, StopChildrenDone(c) PROVE RegistryIsLive'
  BY <1>41 DEF StopChildrenDone, RangeDone, Goto
<1>42. ASSUME NEW c \in Cells, Unregister(c) PROVE RegistryIsLive'
  BY <1>42 DEF Unregister, CleanupFrame, Goto
<1>43. ASSUME NEW c \in Cells, Unlink(c) PROVE RegistryIsLive'
  BY <1>43 DEF Unlink, CleanupFrame, Goto
<1>44. ASSUME NEW c \in Cells, Release(c) PROVE RegistryIsLive'
  BY <1>44 DEF Release, CleanupFrame, Goto
<1>45. CASE UNCHANGED vars
  BY <1>45 DEF vars
<1>. QED
  BY <1>1, <1>2, <1>3, <1>4, <1>5, <1>6, <1>7, <1>8, <1>9, <1>10, <1>11, <1>12, <1>13, <1>14,
     <1>15, <1>16, <1>17, <1>18, <1>19, <1>20, <1>21, <1>22, <1>23, <1>24, <1>25, <1>26, <1>27,
     <1>28, <1>29, <1>30, <1>31, <1>32, <1>33, <1>34, <1>35, <1>36, <1>37, <1>38, <1>39, <1>40,
     <1>41, <1>42, <1>43, <1>44, <1>45
  DEF Next, UserCode, StopSteps, ClientSteps, DispatcherSteps, ReaperSteps, LoopSteps, CleanupSteps

LEMMA InitStep == Init => TypeOK /\ BornCells /\ RegistryIsLive
<1>. SUFFICES ASSUME Init PROVE TypeOK /\ BornCells /\ RegistryIsLive
  OBVIOUS
<1>1. TypeOK
  <2>1. client \in [Clients -> ClientState]
    BY DEF Init, Idle, ClientState, ClientOps, MaybeCell
  <2>2. dispatcher \in DispatcherState
    BY DEF Init, DispatcherState, MaybeEnvelope, MaybeCell
  <2>3. call \in [Threads -> Calls]
    BY DEF Init, NoCall, Calls, MaybeCell
  <2>4. isRunning \in BOOLEAN /\ cancelled \in BOOLEAN
    BY DEF Init
  <2>5. inbox \in [Cells -> Seq(Envelope)] /\ mailbox \in Seq(Envelope)
    BY DEF Init
  <2>. QED
    BY <2>1, <2>2, <2>3, <2>4, <2>5
    DEF Init, TypeOK, MaybeCell, MaybeName, MaybeEnvelope, States, Points
<1>2. BornCells
  BY SystemAssumption DEF Init, BornCells, NoCall, Idle, Threads
<1>3. RegistryIsLive
  BY DEF Init, RegistryIsLive, Registered, LoopPoints
<1>. QED
  BY <1>1, <1>2, <1>3

-----------------------------------------------------------------------------

\* The inductive invariant: the types need every reference to be to a born
\* cell, and Free(t) of an actor means that it is the registered one.
RegistryInv == TypeOK /\ BornCells /\ RegistryIsLive

THEOREM RegistryInvariant == Spec => []RegistryInv
<1>1. Init => RegistryInv
  BY InitStep DEF RegistryInv
<1>2. RegistryInv /\ [Next]_vars => RegistryInv'
  BY TypeStep, BornStep, RegistryStep DEF RegistryInv
<1>. QED
  BY <1>1, <1>2, PTL DEF Spec

\* Every variable of the runtime keeps its type in every reachable state.
THEOREM TypeCorrect == Spec => []TypeOK
<1>1. RegistryInv => TypeOK
  BY DEF RegistryInv
<1>. QED
  BY <1>1, RegistryInvariant, PTL

\* However spawns, stops and clean-ups interleave, a name has at most one live
\* incarnation and the registry names exactly the live ones.
THEOREM RegistryCorrect == Spec => []RegistryIsLive
<1>1. RegistryInv => RegistryIsLive
  BY DEF RegistryInv
<1>. QED
  BY <1>1, RegistryInvariant, PTL


-----------------------------------------------------------------------------

\* Only Spawn and Release change the set of live goroutines.
LEMMA LoopAlive ==
  ASSUME TypeOK, NEW c \in Cells, LoopSteps(c) \/ Panic(c)
  PROVE  Alive' = Alive /\ totalActors' = totalActors
<1>. USE DEF registryVars, worldVars, restVars
<1>1. totalActors' = totalActors
  BY DEF LoopSteps, Panic, LoopStart, LoopCancelled, LoopTake, ReceiveReturn, DirectiveResume,
     DirectiveRestart, RestartSend, RestartRun, DirectiveEscalate, DirectiveStop,
     StopSelfReturn, SendFrame, Move, MoveIn
<1>2. pc[c] \notin {"unborn", "done"}
  BY DEF LoopSteps, Panic, LoopStart, LoopCancelled, LoopTake, ReceiveReturn, DirectiveResume,
     DirectiveRestart, RestartSend, RestartRun, DirectiveEscalate, DirectiveStop,
     StopSelfReturn, InReceive
<1>3. \E p \in Points \ {"unborn", "done"} : Goto(c, p) \/ pc' = pc
  BY DEF LoopSteps, Panic, LoopStart, LoopCancelled, LoopTake, ReceiveReturn, DirectiveResume,
     DirectiveRestart, RestartSend, RestartRun, DirectiveEscalate, DirectiveStop,
     StopSelfReturn, Move, MoveIn, AfterMessage, Points, LoopPoints, LeftLoop
<1>. QED
  BY <1>1, <1>2, <1>3 DEF Goto, Alive, TypeOK

LEMMA CleanupAlive ==
  ASSUME TypeOK, NEW c \in Cells, CleanupSteps(c), ~Release(c)
  PROVE  Alive' = Alive /\ totalActors' = totalActors
<1>. USE DEF registryVars, worldVars, restVars
<1>1. totalActors' = totalActors
  BY DEF CleanupSteps, CleanupStopped, StoppedReturn, NotifyWatcher, NotifyDone, StopChild,
     StopChildrenDone, Unregister, Unlink, SendFrame, CleanupFrame, RangeDone, Move, MoveIn
<1>2. pc[c] \notin {"unborn", "done"}
  BY DEF CleanupSteps, CleanupStopped, StoppedReturn, NotifyWatcher, NotifyDone, StopChild,
     StopChildrenDone, Unregister, Unlink
<1>3. \E p \in Points \ {"unborn", "done"} : Goto(c, p) \/ pc' = pc
  BY DEF CleanupSteps, CleanupStopped, StoppedReturn, NotifyWatcher, NotifyDone, StopChild,
     StopChildrenDone, Unregister, Unlink, RangeDone, Move, MoveIn, Points, LoopPoints, LeftLoop
<1>. QED
  BY <1>1, <1>2, <1>3 DEF Goto, Alive, TypeOK

LEMMA OthersAlive ==
  ASSUME \/ \E t \in Threads, n \in Names : SendUser(t, n) \/ Stop(t, n)
         \/ \E c \in Cells, n \in Names : SendWatch(c, n)
         \/ \E u \in Clients, n \in Names : StopGracefully(u, n)
         \/ \E u \in Clients : Broadcast(u) \/ Shutdown(u) \/ ClientSteps(u)
         \/ \E t \in Threads : StopSteps(t)
         \/ DispatcherSteps \/ ReaperSteps \/ UNCHANGED vars
  PROVE  Alive' = Alive /\ totalActors' = totalActors
<1>. USE DEF registryVars, worldVars, cellVars
<1>1. UNCHANGED <<pc, totalActors>>
  BY DEF SendUser, Stop, SendWatch, StopGracefully, Broadcast, Shutdown, ClientSteps, ClientStep,
     Poll, PollState, BroadcastNext, ShutdownSnapshot, ShutdownStop, ShutdownCancel,
     ShutdownReturn, ShutdownTimeout, StopSteps, StopSend, StopMark, DispatcherSteps,
     DispatcherTake, DispatcherLookup, DispatcherDeliver, DispatcherExit, Route,
     ReaperSteps, ReaperTake, ReaperExit, vars
<1>. QED
  BY <1>1 DEF Alive

LEMMA CountStep ==
  ASSUME TypeOK, ActorCount, [Next]_vars
  PROVE  ActorCount'
<1>1. IsFiniteSet(Alive)
  BY FiniteAssumption, FS_Subset DEF Alive
<1>2. ASSUME NEW t \in Threads, NEW n \in Names, Spawn(t, n) PROVE ActorCount'
  <2>1. PICK c \in Cells, p \in MaybeName : pc[c] = "unborn" /\ Register(c, n, p)
    BY <1>2 DEF Spawn, MaybeName, Free, Handlers, TypeOK
  <2>2. c \notin Alive /\ Alive' = Alive \cup {c}
    BY <2>1 DEF Register, Alive, TypeOK
  <2>3. totalActors' = totalActors + 1
    BY <2>1 DEF Register
  <2>. QED
    BY <1>1, <2>2, <2>3, FS_AddElement DEF ActorCount
<1>3. ASSUME NEW c \in Cells, Release(c) PROVE ActorCount'
  <2>1. c \in Alive /\ Alive' = Alive \ {c}
    BY <1>3 DEF Release, Goto, Alive, TypeOK
  <2>2. totalActors' = totalActors - 1
    BY <1>3 DEF Release
  <2>. QED
    BY <1>1, <2>1, <2>2, FS_RemoveElement DEF ActorCount
<1>4. CASE Alive' = Alive /\ totalActors' = totalActors
  BY <1>4 DEF ActorCount
<1>. QED
  BY <1>2, <1>3, <1>4, LoopAlive, CleanupAlive, OthersAlive DEF Next, UserCode

\* stats.TotalActors is the number of message loops that have not finished.
THEOREM ActorCountCorrect == Spec => []ActorCount
<1>1. Init => ActorCount
  <2>. SUFFICES ASSUME Init PROVE ActorCount
    OBVIOUS
  <2>1. Alive = {}
    BY DEF Init, Alive
  <2>. QED
    BY <2>1, FS_EmptySet DEF Init, ActorCount
<1>2. TypeOK /\ ActorCount /\ [Next]_vars => ActorCount'
  BY CountStep
<1>. QED
  BY <1>1, <1>2, TypeCorrect, PTL DEF Spec

-----------------------------------------------------------------------------
(* StopGracefully *)

\* The steps of everyone but the goroutines of the cells and Spawn.
Outside ==
  \/ \E t \in Threads, n \in Names : SendUser(t, n) \/ Stop(t, n)
  \/ \E c \in Cells, n \in Names : SendWatch(c, n)
  \/ \E u \in Clients, n \in Names : StopGracefully(u, n)
  \/ \E u \in Clients : Broadcast(u) \/ Shutdown(u) \/ ClientSteps(u)
  \/ \E t \in Threads : StopSteps(t)
  \/ DispatcherSteps \/ ReaperSteps \/ UNCHANGED vars

LEMMA OutsideQuiet ==
  ASSUME Outside
  PROVE  UNCHANGED <<registry, nameOf, parentOf, spawner, children, watchers, pc, visited>>
BY DEF Outside, SendUser, Stop, SendWatch, StopGracefully, Broadcast, Shutdown, ClientSteps,
   ClientStep, Poll, PollState, BroadcastNext, ShutdownSnapshot, ShutdownStop, ShutdownCancel,
   ShutdownReturn, ShutdownTimeout, StopSteps, StopSend, StopMark, DispatcherSteps,
   DispatcherTake, DispatcherLookup, DispatcherDeliver, DispatcherExit, Route,
   ReaperSteps, ReaperTake, ReaperExit, vars, registryVars, worldVars, cellVars, restVars

\* Where the goroutine of a cell may go in one step.
Flows(c) ==
  \/ pc'[c] = pc[c]
  \/ pc[c] = "unborn" /\ pc'[c] = "starting"
  \/ pc[c] \in LoopPoints /\ pc'[c] \in (LoopPoints \ {"starting"}) \cup {"exiting"}
  \/ pc[c] \in LeftLoop /\ pc'[c] \in LeftLoop

LEMMA PcFlows == ASSUME TypeOK, [Next]_vars PROVE \A c \in Cells : Flows(c)
<1>. USE DEF registryVars, worldVars, cellVars, restVars
<1>1. ASSUME UNCHANGED pc PROVE \A c \in Cells : Flows(c)
  BY <1>1 DEF Flows
<1>2. ASSUME NEW d \in Cells, NEW p \in Points, Goto(d, p),
             \/ pc[d] \in LoopPoints /\ p \in (LoopPoints \ {"starting"}) \cup {"exiting"}
             \/ pc[d] \in LeftLoop /\ p \in LeftLoop
      PROVE  \A c \in Cells : Flows(c)
  BY <1>2 DEF Goto, Flows, TypeOK
<1>3. ASSUME NEW t \in Threads, NEW n \in Names, Spawn(t, n) PROVE \A c \in Cells : Flows(c)
  <2>1. PICK c \in Cells : pc[c] = "unborn" /\ pc' = [pc EXCEPT ![c] = "starting"]
    BY <1>3 DEF Spawn, Register
  <2>. QED
    BY <2>1 DEF Flows, TypeOK
<1>4. ASSUME NEW c \in Cells, LoopSteps(c) \/ Panic(c) PROVE \A d \in Cells : Flows(d)
  <2>1. /\ pc[c] \in LoopPoints
        /\ \E p \in (LoopPoints \ {"starting"}) \cup {"exiting"} : Goto(c, p) \/ pc' = pc
    BY <1>4 DEF LoopSteps, Panic, LoopStart, LoopCancelled, LoopTake, ReceiveReturn,
       DirectiveResume, DirectiveRestart, RestartSend, RestartRun, DirectiveEscalate,
       DirectiveStop, StopSelfReturn, InReceive, Move, MoveIn, AfterMessage, LoopPoints
  <2>. QED
    BY <1>1, <1>2, <2>1 DEF Points, LeftLoop
<1>5. ASSUME NEW c \in Cells, CleanupSteps(c) PROVE \A d \in Cells : Flows(d)
  <2>1. /\ pc[c] \in LeftLoop
        /\ \E p \in LeftLoop : Goto(c, p) \/ pc' = pc
    BY <1>5 DEF CleanupSteps, CleanupStopped, StoppedReturn, NotifyWatcher, NotifyDone,
       StopChild, StopChildrenDone, Unregister, Unlink, Release, RangeDone, Move, MoveIn, LeftLoop
  <2>. QED
    BY <1>1, <1>2, <2>1 DEF Points
<1>6. ASSUME Outside PROVE UNCHANGED pc
  BY <1>6, OutsideQuiet
<1>. QED
  BY <1>1, <1>3, <1>4, <1>5, <1>6 DEF Next, UserCode, Outside

\* A cell that has left its loop never comes back to it, nor to its birth.
LEMMA LeftStays ==
  ASSUME TypeOK, [Next]_vars, NEW c \in Cells
  PROVE  /\ pc[c] \in LeftLoop => pc'[c] \in LeftLoop
         /\ pc[c] # "unborn" => pc'[c] # "unborn"
<1>1. Flows(c)
  BY PcFlows
<1>. QED
  BY <1>1 DEF Flows, LoopPoints, LeftLoop

\* cell.state is Stopped only after the loop.
StoppedHasLeft == \A c \in Cells : state[c] = "Stopped" => pc[c] \in LeftLoop

LEMMA StoppedStep ==
  ASSUME TypeOK, [Next]_vars, StoppedHasLeft
  PROVE  StoppedHasLeft'
<1>. USE DEF registryVars, worldVars, cellVars, restVars
<1>1. ASSUME NEW d \in Cells, NEW s \in States, state' = [state EXCEPT ![d] = s],
             s # "Stopped" \/ pc'[d] \in LeftLoop
      PROVE  StoppedHasLeft'
  BY <1>1, LeftStays DEF StoppedHasLeft, TypeOK
<1>2. ASSUME UNCHANGED state PROVE StoppedHasLeft'
  BY <1>2, LeftStays DEF StoppedHasLeft
<1>3. ASSUME NEW c \in Cells, LoopStart(c) \/ DirectiveRestart(c) \/ RestartRun(c)
      PROVE  StoppedHasLeft'
  <2>1. \E s \in {"Running", "Restarting"} : state' = [state EXCEPT ![c] = s]
    BY <1>3 DEF LoopStart, DirectiveRestart, RestartRun, MoveIn
  <2>. QED
    BY <1>1, <2>1 DEF States
<1>4. ASSUME NEW c \in Cells, CleanupStopped(c) PROVE StoppedHasLeft'
  <2>1. state' = [state EXCEPT ![c] = "Stopped"] /\ pc'[c] \in LeftLoop
    BY <1>4 DEF CleanupStopped, MoveIn, Goto, TypeOK, LeftLoop
  <2>. QED
    BY <1>1, <2>1 DEF States
<1>5. ASSUME NEW t \in Threads, StopMark(t) PROVE StoppedHasLeft'
  <2>1. state' = [state EXCEPT ![call[t].cell] = "Stopping"]
    BY <1>5 DEF StopMark
  <2>2. CASE call[t].cell \in Cells
    BY <1>1, <2>1, <2>2 DEF States
  <2>3. CASE call[t].cell \notin Cells
    BY <1>2, <2>1, <2>3 DEF TypeOK
  <2>. QED
    BY <2>2, <2>3
<1>6. ASSUME \/ \E t \in Threads, n \in Names : Spawn(t, n) \/ SendUser(t, n) \/ Stop(t, n)
             \/ \E c \in Cells, n \in Names : SendWatch(c, n)
             \/ \E u \in Clients, n \in Names : StopGracefully(u, n)
             \/ \E u \in Clients : Broadcast(u) \/ Shutdown(u) \/ ClientSteps(u)
             \/ \E t \in Threads : StopSend(t)
             \/ DispatcherSteps \/ ReaperSteps \/ UNCHANGED vars
      PROVE  UNCHANGED state
  BY <1>6 DEF Spawn, SendUser, Stop, SendWatch, StopGracefully, Broadcast, Shutdown, ClientSteps,
     ClientStep, Poll, PollState, BroadcastNext, ShutdownSnapshot, ShutdownStop, ShutdownCancel,
     ShutdownReturn, ShutdownTimeout, StopSend, DispatcherSteps,
     DispatcherTake, DispatcherLookup, DispatcherDeliver, DispatcherExit, Route,
     ReaperSteps, ReaperTake, ReaperExit, vars
<1>7. ASSUME NEW c \in Cells,
             \/ Panic(c) \/ LoopCancelled(c) \/ LoopTake(c) \/ ReceiveReturn(c)
             \/ DirectiveResume(c) \/ RestartSend(c) \/ DirectiveEscalate(c)
             \/ DirectiveStop(c) \/ StopSelfReturn(c) \/ StoppedReturn(c) \/ NotifyWatcher(c)
             \/ NotifyDone(c) \/ StopChild(c) \/ StopChildrenDone(c) \/ Unregister(c)
             \/ Unlink(c) \/ Release(c)
      PROVE  UNCHANGED state
  BY <1>7 DEF Panic, LoopCancelled, LoopTake, ReceiveReturn, DirectiveResume, RestartSend,
     DirectiveEscalate, DirectiveStop, StopSelfReturn, StoppedReturn, NotifyWatcher, NotifyDone,
     StopChild, StopChildrenDone, Unregister, Unlink, Release, Move, RangeDone, SendFrame,
     CleanupFrame
<1>. QED
  BY <1>2, <1>3, <1>4, <1>5, <1>6, <1>7 DEF Next, UserCode, StopSteps, LoopSteps, CleanupSteps

\* What a client that stops a cell gracefully knows of it: it polls the name of
\* that cell, and another cell holds the name only if that one has left.
Asked(u) == client[u].op \in {"graceful", "poll", "readState", "stopped"}
            /\ client[u].cell # NoCell
Knows(u) ==
  Asked(u) =>
    /\ Born(client[u].cell) /\ client[u].todo = {nameOf[client[u].cell]}
    /\ client[u].op = "readState" =>
         client[u].seen = client[u].cell \/ pc[client[u].cell] \in LeftLoop
    /\ client[u].op = "stopped" => pc[client[u].cell] \in LeftLoop

GracefulInv == StoppedHasLeft /\ \A u \in Clients : Knows(u)

\* The name of a cell is given once.
LEMMA NamesStay ==
  ASSUME TypeOK, [Next]_vars, NEW c \in Cells, pc[c] # "unborn"
  PROVE  nameOf'[c] = nameOf[c]
<1>. USE DEF registryVars, worldVars, cellVars, restVars
<1>1. ASSUME NEW t \in Threads, NEW n \in Names, Spawn(t, n) PROVE nameOf'[c] = nameOf[c]
  BY <1>1 DEF Spawn, Register, TypeOK
<1>2. ASSUME NEW d \in Cells, LoopSteps(d) \/ Panic(d) PROVE UNCHANGED nameOf
  BY <1>2 DEF LoopSteps, Panic, LoopStart, LoopCancelled, LoopTake, ReceiveReturn,
     DirectiveResume, DirectiveRestart, RestartSend, RestartRun, DirectiveEscalate,
     DirectiveStop, StopSelfReturn, SendFrame, Move, MoveIn
<1>3. ASSUME NEW d \in Cells, CleanupSteps(d) PROVE UNCHANGED nameOf
  BY <1>3 DEF CleanupSteps, CleanupStopped, StoppedReturn, NotifyWatcher, NotifyDone,
     StopChild, StopChildrenDone, Unregister, Unlink, Release, RangeDone, Move, MoveIn,
     SendFrame, CleanupFrame
<1>4. ASSUME Outside PROVE UNCHANGED nameOf
  BY <1>4, OutsideQuiet
<1>. QED
  BY <1>1, <1>2, <1>3, <1>4 DEF Next, UserCode, Outside

\* What was known stays true while the client's record stays as it is.
LEMMA KnowsStays ==
  ASSUME TypeOK, [Next]_vars, NEW u \in Clients, Knows(u), client'[u] = client[u]
  PROVE  Knows(u)'
<1>1. ASSUME Asked(u)
      PROVE  /\ pc'[client[u].cell] # "unborn" /\ nameOf'[client[u].cell] = nameOf[client[u].cell]
             /\ pc[client[u].cell] \in LeftLoop => pc'[client[u].cell] \in LeftLoop
  BY <1>1, LeftStays, NamesStay DEF Knows, Born
<1>. QED
  BY <1>1 DEF Knows, Asked, Born

\* A registered name is the name of the cell that holds it.
LEMMA HolderIs ==
  ASSUME RegistryInv, NEW c \in Cells, pc[c] # "unborn"
  PROVE  registry[nameOf[c]] = c \/ pc[c] \in LeftLoop
BY DEF RegistryInv, BornCells, RegistryIsLive, TypeOK, Points, Registered

LEMMA GracefulAsk ==
  ASSUME RegistryInv, NEW u \in Clients, NEW n \in Names, StopGracefully(u, n)
  PROVE  Knows(u)'
<1>. USE DEF registryVars, cellVars
<1>1. /\ client'[u] = [op |-> "graceful", todo |-> {n}, cell |-> registry[n], seen |-> NoCell]
      /\ UNCHANGED <<pc, nameOf>>
  BY DEF StopGracefully, RegistryInv, TypeOK
<1>2. registry[n] # NoCell => Born(registry[n]) /\ nameOf[registry[n]] = n
  BY DEF RegistryInv, BornCells, RegistryIsLive
<1>. QED
  BY <1>1, <1>2 DEF Knows, Asked, Born

LEMMA GracefulPoll ==
  ASSUME RegistryInv, GracefulInv, NEW u \in Clients, Poll(u)
  PROVE  Knows(u)'
<1>. USE DEF registryVars, cellVars
<1>1. UNCHANGED <<pc, nameOf>> /\ client[u] \in ClientState /\ Knows(u)
  BY DEF Poll, ClientStep, RegistryInv, TypeOK, GracefulInv
<1>2. CASE Begin(u, "idle")
  <2>1. client'[u].op = "idle"
    BY <1>2 DEF Begin, Idle, RegistryInv, TypeOK
  <2>. QED
    BY <2>1 DEF Knows, Asked
<1>3. CASE \E n \in client[u].todo :
             client' = [client EXCEPT
               ![u].op = IF registry[n] = NoCell THEN "stopped" ELSE "readState",
               ![u].seen = registry[n]]
  <2>1. PICK n \in client[u].todo :
          client' = [client EXCEPT
               ![u].op = IF registry[n] = NoCell THEN "stopped" ELSE "readState",
               ![u].seen = registry[n]]
    BY <1>3
  <2>2. /\ client'[u].cell = client[u].cell /\ client'[u].todo = client[u].todo
        /\ client'[u].seen = registry[n]
        /\ client'[u].op = IF registry[n] = NoCell THEN "stopped" ELSE "readState"
    BY <1>1, <2>1 DEF RegistryInv, TypeOK, ClientState
  <2>3. client[u].op \in {"graceful", "poll"}
    BY DEF Poll
  <2>4. ASSUME client[u].cell # NoCell
        PROVE  /\ Born(client[u].cell) /\ client[u].todo = {nameOf[client[u].cell]}
               /\ registry[n] = client[u].cell \/ pc[client[u].cell] \in LeftLoop
    <3>1. Born(client[u].cell) /\ client[u].todo = {nameOf[client[u].cell]}
      BY <1>1, <2>3, <2>4 DEF Knows, Asked
    <3>2. n = nameOf[client[u].cell]
      BY <3>1
    <3>. QED
      BY <3>1, <3>2, HolderIs DEF Born
  <2>. QED
    BY <1>1, <2>2, <2>4 DEF Knows, Asked, Born
<1>. QED
  BY <1>2, <1>3 DEF Poll

LEMMA GracefulPollState ==
  ASSUME RegistryInv, GracefulInv, NEW u \in Clients, PollState(u)
  PROVE  Knows(u)'
<1>. USE DEF registryVars, cellVars
<1>1. UNCHANGED <<pc, nameOf>> /\ client[u] \in ClientState /\ Knows(u)
  BY DEF PollState, ClientStep, RegistryInv, TypeOK, GracefulInv
<1>2. /\ client'[u].cell = client[u].cell /\ client'[u].todo = client[u].todo
      /\ client'[u].op = IF state[client[u].seen] = "Stopped" THEN "stopped" ELSE "poll"
  BY <1>1 DEF PollState, RegistryInv, TypeOK, ClientState
<1>3. ASSUME client[u].cell # NoCell, state[client[u].seen] = "Stopped"
      PROVE  pc[client[u].cell] \in LeftLoop
  <2>1. client[u].seen = client[u].cell \/ pc[client[u].cell] \in LeftLoop
    BY <1>1, <1>3 DEF Knows, Asked, PollState
  <2>. QED
    BY <1>1, <1>3, <2>1 DEF GracefulInv, StoppedHasLeft, ClientState, MaybeCell
<1>. QED
  BY <1>1, <1>2, <1>3 DEF Knows, Asked, PollState, Born

\* The other steps of a client leave it asking nothing, or as it was.
LEMMA GracefulOther ==
  ASSUME RegistryInv, GracefulInv, [Next]_vars, NEW u \in Clients,
         ~\E n \in Names : StopGracefully(u, n), ~Poll(u), ~PollState(u)
  PROVE  Knows(u)'
<1>. USE DEF registryVars, worldVars, cellVars, restVars
<1>1. ASSUME client'[u] = client[u] PROVE Knows(u)'
  BY <1>1, KnowsStays DEF RegistryInv, GracefulInv
<1>2. ASSUME client'[u].op \notin {"graceful", "poll", "readState", "stopped"} PROVE Knows(u)'
  BY <1>2 DEF Knows, Asked
<1>3. ASSUME NEW v \in Clients,
             \/ \E n \in Names : StopGracefully(v, n)
             \/ Broadcast(v) \/ Shutdown(v) \/ Poll(v) \/ PollState(v)
             \/ BroadcastNext(v) \/ ShutdownSnapshot(v) \/ ShutdownStop(v)
             \/ ShutdownCancel(v) \/ ShutdownReturn(v) \/ ShutdownTimeout(v)
      PROVE  \/ client'[u] = client[u]
             \/ client'[u].op \notin {"graceful", "poll", "readState", "stopped"}
  <2>. client[v] \in ClientState
    BY DEF RegistryInv, TypeOK
  <2>. USE DEF RegistryInv, TypeOK, ClientState
  <2>1. CASE \E n \in Names : StopGracefully(v, n)
    <3>1. v # u
      BY <2>1
    <3>2. PICK n \in Names :
            client' = [client EXCEPT ![v] = [op |-> "graceful", todo |-> {n},
                                             cell |-> registry[n], seen |-> NoCell]]
      BY <2>1 DEF StopGracefully
    <3>. QED
      BY <3>1, <3>2
  <2>2. CASE Broadcast(v)
    <3>1. PICK chosen \in SUBSET RegisteredNames :
            client' = [client EXCEPT ![v] = [op |-> "broadcast", todo |-> chosen,
                                             cell |-> NoCell, seen |-> NoCell]]
      BY <2>2 DEF Broadcast
    <3>. QED
      BY <3>1
  <2>3. CASE Shutdown(v) \/ ShutdownReturn(v) \/ ShutdownTimeout(v)
    BY <2>3 DEF Shutdown, ShutdownReturn, ShutdownTimeout, Begin, Idle
  <2>4. CASE Poll(v)
    BY <2>4 DEF Poll, Begin
  <2>5. CASE PollState(v)
    BY <2>5 DEF PollState
  <2>6. CASE BroadcastNext(v)
    <3>1. CASE Begin(v, "idle")
      BY <3>1 DEF Begin, Idle
    <3>2. CASE \E n \in client[v].todo : client' = [client EXCEPT ![v].todo = @ \ {n}]
      <4>1. PICK n \in client[v].todo : client' = [client EXCEPT ![v].todo = @ \ {n}]
        BY <3>2
      <4>2. client[v].op = "broadcast"
        BY <2>6 DEF BroadcastNext
      <4>. QED
        BY <4>1, <4>2
    <3>. QED
      BY <2>6, <3>1, <3>2 DEF BroadcastNext
  <2>7. CASE ShutdownSnapshot(v) \/ ShutdownCancel(v)
    BY <2>7 DEF ShutdownSnapshot, ShutdownCancel
  <2>8. CASE ShutdownStop(v)
    <3>1. PICK n \in client[v].todo : client' = [client EXCEPT ![v].todo = @ \ {n}]
      BY <2>8 DEF ShutdownStop
    <3>2. client[v].op = "stopAll"
      BY <2>8 DEF ShutdownStop
    <3>. QED
      BY <3>1, <3>2
  <2>. QED
    BY <1>3, <2>1, <2>2, <2>3, <2>4, <2>5, <2>6, <2>7, <2>8
<1>4. ASSUME NEW d \in Cells, LoopSteps(d) \/ Panic(d) \/ CleanupSteps(d) PROVE UNCHANGED client
  <2>1. CASE LoopSteps(d) \/ Panic(d)
    BY <2>1 DEF LoopSteps, Panic, LoopStart, LoopCancelled, LoopTake, ReceiveReturn,
       DirectiveResume, DirectiveRestart, RestartSend, RestartRun, DirectiveEscalate,
       DirectiveStop, StopSelfReturn, SendFrame, Move, MoveIn
  <2>2. CASE CleanupSteps(d)
    BY <2>2 DEF CleanupSteps, CleanupStopped, StoppedReturn, NotifyWatcher, NotifyDone,
       StopChild, StopChildrenDone, Unregister, Unlink, Release, RangeDone, Move, MoveIn,
       SendFrame, CleanupFrame
  <2>. QED
    BY <1>4, <2>1, <2>2
<1>5. ASSUME \/ \E t \in Threads, n \in Names : Spawn(t, n) \/ SendUser(t, n) \/ Stop(t, n)
             \/ \E d \in Cells, n \in Names : SendWatch(d, n)
             \/ \E t \in Threads : StopSteps(t)
             \/ DispatcherSteps \/ ReaperSteps \/ UNCHANGED vars
      PROVE  UNCHANGED client
  BY <1>5 DEF Spawn, SendUser, Stop, SendWatch, StopSteps, StopSend, StopMark, DispatcherSteps,
     DispatcherTake, DispatcherLookup, DispatcherDeliver, DispatcherExit, Route,
     ReaperSteps, ReaperTake, ReaperExit, vars
<1>. QED
  BY <1>1, <1>2, <1>3, <1>4, <1>5 DEF Next, UserCode, ClientSteps

\* StopGracefully answers nil only when the incarnation that it asked to stop
\* has left its loop, whatever became of the name in the meantime.
THEOREM GracefulCorrect == Spec => []GracefulMeansLeft
<1>1. Init => GracefulInv
  BY DEF Init, GracefulInv, StoppedHasLeft, Knows, Asked, Idle
<1>2. RegistryInv /\ GracefulInv /\ [Next]_vars => GracefulInv'
  <2>. SUFFICES ASSUME RegistryInv, GracefulInv, [Next]_vars PROVE GracefulInv'
    OBVIOUS
  <2>1. StoppedHasLeft'
    BY StoppedStep DEF RegistryInv, GracefulInv
  <2>2. ASSUME NEW u \in Clients PROVE Knows(u)'
    BY GracefulAsk, GracefulPoll, GracefulPollState, GracefulOther
  <2>. QED
    BY <2>1, <2>2 DEF GracefulInv
<1>3. GracefulInv => GracefulMeansLeft
  BY DEF GracefulInv, Knows, Asked, GracefulMeansLeft
<1>. QED
  BY <1>1, <1>2, <1>3, RegistryInvariant, PTL DEF Spec

-----------------------------------------------------------------------------
(* The children maps *)

\* Who spawned a cell is the holder of its parent's name; a cell that is not
\* born has no children.
OwnInv ==
  /\ \A c \in Cells : spawner[c] # NoCell =>
       Born(spawner[c]) /\ parentOf[c] = nameOf[spawner[c]] /\ pc[c] # "unborn"
  /\ \A c \in Cells : pc[c] = "unborn" => children[c] = {}
  /\ ChildrenAreMine

\* The child p has under the name n, or the one that is about to leave it.
Mine(p, n) ==
  \/ registry[n] # NoCell /\ spawner[registry[n]] = p
  \/ \E d \in Cells : pc[d] = "unlink" /\ nameOf[d] = n /\ spawner[d] = p

LEMMA OwnSpawn ==
  ASSUME RegistryInv, OwnInv, NEW t \in Threads, NEW n \in Names, Spawn(t, n)
  PROVE  OwnInv'
<1>. USE DEF RegistryInv, TypeOK
<1> DEFINE parent == IF t \in Cells THEN nameOf[t] ELSE NoName
           owner == IF t \in Cells THEN t ELSE NoCell
<1>1. PICK c \in Cells : pc[c] = "unborn" /\ Register(c, n, parent)
  BY DEF Spawn
<1>2. t \in Cells => /\ pc[t] \in Registered /\ pc[t] # "unborn" /\ nameOf[t] \in Names
                     /\ registry[nameOf[t]] = t
  BY DEF Spawn, Free, Handlers, Registered, LoopPoints, RegistryIsLive
<1>3. (IF parent = NoName THEN NoCell ELSE registry[parent]) = owner
  BY <1>2, SystemAssumption
<1> HIDE DEF owner
<1>4. /\ registry'[n] = c /\ \A m \in Names \ {n} : registry'[m] = registry[m]
      /\ nameOf'[c] = n /\ \A k \in Cells \ {c} : nameOf'[k] = nameOf[k]
      /\ parentOf'[c] = parent /\ \A k \in Cells \ {c} : parentOf'[k] = parentOf[k]
      /\ spawner'[c] = owner /\ \A k \in Cells \ {c} : spawner'[k] = spawner[k]
      /\ pc'[c] = "starting" /\ \A k \in Cells \ {c} : pc'[k] = pc[k]
      /\ children' = [k \in Cells |-> IF k = owner THEN children[k] \cup {n} ELSE children[k]]
  BY <1>1, <1>3 DEF Register
<1>5. owner # c /\ (owner # NoCell => Born(owner) /\ parent = nameOf[owner])
  BY <1>1, <1>2, SystemAssumption DEF owner, Born
<1>6. ASSUME NEW k \in Cells, spawner'[k] # NoCell
      PROVE  /\ Born(spawner[k])' /\ parentOf'[k] = nameOf'[spawner'[k]] /\ pc'[k] # "unborn"
  <2>1. CASE k = c
    <3>1. spawner'[k] = owner /\ Born(owner) /\ owner # c /\ parent = nameOf[owner]
      BY <1>4, <1>5, <1>6, <2>1
    <3>. QED
      BY <1>4, <2>1, <3>1 DEF Born
  <2>2. CASE k # c
    <3>1. spawner'[k] = spawner[k]
      BY <1>4, <2>2
    <3>2. Born(spawner[k]) /\ parentOf[k] = nameOf[spawner[k]] /\ pc[k] # "unborn"
      BY <1>6, <3>1 DEF OwnInv
    <3>3. spawner[k] # c
      BY <1>1, <3>2 DEF Born
    <3>. QED
      BY <1>4, <2>2, <3>1, <3>2, <3>3 DEF Born
  <2>. QED
    BY <2>1, <2>2
<1>7. ASSUME NEW k \in Cells, pc'[k] = "unborn" PROVE children'[k] = {}
  <2>1. k # c /\ pc[k] = "unborn"
    BY <1>4, <1>7
  <2>2. k # owner
    BY <1>5, <2>1, SystemAssumption DEF Born
  <2>. QED
    BY <1>4, <2>1, <2>2 DEF OwnInv
<1>8. ASSUME NEW p \in Cells, pc'[p] \in Registered, NEW m \in children'[p] PROVE Mine(p, m)'
  <2>1. m \in Names
    BY <1>4, <1>8
  <2>2. CASE m \notin children[p]
    <3>1. m = n /\ p = owner
      BY <1>4, <1>8, <2>2
    <3>. QED
      BY <1>4, <3>1, SystemAssumption DEF Mine
  <2>3. CASE m \in children[p]
    <3>1. p # c /\ pc[p] \in Registered /\ Mine(p, m)
      BY <1>1, <1>4, <1>8, <2>3 DEF OwnInv, ChildrenAreMine, Mine
    <3>2. CASE registry[m] # NoCell /\ spawner[registry[m]] = p
      <4>1. m # n /\ registry[m] # c
        BY <1>1, <2>1, <3>2 DEF Spawn, BornCells, Born
      <4>. QED
        BY <1>4, <2>1, <3>2, <4>1 DEF Mine, MaybeCell
    <3>3. CASE \E d \in Cells : pc[d] = "unlink" /\ nameOf[d] = m /\ spawner[d] = p
      BY <1>1, <1>4, <3>3 DEF Mine
    <3>. QED
      BY <3>1, <3>2, <3>3 DEF Mine
  <2>. QED
    BY <2>2, <2>3
<1>. QED
  BY <1>6, <1>7, <1>8 DEF OwnInv, ChildrenAreMine, Mine

LEMMA OwnUnregister ==
  ASSUME RegistryInv, OwnInv, NEW c \in Cells, Unregister(c)
  PROVE  OwnInv'
<1>. USE DEF RegistryInv, TypeOK, Registered
<1>1. /\ registry' = [registry EXCEPT ![nameOf[c]] = NoCell]
      /\ pc' = [pc EXCEPT ![c] = "unlink"] /\ pc[c] = "unregister"
      /\ UNCHANGED <<nameOf, parentOf, spawner, children>>
  BY DEF Unregister, Goto, CleanupFrame
<1>2. registry[nameOf[c]] = c /\ nameOf[c] \in Names
  BY <1>1 DEF RegistryIsLive
<1>3. ASSUME NEW p \in Cells, pc'[p] \in Registered, NEW m \in children[p] PROVE Mine(p, m)'
  <2>1. pc[p] \in Registered /\ Mine(p, m) /\ m \in Names
    <3>1. pc[p] \in Registered /\ m \in Names
      BY <1>1, <1>3 DEF LoopPoints
    <3>2. ChildrenAreMine /\ m \in children[p]
      BY <1>3 DEF OwnInv
    <3>. QED
      BY <3>1, <3>2 DEF ChildrenAreMine, Mine
  <2>2. CASE m = nameOf[c] /\ spawner[c] = p
    BY <1>1, <2>2 DEF Mine
  <2>3. CASE m # nameOf[c] /\ registry[m] # NoCell /\ spawner[registry[m]] = p
    BY <1>1, <2>1, <2>3 DEF Mine
  <2>4. CASE \E d \in Cells : pc[d] = "unlink" /\ nameOf[d] = m /\ spawner[d] = p
    BY <1>1, <2>4 DEF Mine
  <2>. QED
    BY <1>2, <2>1, <2>2, <2>3, <2>4 DEF Mine
<1>. QED
  BY <1>1, <1>3 DEF OwnInv, ChildrenAreMine, Mine, Born

LEMMA OwnUnlink ==
  ASSUME RegistryInv, OwnInv, NEW c \in Cells, Unlink(c)
  PROVE  OwnInv'
<1>. USE DEF RegistryInv, TypeOK
<1> DEFINE parent == IF parentOf[c] = NoName THEN NoCell ELSE registry[parentOf[c]]
<1>1. /\ children' = [k \in Cells |-> IF k = parent THEN children[k] \ {nameOf[c]}
                                      ELSE children[k]]
      /\ pc' = [pc EXCEPT ![c] = "release"] /\ pc[c] = "unlink"
      /\ UNCHANGED <<registry, nameOf, parentOf, spawner>>
  BY DEF Unlink, Goto, CleanupFrame, registryVars
<1>2. ASSUME NEW p \in Cells, pc'[p] \in Registered, NEW m \in children'[p] PROVE Mine(p, m)'
  <2>1. pc[p] \in Registered /\ Mine(p, m) /\ m \in children[p]
    BY <1>1, <1>2 DEF OwnInv, ChildrenAreMine, Mine, Registered, LoopPoints
  <2>2. CASE spawner[c] = p /\ nameOf[c] = m
    <3>1. registry[nameOf[p]] = p /\ nameOf[p] \in Names /\ parentOf[c] = nameOf[p]
      BY <2>1, <2>2, SystemAssumption DEF RegistryIsLive, OwnInv
    <3>2. p = parent
      BY <3>1, SystemAssumption
    <3>. QED
      BY <1>1, <1>2, <2>2, <3>2
  <2>3. CASE registry[m] # NoCell /\ spawner[registry[m]] = p
    BY <1>1, <2>3 DEF Mine
  <2>4. CASE ~(spawner[c] = p /\ nameOf[c] = m)
             /\ \E d \in Cells : pc[d] = "unlink" /\ nameOf[d] = m /\ spawner[d] = p
    BY <1>1, <2>4 DEF Mine
  <2>. QED
    BY <2>1, <2>2, <2>3, <2>4 DEF Mine
<1>3. \A k \in Cells : pc'[k] = "unborn" => children'[k] = {}
  BY <1>1 DEF OwnInv
<1>. QED
  BY <1>1, <1>2, <1>3 DEF OwnInv, ChildrenAreMine, Mine, Born

\* A step that is neither a birth nor one of the two removals.
Moves(c) ==
  /\ pc'[c] = "unborn" <=> pc[c] = "unborn"
  /\ pc[c] = "unlink" => pc'[c] = "unlink"
  /\ pc'[c] \in Registered => pc[c] \in Registered

LEMMA MovesOn ==
  ASSUME TypeOK, [Next]_vars,
         ~\E t \in Threads, n \in Names : Spawn(t, n),
         ~\E c \in Cells : Unregister(c) \/ Unlink(c)
  PROVE  \A c \in Cells : Moves(c)
<1>. USE DEF registryVars, worldVars, cellVars, restVars
<1>1. ASSUME UNCHANGED pc PROVE \A c \in Cells : Moves(c)
  BY <1>1 DEF Moves
<1>2. ASSUME NEW d \in Cells, NEW p \in Points, Goto(d, p), pc[d] \notin {"unborn", "unlink"},
             p # "unborn", p \in Registered => pc[d] \in Registered
      PROVE  \A c \in Cells : Moves(c)
  BY <1>2 DEF Goto, Moves, TypeOK
<1>3. ASSUME NEW d \in Cells, LoopSteps(d) \/ Panic(d) PROVE \A c \in Cells : Moves(c)
  <2>1. /\ pc[d] \in LoopPoints
        /\ \E p \in LoopPoints \cup {"exiting"} : Goto(d, p) \/ UNCHANGED pc
    BY <1>3 DEF LoopSteps, Panic, LoopStart, LoopCancelled, LoopTake, ReceiveReturn,
       DirectiveResume, DirectiveRestart, RestartSend, RestartRun, DirectiveEscalate,
       DirectiveStop, StopSelfReturn, InReceive, Move, MoveIn, AfterMessage, LoopPoints
  <2>2. /\ LoopPoints \cup {"exiting"} \subseteq Points \ {"unborn"}
        /\ LoopPoints \subseteq Registered \ {"unborn", "unlink"}
    BY DEF Points, LoopPoints, LeftLoop, Registered
  <2>. QED
    BY <1>1, <1>2, <2>1, <2>2
<1>4. ASSUME NEW d \in Cells, CleanupSteps(d), ~Unregister(d), ~Unlink(d)
      PROVE  \A c \in Cells : Moves(c)
  <2>1. CASE Release(d)
    BY <1>2, <2>1 DEF Release, Points, LeftLoop, Registered, LoopPoints
  <2>2. CASE ~Release(d)
    <3>1. /\ pc[d] \in Registered \ {"unborn", "unlink"}
          /\ \E p \in LeftLoop : Goto(d, p) \/ UNCHANGED pc
      BY <1>4, <2>2 DEF CleanupSteps, CleanupStopped, StoppedReturn, NotifyWatcher,
         NotifyDone, StopChild, StopChildrenDone, RangeDone, Move, MoveIn, LeftLoop,
         Registered, LoopPoints
    <3>2. LeftLoop \subseteq Points \ {"unborn"}
      BY DEF Points, LeftLoop
    <3>. QED
      BY <1>1, <1>2, <3>1, <3>2
  <2>. QED
    BY <2>1, <2>2
<1>5. ASSUME Outside PROVE UNCHANGED pc
  BY <1>5, OutsideQuiet
<1>. QED
  BY <1>1, <1>3, <1>4, <1>5 DEF Next, UserCode, Outside

\* No other step touches the children maps or what they are held against.
LEMMA OwnOther ==
  ASSUME RegistryInv, OwnInv, [Next]_vars,
         ~\E t \in Threads, n \in Names : Spawn(t, n),
         ~\E c \in Cells : Unregister(c) \/ Unlink(c)
  PROVE  OwnInv'
<1>. USE DEF registryVars, worldVars, cellVars, restVars
<1>1. UNCHANGED <<registry, nameOf, parentOf, spawner, children>>
  <2>1. ASSUME NEW d \in Cells, LoopSteps(d) \/ Panic(d)
        PROVE  UNCHANGED <<registry, nameOf, parentOf, spawner, children>>
    BY <2>1 DEF LoopSteps, Panic, LoopStart, LoopCancelled, LoopTake, ReceiveReturn,
       DirectiveResume, DirectiveRestart, RestartSend, RestartRun, DirectiveEscalate,
       DirectiveStop, StopSelfReturn, SendFrame, Move, MoveIn
  <2>2. ASSUME NEW d \in Cells, CleanupSteps(d), ~Unregister(d), ~Unlink(d)
        PROVE  UNCHANGED <<registry, nameOf, parentOf, spawner, children>>
    BY <2>2 DEF CleanupSteps, CleanupStopped, StoppedReturn, NotifyWatcher, NotifyDone,
       StopChild, StopChildrenDone, Release, RangeDone, Move, MoveIn, SendFrame, CleanupFrame
  <2>3. ASSUME Outside PROVE UNCHANGED <<registry, nameOf, parentOf, spawner, children>>
    BY <2>3, OutsideQuiet
  <2>. QED
    BY <2>1, <2>2, <2>3 DEF Next, UserCode, Outside
<1>2. \A c \in Cells : Moves(c)
  BY MovesOn DEF RegistryInv
<1>3. ASSUME NEW p \in Cells, pc'[p] \in Registered, NEW m \in children'[p] PROVE Mine(p, m)'
  <2>1. pc[p] \in Registered /\ m \in children[p]
    BY <1>1, <1>2, <1>3 DEF Moves
  <2>2. Mine(p, m)
    BY <2>1 DEF OwnInv, ChildrenAreMine, Mine
  <2>. QED
    BY <1>1, <1>2, <2>2 DEF Mine, Moves
<1>. QED
  BY <1>1, <1>2, <1>3 DEF OwnInv, ChildrenAreMine, Mine, Born, Moves

\* However names are reused, a children map names a cell that is not the
\* actor's own child only while that child is between its two removals.
THEOREM ChildrenCorrect == Spec => []ChildrenAreMine
<1>1. Init => OwnInv
  BY DEF Init, OwnInv, ChildrenAreMine
<1>2. RegistryInv /\ OwnInv /\ [Next]_vars => OwnInv'
  BY OwnSpawn, OwnUnregister, OwnUnlink, OwnOther
<1>3. OwnInv => ChildrenAreMine
  BY DEF OwnInv
<1>. QED
  BY <1>1, <1>2, <1>3, RegistryInvariant, PTL DEF Spec

-----------------------------------------------------------------------------
(* The order of messages *)

\* Every id in use has been handed out, and none twice.
OrderInv ==
  /\ InOrder
  /\ \A i \in DOMAIN mailbox : mailbox[i].id \in 1 .. totalMessages
  /\ dispatcher.env.id <= totalMessages
  /\ \A c \in Cells : \A g \in Given(c) : g <= totalMessages

\* What a send may do to System.mailbox: one more envelope, under the next id.
Accepted ==
  /\ totalMessages' = totalMessages + 1
  /\ Len(mailbox') = Len(mailbox) + 1
  /\ \A i \in 1 .. Len(mailbox) : mailbox'[i] = mailbox[i]
  /\ mailbox'[Len(mailbox) + 1].id = totalMessages + 1
Sent == Accepted \/ UNCHANGED <<mailbox, totalMessages>>

LEMMA EnqueueSends ==
  ASSUME TypeOK, NEW n, NEW kind, NEW about, Enqueue(n, kind, about)
  PROVE  Accepted
<1> DEFINE e == [target |-> n, kind |-> kind, about |-> about, id |-> totalMessages + 1]
<1>1. mailbox' = Append(mailbox, e) /\ totalMessages' = totalMessages + 1
      /\ e.id = totalMessages + 1 /\ mailbox \in Seq(Envelope \cup {e})
  BY DEF Enqueue, TypeOK
<1> HIDE DEF e
<1>. QED
  BY <1>1 DEF Accepted

LEMMA SendSends ==
  ASSUME TypeOK, NEW n, NEW kind, NEW about, SendWithSender(n, kind, about) \/ TrySend(n, kind)
  PROVE  Sent
BY EnqueueSends DEF SendWithSender, TrySend, DeadLetter, Sent, routeVars

\* The types the proofs below need, without the ones that they do not.
LEMMA OrderTypes ==
  ASSUME TypeOK
  PROVE  /\ mailbox \in Seq(Envelope) /\ totalMessages \in Nat /\ dispatcher.env.id \in Nat
         /\ \A c \in Cells : inbox[c] \in Seq(Envelope) /\ handling[c].id \in Nat
         /\ \A c \in Cells : Given(c) \subseteq Nat
         /\ \A e \in Envelope : e.id \in Nat
<1>1. \A e \in MaybeEnvelope : e.id \in Nat
  BY DEF MaybeEnvelope, Envelope, NoEnvelope
<1>2. \A c \in Cells : inbox[c] \in Seq(Envelope) /\ handling[c] \in MaybeEnvelope
  BY DEF TypeOK
<1>3. \A c \in Cells : \A i \in DOMAIN inbox[c] : inbox[c][i] \in MaybeEnvelope
  BY <1>2 DEF MaybeEnvelope
<1>4. dispatcher.env \in MaybeEnvelope
  BY DEF TypeOK, DispatcherState
<1>. QED
  BY <1>1, <1>2, <1>3, <1>4 DEF TypeOK, Given, MaybeEnvelope

LEMMA OrderSent ==
  ASSUME TypeOK, OrderInv, Sent, UNCHANGED <<dispatcher, inbox, handling>>, TypeOK'
  PROVE  OrderInv'
<1>1. CASE UNCHANGED <<mailbox, totalMessages>>
  BY <1>1 DEF OrderInv, InOrder, Increasing, Given
<1>2. CASE Accepted
  <2>1. mailbox \in Seq(Envelope) /\ mailbox' \in Seq(Envelope) /\ totalMessages \in Nat
    BY DEF TypeOK
  <2>2. /\ DOMAIN mailbox' = DOMAIN mailbox \cup {Len(mailbox) + 1}
        /\ DOMAIN mailbox = 1 .. Len(mailbox) /\ Len(mailbox) \in Nat
    BY <1>2, <2>1 DEF Accepted
  <2>3. \A i \in DOMAIN mailbox' :
          \/ i \in DOMAIN mailbox /\ mailbox'[i].id = mailbox[i].id
          \/ i = Len(mailbox) + 1 /\ mailbox'[i].id = totalMessages + 1
    BY <1>2, <2>2 DEF Accepted
  <2>4. /\ \A c \in Cells : Given(c)' = Given(c)
        /\ \A c \in Cells : Increasing(inbox[c])' = Increasing(inbox[c])
    BY DEF Given, Increasing
  <2>5. Increasing(mailbox')
    BY <2>1, <2>2, <2>3 DEF OrderInv, InOrder, Increasing
  <2>6. \A i \in DOMAIN mailbox' : dispatcher.env.id < mailbox'[i].id
    BY <2>1, <2>2, <2>3, OrderTypes DEF OrderInv, InOrder
  <2>7. \A c \in Cells : \A g \in Given(c), i \in DOMAIN mailbox' : g < mailbox'[i].id
    BY <2>1, <2>2, <2>3, OrderTypes DEF OrderInv, InOrder
  <2>8. \A i \in DOMAIN mailbox' : mailbox'[i].id \in 1 .. totalMessages'
    BY <1>2, <2>1, <2>2, <2>3 DEF OrderInv, Accepted
  <2>9. dispatcher.env.id <= totalMessages' /\ \A c \in Cells : \A g \in Given(c) : g <= totalMessages'
    BY <1>2, <2>1, OrderTypes DEF OrderInv, Accepted
  <2>10. InOrder'
    BY <2>4, <2>5, <2>6, <2>7 DEF OrderInv, InOrder
  <2>. QED
    BY <2>4, <2>8, <2>9, <2>10 DEF OrderInv
<1>. QED
  BY <1>1, <1>2 DEF Sent

LEMMA OrderTake ==
  ASSUME TypeOK, OrderInv, DispatcherTake, TypeOK'
  PROVE  OrderInv'
<1>1. /\ mailbox # <<>> /\ mailbox' = Tail(mailbox) /\ mailbox \in Seq(Envelope)
      /\ dispatcher' = [step |-> "lookup", env |-> Head(mailbox), cell |-> NoCell]
      /\ UNCHANGED <<inbox, handling, totalMessages>>
  BY DEF DispatcherTake, Route, TypeOK
<1>2. /\ 1 \in DOMAIN mailbox /\ Head(mailbox) = mailbox[1]
      /\ \A i \in DOMAIN mailbox' :
           i \in Nat /\ i + 1 \in DOMAIN mailbox /\ 1 < i + 1 /\ mailbox'[i] = mailbox[i + 1]
  BY <1>1
<1>3. dispatcher'.env = mailbox[1] /\ dispatcher'.step = "lookup"
  BY <1>1, <1>2
<1>4. /\ \A c \in Cells : Given(c)' = Given(c)
      /\ \A c \in Cells : Increasing(inbox[c])' = Increasing(inbox[c])
  BY <1>1 DEF Given, Increasing
<1>5. Increasing(mailbox')
  BY <1>1, <1>2 DEF OrderInv, InOrder, Increasing
<1>6. \A i \in DOMAIN mailbox' : mailbox[1].id < mailbox'[i].id
  BY <1>1, <1>2 DEF OrderInv, InOrder, Increasing
<1>7. \A c \in Cells : \A g \in Given(c) :
        g < mailbox[1].id /\ \A i \in DOMAIN mailbox' : g < mailbox'[i].id
  BY <1>2 DEF OrderInv, InOrder
<1>8. InOrder'
  BY <1>1, <1>3, <1>4, <1>5, <1>6, <1>7 DEF OrderInv, InOrder
<1>. QED
  BY <1>1, <1>2, <1>3, <1>4, <1>8, OrderTypes DEF OrderInv

\* The dispatcher drops what it holds, or only moves on.
LEMMA OrderMove ==
  ASSUME TypeOK, OrderInv, UNCHANGED <<mailbox, totalMessages, inbox, handling>>,
         \/ dispatcher'.step = "select" /\ dispatcher'.env.id = 0
         \/ dispatcher'.step = "done" /\ dispatcher'.env = dispatcher.env
         \/ dispatcher'.env = dispatcher.env /\ dispatcher.step \in {"lookup", "deliver"}
         \/ dispatcher' = dispatcher
  PROVE  OrderInv'
<1>1. /\ \A c \in Cells : Given(c)' = Given(c)
      /\ \A c \in Cells : Increasing(inbox[c])' = Increasing(inbox[c])
      /\ Increasing(mailbox)' = Increasing(mailbox)
  BY DEF Given, Increasing
<1>2. \A i \in DOMAIN mailbox : dispatcher'.env.id < mailbox[i].id
  BY OrderTypes DEF OrderInv, InOrder
<1>3. dispatcher'.env.id <= totalMessages
  BY OrderTypes DEF OrderInv
<1>4. dispatcher'.step \in {"lookup", "deliver"} =>
        \A c \in Cells : \A g \in Given(c) : g < dispatcher'.env.id
  BY DEF OrderInv, InOrder
<1>5. InOrder'
  BY <1>1, <1>2, <1>4 DEF OrderInv, InOrder
<1>. QED
  BY <1>1, <1>3, <1>5 DEF OrderInv

LEMMA OrderDeliver ==
  ASSUME TypeOK, OrderInv, dispatcher.step = "deliver",
         NEW k \in Cells, NEW e \in Envelope, e = dispatcher.env,
         inbox' = [inbox EXCEPT ![k] = Append(@, e)],
         dispatcher' = [step |-> "select", env |-> NoEnvelope, cell |-> NoCell],
         UNCHANGED <<mailbox, totalMessages, handling>>
  PROVE  OrderInv'
<1>1. inbox[k] \in Seq(Envelope) /\ e.id \in Nat
  BY OrderTypes
<1>2. inbox'[k] = Append(inbox[k], e) /\ \A c \in Cells \ {k} : inbox'[c] = inbox[c]
  BY <1>1 DEF TypeOK
<1>3. dispatcher'.step = "select" /\ dispatcher'.env.id = 0
  BY DEF NoEnvelope
<1>4. /\ DOMAIN inbox'[k] = DOMAIN inbox[k] \cup {Len(inbox[k]) + 1}
      /\ DOMAIN inbox[k] = 1 .. Len(inbox[k]) /\ Len(inbox[k]) \in Nat
      /\ \A i \in DOMAIN inbox[k] : inbox'[k][i] = inbox[k][i]
      /\ inbox'[k][Len(inbox[k]) + 1] = e
  BY <1>1, <1>2
<1>5. Given(k)' = Given(k) \cup {e.id}
  <2>1. handling'[k].id = handling[k].id
    OBVIOUS
  <2>. QED
    BY <1>4, <2>1 DEF Given
<1>6. \A c \in Cells \ {k} : Given(c)' = Given(c)
  BY <1>2 DEF Given
<1>7. \A c \in Cells : \A g \in Given(c) : g < e.id
  BY DEF OrderInv, InOrder
<1>8. Increasing(inbox'[k]) /\ \A i \in DOMAIN inbox'[k] : handling[k].id < inbox'[k][i].id
  <2>1. \A i \in DOMAIN inbox[k] : inbox[k][i].id < e.id
    BY <1>1, <1>7 DEF Given
  <2>2. handling[k].id < e.id
    BY <1>1, <1>7 DEF Given
  <2>3. Increasing(inbox[k]) /\ \A i \in DOMAIN inbox[k] : handling[k].id < inbox[k][i].id
    BY <1>1 DEF OrderInv, InOrder
  <2>. QED
    BY <1>4, <2>1, <2>2, <2>3 DEF Increasing
<1>9. \A c \in Cells : Increasing(inbox'[c])
                       /\ \A i \in DOMAIN inbox'[c] : handling'[c].id < inbox'[c][i].id
  BY <1>2, <1>8 DEF OrderInv, InOrder
<1>10. \A i \in DOMAIN mailbox : 0 < mailbox[i].id /\ e.id < mailbox[i].id
  BY OrderTypes DEF OrderInv, InOrder
<1>11. \A c \in Cells : \A g \in Given(c)', i \in DOMAIN mailbox : g < mailbox[i].id
  BY <1>5, <1>6, <1>10 DEF OrderInv, InOrder
<1>12. \A c, d \in Cells : c # d => Given(c)' \cap Given(d)' \subseteq {0}
  <2>1. \A c \in Cells : e.id \notin Given(c)
    BY <1>1, <1>7
  <2>. QED
    BY <1>5, <1>6, <2>1 DEF OrderInv, InOrder
<1>13. Increasing(mailbox')
  BY DEF OrderInv, InOrder, Increasing
<1>14. InOrder'
  BY <1>3, <1>9, <1>10, <1>11, <1>12, <1>13 DEF InOrder
<1>15. e.id <= totalMessages /\ 0 <= totalMessages
  BY OrderTypes DEF OrderInv
<1>. QED
  BY <1>3, <1>5, <1>6, <1>14, <1>15 DEF OrderInv

LEMMA OrderLoopTake ==
  ASSUME TypeOK, OrderInv, NEW k \in Cells, LoopTake(k)
  PROVE  OrderInv'
<1>1. /\ inbox[k] # <<>> /\ inbox[k] \in Seq(Envelope)
      /\ inbox'[k] = Tail(inbox[k]) /\ \A c \in Cells \ {k} : inbox'[c] = inbox[c]
      /\ handling'[k] = Head(inbox[k]) /\ \A c \in Cells \ {k} : handling'[c] = handling[c]
      /\ UNCHANGED <<mailbox, totalMessages, dispatcher>>
  BY DEF LoopTake, TypeOK, worldVars, routeVars, threadVars
<1>2. /\ 1 \in DOMAIN inbox[k] /\ handling'[k] = inbox[k][1]
      /\ \A i \in DOMAIN inbox'[k] :
           i \in Nat /\ i + 1 \in DOMAIN inbox[k] /\ 1 < i + 1 /\ inbox'[k][i] = inbox[k][i + 1]
  BY <1>1
<1>3. \A c \in Cells : Given(c)' \subseteq Given(c)
  <2>1. ASSUME NEW g \in Given(k)' PROVE g \in Given(k)
    <3>1. CASE g = handling'[k].id
      BY <1>2, <3>1 DEF Given
    <3>2. CASE \E i \in DOMAIN inbox'[k] : g = inbox'[k][i].id
      BY <1>2, <3>2 DEF Given
    <3>. QED
      BY <3>1, <3>2 DEF Given
  <2>2. \A c \in Cells \ {k} : Given(c)' = Given(c)
    BY <1>1 DEF Given
  <2>. QED
    BY <2>1, <2>2
<1>4. Increasing(inbox[k])
  BY DEF OrderInv, InOrder
<1>5. Increasing(inbox'[k]) /\ \A i \in DOMAIN inbox'[k] : handling'[k].id < inbox'[k][i].id
  BY <1>1, <1>2, <1>4 DEF Increasing
<1>6. \A c \in Cells : Increasing(inbox'[c])
                       /\ \A i \in DOMAIN inbox'[c] : handling'[c].id < inbox'[c][i].id
  BY <1>1, <1>5 DEF OrderInv, InOrder
<1>7. Increasing(mailbox')
  BY <1>1 DEF OrderInv, InOrder, Increasing
<1>8. InOrder'
  BY <1>1, <1>3, <1>6, <1>7 DEF OrderInv, InOrder
<1>. QED
  BY <1>1, <1>3, <1>8 DEF OrderInv

\* All other steps only send, or leave every queue alone.
LEMMA OrderOther ==
  ASSUME RegistryInv, [Next]_vars, ~DispatcherSteps, ~\E c \in Cells : LoopTake(c)
  PROVE  Sent /\ UNCHANGED <<dispatcher, inbox, handling>>
<1>. USE DEF RegistryInv, registryVars, routeVars, threadVars, systemVars, worldVars, cellVars, restVars
<1>1. ASSUME NEW t \in Threads, NEW n \in Names, Spawn(t, n) \/ SendUser(t, n)
      PROVE  Sent /\ UNCHANGED <<dispatcher, inbox, handling>>
  BY <1>1, SendSends DEF Spawn, SendUser
<1>2. ASSUME NEW c \in Cells, NEW n \in Names, SendWatch(c, n)
      PROVE  Sent /\ UNCHANGED <<dispatcher, inbox, handling>>
  BY <1>2, SendSends DEF SendWatch
<1>3. ASSUME NEW t \in Threads, StopSend(t)
      PROVE  Sent /\ UNCHANGED <<dispatcher, inbox, handling>>
  BY <1>3, SendSends DEF StopSend
<1>4. ASSUME NEW u \in Clients, BroadcastNext(u)
      PROVE  Sent /\ UNCHANGED <<dispatcher, inbox, handling>>
  BY <1>4, SendSends DEF BroadcastNext, ClientStep, Sent
<1>5. ASSUME NEW c \in Cells, RestartSend(c) \/ DirectiveEscalate(c) \/ NotifyWatcher(c)
      PROVE  Sent /\ UNCHANGED <<dispatcher, inbox, handling>>
  BY <1>5, SendSends DEF RestartSend, DirectiveEscalate, NotifyWatcher, SendFrame, Sent
<1>6. ASSUME ReaperSteps PROVE Sent /\ UNCHANGED <<dispatcher, inbox, handling>>
  BY <1>6 DEF ReaperSteps, ReaperTake, ReaperExit, Sent
<1>7. ASSUME \/ \E t \in Threads, n \in Names : Stop(t, n)
             \/ \E t \in Threads : StopMark(t)
             \/ \E u \in Clients, n \in Names : StopGracefully(u, n)
             \/ \E u \in Clients : \/ Broadcast(u) \/ Shutdown(u) \/ Poll(u) \/ PollState(u)
                                   \/ ShutdownSnapshot(u) \/ ShutdownStop(u) \/ ShutdownCancel(u)
                                   \/ ShutdownReturn(u) \/ ShutdownTimeout(u)
             \/ UNCHANGED vars
      PROVE  UNCHANGED <<mailbox, totalMessages, dispatcher, inbox, handling>>
  BY <1>7 DEF Stop, StopMark, StopGracefully, Broadcast, Shutdown, ClientStep, Poll, PollState,
     ShutdownSnapshot, ShutdownStop, ShutdownCancel, ShutdownReturn, ShutdownTimeout, vars
<1>8. ASSUME NEW c \in Cells,
             \/ Panic(c) \/ LoopStart(c) \/ LoopCancelled(c) \/ ReceiveReturn(c)
             \/ DirectiveResume(c) \/ DirectiveRestart(c) \/ RestartRun(c) \/ DirectiveStop(c)
             \/ StopSelfReturn(c) \/ CleanupStopped(c) \/ StoppedReturn(c) \/ NotifyDone(c)
             \/ StopChild(c) \/ StopChildrenDone(c) \/ Unregister(c) \/ Unlink(c) \/ Release(c)
      PROVE  UNCHANGED <<mailbox, totalMessages, dispatcher, inbox, handling>>
  BY <1>8 DEF Panic, LoopStart, LoopCancelled, ReceiveReturn, DirectiveResume, DirectiveRestart,
     RestartRun, DirectiveStop, StopSelfReturn, CleanupStopped, StoppedReturn, NotifyDone,
     StopChild, StopChildrenDone, Unregister, Unlink, Release, Move, MoveIn, RangeDone,
     CleanupFrame
<1>. QED
  BY <1>1, <1>2, <1>3, <1>4, <1>5, <1>6, <1>7, <1>8
  DEF Next, UserCode, StopSteps, ClientSteps, LoopSteps, CleanupSteps, Sent

LEMMA OrderDispatch ==
  ASSUME TypeOK, BornCells, OrderInv, DispatcherSteps, TypeOK'
  PROVE  OrderInv'
<1>1. CASE DispatcherTake
  BY <1>1, OrderTake
<1>2. CASE DispatcherLookup
  <2>1. /\ UNCHANGED <<mailbox, totalMessages, inbox, handling>>
        /\ \/ dispatcher' = [step |-> "select", env |-> NoEnvelope, cell |-> NoCell]
           \/ dispatcher' = [dispatcher EXCEPT !.step = "deliver",
                                               !.cell = registry[dispatcher.env.target]]
        /\ dispatcher.step = "lookup" /\ dispatcher \in DispatcherState
    BY <1>2 DEF DispatcherLookup, Route, DeadLetter, TypeOK
  <2>2. CASE dispatcher' = [step |-> "select", env |-> NoEnvelope, cell |-> NoCell]
    <3>1. dispatcher'.step = "select" /\ dispatcher'.env.id = 0
      BY <2>2 DEF NoEnvelope
    <3>. QED
      BY <2>1, <3>1, OrderMove
  <2>3. CASE dispatcher' = [dispatcher EXCEPT !.step = "deliver",
                                              !.cell = registry[dispatcher.env.target]]
    <3>1. dispatcher'.env = dispatcher.env
      BY <2>1, <2>3 DEF DispatcherState
    <3>. QED
      BY <2>1, <3>1, OrderMove
  <2>. QED
    BY <2>1, <2>2, <2>3
<1>3. CASE DispatcherDeliver
  <2>1. /\ UNCHANGED <<mailbox, totalMessages, handling>>
        /\ \/ inbox' = [inbox EXCEPT ![dispatcher.cell] = Append(@, dispatcher.env)]
           \/ UNCHANGED inbox
        /\ dispatcher' = [step |-> "select", env |-> NoEnvelope, cell |-> NoCell]
        /\ dispatcher.step = "deliver"
    BY <1>3 DEF DispatcherDeliver, Route, DeadLetter
  <2>2. dispatcher.cell \in Cells /\ dispatcher.env \in Envelope
    BY <2>1 DEF BornCells, Born
  <2>. QED
    BY <2>1, <2>2, OrderMove, OrderDeliver DEF NoEnvelope
<1>4. CASE DispatcherExit
  <2>1. /\ UNCHANGED <<mailbox, totalMessages, inbox, handling>>
        /\ dispatcher' = [dispatcher EXCEPT !.step = "done"] /\ dispatcher \in DispatcherState
    BY <1>4 DEF DispatcherExit, Route, TypeOK
  <2>2. dispatcher'.step = "done" /\ dispatcher'.env = dispatcher.env
    BY <2>1 DEF DispatcherState
  <2>. QED
    BY <2>1, <2>2, OrderMove
<1>. QED
  BY <1>1, <1>2, <1>3, <1>4 DEF DispatcherSteps

\* From the mailbox of the system through the dispatcher to the mailboxes of
\* the actors, messages keep the order in which the system accepted them, and
\* none is given to two incarnations.
THEOREM OrderCorrect == Spec => []InOrder
<1>1. Init => OrderInv
  BY DEF Init, OrderInv, InOrder, Increasing, Given, NoEnvelope
<1>2. RegistryInv /\ OrderInv /\ [Next]_vars /\ RegistryInv' => OrderInv'
  BY OrderDispatch, OrderLoopTake, OrderOther, OrderSent DEF RegistryInv
<1>3. OrderInv => InOrder
  BY DEF OrderInv
<1>. QED
  BY <1>1, <1>2, <1>3, RegistryInvariant, PTL DEF Spec

=============================================================================
