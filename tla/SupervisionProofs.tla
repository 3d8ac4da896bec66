-------------------------- MODULE SupervisionProofs --------------------------
(* The types, the budget of restarts that actors share with their strategy, *)
(* the delay of the backoff and how far restarts overlap, for every number  *)
(* of siblings and every limit of the strategy.                             *)
EXTENDS Supervision, FiniteSetTheorems, NaturalsInduction, TLAPS

-----------------------------------------------------------------------------
(* Types *)

Types == SupervisionTypeOK /\ IsFiniteSet(window)

\* A strategy that answers leaves a window within the limit.
LEMMA RecentFinite ==
  ASSUME Types
  PROVE  /\ Recent \subseteq [n : Nat, at : Nat] /\ IsFiniteSet(Recent)
         /\ Cardinality(Recent) \in Nat /\ Cardinality(Recent) <= MaxRestarts
         /\ ThisRestart \in [n : Nat, at : Nat]
<1>1. Recent \subseteq window /\ window \subseteq [n : Nat, at : Nat]
  BY DEF Recent, Types, SupervisionTypeOK
<1>2. /\ IsFiniteSet(Recent) /\ Cardinality(Recent) <= Cardinality(window)
      /\ Cardinality(Recent) \in Nat /\ Cardinality(window) \in Nat
  BY <1>1, FS_Subset, FS_CardinalityType DEF Types
<1>3. Cardinality(window) <= MaxRestarts
  BY DEF Types, SupervisionTypeOK
<1>4. ThisRestart \in [n : Nat, at : Nat]
  BY DEF ThisRestart, Types, SupervisionTypeOK
<1>. QED
  BY <1>1, <1>2, <1>3, <1>4, SupervisionAssumption

LEMMA WindowTypes ==
  ASSUME Types, WithinBudget \/ window' = Recent
  PROVE  /\ window' \subseteq [n : Nat, at : Nat] /\ IsFiniteSet(window')
         /\ Cardinality(window') <= MaxRestarts
<1>1. CASE WithinBudget
  <2>1. window' = Recent \cup {ThisRestart} /\ Cardinality(Recent) < MaxRestarts
    BY <1>1 DEF WithinBudget
  <2>2. IsFiniteSet(window') /\ Cardinality(window') <= Cardinality(Recent) + 1
    <3>1. IsFiniteSet(Recent) /\ Cardinality(Recent) \in Nat
      BY RecentFinite
    <3>. QED
      BY <2>1, <3>1, FS_AddElement
  <2>3. Cardinality(window') \in Nat
    BY <2>2, FS_CardinalityType
  <2>. QED
    BY <2>1, <2>2, <2>3, RecentFinite, SupervisionAssumption
<1>2. CASE window' = Recent
  BY <1>2, RecentFinite
<1>. QED
  BY <1>1, <1>2

LEMMA GotoTypes ==
  ASSUME Types, NEW c \in Cells, NEW p \in Points, Goto(c, p)
  PROVE  pc' \in [Cells -> Points]
BY DEF Types, SupervisionTypeOK, Goto

LEMMA FailTypes ==
  ASSUME Types, NEW c \in Cells, Fail(c)
  PROVE  Types'
<1>. USE DEF Types
<1>1. \A p \in Points : Goto(c, p) => pc' \in [Cells -> Points]
  BY GotoTypes
<1>2. {"select", "restarting", "siblings", "ended"} \subseteq Points
  BY DEF Points
<1>a. GoOn(c) => pc' \in [Cells -> Points]
  <2>1. GoOn(c) => Goto(c, "ended") \/ Goto(c, "select")
    BY DEF GoOn
  <2>. QED
    BY <1>1, <1>2, <2>1
<1>3. GiveUp(c) => /\ pc' \in [Cells -> Points] /\ pill' \in [Cells -> BOOLEAN]
                   /\ granted' \in Seq(Nat)
  BY <1>a DEF GiveUp, SupervisionTypeOK
<1>4. Restart(c) => pc' \in [Cells -> Points] /\ pill' \in [Cells -> BOOLEAN]
  BY <1>1, <1>2 DEF Restart, SupervisionTypeOK
<1>5. granted' = Append(granted, now) => granted' \in Seq(Nat)
  BY DEF SupervisionTypeOK
<1>6. CASE FailDefault(c)
  BY <1>3, <1>4, <1>5, <1>6 DEF FailDefault, SupervisionTypeOK, siblingVars
<1>7. CASE FailOneForOne(c)
  <2>1. /\ window' \subseteq [n : Nat, at : Nat] /\ IsFiniteSet(window')
        /\ Cardinality(window') <= MaxRestarts
    BY <1>7, WindowTypes DEF FailOneForOne, OverBudget
  <2>. QED
    BY <1>3, <1>4, <1>5, <1>7, <2>1
       DEF FailOneForOne, WithinBudget, OverBudget, SupervisionTypeOK, siblingVars
<1>8. CASE FailAllForOne(c)
  <2>1. /\ window' \subseteq [n : Nat, at : Nat] /\ IsFiniteSet(window')
        /\ Cardinality(window') <= MaxRestarts
    BY <1>8, WindowTypes DEF FailAllForOne, OverBudget
  <2>2. mu' \in Cells \cup {NoCell} /\ todo' \in [Cells -> SUBSET Cells]
    BY <1>8 DEF FailAllForOne, Siblings, SupervisionTypeOK
  <2>3. pc' \in [Cells -> Points] /\ pill' \in [Cells -> BOOLEAN] /\ granted' \in Seq(Nat)
    BY <1>1, <1>2, <1>3, <1>5, <1>8 DEF FailAllForOne, WithinBudget, OverBudget, SupervisionTypeOK
  <2>. QED
    BY <1>8, <2>1, <2>2, <2>3 DEF FailAllForOne, SupervisionTypeOK
<1>9. CASE FailBackoff(c)
  <2>1. CASE count >= MaxRestarts /\ GiveUp(c) /\ UNCHANGED <<delay, count, timers>>
    BY <1>3, <1>9, <2>1 DEF FailBackoff, SupervisionTypeOK, siblingVars
  <2>2. CASE /\ count < MaxRestarts /\ GoOn(c) /\ UNCHANGED pill
             /\ timers' = Append(timers, [cell |-> c, due |-> now + delay, step |-> "pending"])
             /\ delay' = NextDelay /\ count' = count + 1 /\ granted' = Append(granted, now)
    <3>1. delay' \in Nat /\ delay' <= MaxDelay
      BY <2>2, SupervisionAssumption DEF NextDelay, SupervisionTypeOK
    <3>2. count' \in 0..MaxRestarts
      BY <2>2, SupervisionAssumption DEF SupervisionTypeOK
    <3>3. timers' \in Seq(Timers)
      <4>1. [cell |-> c, due |-> now + delay, step |-> "pending"] \in Timers
        BY DEF Timers, SupervisionTypeOK
      <4>. QED
        BY <2>2, <4>1 DEF SupervisionTypeOK
    <3>. QED
      BY <1>a, <1>5, <1>9, <2>2, <3>1, <3>2, <3>3
         DEF FailBackoff, SupervisionTypeOK, siblingVars
  <2>. QED
    BY <1>9, <2>1, <2>2 DEF FailBackoff
<1>. QED
  BY <1>6, <1>7, <1>8, <1>9 DEF Fail

LEMMA TypeStep == Types /\ [Next]_vars => Types'
<1>. SUFFICES ASSUME Types, [Next]_vars PROVE Types'
  OBVIOUS
<1>. USE DEF Types
<1>1. \A c \in Cells : \A p \in Points : Goto(c, p) => pc' \in [Cells -> Points]
  BY GotoTypes
<1>2. Points = {"select", "receive", "failed", "siblings", "restarting", "poisoned", "ended"}
  BY DEF Points
<1>3. ASSUME NEW c \in Cells, Take(c) \/ TakePill(c) \/ Panic(c) \/ Return(c)
      PROVE  Types'
  <2>1. \E p \in Points : Goto(c, p)
    BY <1>2, <1>3 DEF Take, TakePill, Panic, Return, GoOn
  <2>2. pc' \in [Cells -> Points]
    BY <1>1, <2>1
  <2>. QED
    BY <1>3, <2>2 DEF Take, TakePill, Panic, Return, SupervisionTypeOK, strategyVars, siblingVars
<1>4. ASSUME NEW c \in Cells, Stop(c) \/ RestartSibling(c) \/ SiblingReturn(c) \/ SiblingsDone(c)
      PROVE  Types'
  <2>1. CASE Stop(c)
    BY <2>1 DEF Stop, SupervisionTypeOK, strategyVars, siblingVars
  <2>2. CASE RestartSibling(c)
    <3>1. PICK s \in todo[c] : /\ target' = [target EXCEPT ![c] = s]
                               /\ todo' = [todo EXCEPT ![c] = @ \ {s}]
      BY <2>2 DEF RestartSibling
    <3>2. target' \in [Cells -> Cells \cup {NoCell}] /\ todo' \in [Cells -> SUBSET Cells]
      BY <3>1 DEF SupervisionTypeOK
    <3>. QED
      BY <2>2, <3>2 DEF RestartSibling, SupervisionTypeOK, loopVars, strategyVars
  <2>3. CASE SiblingReturn(c)
    BY <2>3 DEF SiblingReturn, SupervisionTypeOK, loopVars, strategyVars
  <2>4. CASE SiblingsDone(c)
    <3>1. pc' \in [Cells -> Points] /\ UNCHANGED pill
      BY <1>1, <1>2, <2>4 DEF SiblingsDone, Restart
    <3>. QED
      BY <2>4, <3>1 DEF SiblingsDone, SupervisionTypeOK, strategyVars
  <2>. QED
    BY <1>4, <2>1, <2>2, <2>3, <2>4
<1>5. ASSUME NEW k \in DOMAIN timers, TimerFire(k) \/ TimerReturn(k) PROVE Types'
  <2>1. timers' \in Seq(Timers)
    <3>1. PICK step \in {"running", "done"} : timers' = [timers EXCEPT ![k].step = step]
      BY <1>5 DEF TimerFire, TimerReturn
    <3>2. timers \in Seq(Timers) /\ timers[k] \in Timers
      BY DEF SupervisionTypeOK
    <3>3. [timers[k] EXCEPT !.step = step] \in Timers
      BY <3>2 DEF Timers
    <3>. QED
      BY <3>1, <3>2, <3>3
  <2>. QED
    BY <1>5, <2>1 DEF TimerFire, TimerReturn, SupervisionTypeOK, loopVars, strategyVars,
       siblingVars
<1>6. CASE Reset
  BY <1>6, SupervisionAssumption DEF Reset, SupervisionTypeOK, loopVars, siblingVars
<1>7. CASE Tick
  BY <1>7 DEF Tick, SupervisionTypeOK, loopVars, strategyVars, siblingVars
<1>8. CASE UNCHANGED vars
  BY <1>8 DEF vars, SupervisionTypeOK
<1>. QED
  BY <1>3, <1>4, <1>5, <1>6, <1>7, <1>8, FailTypes DEF Next, GoesOn

LEMMA TypeInit == Init => Types
<1>. SUFFICES ASSUME Init PROVE Types
  OBVIOUS
<1>1. IsFiniteSet(window) /\ Cardinality(window) = 0
  BY FS_EmptySet DEF Init
<1>. QED
  BY <1>1, SupervisionAssumption DEF Init, Types, SupervisionTypeOK, Points

\* The types, with the limits of the strategy: a window never holds more than
\* MaxRestarts, the count never passes it, nor the delay MaxDelay, unless it is
\* the first one.
THEOREM SupervisionTypeCorrect == Spec => []SupervisionTypeOK
<1>1. Types => SupervisionTypeOK
  BY DEF Types
<1>. QED
  BY <1>1, TypeInit, TypeStep, PTL DEF Spec

-----------------------------------------------------------------------------
(* The budget of restarts *)

Shared == strategy \in {"oneForOne", "allForOne"}

\* No restart lies in the future, and the window still holds every one that is
\* not yet too old to count.
Remembered ==
  Shared => \A i \in 1 .. Len(granted) :
              /\ granted[i] <= now
              /\ granted[i] > now - WithinDuration => [n |-> i, at |-> granted[i]] \in window

BudgetInv == Types /\ Remembered /\ SharedBudget

\* The restarts that count when one more is granted are in the window.
LEMMA RecentCounts ==
  ASSUME Types, Remembered, Shared, NEW S,
         S = {j \in 1 .. Len(granted) : granted[j] > now - WithinDuration}
  PROVE  IsFiniteSet(S) /\ Cardinality(S) <= Cardinality(Recent)
<1>. DEFINE f == [j \in S |-> [n |-> j, at |-> granted[j]]]
<1>1. \A j \in S : [n |-> j, at |-> granted[j]] \in Recent
  BY DEF Remembered, Recent
<1>2. f \in [S -> Recent]
  BY <1>1
<1>3. \A i, j \in S : f[i] = f[j] => i = j
  OBVIOUS
<1>. HIDE DEF f
<1>4. f \in Injection(S, Recent)
  BY <1>2, <1>3 DEF Injection, IsInjective
<1>. QED
  BY <1>4, RecentFinite, FS_Injection

\* A restart within the budget.
LEMMA GrantKeeps ==
  ASSUME BudgetInv, Types', Shared, WithinBudget, UNCHANGED <<strategy, now>>
  PROVE  Remembered' /\ RestartBudget'
<1>1. /\ granted \in Seq(Nat) /\ now \in Nat /\ Len(granted) \in Nat
      /\ WithinDuration \in Nat /\ MaxRestarts \in Nat
  BY SupervisionAssumption DEF BudgetInv, Types, SupervisionTypeOK
<1>2. /\ Cardinality(Recent) < MaxRestarts /\ window' = Recent \cup {ThisRestart}
      /\ granted' = Append(granted, now)
  BY DEF WithinBudget
<1>. DEFINE l == Len(granted)
<1>3. /\ Len(granted') = l + 1 /\ DOMAIN granted' = 1 .. l + 1
      /\ granted'[l + 1] = now /\ \A i \in 1..l : granted'[i] = granted[i]
      /\ DOMAIN granted = 1..l
  BY <1>1, <1>2
<1>4. \A i \in 1..l : /\ granted[i] <= now /\ granted[i] \in Nat
                      /\ granted[i] > now - WithinDuration => [n |-> i, at |-> granted[i]] \in window
  BY <1>1 DEF BudgetInv, Remembered
<1>5. Remembered'
  <2>. SUFFICES ASSUME NEW i \in 1 .. l + 1
                PROVE  /\ granted'[i] <= now
                       /\ granted'[i] > now - WithinDuration =>
                            [n |-> i, at |-> granted'[i]] \in window'
    BY <1>3 DEF Remembered
  <2>1. CASE i = l + 1
    BY <1>1, <1>2, <1>3, <2>1 DEF ThisRestart
  <2>2. CASE i \in 1..l
    BY <1>2, <1>3, <1>4, <2>2 DEF Recent
  <2>. QED
    BY <1>1, <2>1, <2>2
<1>6. RestartBudget'
  <2>. SUFFICES ASSUME NEW i \in 1 .. l + 1
                PROVE  Cardinality({j \in 1..i : granted'[j] > granted'[i] - WithinDuration})
                         <= MaxRestarts
    BY <1>3 DEF RestartBudget
  <2>1. CASE i \in 1..l
    <3>1. {j \in 1..i : granted'[j] > granted'[i] - WithinDuration} =
          {j \in 1..i : granted[j] > granted[i] - WithinDuration}
      BY <1>1, <1>3, <2>1
    <3>. QED
      BY <1>3, <2>1, <3>1 DEF BudgetInv, SharedBudget, Shared, RestartBudget
  <2>2. CASE i = l + 1
    <3>. DEFINE S == {j \in 1..l : granted[j] > now - WithinDuration}
          B == {j \in 1..i : granted'[j] > granted'[i] - WithinDuration}
    <3>1. B \subseteq S \cup {l + 1}
      BY <1>1, <1>3, <1>4, <2>2
    <3>2. IsFiniteSet(S) /\ Cardinality(S) <= Cardinality(Recent)
      BY RecentCounts DEF BudgetInv
    <3>3. l + 1 \notin S
      BY <1>1
    <3>. HIDE DEF S, B
    <3>4. Cardinality(S \cup {l + 1}) = Cardinality(S) + 1
      BY <3>2, <3>3, FS_AddElement
    <3>5. Cardinality(S) \in Nat /\ Cardinality(Recent) \in Nat
      BY <3>2, RecentFinite, FS_CardinalityType DEF BudgetInv
    <3>6. Cardinality(S \cup {l + 1}) <= MaxRestarts
      BY <1>1, <1>2, <3>2, <3>4, <3>5
    <3>7. IsFiniteSet(S \cup {l + 1})
      BY <3>2, FS_AddElement
    <3>8. /\ Cardinality(B) <= Cardinality(S \cup {l + 1})
          /\ Cardinality(B) \in Nat /\ Cardinality(S \cup {l + 1}) \in Nat
      BY <3>1, <3>7, FS_Subset, FS_CardinalityType
    <3>9. Cardinality(B) <= MaxRestarts
      BY <1>1, <3>6, <3>8
    <3>. QED
      BY <3>9, Zenon DEF B
  <2>. QED
    BY <1>1, <2>1, <2>2
<1>. QED
  BY <1>5, <1>6

\* No restart, and a window that loses at most what is too old to count.
LEMMA NoGrantKeeps ==
  ASSUME BudgetInv, Types', UNCHANGED <<strategy, granted>>, now' \in Nat, now <= now',
         Shared => window' = window \/ (window' = Recent /\ now' = now)
  PROVE  BudgetInv'
<1>1. SharedBudget'
  BY DEF BudgetInv, SharedBudget, RestartBudget
<1>2. Remembered'
  <2>. SUFFICES ASSUME Shared, NEW i \in 1 .. Len(granted)
                PROVE  /\ granted[i] <= now'
                       /\ granted[i] > now' - WithinDuration =>
                            [n |-> i, at |-> granted[i]] \in window'
    BY DEF Remembered, Shared
  <2>1. /\ granted[i] <= now
        /\ granted[i] > now - WithinDuration => [n |-> i, at |-> granted[i]] \in window
    BY DEF BudgetInv, Remembered
  <2>2. granted[i] \in Nat /\ now \in Nat /\ WithinDuration \in Nat
    BY SupervisionAssumption DEF BudgetInv, Types, SupervisionTypeOK
  <2>3. granted[i] <= now' /\ (granted[i] > now' - WithinDuration => granted[i] > now - WithinDuration)
    BY <2>1, <2>2
  <2>4. granted[i] > now - WithinDuration /\ [n |-> i, at |-> granted[i]] \in window =>
          [n |-> i, at |-> granted[i]] \in Recent
    BY DEF Recent
  <2>. QED
    BY <2>1, <2>3, <2>4
<1>. QED
  BY <1>1, <1>2 DEF BudgetInv

LEMMA BudgetStep == BudgetInv /\ [Next]_vars => BudgetInv'
<1>. SUFFICES ASSUME BudgetInv, [Next]_vars PROVE BudgetInv'
  OBVIOUS
<1>1. Types' /\ now \in Nat
  BY TypeStep DEF BudgetInv, Types, SupervisionTypeOK
<1>2. ASSUME NEW c \in Cells, Fail(c) PROVE BudgetInv'
  <2>1. UNCHANGED <<strategy, now>>
    BY <1>2 DEF Fail, FailDefault, FailOneForOne, FailAllForOne, FailBackoff
  <2>2. CASE ~Shared
    BY <1>1, <2>1, <2>2 DEF Shared, BudgetInv, Remembered, SharedBudget
  <2>3. CASE Shared
    <3>1. FailOneForOne(c) \/ FailAllForOne(c)
      BY <1>2, <2>3 DEF Shared, Fail, Fails, FailDefault, FailBackoff
    <3>2. CASE WithinBudget
      BY <1>1, <2>1, <2>3, <3>2, GrantKeeps DEF BudgetInv, SharedBudget
    <3>3. CASE OverBudget(c)
      BY <1>1, <2>1, <3>3, NoGrantKeeps DEF OverBudget, GiveUp
    <3>. QED
      BY <3>1, <3>2, <3>3 DEF FailOneForOne, FailAllForOne
  <2>. QED
    BY <2>2, <2>3
<1>3. ASSUME UNCHANGED <<strategy, granted, window>>, now' = now \/ now' = now + 1 PROVE BudgetInv'
  <2>1. now' \in Nat /\ now <= now'
    BY <1>1, <1>3
  <2>2. Shared => window' = window \/ (window' = Recent /\ now' = now)
    BY <1>3
  <2>3. UNCHANGED <<strategy, granted>>
    BY <1>3
  <2>. QED
    BY <1>1, <2>1, <2>2, <2>3, NoGrantKeeps
<1>4. ASSUME NEW c \in Cells, Take(c) \/ TakePill(c) \/ Stop(c) \/ Panic(c) \/ GoesOn(c)
      PROVE  BudgetInv'
  BY <1>3, <1>4 DEF Take, TakePill, Stop, Panic, GoesOn, Return, RestartSibling, SiblingReturn,
     SiblingsDone, strategyVars
<1>5. ASSUME Reset \/ Tick \/ UNCHANGED vars PROVE BudgetInv'
  BY <1>3, <1>5 DEF Reset, Tick, vars, strategyVars
<1>6. ASSUME NEW k \in DOMAIN timers, TimerFire(k) \/ TimerReturn(k) PROVE BudgetInv'
  BY <1>3, <1>6 DEF TimerFire, TimerReturn, strategyVars
<1>. QED
  BY <1>2, <1>4, <1>5, <1>6 DEF Next

\* In any WithinDuration the actors that share a strategy are restarted
\* MaxRestarts times at most, however many they are and in whatever order they
\* fail: what the window forgets no longer counts.
THEOREM BudgetCorrect == Spec => []SharedBudget
<1>1. Init => BudgetInv
  BY TypeInit DEF Init, BudgetInv, Remembered, SharedBudget, RestartBudget
<1>2. BudgetInv => SharedBudget
  BY DEF BudgetInv
<1>. QED
  BY <1>1, <1>2, BudgetStep, PTL DEF Spec

-----------------------------------------------------------------------------
(* The delay of the backoff *)

\* The well-ordering of the naturals, for a set given as such.
LEMMA LeastOfNaturals ==
  ASSUME NEW T \in SUBSET Nat, T # {} PROVE \E i \in T : \A j \in T : i <= j
<1>. DEFINE Less == {ss \in Nat \X Nat : ss[1] < ss[2]}
<1>1. OpToRel(<, Nat) = Less
  BY Zenon DEF OpToRel
<1>2. \A i, j \in Nat : j < i => <<j, i>> \in Less
  OBVIOUS
<1>. HIDE DEF Less
<1>3. IsWellFoundedOn(Less, Nat)
  BY <1>1, NatLessThanWellFounded
<1>4. PICK i \in T : \A j \in T : <<j, i>> \notin Less
  BY <1>3, WFMin
<1>5. ASSUME NEW j \in T PROVE i <= j
  <2>1. i \in Nat /\ j \in Nat
    OBVIOUS
  <2>2. ~(j < i)
    BY <1>2, <1>4, <2>1, Zenon
  <2>. QED
    BY <2>1, <2>2
<1>. QED
  BY <1>5

\* The first n + 1 values of Doubled.
Chain(n, g) ==
  /\ g \in [0..n -> Nat] /\ g[0] = InitialDelay
  /\ \A i \in 1..n : g[i] = 2 * g[i - 1]

LEMMA ChainExists == \A n \in Nat : \E g : Chain(n, g)
<1>. DEFINE T == {n \in Nat : ~\E g : Chain(n, g)}
<1>. SUFFICES ASSUME T # {} PROVE FALSE
  OBVIOUS
<1>1. PICK n \in T : \A j \in T : n <= j
  <2>1. T \in SUBSET Nat
    OBVIOUS
  <2>. HIDE DEF T
  <2>. QED
    BY <2>1, LeastOfNaturals
<1>2. CASE n = 0
  <2>. DEFINE g == [i \in 0..0 |-> InitialDelay]
  <2>1. Chain(0, g)
    BY SupervisionAssumption DEF Chain
  <2>. QED
    BY <1>1, <1>2, <2>1
<1>3. CASE n # 0
  <2>1. n \in Nat /\ n - 1 \in Nat /\ n - 1 \notin T
    BY <1>1, <1>3
  <2>2. PICK h : Chain(n - 1, h)
    BY <2>1
  <2>. DEFINE g == [i \in 0..n |-> IF i = n THEN 2 * h[n - 1] ELSE h[i]]
  <2>3. g \in [0..n -> Nat] /\ g[0] = InitialDelay
    BY <1>3, <2>1, <2>2 DEF Chain
  <2>4. ASSUME NEW i \in 1..n PROVE g[i] = 2 * g[i - 1]
    <3>1. CASE i = n
      BY <2>1, <3>1
    <3>2. CASE i # n
      <4>1. i \in 1..n - 1 /\ i - 1 \in 0..n - 1 /\ g[i] = h[i] /\ g[i - 1] = h[i - 1]
        BY <2>1, <3>2
      <4>. QED
        BY <2>2, <4>1 DEF Chain
    <3>. QED
      BY <3>1, <3>2
  <2>5. Chain(n, g)
    BY <2>3, <2>4 DEF Chain
  <2>. QED
    BY <1>1, <2>5
<1>. QED
  BY <1>2, <1>3

LEMMA ChainsAgree ==
  ASSUME NEW n \in Nat, NEW m \in Nat, NEW g, NEW h, Chain(n, g), Chain(m, h),
         NEW k \in 0..n, k <= m
  PROVE  g[k] = h[k]
<1>. DEFINE T == {i \in Nat : i <= k /\ g[i] # h[i]}
<1>. SUFFICES ASSUME T # {} PROVE FALSE
  OBVIOUS
<1>1. PICK i \in T : \A j \in T : i <= j
  <2>1. T \in SUBSET Nat
    OBVIOUS
  <2>. HIDE DEF T
  <2>. QED
    BY <2>1, LeastOfNaturals
<1>2. i # 0
  BY <1>1 DEF Chain
<1>3. i \in 1..n /\ i \in 1..m /\ i - 1 \notin T /\ i - 1 \in Nat /\ i - 1 <= k
  BY <1>1, <1>2
<1>4. g[i - 1] = h[i - 1]
  BY <1>3
<1>. QED
  BY <1>1, <1>3, <1>4 DEF Chain

\* The recursive definition of Doubled has a solution, so Doubled is one.
LEMMA DoubledValues ==
  /\ Doubled \in [Nat -> Nat] /\ Doubled[0] = InitialDelay
  /\ \A n \in Nat : Doubled[n + 1] = 2 * Doubled[n]
<1>. DEFINE chain(n) == CHOOSE g : Chain(n, g)
            D == [n \in Nat |-> chain(n)[n]]
<1>1. \A n \in Nat : Chain(n, chain(n))
  BY ChainExists
<1>. HIDE DEF chain
<1>2. D \in [Nat -> Nat] /\ D[0] = InitialDelay
  BY <1>1 DEF Chain
<1>3. ASSUME NEW n \in Nat \ {0} PROVE D[n] = 2 * D[n - 1]
  <2>1. n - 1 \in Nat /\ n \in Nat /\ n - 1 \in 0..n /\ n \in 1..n
    OBVIOUS
  <2>2. chain(n)[n - 1] = chain(n - 1)[n - 1]
    BY <1>1, <2>1, ChainsAgree
  <2>3. chain(n)[n] = 2 * chain(n)[n - 1]
    BY <1>1, <2>1 DEF Chain
  <2>. QED
    BY <2>1, <2>2, <2>3
<1>4. D = [n \in Nat |-> IF n = 0 THEN InitialDelay ELSE 2 * D[n - 1]]
  <2>. HIDE DEF D
  <2>1. \A n \in Nat : D[n] = IF n = 0 THEN InitialDelay ELSE 2 * D[n - 1]
    BY <1>2, <1>3
  <2>. QED
    BY <1>2, <2>1
<1>. HIDE DEF D
<1>5. Doubled = [n \in Nat |-> IF n = 0 THEN InitialDelay ELSE 2 * Doubled[n - 1]]
  BY <1>4 DEF Doubled
<1>6. Doubled[0] = InitialDelay /\ \A n \in Nat : Doubled[n + 1] = 2 * Doubled[n]
  BY <1>5
<1>7. \A n \in Nat : Doubled[n] \in Nat
  <2>. DEFINE T == {n \in Nat : Doubled[n] \notin Nat}
  <2>. SUFFICES ASSUME T # {} PROVE FALSE
    OBVIOUS
  <2>1. PICK n \in T : \A j \in T : n <= j
    <3>1. T \in SUBSET Nat
      OBVIOUS
    <3>. HIDE DEF T
    <3>. QED
      BY <3>1, LeastOfNaturals
  <2>2. n # 0
    BY <1>6, <2>1, SupervisionAssumption
  <2>3. n - 1 \in Nat /\ n - 1 \notin T
    BY <2>1, <2>2
  <2>4. Doubled[n] = 2 * Doubled[n - 1]
    BY <1>6, <2>3
  <2>. QED
    BY <2>1, <2>3, <2>4
<1>. QED
  BY <1>5, <1>6, <1>7

\* The delay that belongs to a count.
DelayFor(n) == IF n > 0 /\ Doubled[n] > MaxDelay THEN MaxDelay ELSE Doubled[n]

\* Of the first delay either side of MaxDelay is possible; once at MaxDelay the
\* delay stays there.
LEMMA DelayStep == Types /\ BackoffDelay /\ [Next]_vars => BackoffDelay'
<1>. SUFFICES ASSUME Types, BackoffDelay, [Next]_vars, strategy' = "backoff"
              PROVE  delay' = DelayFor(count')
  BY DEF BackoffDelay, DelayFor
<1>1. strategy = "backoff"
  BY DEF Next, vars, Take, TakePill, Stop, Panic, Fail, FailDefault, FailOneForOne, FailAllForOne,
     FailBackoff, GoesOn, Return, RestartSibling, SiblingReturn, SiblingsDone, TimerFire,
     TimerReturn, Reset, Tick
<1>2. delay = DelayFor(count)
  BY <1>1 DEF BackoffDelay, DelayFor
<1>3. CASE UNCHANGED <<delay, count>>
  BY <1>2, <1>3
<1>4. CASE Reset
  <2>1. delay' = InitialDelay /\ count' = 0
    BY <1>4 DEF Reset
  <2>. QED
    BY <2>1, DoubledValues DEF DelayFor
<1>5. CASE delay' = NextDelay /\ count' = count + 1
  <2>1. count \in Nat /\ Doubled[count] \in Nat /\ Doubled[count + 1] = 2 * Doubled[count]
    BY DoubledValues DEF Types, SupervisionTypeOK
  <2>2. delay' = IF 2 * delay > MaxDelay THEN MaxDelay ELSE 2 * delay
    BY <1>5 DEF NextDelay
  <2>. QED
    BY <1>2, <1>5, <2>1, <2>2, SupervisionAssumption DEF DelayFor
<1>6. \A c \in Cells : Fail(c) => \/ UNCHANGED <<delay, count>>
                                  \/ delay' = NextDelay /\ count' = count + 1
  BY <1>1 DEF Fail, Fails, FailDefault, FailOneForOne, FailAllForOne, FailBackoff
<1>7. \A c \in Cells : Take(c) \/ TakePill(c) \/ Stop(c) \/ Panic(c) \/ GoesOn(c)
                         => UNCHANGED <<delay, count>>
  BY DEF Take, TakePill, Stop, Panic, GoesOn, Return, RestartSibling, SiblingReturn, SiblingsDone,
     strategyVars
<1>8. Tick \/ UNCHANGED vars => UNCHANGED <<delay, count>>
  BY DEF Tick, vars, strategyVars
<1>9. \A k \in DOMAIN timers : TimerFire(k) \/ TimerReturn(k) => UNCHANGED <<delay, count>>
  BY DEF TimerFire, TimerReturn, strategyVars
<1>. QED
  BY <1>3, <1>4, <1>5, <1>6, <1>7, <1>8, <1>9 DEF Next

\* The delay is InitialDelay doubled once for every restart counted since the
\* last Reset, and from the first doubling on never more than MaxDelay,
\* whichever actors failed and whichever of the two is the larger.
THEOREM DelayCorrect == Spec => []BackoffDelay
<1>1. Init => BackoffDelay
  BY DoubledValues DEF Init, BackoffDelay
<1>2. BackoffDelay /\ Types /\ [Next]_vars => BackoffDelay'
  BY DelayStep
<1>. QED
  BY <1>1, <1>2, TypeInit, TypeStep, PTL DEF Spec

-----------------------------------------------------------------------------
(* How far restarts by other goroutines overlap *)

\* Who restarts siblings holds the lock, and every timer since the last Reset
\* is counted.
OverlapInv ==
  /\ Types
  /\ \A c \in Cells : pc[c] = "siblings" \/ target[c] # NoCell => mu = c
  /\ Len(timers) = settled + count

LEMMA OverlapBounds == OverlapInv => OverlapIsBounded
<1>. SUFFICES ASSUME OverlapInv, NEW c \in Cells
              PROVE  Cardinality(Restarters(c)) <= 1 /\ Cardinality(LateRestarts(c)) <= MaxRestarts
  BY DEF OverlapIsBounded
<1>1. Cardinality(Restarters(c)) <= 1
  <2>1. Restarters(c) \subseteq {mu}
    BY SupervisionAssumption DEF Restarters, OverlapInv
  <2>2. IsFiniteSet({mu}) /\ Cardinality({mu}) = 1
    BY FS_Singleton
  <2>3. Cardinality(Restarters(c)) <= Cardinality({mu})
    BY <2>1, <2>2, FS_Subset
  <2>. QED
    BY <2>2, <2>3
<1>2. Cardinality(LateRestarts(c)) <= MaxRestarts
  <2>. DEFINE l == Len(timers)  a == settled + 1
  <2>1. /\ settled \in Nat /\ count \in 0..MaxRestarts /\ timers \in Seq(Timers)
        /\ l \in Nat /\ a \in Int /\ l = settled + count /\ DOMAIN timers = 1..l
    BY DEF OverlapInv, Types, SupervisionTypeOK
  <2>2. LateRestarts(c) \subseteq a..l
    BY <2>1 DEF LateRestarts
  <2>3. IsFiniteSet(a..l) /\ Cardinality(a..l) = IF a > l THEN 0 ELSE l - a + 1
    BY <2>1, FS_Interval
  <2>4. /\ Cardinality(LateRestarts(c)) <= Cardinality(a..l)
        /\ Cardinality(LateRestarts(c)) \in Nat
    BY <2>2, <2>3, FS_Subset, FS_CardinalityType
  <2>5. Cardinality(a..l) <= count /\ Cardinality(a..l) \in Nat
    BY <2>1, <2>3
  <2>. QED
    BY <2>1, <2>4, <2>5, SupervisionAssumption
<1>. QED
  BY <1>1, <1>2

LEMMA OverlapStep == OverlapInv /\ [Next]_vars => OverlapInv'
<1>. SUFFICES ASSUME OverlapInv, [Next]_vars PROVE OverlapInv'
  OBVIOUS
<1>. DEFINE Locked == \A c \in Cells : pc[c] = "siblings" \/ target[c] # NoCell => mu = c
            Counted == Len(timers) = settled + count
<1>1. /\ Types' /\ Locked /\ Counted /\ pc \in [Cells -> Points]
      /\ target \in [Cells -> Cells \cup {NoCell}] /\ settled \in Nat /\ count \in Nat
      /\ timers \in Seq(Timers) /\ Len(timers) \in Nat
  <2>1. Types /\ Locked /\ Counted
    BY DEF OverlapInv
  <2>2. Types'
    BY <2>1, TypeStep
  <2>3. /\ pc \in [Cells -> Points] /\ target \in [Cells -> Cells \cup {NoCell}]
        /\ settled \in Nat /\ count \in Nat /\ timers \in Seq(Timers) /\ Len(timers) \in Nat
    BY <2>1 DEF Types, SupervisionTypeOK
  <2>. QED
    BY <2>1, <2>2, <2>3
<1>2. ASSUME UNCHANGED <<mu, target>>, UNCHANGED <<timers, settled, count>>,
             \A d \in Cells : pc'[d] = "siblings" => pc[d] = "siblings"
      PROVE  OverlapInv'
  BY <1>1, <1>2 DEF OverlapInv
<1>3. ASSUME NEW c \in Cells, Take(c) \/ TakePill(c) \/ Panic(c) \/ Return(c) \/ Stop(c)
      PROVE  OverlapInv'
  BY <1>1, <1>2, <1>3 DEF Take, TakePill, Panic, Return, Stop, GoOn, Goto, strategyVars, siblingVars
<1>4. ASSUME NEW c \in Cells, Fail(c) PROVE OverlapInv'
  <2>1. GoOn(c) \/ Restart(c) => \A d \in Cells : pc'[d] = "siblings" => pc[d] = "siblings"
    BY <1>1 DEF GoOn, Restart, Goto
  <2>2. CASE FailDefault(c) \/ FailOneForOne(c)
    <3>1. GoOn(c) \/ Restart(c)
      BY <2>2 DEF FailDefault, FailOneForOne, GiveUp, OverBudget
    <3>2. UNCHANGED <<mu, target, timers, settled, count>>
      BY <2>2 DEF FailDefault, FailOneForOne, siblingVars
    <3>. QED
      BY <1>2, <2>1, <3>1, <3>2
  <2>3. CASE FailAllForOne(c)
    <3>1. CASE OverBudget(c) /\ UNCHANGED <<mu, todo>>
      BY <1>2, <2>1, <2>3, <3>1 DEF FailAllForOne, GiveUp, OverBudget
    <3>2. CASE mu' = c /\ Goto(c, "siblings")
      <4>1. mu = NoCell /\ UNCHANGED <<target, timers, settled, count>>
        BY <2>3 DEF FailAllForOne, Fails
      <4>2. \A d \in Cells : pc[d] # "siblings" /\ target[d] = NoCell
        BY <1>1, <4>1, SupervisionAssumption
      <4>3. \A d \in Cells : pc'[d] = "siblings" => d = c
        BY <1>1, <3>2, <4>2 DEF Goto
      <4>. QED
        BY <1>1, <3>2, <4>1, <4>2, <4>3 DEF OverlapInv
    <3>. QED
      BY <2>3, <3>1, <3>2 DEF FailAllForOne
  <2>4. CASE FailBackoff(c)
    <3>1. CASE count >= MaxRestarts /\ GiveUp(c) /\ UNCHANGED <<delay, count, timers>>
      BY <1>2, <2>1, <2>4, <3>1 DEF FailBackoff, GiveUp, siblingVars
    <3>2. CASE /\ count' = count + 1 /\ GoOn(c)
               /\ timers' = Append(timers, [cell |-> c, due |-> now + delay, step |-> "pending"])
      <4>1. Len(timers') = settled' + count'
        <5>1. \A x : Len(Append(timers, x)) = Len(timers) + 1
          BY <1>1
        <5>2. settled' = settled /\ Len(timers') = Len(timers) + 1
          BY <2>4, <3>2, <5>1 DEF FailBackoff
        <5>. QED
          BY <1>1, <3>2, <5>2
      <4>2. UNCHANGED <<mu, target>>
        BY <2>4 DEF FailBackoff, siblingVars
      <4>. QED
        BY <1>1, <2>1, <3>2, <4>1, <4>2 DEF OverlapInv
    <3>. QED
      BY <2>4, <3>1, <3>2 DEF FailBackoff
  <2>. QED
    BY <1>4, <2>2, <2>3, <2>4 DEF Fail
<1>5. ASSUME NEW c \in Cells, RestartSibling(c) PROVE OverlapInv'
  <2>1. /\ pc[c] = "siblings" /\ \A d \in Cells \ {c} : target'[d] = target[d]
        /\ UNCHANGED <<pc, mu, timers, settled, count>>
    BY <1>1, <1>5 DEF RestartSibling, loopVars, strategyVars
  <2>. QED
    BY <1>1, <2>1 DEF OverlapInv
<1>6. ASSUME NEW c \in Cells, SiblingReturn(c) PROVE OverlapInv'
  <2>1. /\ \A d \in Cells : target'[d] # NoCell => target[d] # NoCell
        /\ UNCHANGED <<pc, mu, timers, settled, count>>
    BY <1>1, <1>6 DEF SiblingReturn, loopVars, strategyVars
  <2>. QED
    BY <1>1, <2>1 DEF OverlapInv
<1>7. ASSUME NEW c \in Cells, SiblingsDone(c) PROVE OverlapInv'
  <2>1. /\ pc[c] = "siblings" /\ target[c] = NoCell /\ pc' = [pc EXCEPT ![c] = "restarting"]
        /\ UNCHANGED <<target, timers, settled, count>>
    BY <1>7 DEF SiblingsDone, Restart, Goto, strategyVars
  <2>2. \A d \in Cells : d # c => pc[d] # "siblings" /\ target[d] = NoCell
    BY <1>1, <2>1
  <2>3. \A d \in Cells : pc'[d] # "siblings" /\ target'[d] = NoCell
    BY <1>1, <2>1, <2>2
  <2>. QED
    BY <1>1, <2>1, <2>3 DEF OverlapInv
<1>8. ASSUME NEW k \in DOMAIN timers, TimerFire(k) \/ TimerReturn(k) PROVE OverlapInv'
  <2>1. Len(timers') = Len(timers)
    BY <1>1, <1>8 DEF TimerFire, TimerReturn
  <2>2. UNCHANGED <<pc, mu, target, settled, count>>
    BY <1>8 DEF TimerFire, TimerReturn, loopVars, strategyVars, siblingVars
  <2>. QED
    BY <1>1, <2>1, <2>2 DEF OverlapInv
<1>9. CASE Reset
  BY <1>1, <1>9 DEF Reset, OverlapInv, loopVars, siblingVars
<1>10. CASE Tick \/ UNCHANGED vars
  BY <1>2, <1>10 DEF Tick, vars, loopVars, strategyVars, siblingVars
<1>. QED
  BY <1>3, <1>4, <1>5, <1>6, <1>7, <1>8, <1>9, <1>10 DEF Next, GoesOn

\* However actors fail, one goroutine at a time is inside of an actor's Receive
\* to restart it with its siblings, and of the timers set since the last Reset
\* MaxRestarts at most.
THEOREM OverlapCorrect == Spec => []OverlapIsBounded
<1>1. Init => OverlapInv
  BY TypeInit DEF Init, OverlapInv
<1>. QED
  BY <1>1, OverlapStep, OverlapBounds, PTL DEF Spec

==============================================================================
