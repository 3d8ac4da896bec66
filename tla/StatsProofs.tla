------------------------------ MODULE StatsProofs ------------------------------
(* Proofs about Stats, for any goroutines, readers, latencies and bounds. *)
EXTENDS Stats, FiniteSetTheorems, TLAPS

Counters == [received : Nat, handled : Nat, errors : Nat, total : Nat,
             average : Int, max : Int, min : Int]
Outcomes == [Endings -> Nat]

Types ==
  /\ way \in Ways
  /\ stats \in Counters
  /\ receive \in [Goroutines -> Activations]
  /\ outcome \in Outcomes /\ resets \in Nat

\* As long as nobody has reset the counters, what is being handled is counted.
NothingLost == resets = 0 => \A g \in Goroutines : receive[g].step = "working" => receive[g].counted

AccountInv == Types /\ NothingLost /\ Accounted

LEMMA IdleIsActivation == Idle \in Activations
BY DEF Idle, Activations

LEMMA AccountInit == Init => AccountInv
<1> SUFFICES ASSUME Init PROVE AccountInv
  OBVIOUS
<1>1. Types
  BY StatsAssumption, IdleIsActivation DEF Init, Types, NoStats, Counters, Outcomes, Endings
<1>2. NothingLost
  BY DEF Init, NothingLost, Idle
<1>3. Working = {}
  BY DEF Init, Working, Idle
<1>4. Accounted
  BY <1>3, FS_EmptySet DEF Init, Accounted, Panicked, NoStats, Endings
<1> QED
  BY <1>1, <1>2, <1>4 DEF AccountInv

LEMMA WorkingFinite ==
  /\ IsFiniteSet(Working) /\ Cardinality(Working) \in Nat
<1>1. Working \subseteq Goroutines
  BY DEF Working
<1> QED
  BY <1>1, StatsAssumption, FS_Subset, FS_CardinalityType

\* What becomes of Working when one goroutine leaves its activation.
LEMMA Leaves ==
  ASSUME NEW g \in Goroutines, Types, receive[g].step = "working",
         NEW a \in Activations, a.step # "working",
         receive' = [receive EXCEPT ![g] = a]
  PROVE  /\ receive[g].counted => Cardinality(Working') = Cardinality(Working) - 1
         /\ ~receive[g].counted => Working' = Working
<1>1. CASE receive[g].counted
  <2>1. Working' = Working \ {g} /\ g \in Working
    BY <1>1 DEF Working, Types
  <2> QED
    BY <1>1, <2>1, WorkingFinite, FS_RemoveElement
<1>2. CASE ~receive[g].counted
  BY <1>2 DEF Working, Types
<1> QED
  BY <1>1, <1>2

-----------------------------------------------------------------------------
(* Steps that touch no activation *)

LEMMA ReadersKeep ==
  ASSUME AccountInv, UNCHANGED <<way, stats, receive, outcome, resets>>
  PROVE  AccountInv'
BY DEF AccountInv, Types, NothingLost, Accounted, Panicked, Working

LEMMA ReportErrorKeeps == AccountInv /\ ReportError => AccountInv'
BY DEF ReportError, AccountInv, Types, Counters, Ways, NothingLost, Accounted, Panicked, Working

LEMMA ResetKeeps == AccountInv /\ Reset => AccountInv'
<1> SUFFICES ASSUME AccountInv, Reset PROVE AccountInv'
  OBVIOUS
<1>1. Types'
  <2>1. stats' \in Counters
    BY StatsAssumption DEF Reset, NoStats, Counters
  <2>2. \A g \in Goroutines : [receive[g] EXCEPT !.counted = FALSE] \in Activations
    BY DEF AccountInv, Types, Activations
  <2> QED
    BY <2>1, <2>2 DEF AccountInv, Types, Reset, Outcomes, Endings
<1>2. Working' = {}
  BY DEF Working, Reset, AccountInv, Types, Activations
<1>3. resets' # 0
  BY DEF Reset, AccountInv, Types
<1>4. Accounted'
  BY <1>2, <1>3, FS_EmptySet DEF Accounted, Panicked, Reset, NoStats, Endings
<1> QED
  BY <1>1, <1>3, <1>4 DEF AccountInv, NothingLost

-----------------------------------------------------------------------------
(* The steps of an activation *)

LEMMA ReceivedKeeps ==
  ASSUME AccountInv, NEW g \in Goroutines, RecordReceived(g) PROVE AccountInv'
<1>1. Types'
  <2>1. stats' \in Counters
    BY DEF AccountInv, Types, RecordReceived, Counters
  <2>2. [Idle EXCEPT !.step = "working", !.counted = TRUE] \in Activations
    BY DEF Idle, Activations
  <2> QED
    BY <2>1, <2>2 DEF AccountInv, Types, RecordReceived
<1>2. NothingLost'
  BY DEF AccountInv, Types, NothingLost, RecordReceived, Idle
<1>3. Working' = Working \cup {g} /\ g \notin Working
  BY DEF Working, RecordReceived, AccountInv, Types, Idle
<1>4. Cardinality(Working') = Cardinality(Working) + 1
  BY <1>3, WorkingFinite, FS_AddElement
<1>5. Accounted'
  BY <1>4, WorkingFinite DEF AccountInv, Accounted, Panicked, Types, RecordReceived, Counters, Outcomes, Endings
<1> QED
  BY <1>1, <1>2, <1>5 DEF AccountInv

\* Whatever an activation ends with, one more message has ended, and the
\* counters show it as the collector records it.
LEMMA EndKeeps ==
  ASSUME AccountInv, NEW g \in Goroutines, receive[g].step = "working",
         NEW how \in {"success", "error", "other"}, Ended(g, how),
         NEW a \in Activations, a.step # "working", receive' = [receive EXCEPT ![g] = a],
         way' = way, resets' = resets, stats' \in Counters, stats'.received = stats.received,
         stats'.handled = IF how = "success" \/ way = "inline" THEN stats.handled + 1 ELSE stats.handled,
         way # "inline" =>
           stats'.errors = IF how = "error" THEN stats.errors + 1 ELSE stats.errors
  PROVE  AccountInv'
<1> USE DEF AccountInv
<1>1. /\ outcome \in [Endings -> Nat] /\ stats \in Counters
      /\ Endings = {"success", "error", "other", "late"}
  BY DEF Types, Outcomes, Endings
<1>2. /\ outcome' \in Outcomes
      /\ outcome'["late"] = IF receive[g].counted THEN outcome["late"] ELSE outcome["late"] + 1
      /\ outcome'["success"] = IF how = "success" THEN outcome["success"] + 1 ELSE outcome["success"]
      /\ outcome'["error"] = IF how = "error" THEN outcome["error"] + 1 ELSE outcome["error"]
      /\ outcome'["other"] = IF how = "other" THEN outcome["other"] + 1 ELSE outcome["other"]
  BY <1>1 DEF Ended, Outcomes
<1>3. Types'
  BY <1>2 DEF Types
<1>4. NothingLost'
  BY DEF Types, NothingLost
<1>5. /\ stats.received + outcome["late"] = outcome["success"] + Panicked + Cardinality(Working)
      /\ Cardinality(Working) \in Nat
      /\ outcome["success"] \in Nat /\ outcome["error"] \in Nat /\ outcome["other"] \in Nat
      /\ outcome["late"] \in Nat /\ stats.received \in Nat /\ stats.handled \in Nat
  BY <1>1, WorkingFinite DEF Accounted, Counters
<1>6. outcome'["success"] + Panicked' = outcome["success"] + Panicked + 1
  <2>1. Panicked = outcome["error"] + outcome["other"] /\ Panicked' = outcome'["error"] + outcome'["other"]
    BY DEF Panicked
  <2>2. CASE how = "success"
    BY <1>2, <1>5, <2>1, <2>2
  <2>3. CASE how = "error"
    BY <1>2, <1>5, <2>1, <2>3
  <2>4. CASE how = "other"
    BY <1>2, <1>5, <2>1, <2>4
  <2> QED
    BY <2>2, <2>3, <2>4
<1>7. stats'.received + outcome'["late"] = outcome'["success"] + Panicked' + Cardinality(Working')
  <2>1. outcome["success"] + Panicked \in Nat
    BY <1>5 DEF Panicked
  <2>2. CASE receive[g].counted
    <3>1. outcome'["late"] = outcome["late"] /\ Cardinality(Working') = Cardinality(Working) - 1
      BY <1>2, <2>2, Leaves
    <3> QED
      BY <1>5, <1>6, <2>1, <3>1
  <2>3. CASE ~receive[g].counted
    <3>1. outcome'["late"] = outcome["late"] + 1 /\ Cardinality(Working') = Cardinality(Working)
      BY <1>2, <2>3, Leaves
    <3> QED
      BY <1>5, <1>6, <2>1, <3>1
  <2> QED
    BY <2>2, <2>3
<1>8. stats'.handled = outcome'["success"] + (IF way = "inline" THEN Panicked' ELSE 0)
  BY <1>2, <1>5 DEF Accounted, Panicked
<1>9. /\ way # "inline" => stats'.errors = outcome'["error"]
      /\ resets = 0 => outcome'["late"] = 0
  BY <1>2 DEF Accounted, NothingLost
<1>10. Accounted'
  BY <1>7, <1>8, <1>9 DEF Accounted
<1> QED
  BY <1>3, <1>4, <1>10

\* What StatsCollector.RecordHandled does to the counts.
LEMMA HandledCounts ==
  ASSUME AccountInv, NEW l \in Latencies, stats' = WithHandled(stats, l)
  PROVE  /\ stats' \in Counters /\ stats'.received = stats.received
         /\ stats'.handled = stats.handled + 1 /\ stats'.errors = stats.errors
<1>1. stats \in Counters /\ l \in Nat
  BY StatsAssumption DEF AccountInv, Types
<1> DEFINE avg == (stats.total + l) \div (stats.handled + 1)
           top == IF l > stats.max THEN l ELSE stats.max
           low == IF l < stats.min THEN l ELSE stats.min
<1>2. stats' = [stats EXCEPT !.handled = @ + 1, !.total = @ + l, !.average = avg,
                             !.max = top, !.min = low]
  BY DEF WithHandled
<1>3. avg \in Int /\ top \in Int /\ low \in Int /\ stats.total + l \in Nat
  BY <1>1 DEF Counters
<1> HIDE DEF avg, top, low
<1>4. stats' = [received |-> stats.received, handled |-> stats.handled + 1,
                errors |-> stats.errors, total |-> stats.total + l,
                average |-> avg, max |-> top, min |-> low]
  BY <1>1, <1>2 DEF Counters
<1>5. stats.received \in Nat /\ stats.handled + 1 \in Nat /\ stats.errors \in Nat
  BY <1>1 DEF Counters
<1>6. stats' \in Counters
  BY <1>3, <1>4, <1>5 DEF Counters
<1> QED
  BY <1>4, <1>6

LEMMA HandledKeeps ==
  ASSUME AccountInv, NEW g \in Goroutines, RecordHandled(g) PROVE AccountInv'
<1>1. PICK l \in Latencies : stats' = WithHandled(stats, l)
  BY DEF RecordHandled
<1>2. /\ stats' \in Counters /\ stats'.received = stats.received
      /\ stats'.handled = stats.handled + 1 /\ stats'.errors = stats.errors
  BY <1>1, HandledCounts
<1>3. Idle.step # "working"
  BY DEF Idle
<1>4. /\ receive[g].step = "working" /\ Ended(g, "success")
      /\ receive' = [receive EXCEPT ![g] = Idle] /\ way' = way /\ resets' = resets
  BY DEF RecordHandled
<1> QED
  BY <1>2, <1>3, <1>4, EndKeeps, IdleIsActivation

LEMMA AddHandledKeeps ==
  ASSUME AccountInv, NEW g \in Goroutines, AddHandled(g) PROVE AccountInv'
<1>1. PICK l \in Latencies :
        receive' = [receive EXCEPT ![g] = [Idle EXCEPT !.step = "adding", !.latency = l]]
  BY DEF AddHandled
<1> DEFINE a == [Idle EXCEPT !.step = "adding", !.latency = l]
<1>2. a \in Activations /\ a.step # "working"
  BY DEF Idle, Activations
<1>3. /\ stats' \in Counters /\ stats'.received = stats.received
      /\ stats'.handled = stats.handled + 1 /\ stats'.errors = stats.errors
  BY DEF AddHandled, AccountInv, Types, Counters
<1>4. receive' = [receive EXCEPT ![g] = a]
  BY <1>1
<1> HIDE DEF a
<1>5. receive[g].step = "working" /\ Ended(g, "success") /\ way' = way /\ resets' = resets
  BY DEF AddHandled
<1> QED
  BY <1>2, <1>3, <1>4, <1>5, EndKeeps

LEMMA PanicKeeps ==
  ASSUME AccountInv, NEW g \in Goroutines, Panic(g) PROVE AccountInv'
<1>1. PICK how \in {"error", "other"} :
        /\ Ended(g, how)
        /\ \/ way = "inline" /\ \E l \in Latencies : stats' = WithHandled(stats, l)
           \/ way # "inline" /\ how = "error" /\ stats' = [stats EXCEPT !.errors = @ + 1]
           \/ way # "inline" /\ how = "other" /\ UNCHANGED stats
  BY DEF Panic
<1>2. /\ stats' \in Counters /\ stats'.received = stats.received
      /\ stats'.handled = IF way = "inline" THEN stats.handled + 1 ELSE stats.handled
      /\ way # "inline" =>
           stats'.errors = IF how = "error" THEN stats.errors + 1 ELSE stats.errors
  <2>1. CASE way = "inline"
    BY <1>1, <2>1, HandledCounts
  <2>2. CASE way # "inline"
    BY <1>1, <2>2 DEF AccountInv, Types, Counters
  <2> QED
    BY <2>1, <2>2
<1>3. Idle.step # "working"
  BY DEF Idle
<1>4. /\ receive[g].step = "working" /\ receive' = [receive EXCEPT ![g] = Idle]
      /\ way' = way /\ resets' = resets
  BY DEF Panic
<1> QED
  BY <1>1, <1>2, <1>3, <1>4, EndKeeps, IdleIsActivation

LEMMA LatenciesAreNat == \A n \in Latencies \cup {0} : n \in Nat
<1>1. Latencies \subseteq Nat
  BY StatsAssumption
<1>2. 0 \in Nat
  OBVIOUS
<1> QED
  BY <1>1, <1>2, Zenon

LEMMA AddLatencyKeeps ==
  ASSUME AccountInv, NEW g \in Goroutines, AddLatency(g) PROVE AccountInv'
<1>1. receive[g].latency \in Nat
  <2>1. receive[g] \in Activations
    BY DEF AccountInv, Types
  <2>2. receive[g].latency \in Latencies \cup {0}
    BY <2>1 DEF Activations
  <2> QED
    BY <2>2, LatenciesAreNat, Zenon
<1>2. Types'
  BY <1>1, IdleIsActivation DEF AccountInv, Types, AddLatency, Counters
<1>3. NothingLost'
  BY DEF AccountInv, Types, NothingLost, AddLatency, Idle
<1>4. Working' = Working
  BY DEF Working, AddLatency, AccountInv, Types, Idle
<1>5. Accounted'
  BY <1>4 DEF AccountInv, Accounted, Panicked, Types, AddLatency, Counters
<1> QED
  BY <1>2, <1>3, <1>5 DEF AccountInv

LEMMA AccountStep == AccountInv /\ [Next]_vars => AccountInv'
<1> SUFFICES ASSUME AccountInv, [Next]_vars PROVE AccountInv'
  OBVIOUS
<1>1. ASSUME NEW g \in Goroutines,
             RecordReceived(g) \/ RecordHandled(g) \/ AddHandled(g) \/ AddLatency(g) \/ Panic(g)
      PROVE  AccountInv'
  BY <1>1, ReceivedKeeps, HandledKeeps, AddHandledKeeps, AddLatencyKeeps, PanicKeeps
<1>2. ASSUME NEW r \in Readers,
             Clone(r) \/ LoadReceived(r) \/ LoadHandled(r) \/ LoadErrors(r) \/ LoadLatency(r)
      PROVE  AccountInv'
  BY <1>2, ReadersKeep DEF Clone, LoadReceived, LoadHandled, LoadErrors, LoadLatency, ReadFrom
<1>3. CASE UNCHANGED vars
  BY <1>3, ReadersKeep DEF vars
<1> QED
  BY <1>1, <1>2, <1>3, ReportErrorKeeps, ResetKeeps DEF Next

\* No message is counted twice or forgotten, and what the counters of handled
\* messages and of errors show is what became of them, for each way to record,
\* any number of goroutines and any Resets between.
THEOREM AllAccounted == Spec => []Accounted
<1>1. AccountInv => Accounted
  BY DEF AccountInv
<1> QED
  BY <1>1, AccountInit, AccountStep, PTL DEF Spec

-----------------------------------------------------------------------------
(* What Stats returns *)

LEMMA Quotient ==
  ASSUME NEW t \in Nat, NEW n \in Nat \ {0}, NEW low \in Nat, NEW top \in Nat,
         low * n <= t, t <= top * n
  PROVE  low <= t \div n /\ t \div n <= top
<1>1. low <= t \div n
  OBVIOUS
<1>2. t \div n <= top
  OBVIOUS
<1> QED
  BY <1>1, <1>2

\* One more latency, when all were between low and top.
LEMMA OneMore ==
  ASSUME NEW t \in Nat, NEW n \in Nat, NEW l \in Nat,
         NEW low \in Nat, NEW top \in Nat, low * n <= t, t <= top * n,
         NEW low2 \in Nat, NEW top2 \in Nat, low2 <= low, low2 <= l, top <= top2, l <= top2
  PROVE  low2 * (n + 1) <= t + l /\ t + l <= top2 * (n + 1)
<1>1. low2 * n <= low * n /\ top * n <= top2 * n
  OBVIOUS
<1>2. low2 * (n + 1) = low2 * n + low2 /\ top2 * (n + 1) = top2 * n + top2
  OBVIOUS
<1>3. low2 * n \in Nat /\ low * n \in Nat /\ top * n \in Nat /\ top2 * n \in Nat
  OBVIOUS
<1> QED
  BY <1>1, <1>2, <1>3

\* The extremes bound the total, not only the average made from it.
Fair(s) ==
  /\ s.max \in Nat /\ s.min \in Nat
  /\ IF s.handled = 0 THEN s.total = 0 /\ s.min = Forever /\ s.max = 0 /\ s.average = 0
     ELSE /\ s.min * s.handled <= s.total /\ s.total <= s.max * s.handled
          /\ s.average = s.total \div s.handled

LEMMA FairAgrees ==
  ASSUME NEW s \in Counters, Fair(s)
  PROVE  Agrees(s)
<1>1. s.handled \in Nat /\ s.total \in Nat
  BY DEF Counters
<1>2. CASE s.handled = 0
  BY <1>2 DEF Fair, Agrees
<1>3. CASE s.handled # 0
  <2>1. /\ s.min * s.handled <= s.total /\ s.total <= s.max * s.handled
        /\ s.average = s.total \div s.handled /\ s.max \in Nat /\ s.min \in Nat
    BY <1>3 DEF Fair
  <2>2. s.min <= s.total \div s.handled /\ s.total \div s.handled <= s.max
    BY <1>1, <1>3, <2>1, Quotient
  <2> QED
    BY <1>3, <2>1, <2>2 DEF Agrees
<1> QED
  BY <1>2, <1>3

LEMMA HandledFair ==
  ASSUME NEW s \in Counters, Fair(s), NEW l \in Latencies
  PROVE  Fair(WithHandled(s, l))
<1> DEFINE t == s.total
           n == s.handled
           top == IF l > s.max THEN l ELSE s.max
           low == IF l < s.min THEN l ELSE s.min
           w == WithHandled(s, l)
<1>1. l \in Nat /\ l < Forever /\ Forever \in Nat
  BY StatsAssumption
<1>2. t \in Nat /\ n \in Nat /\ s.max \in Nat /\ s.min \in Nat
  BY DEF Counters, Fair
<1>3. /\ w.handled = n + 1 /\ w.total = t + l /\ w.max = top /\ w.min = low
      /\ w.average = (t + l) \div (n + 1)
  BY DEF WithHandled, Counters
<1>4. /\ top \in Nat /\ low \in Nat /\ s.max <= top /\ l <= top /\ low <= s.min /\ low <= l
  BY <1>1, <1>2
<1> HIDE DEF w, top, low
<1>5. low * (n + 1) <= t + l /\ t + l <= top * (n + 1)
  <2>1. CASE n = 0
    <3>1. t = 0
      BY <2>1 DEF Fair
    <3> QED
      BY <1>1, <1>4, <2>1, <3>1
  <2>2. CASE n # 0
    <3>1. s.min * n <= t /\ t <= s.max * n
      BY <2>2 DEF Fair
    <3> HIDE DEF t, n
    <3> QED
      BY <1>1, <1>2, <1>4, <3>1, OneMore
  <2> QED
    BY <2>1, <2>2
<1>6. w.handled # 0
  BY <1>2, <1>3
<1>7. Fair(w)
  BY <1>3, <1>4, <1>5, <1>6 DEF Fair
<1> QED
  BY <1>7 DEF w

\* A call of AtomicStatsCollector.Stats: what it has loaded lies between what
\* the counter was at the beginning and what it is.
Loads(r) ==
  LET step == reader[r].step
      before == reader[r].before
      read == reader[r].read
  IN  /\ \A f \in Counts : before[f] <= stats[f] /\ read[f] <= stats[f]
      /\ before.received = read.received
      /\ step \in {"errors", "total", "done"} => before.handled <= read.handled
      /\ step \in {"total", "done"} => before.errors <= read.errors
      /\ step = "done" => before.total <= read.total

ReaderTypes ==
  reader \in [Readers -> [step : {"idle", "handled", "errors", "total", "done"},
                          before : Counters, read : Counters]]

WhenLocked ==
  /\ Fair(stats)
  /\ \A g \in Goroutines : receive[g].step # "adding"
  /\ \A r \in Readers : /\ reader[r].step \in {"idle", "done"}
                        /\ reader[r].step = "done" => Agrees(reader[r].read)

WhenAtomic == resets = 0 /\ \A r \in Readers : Loads(r)

SnapshotInv ==
  AccountInv /\ ReaderTypes /\ (Locked => WhenLocked) /\ (~Locked => WhenAtomic)

LEMMA NoStatsFair == NoStats \in Counters /\ Fair(NoStats)
BY StatsAssumption DEF NoStats, Counters, Fair

LEMMA SnapshotInit == Init => SnapshotInv
<1> SUFFICES ASSUME Init PROVE SnapshotInv
  OBVIOUS
<1>1. ReaderTypes
  BY NoStatsFair DEF Init, ReaderTypes, NoRead
<1>2. WhenLocked
  BY NoStatsFair DEF Init, WhenLocked, NoRead, Idle
<1>3. WhenAtomic
  <2>1. \A f \in Counts : NoStats[f] <= NoStats[f]
    BY DEF NoStats, Counts
  <2> QED
    BY <2>1 DEF Init, WhenAtomic, Loads, NoRead
<1> QED
  BY <1>1, <1>2, <1>3, AccountInit DEF SnapshotInv

\* Who only writes: under the lock the counters stay fair; without it they grow.
LEMMA WritersKeepSnapshots ==
  ASSUME SnapshotInv, AccountInv', UNCHANGED <<way, reader>>,
         Locked => Fair(stats') /\ \A g \in Goroutines : receive'[g].step # "adding",
         ~Locked => resets' = 0 /\ \A f \in Counts : stats[f] <= stats'[f]
  PROVE  SnapshotInv'
<1>1. Locked' <=> Locked
  BY DEF Locked
<1>2. CASE Locked
  BY <1>1, <1>2 DEF SnapshotInv, ReaderTypes, WhenLocked
<1>3. CASE ~Locked
  <2>1. ASSUME NEW r \in Readers PROVE Loads(r)'
    <3>1. Loads(r)
      BY <1>3 DEF SnapshotInv, WhenAtomic
    <3>2. /\ reader[r].before \in Counters /\ reader[r].read \in Counters
          /\ stats \in Counters /\ stats' \in Counters
      BY DEF SnapshotInv, ReaderTypes, AccountInv, Types
    <3>3. \A f \in Counts : reader[r].before[f] <= stats'[f] /\ reader[r].read[f] <= stats'[f]
      BY <1>3, <3>1, <3>2 DEF Loads, Counts, Counters
    <3> QED
      BY <3>1, <3>3 DEF Loads
  <2> QED
    BY <1>1, <1>3, <2>1 DEF SnapshotInv, ReaderTypes, WhenAtomic
<1> QED
  BY <1>2, <1>3

LEMMA ActivationKeepsSnapshots ==
  ASSUME SnapshotInv, AccountInv', NEW g \in Goroutines,
         \/ RecordReceived(g) \/ RecordHandled(g)
         \/ AddHandled(g) \/ AddLatency(g) \/ Panic(g)
  PROVE  SnapshotInv'
<1>1. /\ stats \in Counters /\ receive \in [Goroutines -> Activations]
      /\ Locked => Fair(stats) /\ \A h \in Goroutines : receive[h].step # "adding"
      /\ ~Locked => resets = 0
  BY DEF SnapshotInv, AccountInv, Types, WhenLocked, WhenAtomic
<1>2. UNCHANGED <<way, reader, resets>>
  BY DEF RecordReceived, RecordHandled, AddHandled, AddLatency, Panic
\* Counters that did not change, or that no statistic is made from.
<1>3. ASSUME stats'.handled = stats.handled, stats'.total = stats.total,
             stats'.average = stats.average, stats'.max = stats.max, stats'.min = stats.min
      PROVE  Fair(stats) => Fair(stats')
  BY <1>3 DEF Fair
<1>4. ASSUME receive'[g].step # "adding", \A h \in Goroutines \ {g} : receive'[h] = receive[h]
      PROVE  Locked => \A h \in Goroutines : receive'[h].step # "adding"
  BY <1>1, <1>4
<1>5. Idle.step = "idle"
  BY DEF Idle
<1>6. CASE RecordReceived(g)
  <2>1. /\ stats'.handled = stats.handled /\ stats'.total = stats.total
        /\ stats'.average = stats.average /\ stats'.max = stats.max /\ stats'.min = stats.min
        /\ \A f \in Counts : stats[f] <= stats'[f]
    BY <1>1, <1>6 DEF RecordReceived, Counters, Counts
  <2>2. receive'[g].step = "working" /\ \A h \in Goroutines \ {g} : receive'[h] = receive[h]
    BY <1>1, <1>6 DEF RecordReceived, Idle
  <2> QED
    BY <1>1, <1>2, <1>3, <1>4, <2>1, <2>2, WritersKeepSnapshots
<1>7. CASE RecordHandled(g)
  <2>1. Locked /\ Fair(stats')
    BY <1>1, <1>7, HandledFair DEF RecordHandled
  <2>2. receive'[g].step # "adding" /\ \A h \in Goroutines \ {g} : receive'[h] = receive[h]
    BY <1>1, <1>5, <1>7 DEF RecordHandled
  <2> QED
    BY <1>1, <1>2, <1>4, <2>1, <2>2, WritersKeepSnapshots
<1>8. CASE AddHandled(g)
  <2>1. ~Locked /\ stats' = [stats EXCEPT !.handled = @ + 1]
    BY <1>8 DEF AddHandled
  <2>2. \A f \in Counts : stats[f] <= stats'[f]
    BY <1>1, <2>1 DEF Counters, Counts
  <2> QED
    BY <1>1, <1>2, <2>1, <2>2, WritersKeepSnapshots
<1>9. CASE AddLatency(g)
  <2>1. ~Locked /\ receive[g].latency \in Nat
    <3>1. receive[g].step = "adding" /\ receive[g].latency \in Latencies \cup {0}
      BY <1>1, <1>9 DEF AddLatency, Activations
    <3>2. receive[g].latency \in Nat
      BY <3>1, LatenciesAreNat, Zenon
    <3> QED
      BY <1>1, <3>1, <3>2
  <2>2. \A f \in Counts : stats[f] <= stats'[f]
    BY <1>1, <1>9, <2>1 DEF AddLatency, Counters, Counts
  <2> QED
    BY <1>1, <1>2, <2>1, <2>2, WritersKeepSnapshots
<1>10. CASE Panic(g)
  <2>1. receive'[g].step # "adding" /\ \A h \in Goroutines \ {g} : receive'[h] = receive[h]
    BY <1>1, <1>5, <1>10 DEF Panic
  <2>2. CASE way = "inline"
    <3>1. Locked /\ Fair(stats')
      BY <1>1, <1>10, <2>2, HandledFair DEF Panic, Locked
    <3> QED
      BY <1>1, <1>2, <1>4, <2>1, <3>1, WritersKeepSnapshots
  <2>3. CASE way # "inline"
    <3>1. /\ stats'.handled = stats.handled /\ stats'.total = stats.total
          /\ stats'.average = stats.average /\ stats'.max = stats.max /\ stats'.min = stats.min
          /\ \A f \in Counts : stats[f] <= stats'[f]
      BY <1>1, <1>10, <2>3 DEF Panic, Counters, Counts
    <3> QED
      BY <1>1, <1>2, <1>3, <1>4, <2>1, <3>1, WritersKeepSnapshots
  <2> QED
    BY <2>2, <2>3
<1> QED
  BY <1>6, <1>7, <1>8, <1>9, <1>10

LEMMA OthersKeepSnapshots ==
  ASSUME SnapshotInv, AccountInv', ReportError \/ Reset
  PROVE  SnapshotInv'
<1>1. /\ stats \in Counters /\ Locked
      /\ Fair(stats) /\ \A h \in Goroutines : receive[h].step # "adding"
  BY DEF SnapshotInv, AccountInv, Types, WhenLocked, ReportError, Reset, Locked
<1>2. UNCHANGED <<way, reader>>
  BY DEF ReportError, Reset
<1>3. CASE ReportError
  <2>1. Fair(stats') /\ receive' = receive
    BY <1>1, <1>3 DEF ReportError, Counters, Fair
  <2> QED
    BY <1>1, <1>2, <2>1, WritersKeepSnapshots
<1>4. CASE Reset
  <2>1. Fair(stats') /\ \A h \in Goroutines : receive'[h].step # "adding"
    BY <1>1, <1>4, NoStatsFair DEF Reset, SnapshotInv, AccountInv, Types, Activations
  <2> QED
    BY <1>1, <1>2, <2>1, WritersKeepSnapshots
<1> QED
  BY <1>3, <1>4

\* Who only reads, a call of Stats at a time.
LEMMA ReaderKeepsSnapshots ==
  ASSUME SnapshotInv, AccountInv', NEW r \in Readers, UNCHANGED <<way, stats, receive, resets>>,
         NEW c \in [step : {"idle", "handled", "errors", "total", "done"},
                    before : Counters, read : Counters],
         reader' = [reader EXCEPT ![r] = c],
         Locked => c.step = "done" /\ Agrees(c.read),
         ~Locked => Loads(r)'
  PROVE  SnapshotInv'
<1>1. Locked' <=> Locked
  BY DEF Locked
<1>2. /\ ReaderTypes' /\ reader'[r] = c
      /\ \A o \in Readers \ {r} : reader'[o] = reader[o]
  BY DEF SnapshotInv, ReaderTypes
<1>3. CASE Locked
  BY <1>1, <1>2, <1>3 DEF SnapshotInv, WhenLocked, Fair
<1>4. CASE ~Locked
  <2>1. \A o \in Readers \ {r} : Loads(o)'
    BY <1>2, <1>4 DEF SnapshotInv, WhenAtomic, Loads
  <2> QED
    BY <1>1, <1>2, <1>4, <2>1 DEF SnapshotInv, WhenAtomic
<1> QED
  BY <1>3, <1>4

LEMMA ReadKeepsSnapshots ==
  ASSUME SnapshotInv, AccountInv', NEW r \in Readers,
         Clone(r) \/ LoadReceived(r) \/ LoadHandled(r) \/ LoadErrors(r) \/ LoadLatency(r)
  PROVE  SnapshotInv'
<1>1. UNCHANGED <<way, stats, receive, outcome, messages, resets>>
  BY DEF Clone, LoadReceived, LoadHandled, LoadErrors, LoadLatency, ReadFrom
<1> DEFINE ReadRecord == [step : {"idle", "handled", "errors", "total", "done"},
                          before : Counters, read : Counters]
           step == reader[r].step
           before == reader[r].before
           read == reader[r].read
<1>2. /\ stats \in Counters /\ reader \in [Readers -> ReadRecord]
      /\ reader[r] = [step |-> step, before |-> before, read |-> read]
      /\ before \in Counters /\ read \in Counters
      /\ Locked => Fair(stats) /\ step \in {"idle", "done"}
      /\ ~Locked => Loads(r)
  BY DEF SnapshotInv, AccountInv, Types, ReaderTypes, WhenLocked, WhenAtomic
<1>3. CASE Clone(r)
  <2> DEFINE c == [step |-> "done", before |-> stats, read |-> stats]
  <2>1. c \in ReadRecord /\ reader' = [reader EXCEPT ![r] = c] /\ Locked /\ c.step = "done"
    BY <1>2, <1>3 DEF Clone
  <2>2. Agrees(c.read)
    BY <1>2, <2>1, FairAgrees
  <2> HIDE DEF c
  <2> QED
    BY <1>1, <2>1, <2>2, ReaderKeepsSnapshots
<1>4. CASE LoadReceived(r)
  <2> DEFINE got == [NoStats EXCEPT !.received = stats.received]
             c == [step |-> "handled", before |-> stats, read |-> got]
  <2>1. /\ got \in Counters /\ got.received = stats.received
        /\ got.handled = 0 /\ got.errors = 0 /\ got.total = 0
    BY <1>2, NoStatsFair DEF NoStats, Counters
  <2>2. c \in ReadRecord /\ reader' = [reader EXCEPT ![r] = c] /\ ~Locked
    BY <1>2, <1>4, <2>1 DEF LoadReceived
  <2>3. Loads(r)'
    <3>1. reader'[r].step = "handled" /\ reader'[r].before = stats /\ reader'[r].read = got
      BY <1>2, <2>2
    <3>2. \A f \in Counts : stats[f] <= stats[f] /\ got[f] <= stats[f]
      BY <1>2, <2>1 DEF Counts, Counters
    <3> HIDE DEF got
    <3> QED
      BY <1>1, <2>1, <3>1, <3>2 DEF Loads
  <2> HIDE DEF c, got
  <2> QED
    BY <1>1, <2>2, <2>3, ReaderKeepsSnapshots
\* One counter more, of a call that is under way.
<1>5. ASSUME NEW f \in {"handled", "errors"}, NEW next \in {"errors", "total"},
             ReadFrom(r, f, next, f), f = "handled" <=> next = "errors"
      PROVE  SnapshotInv'
  <2> DEFINE got == [read EXCEPT ![f] = stats[f]]
             c == [step |-> next, before |-> before, read |-> got]
  <2>1. step = f /\ ~Locked
    BY <1>2, <1>5 DEF ReadFrom
  <2>2. reader' = [reader EXCEPT ![r] = c]
    <3>1. [reader[r] EXCEPT !.step = next, !.read[f] = stats[f]] = c
      <4>1. [reader[r] EXCEPT !.step = next] = [step |-> next, before |-> before, read |-> read]
        BY <1>2
      <4>2. [reader[r] EXCEPT !.step = next, !.read[f] = stats[f]] =
            [[step |-> next, before |-> before, read |-> read] EXCEPT !.read = got]
        BY <4>1
      <4> HIDE DEF got, read, before
      <4> QED
        BY <4>2
    <3>2. reader' = [reader EXCEPT ![r] = [reader[r] EXCEPT !.step = next, !.read[f] = stats[f]]]
      BY <1>2, <1>5 DEF ReadFrom
    <3> QED
      BY <3>1, <3>2
  <2>3. got \in Counters /\ got[f] = stats[f] /\ \A k \in Counts \ {f} : got[k] = read[k]
    BY <1>2 DEF Counters, Counts
  <2> HIDE DEF got
  <2>4. c \in ReadRecord
    BY <1>2, <2>3
  <2>5. Loads(r)'
    <3>1. reader'[r].step = next /\ reader'[r].before = before /\ reader'[r].read = got
      BY <1>2, <2>2, <2>4
    <3>2. Loads(r)
      BY <1>2, <2>1
    <3>3. \A k \in Counts : before[k] <= stats[k] /\ got[k] <= stats[k]
      BY <1>2, <2>3, <3>2 DEF Counts, Counters, Loads
    <3>4. /\ before.received = got.received /\ before.handled <= got.handled
          /\ next = "total" => before.errors <= got.errors
      BY <1>5, <2>1, <2>3, <3>2, <3>3 DEF Loads, Counts
    <3> QED
      BY <1>1, <1>5, <3>1, <3>3, <3>4 DEF Loads
  <2> HIDE DEF c
  <2> QED
    BY <1>1, <2>1, <2>2, <2>4, <2>5, ReaderKeepsSnapshots
<1>6. CASE LoadLatency(r)
  <2> DEFINE avg == IF read.handled > 0 THEN stats.total \div read.handled ELSE 0
             got == [read EXCEPT !.total = stats.total, !.average = avg]
             c == [step |-> "done", before |-> before, read |-> got]
  <2>1. step = "total" /\ ~Locked
    BY <1>2, <1>6 DEF LoadLatency
  <2>2. reader' = [reader EXCEPT ![r] = c]
    <3>1. [reader[r] EXCEPT !.step = "done", !.read.total = stats.total, !.read.average = avg] = c
      <4> DEFINE d == [read EXCEPT !.total = stats.total]
      <4>1. [reader[r] EXCEPT !.step = "done"] = [step |-> "done", before |-> before, read |-> read]
        BY <1>2
      <4>2. [reader[r] EXCEPT !.step = "done", !.read.total = stats.total] =
            [[step |-> "done", before |-> before, read |-> read] EXCEPT !.read = d]
        BY <4>1
      <4>3. got = [d EXCEPT !.average = avg]
        OBVIOUS
      <4> HIDE DEF got, d, read, before
      <4>4. [reader[r] EXCEPT !.step = "done", !.read.total = stats.total] =
            [step |-> "done", before |-> before, read |-> d]
        BY <4>2
      <4>5. [reader[r] EXCEPT !.step = "done", !.read.total = stats.total, !.read.average = avg] =
            [[step |-> "done", before |-> before, read |-> d] EXCEPT !.read = got]
        BY <4>3, <4>4
      <4> QED
        BY <4>5
    <3>2. reader' = [reader EXCEPT ![r] = [reader[r] EXCEPT !.step = "done",
                       !.read.total = stats.total, !.read.average = avg]]
      BY <1>2, <1>6 DEF LoadLatency
    <3> QED
      BY <3>1, <3>2
  <2>3. avg \in Int
    BY <1>2 DEF Counters
  <2> HIDE DEF avg
  <2>4. /\ got \in Counters /\ got.total = stats.total /\ got.received = read.received
        /\ got.handled = read.handled /\ got.errors = read.errors
    BY <1>2, <2>3 DEF Counters
  <2> HIDE DEF got
  <2>5. c \in ReadRecord
    BY <1>2, <2>4
  <2>6. Loads(r)'
    <3>1. reader'[r].step = "done" /\ reader'[r].before = before /\ reader'[r].read = got
      BY <1>2, <2>2, <2>5
    <3>2. Loads(r)
      BY <1>2, <2>1
    <3>3. \A k \in Counts : before[k] <= stats[k] /\ got[k] <= stats[k]
      BY <1>2, <2>4, <3>2 DEF Counts, Counters, Loads
    <3>4. /\ before.received = got.received /\ before.handled <= got.handled
          /\ before.errors <= got.errors /\ before.total <= got.total
      BY <2>1, <2>4, <3>2, <3>3 DEF Loads, Counts
    <3> QED
      BY <1>1, <3>1, <3>3, <3>4 DEF Loads
  <2> HIDE DEF c
  <2> QED
    BY <1>1, <2>1, <2>2, <2>5, <2>6, ReaderKeepsSnapshots
<1> QED
  BY <1>3, <1>4, <1>5, <1>6 DEF LoadHandled, LoadErrors

LEMMA SnapshotStep == SnapshotInv /\ [Next]_vars => SnapshotInv'
<1> SUFFICES ASSUME SnapshotInv, [Next]_vars PROVE SnapshotInv'
  OBVIOUS
<1>1. AccountInv'
  BY AccountStep DEF SnapshotInv
<1>2. CASE UNCHANGED vars
  <2>1. \A f \in Counts : stats[f] <= stats'[f]
    BY <1>2 DEF vars, SnapshotInv, AccountInv, Types, Counters, Counts
  <2> QED
    BY <1>1, <1>2, <2>1, WritersKeepSnapshots
       DEF vars, SnapshotInv, WhenLocked, WhenAtomic
<1> QED
  BY <1>1, <1>2, ActivationKeepsSnapshots, OthersKeepSnapshots, ReadKeepsSnapshots DEF Next

\* What an atomic collector holds: no more is handled or an error than was received.
LEMMA CountsAreBounded ==
  ASSUME AccountInv, ~Locked, resets = 0
  PROVE  stats.handled + stats.errors <= stats.received
<1>1. /\ stats.received = outcome["success"] + outcome["error"] + outcome["other"] + Cardinality(Working)
      /\ stats.handled = outcome["success"] /\ stats.errors = outcome["error"]
  BY WorkingFinite DEF AccountInv, Types, Accounted, Panicked, Locked, Counters, Outcomes, Endings
<1>2. /\ outcome["success"] \in Nat /\ outcome["error"] \in Nat /\ outcome["other"] \in Nat
      /\ Cardinality(Working) \in Nat
  BY WorkingFinite DEF AccountInv, Types, Outcomes, Endings
<1> QED
  BY <1>1, <1>2

\* What Stats returns is sound, from either collector, for any number of
\* goroutines that record and of readers, any latencies and any Resets between.
THEOREM SnapshotsCorrect == Spec => []SnapshotsAreSound
<1>1. ASSUME SnapshotInv PROVE SnapshotsAreSound
  <2> SUFFICES ASSUME NEW r \in Readers, reader[r].step = "done"
               PROVE  IF Locked THEN Agrees(reader[r].read)
                      ELSE Recent(reader[r].before, reader[r].read)
    BY DEF SnapshotsAreSound
  <2>1. CASE Locked
    BY <1>1, <2>1 DEF SnapshotInv, WhenLocked
  <2>2. CASE ~Locked
    <3> DEFINE before == reader[r].before
               read == reader[r].read
    <3>1. before \in Counters /\ read \in Counters /\ stats \in Counters
      BY <1>1 DEF SnapshotInv, ReaderTypes, AccountInv, Types
    <3>2. Loads(r) /\ stats.handled + stats.errors <= stats.received
      BY <1>1, <2>2, CountsAreBounded DEF SnapshotInv, WhenAtomic
    <3>3. /\ before.received = read.received /\ before.handled <= read.handled
          /\ before.errors <= read.errors /\ before.total <= read.total
          /\ \A f \in Counts : read[f] <= stats[f]
      BY <3>2 DEF Loads
    <3>4. \A f \in Counts : before[f] <= read[f] /\ read[f] <= stats[f]
      BY <3>1, <3>3 DEF Counts, Counters
    <3>5. read.handled <= stats.handled /\ read.errors <= stats.errors
      BY <3>3 DEF Counts
    <3>6. read.handled + read.errors <= read.received + (stats.received - before.received)
      BY <3>1, <3>2, <3>3, <3>5 DEF Counters
    <3> QED
      BY <2>2, <3>4, <3>6 DEF Recent
  <2> QED
    BY <2>1, <2>2
<1> QED
  BY <1>1, SnapshotInit, SnapshotStep, PTL DEF Spec
=============================================================================
