--------------------------------- MODULE Stats ---------------------------------
(***************************************************************************)
(* The statistics of an actor (pkg/actor/stats.go), recorded by several    *)
(* goroutines at once: Receive runs in the actor's own loop, in the loops  *)
(* of siblings that restart it, and in timers.  Three ways to record:      *)
(*   "wrapped"  StatsActor around the actor, with a StatsCollector;        *)
(*   "inline"   AgentActor and TeamActor, which call theirs themselves;    *)
(*   "atomic"   an AtomicStatsCollector, called as StatsActor calls its    *)
(*              own.                                                       *)
(* Every method of StatsCollector works under one lock and is one step.    *)
(* AtomicStatsCollector adds to and loads each counter by itself.          *)
(* Timestamps and the last error are left out.                             *)
(***************************************************************************)
EXTENDS Naturals, FiniteSets

CONSTANTS Goroutines,   \* those that run Receive
          Readers,      \* those that call Stats
          Latencies,    \* how long a Receive may take
          Forever,      \* the largest time.Duration
          MaxMessages,  \* bound: the number of messages, and of a Run's errors
          MaxResets     \* bound: the number of resets

ASSUME StatsAssumption ==
  /\ IsFiniteSet(Goroutines)
  /\ Latencies \subseteq Nat /\ Forever \in Nat
  /\ \A l \in Latencies : l < Forever
  /\ MaxMessages \in Nat /\ MaxResets \in Nat

VARIABLES way,        \* how the actor records, one of Ways
          stats,      \* the counters of the collector
          receive,    \* per goroutine: its activation of Receive
          reader,     \* per reader: its call of Stats, or what that returned
          outcome,    \* history: how many activations ended how, since Reset
          messages,   \* the number of messages, for the bound MaxMessages
          resets      \* the number of resets, for the bound MaxResets

vars == <<way, stats, receive, reader, outcome, messages, resets>>

-----------------------------------------------------------------------------
Ways   == {"wrapped", "inline", "atomic"}
Locked == way # "atomic"

NoStats == [received |-> 0, handled |-> 0, errors |-> 0, total |-> 0,
            average |-> 0, max |-> 0, min |-> Forever]
Counts == {"received", "handled", "errors", "total"}

\* counted: is its RecordReceived in the counters, or lost in a Reset since?
Idle == [step |-> "idle", counted |-> FALSE, latency |-> 0]
Activations == [step : {"idle", "working", "adding"}, counted : BOOLEAN,
                latency : Latencies \cup {0}]

\* An activation returns, or panics with an error or with another value; late
\* are those that ended, in any of these ways, but were received before Reset.
Endings == {"success", "error", "other", "late"}

\* before: history, the counters when the call began.
NoRead == [step |-> "idle", before |-> NoStats, read |-> NoStats]

Init ==
  /\ way \in Ways
  /\ stats = NoStats
  /\ receive = [g \in Goroutines |-> Idle]
  /\ reader = [r \in Readers |-> NoRead]
  /\ outcome = [e \in Endings |-> 0]
  /\ messages = 0 /\ resets = 0

-----------------------------------------------------------------------------
(* Receive                                                                  *)

RecordReceived(g) ==
  /\ receive[g] = Idle
  /\ messages < MaxMessages /\ messages' = messages + 1
  /\ stats' = [stats EXCEPT !.received = @ + 1]
  /\ receive' = [receive EXCEPT ![g] = [Idle EXCEPT !.step = "working", !.counted = TRUE]]
  /\ UNCHANGED <<way, reader, outcome, resets>>

Ended(g, how) ==
  outcome' = [e \in Endings |->
                IF e = how \/ (e = "late" /\ ~receive[g].counted) THEN outcome[e] + 1
                ELSE outcome[e]]

\* Mutant: the average is taken before the message is counted.
WithHandledLate(s, latency) ==
  [s EXCEPT !.handled = @ + 1, !.total = @ + latency,
            !.average = IF s.handled > 0 THEN (s.total + latency) \div s.handled ELSE @,
            !.max = IF latency > @ THEN latency ELSE @,
            !.min = IF latency < @ THEN latency ELSE @]

\* StatsCollector.RecordHandled.
WithHandled(s, latency) ==
  [s EXCEPT !.handled = @ + 1, !.total = @ + latency,
            !.average = (s.total + latency) \div (s.handled + 1),
            !.max = IF latency > @ THEN latency ELSE @,
            !.min = IF latency < @ THEN latency ELSE @]

\* Receive has returned: the deferred function.
RecordHandled(g) ==
  /\ Locked /\ receive[g].step = "working"
  /\ \E l \in Latencies : stats' = WithHandled(stats, l)
  /\ Ended(g, "success")
  /\ receive' = [receive EXCEPT ![g] = Idle]
  /\ UNCHANGED <<way, reader, messages, resets>>

\* AtomicStatsCollector.RecordHandled: two additions.
AddHandled(g) ==
  /\ ~Locked /\ receive[g].step = "working"
  /\ stats' = [stats EXCEPT !.handled = @ + 1]
  /\ Ended(g, "success")
  /\ \E l \in Latencies :
       receive' = [receive EXCEPT ![g] = [Idle EXCEPT !.step = "adding", !.latency = l]]
  /\ UNCHANGED <<way, reader, messages, resets>>

AddLatency(g) ==
  /\ receive[g].step = "adding"
  /\ stats' = [stats EXCEPT !.total = @ + receive[g].latency]
  /\ receive' = [receive EXCEPT ![g] = Idle]
  /\ UNCHANGED <<way, reader, outcome, messages, resets>>

\* Mutant: a panic is recorded and then counted as handled too.
PanicHandled(g) ==
  /\ way # "inline" /\ receive[g].step = "working"
  /\ stats' = [stats EXCEPT !.errors = @ + 1, !.handled = @ + 1]
  /\ Ended(g, "error")
  /\ receive' = [receive EXCEPT ![g] = Idle]
  /\ UNCHANGED <<way, reader, messages, resets>>

\* Receive panics.  The deferred function of StatsActor records an error, but
\* not another value, and nothing as handled.  That of an agent or a team does
\* not look for a panic and records the message as handled.
Panic(g) ==
  /\ receive[g].step = "working"
  /\ \E how \in {"error", "other"} :
       /\ Ended(g, how)
       /\ \/ /\ way = "inline"
             /\ \E l \in Latencies : stats' = WithHandled(stats, l)
          \/ /\ way # "inline" /\ how = "error"
             /\ stats' = [stats EXCEPT !.errors = @ + 1]
          \/ way # "inline" /\ how = "other" /\ UNCHANGED stats
  /\ receive' = [receive EXCEPT ![g] = Idle]
  /\ UNCHANGED <<way, reader, messages, resets>>

\* AgentActor.recordError, from the goroutine of a Run: any time later.
ReportError ==
  /\ way = "inline" /\ stats.errors < MaxMessages
  /\ stats' = [stats EXCEPT !.errors = @ + 1]
  /\ UNCHANGED <<way, receive, reader, outcome, messages, resets>>

\* StatsCollector.Reset, while messages are being handled.
Reset ==
  /\ Locked /\ resets < MaxResets /\ resets' = resets + 1
  /\ stats' = NoStats
  /\ receive' = [g \in Goroutines |-> [receive[g] EXCEPT !.counted = FALSE]]
  /\ outcome' = [e \in Endings |-> 0]
  /\ UNCHANGED <<way, reader, messages>>

-----------------------------------------------------------------------------
(* Stats                                                                    *)

\* StatsCollector.Stats: a copy under the read lock.
Clone(r) ==
  /\ Locked
  /\ reader' = [reader EXCEPT ![r] = [step |-> "done", before |-> stats, read |-> stats]]
  /\ UNCHANGED <<way, stats, receive, outcome, messages, resets>>

ReadFrom(r, step, next, field) ==
  /\ reader[r].step = step
  /\ reader' = [reader EXCEPT ![r].step = next, ![r].read[field] = stats[field]]
  /\ UNCHANGED <<way, stats, receive, outcome, messages, resets>>

\* AtomicStatsCollector.Stats loads one counter after the other ...
LoadReceived(r) ==
  /\ ~Locked /\ reader[r].step \in {"idle", "done"}
  /\ reader' = [reader EXCEPT ![r] = [step |-> "handled", before |-> stats,
                                      read |-> [NoStats EXCEPT !.received = stats.received]]]
  /\ UNCHANGED <<way, stats, receive, outcome, messages, resets>>

LoadHandled(r) == ReadFrom(r, "handled", "errors", "handled")
LoadErrors(r)  == ReadFrom(r, "errors", "total", "errors")

\* ... and divides what it has loaded.
LoadLatency(r) ==
  /\ reader[r].step = "total"
  /\ LET handled == reader[r].read.handled
     IN  reader' = [reader EXCEPT ![r].step = "done",
                                  ![r].read.total = stats.total,
                                  ![r].read.average =
                                     IF handled > 0 THEN stats.total \div handled ELSE 0]
  /\ UNCHANGED <<way, stats, receive, outcome, messages, resets>>

Next ==
  \/ \E g \in Goroutines : \/ RecordReceived(g) \/ RecordHandled(g)
                           \/ AddHandled(g) \/ AddLatency(g) \/ Panic(g)
  \/ \E r \in Readers : \/ Clone(r)
                        \/ LoadReceived(r) \/ LoadHandled(r)
                        \/ LoadErrors(r) \/ LoadLatency(r)
  \/ ReportError \/ Reset

Spec == Init /\ [][Next]_vars

-----------------------------------------------------------------------------

\* Every message received is accounted for once, by the goroutine that handles
\* it or by how its Receive ended, whoever records it and whatever comes
\* between; more have ended than were received only for those a Reset met in
\* flight (stats.go:72-126, 148-165).  Two counters differ from what stats.go
\* says of them.  MessagesHandled is "the number handled successfully" (17, 80)
\* under StatsActor alone: an agent or a team adds the messages whose Receive
\* panicked (agent.go:76-78, team/actor.go:71-73).  And a panic whose value is
\* no error is in no counter of StatsActor, whose deferred function is there
\* "to record even a panic" (152, 156-158).
Working == {g \in Goroutines : receive[g].step = "working" /\ receive[g].counted}
Panicked == outcome["error"] + outcome["other"]
Accounted ==
  /\ stats.received + outcome["late"] = outcome["success"] + Panicked + Cardinality(Working)
  /\ stats.handled = outcome["success"] + (IF way = "inline" THEN Panicked ELSE 0)
  /\ way # "inline" => stats.errors = outcome["error"]
  /\ resets = 0 => outcome["late"] = 0

\* A locked snapshot agrees with itself: the average lies between the extremes
\* and is the total divided by the number, in the face of a Reset too.
Agrees(s) ==
  IF s.handled = 0 THEN s.total = 0 /\ s.min = Forever /\ s.max = 0 /\ s.average = 0
  ELSE /\ s.min <= s.average /\ s.average <= s.max
       /\ s.average = s.total \div s.handled

\* An atomic one need not.  But each of its counts is one that the counter had
\* during the call, and it shows no more messages handled than received but
\* for those that came while it was taken.
Recent(before, read) ==
  /\ \A f \in Counts : before[f] <= read[f] /\ read[f] <= stats[f]
  /\ read.handled + read.errors <= read.received + (stats.received - before.received)

\* What Stats returns, from either collector, is no older than the call and no
\* more torn than the messages that arrived during the call account for
\* (stats.go:112-116, 231-255).
SnapshotsAreSound ==
  \A r \in Readers : reader[r].step = "done" =>
    IF Locked THEN Agrees(reader[r].read) ELSE Recent(reader[r].before, reader[r].read)
=============================================================================
