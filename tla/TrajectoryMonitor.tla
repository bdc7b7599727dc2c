------------------------- MODULE TrajectoryMonitor --------------------------
(***************************************************************************)
(* The trajectory invariants of one task: what recordStep remembers of the *)
(* actions that ran, and what checkInvariants refuses to let run. The      *)
(* agents are those of the tests: each asks, runs what it was allowed, and *)
(* records how it went; several work on one task at once. (The server asks *)
(* and never records.)                                                     *)
(*                                                                         *)
(* An action is a tool with its parameters, and the path they name; time   *)
(* passes in ticks.                                                        *)
(***************************************************************************)
EXTENDS Naturals, Sequences, FiniteSets

CONSTANTS
  ToolCalls,        \* what agents ask to run: [tool, hash, path]
  NoPath,           \* a path no action names: the parameters have none
  Flights,          \* how many agents may be working at once: a set of instances
  MaxConsecutive,   \* maxConsecutiveIdenticalFailures
  MaxIdentical,     \* maxTotalIdenticalFailures
  MaxSteps,         \* maxStepsPerTask
  MaxShort, Short,  \* maxCallsInWindow5s, and its five seconds
  MaxLong, Long,    \* maxCallsInWindow30s, and its thirty seconds
  MaxThrash, Thrash,\* maxFileThrashCount, and its sixty seconds
  MaxTime           \* ticks that pass (bound)

\* What an agent that runs nothing runs.
NoCall == [none |-> TRUE]

ASSUME MonitorAssumption ==
  /\ NoCall \notin ToolCalls
  /\ Flights \subseteq Nat \ {0}
  /\ {MaxConsecutive, MaxIdentical, MaxSteps, MaxShort, MaxLong, MaxThrash} \subseteq Nat \ {0}
  /\ {Short, Long, Thrash, MaxTime} \subseteq Nat

VARIABLES
  trajectory,   \* the recorded steps of the task
  fileWrites,   \* the recorded writes: path and time
  running,      \* agent -> the tool call it was allowed and has not recorded
  flight,       \* how many agents there are
  now           \* the time

monitorVars == <<trajectory, fileWrites, running, flight, now>>

TrajectoryStep == [call : ToolCalls, success : BOOLEAN, timestamp : 0 .. MaxTime]

\* The agents at work.
Busy == {a \in DOMAIN running : running[a] # NoCall}

Failed(step, c) == step.call.tool = c.tool /\ step.call.hash = c.hash /\ ~step.success

CallsWithin(window) == {i \in DOMAIN trajectory : now - trajectory[i].timestamp <= window}
IdenticalFailures(c) == {i \in DOMAIN trajectory : Failed(trajectory[i], c)}
ConsecutiveFailures(c) ==
  {i \in DOMAIN trajectory : \A j \in i .. Len(trajectory) : Failed(trajectory[j], c)}
RecentWrites(p) == {i \in DOMAIN fileWrites : fileWrites[i].path = p /\ now - fileWrites[i].timestamp <= Thrash}

\* A, B, A, B, and now A again.
Oscillates(c) ==
  LET n == Len(trajectory)
      tool(i) == trajectory[i].call.tool
  IN n >= 4 /\ tool(n - 3) = tool(n - 1) /\ tool(n - 2) = tool(n) /\ tool(n - 3) # tool(n - 2)
            /\ c.tool = tool(n - 3)

\* checkInvariants allows.
AllowedUncounted(c) ==
  /\ Len(trajectory) < MaxSteps
  /\ Cardinality(CallsWithin(Short)) < MaxShort
  /\ Cardinality(CallsWithin(Long)) < MaxLong
  /\ Cardinality(IdenticalFailures(c)) < MaxIdentical
  /\ ~Oscillates(c)
  /\ c.path # NoPath => Cardinality(RecentWrites(c.path)) < MaxThrash
Allowed(c) ==
  /\ AllowedUncounted(c)
  /\ Cardinality(ConsecutiveFailures(c)) < MaxConsecutive

MonitorInit ==
  /\ trajectory = <<>> /\ fileWrites = <<>> /\ now = 0
  /\ flight \in Flights
  /\ running = [a \in 1 .. flight |-> NoCall]

\* An agent that is free asks, and starts what it is allowed to.
checkInvariants(a, c) ==
  /\ running[a] = NoCall
  /\ Allowed(c)
  /\ running' = [running EXCEPT ![a] = c]
  /\ UNCHANGED <<trajectory, fileWrites, flight, now>>

\* The agent records how its action went, the write of the path it names included.
recordStep(a, success) ==
  LET c == running[a] IN
  /\ c # NoCall
  /\ running' = [running EXCEPT ![a] = NoCall]
  /\ trajectory' = Append(trajectory, [call |-> c, success |-> success, timestamp |-> now])
  /\ fileWrites' = IF c.path = NoPath THEN fileWrites
                   ELSE Append(fileWrites, [path |-> c.path, timestamp |-> now])
  /\ UNCHANGED <<flight, now>>

\* The task begins anew.
reset ==
  /\ trajectory' = <<>> /\ fileWrites' = <<>>
  /\ UNCHANGED <<running, flight, now>>

Pass == now < MaxTime /\ now' = now + 1 /\ UNCHANGED <<trajectory, fileWrites, running, flight>>

MonitorNext ==
  \/ \E a \in 1 .. flight : \/ \E c \in ToolCalls : checkInvariants(a, c)
                             \/ \E success \in BOOLEAN : recordStep(a, success)
  \/ reset \/ Pass

MonitorSpec == MonitorInit /\ [][MonitorNext]_monitorVars

-----------------------------------------------------------------------------
\* The memory of the monitor holds what it is declared to hold.
MonitorTypeOK ==
  /\ trajectory \in Seq(TrajectoryStep)
  /\ fileWrites \in Seq([path : {c.path : c \in ToolCalls} \ {NoPath}, timestamp : 0 .. MaxTime])
  /\ flight \in Flights /\ running \in [1 .. flight -> ToolCalls \cup {NoCall}]
  /\ now \in 0 .. MaxTime

Between(seq, t, window) == {i \in DOMAIN seq : seq[i].timestamp \in t .. t + window}

\* Agents that obey cannot run away: whatever the order in which they ask and record,
\* the steps of the task, those of any five or thirty seconds, the failures of one call,
\* those in a row and the writes of a file in any minute exceed their limit by no more
\* than the agents that were already past the check; one agent alone exceeds none, and
\* never alternates between two tools a fifth time.
NoRunaway ==
  LET over == flight - 1 IN
  /\ Len(trajectory) <= MaxSteps + over
  /\ \A t \in 0 .. now :
       /\ Cardinality(Between(trajectory, t, Short)) <= MaxShort + over
       /\ Cardinality(Between(trajectory, t, Long)) <= MaxLong + over
       /\ \A c \in ToolCalls \ {d \in ToolCalls : d.path = NoPath} :
            Cardinality({i \in Between(fileWrites, t, Thrash) : fileWrites[i].path = c.path})
              <= MaxThrash + over
  /\ \A c \in ToolCalls :
       /\ Cardinality(IdenticalFailures(c)) <= MaxIdentical + over
       /\ \A i, j \in DOMAIN trajectory :
            (\A k \in i .. j : Failed(trajectory[k], c)) => j - i < MaxConsecutive + over
  /\ flight = 1 => \A n \in 5 .. Len(trajectory) :
       LET tool(k) == trajectory[n - k].call.tool IN
       ~(tool(0) = tool(2) /\ tool(2) = tool(4) /\ tool(1) = tool(3) /\ tool(0) # tool(1))
=============================================================================
