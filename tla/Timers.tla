------------------------------- MODULE Timers -------------------------------
(***************************************************************************)
(* Timers: the consumer of timer messages, listenForTimer of timers.go,    *)
(* with the timed start of processes (timedExecuteProcessor, and the first *)
(* message that storeWorkflow publishes) and the boundary timers that      *)
(* activityStartProcessor starts.                                          *)
(*                                                                         *)
(* A timer is a message that comes back until it is due: a delayed one is  *)
(* delivered again at its time, one that is not acknowledged after AckWait.*)
(***************************************************************************)
EXTENDS Naturals, Sequences, FiniteSets

CONSTANTS Scenarios,  \* kind, the timer's value and repeat, the namespace ns,
                      \* whether the process ends, whether its execution
                      \* outlives it, and the bound on faults, handlers
                      \* interrupted
          Epoch,      \* the time at which the model starts
          MaxTime,    \* bound: the clock stops there
          MaxFired,   \* bound: processes started
          AckWait,    \* until a message is delivered again
          Concurrency \* goroutines that fetch timer messages

VARIABLES
  scenario,
  now,
  timers,     \* the messages: [lastFired, count, at, pc, t]
  executions, \* times at which a process was started, or a boundary traversed
  process,    \* of a boundary timer: "running", "deleted", "forgotten"
  workers,    \* goroutines left
  faults

vars == <<scenario, now, timers, executions, process, workers, faults>>

Timer(last, count, at) ==
  [lastFired |-> last, count |-> count, at |-> at, pc |-> "queued", t |-> 0]

Boundary == scenario.kind = "boundary"
value == scenario.value

\* activityStartProcessor: the embargo is the time at which it is due.
StartBoundaryTimer == Timer(0, 0, now + value)

\* storeWorkflow: a timed start event has its first timer at once.
StartTimedEvent == Timer(0, 0, now)

Init ==
  /\ scenario \in Scenarios
  /\ now = Epoch
  /\ timers = {IF Boundary THEN StartBoundaryTimer ELSE StartTimedEvent}
  /\ executions = <<>> /\ process = "running" /\ workers = Concurrency /\ faults = 0

Busy(m) == m.pc # "queued"
MutFetchAny(m) == ~Busy(m) /\ m.at <= now

Fetchable(m) == ~Busy(m) /\ m.at <= now /\ Cardinality({x \in timers : Busy(x)}) < workers
Become(m, n) == timers' = (timers \ {m}) \cup {n}
Goto(m, pc) == Become(m, [m EXCEPT !.pc = pc])
Ack(m) == timers' = timers \ {m}
Leave(m) == Become(m, [m EXCEPT !.pc = "queued", !.at = now + AckWait])

---------------------------------------------------------------------------
(* timedExecuteProcessor.                                                  *)

Stop(m) == scenario.repeat # 0 /\ m.count >= scenario.repeat

ShouldFire(m) == IF scenario.kind = "fixed" THEN value <= now ELSE now - m.lastFired >= value

\* A cycle that is over ends here.  A fixed time that has not come yet ends
\* here too: the message is acknowledged.
Finish(m) ==
  /\ ~Boundary /\ Fetchable(m)
  /\ IF scenario.kind = "fixed" THEN ~ShouldFire(m) ELSE Stop(m)
  /\ Ack(m)
  /\ UNCHANGED <<scenario, now, executions, process, workers, faults>>

\* fireNext is twice the value after the last time.
Postpone(m) ==
  /\ scenario.kind = "duration" /\ Fetchable(m)
  /\ ~Stop(m) /\ ~ShouldFire(m)
  /\ Become(m, [m EXCEPT !.at = m.lastFired + 2 * value])
  /\ UNCHANGED <<scenario, now, executions, process, workers, faults>>

MutFireEarly(m) ==
  /\ ~Boundary /\ Fetchable(m) /\ Len(executions) < MaxFired
  /\ scenario.kind = "duration" => ~Stop(m)
  /\ Become(m, [m EXCEPT !.pc = "publish", !.t = now])
  /\ executions' = Append(executions, now)
  /\ UNCHANGED <<scenario, now, process, workers, faults>>

\* The execution and its process are created and started, ...
Fire(m) ==
  /\ ~Boundary /\ Fetchable(m)
  /\ scenario.kind = "duration" => ~Stop(m)
  /\ ShouldFire(m) /\ Len(executions) < MaxFired
  /\ Become(m, [m EXCEPT !.pc = "publish", !.t = now])
  /\ executions' = Append(executions, now)
  /\ UNCHANGED <<scenario, now, process, workers, faults>>

NewTimer(m) == Timer(m.t, m.count + 1, now)

MutLastTimer(m) ==
  /\ m.pc = "publish"
  /\ Goto(m, "ack")
  /\ UNCHANGED <<scenario, now, executions, process, workers, faults>>

\* ... the next timer is published, ...
PublishTimer(m) ==
  /\ m.pc = "publish"
  /\ timers' = (timers \ {m}) \cup {[m EXCEPT !.pc = "ack"], NewTimer(m)}
  /\ UNCHANGED <<scenario, now, executions, process, workers, faults>>

\* ... and this one is acknowledged.
AckTimer(m) ==
  /\ m.pc = "ack"
  /\ Ack(m)
  /\ UNCHANGED <<scenario, now, executions, process, workers, faults>>

---------------------------------------------------------------------------
(* A boundary timer.  The execution is looked up with the context of the   *)
(* server: in a namespace other than the default one it is never found,    *)
(* and the message comes back.                                             *)
Orphaned == scenario.ns # "default" \/ (process # "running" /\ ~scenario.outlived)

LookUpExecution(m) ==
  /\ Boundary /\ Fetchable(m)
  /\ IF Orphaned THEN Leave(m) ELSE Goto(m, "process")
  /\ UNCHANGED <<scenario, now, executions, process, workers, faults>>

\* The process instance may be gone while the execution is not.
LookUpProcess(m) ==
  /\ m.pc = "process"
  /\ IF process = "running" THEN Goto(m, "history") ELSE Ack(m)
  /\ UNCHANGED <<scenario, now, executions, process, workers, faults>>

\* A history that cannot be read ends the goroutine.
LookUpHistory(m) ==
  /\ m.pc = "history"
  /\ IF process = "forgotten"
       THEN Ack(m) /\ workers' = workers - 1
       ELSE Goto(m, "traverse") /\ UNCHANGED workers
  /\ UNCHANGED <<scenario, now, executions, process, faults>>

\* traverse to the timer's target.  The ActivityAbort published then has no
\* handler.
TraverseTimer(m) ==
  /\ m.pc = "traverse"
  /\ executions' = Append(executions, now)
  /\ Goto(m, "ack")
  /\ UNCHANGED <<scenario, now, process, workers, faults>>

Handle(m) == \/ Finish(m) \/ Postpone(m) \/ Fire(m) \/ PublishTimer(m) \/ AckTimer(m)
             \/ LookUpExecution(m) \/ LookUpProcess(m) \/ LookUpHistory(m)
             \/ TraverseTimer(m)

---------------------------------------------------------------------------
(* The environment.                                                        *)

Waiting(m) == ~Busy(m) /\ (m.at > now \/ workers = 0 \/ Len(executions) = MaxFired)

\* The clock waits for what is due: time is slow against the handlers.
Tick ==
  /\ now < MaxTime
  /\ \A m \in timers : Waiting(m)
  /\ now' = now + 1
  /\ UNCHANGED <<scenario, timers, executions, process, workers, faults>>

\* The process of a boundary timer ends: its record goes first, its history
\* later.
EndProcess ==
  /\ Boundary /\ scenario.ends /\ process # "forgotten"
  /\ process' = IF process = "running" THEN "deleted" ELSE "forgotten"
  /\ UNCHANGED <<scenario, now, timers, executions, workers, faults>>

\* A handler fails, or its server does, before the message is acknowledged.
Interrupt(m) ==
  /\ faults < scenario.faults
  /\ m.pc \in {"publish", "ack", "process", "traverse"}
  /\ Leave(m)
  /\ faults' = faults + 1
  /\ UNCHANGED <<scenario, now, executions, process, workers>>

\* The history cannot be read because of a failure of the server's store.
FailHistory(m) ==
  /\ faults < scenario.faults
  /\ m.pc = "history"
  /\ Leave(m)
  /\ workers' = workers - 1 /\ faults' = faults + 1
  /\ UNCHANGED <<scenario, now, executions, process>>

Terminating == now = MaxTime /\ (\A m \in timers : Waiting(m)) /\ UNCHANGED vars

Step == Tick \/ \E m \in timers : Handle(m)
Next == Step \/ EndProcess \/ Terminating \/ \E m \in timers : Interrupt(m) \/ FailHistory(m)

Spec == Init /\ [][Next]_vars /\ WF_vars(Step)

---------------------------------------------------------------------------
(* Properties.                                                             *)

\* Timer messages keep their types, and no more are handled than there are
\* goroutines.
TypeOK ==
  /\ now \in Epoch .. MaxTime /\ workers \in 0 .. Concurrency
  /\ \A m \in timers : m.pc \in {"queued", "publish", "ack", "process", "history", "traverse"}
  /\ Cardinality({m \in timers : Busy(m)}) <= workers

AtMost == CASE scenario.kind = "duration" /\ scenario.repeat # 0 -> scenario.repeat
            [] Boundary -> 1
            [] OTHER -> MaxFired

\* Nothing fires before its time: a fixed time and a boundary timer are not
\* early, whatever is interrupted.  As long as nothing is, a cycle keeps its
\* period and starts no more processes than its repeat count, and a boundary
\* timer is traversed once, although its activity and its process may end.
FiresOnSchedule ==
  /\ \A i \in DOMAIN executions :
       CASE scenario.kind = "fixed" -> executions[i] >= value
         [] Boundary -> executions[i] >= Epoch + value
         [] OTHER -> faults = 0 /\ i > 1 => executions[i] - executions[i - 1] >= value
  /\ faults = 0 => Len(executions) <= AtMost

Fired ==
  CASE scenario.kind = "duration" -> Len(executions) >= scenario.repeat
    [] Boundary -> executions # <<>> \/ process # "running" \/ scenario.ns # "default"
    [] OTHER -> TRUE

\* A cycle comes to its repeat count and a boundary timer is traversed, if the
\* process still runs and is in the default namespace.
FiresInTheEnd == <>Fired
=============================================================================
