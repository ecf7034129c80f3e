------------------------- MODULE ExecutionLifecycle -------------------------
(***************************************************************************)
(* The records of one execution: the execution itself, which lists its     *)
(* process instances, and one record for each process instance.            *)
(* internal/server/workflow/operations.go creates and removes them in      *)
(* several steps, each a separate call on the key-value store, and the     *)
(* callers run concurrently:                                               *)
(*   - LaunchWithParent / launchProcess / createProcessInstance, which     *)
(*     launch the processes of a collaboration one after the other while   *)
(*     the ones already launched run;                                      *)
(*   - processProcessComplete, for a process that reached its end event;   *)
(*   - CancelProcessInstance, called by a client;                          *)
(*   - tearDownWorkflow, after a fatal error in a process;                 *)
(*   - processWorkflowEvents, on ExecutionComplete.                        *)
(* The last four end in destroyProcessInstance.                            *)
(***************************************************************************)
EXTENDS Naturals, Sequences, FiniteSets

CONSTANTS Order,          \* the processes, in the order they are launched
          EarlyEnds,      \* whether a process may end before all are launched: a
                          \* set of choices, of which a behaviour makes one
          Cancelled,      \* processes a client cancels
          Fatal,          \* processes that meet a fatal error
          MaxInterrupts   \* bound: callers interrupted half way

Processes == {Order[i] : i \in 1 .. Len(Order)}

ASSUME LifecycleAssumption ==
  /\ Len(Order) \in Nat
  /\ \A i, j \in 1 .. Len(Order) : Order[i] = Order[j] => i = j
  /\ EarlyEnds \subseteq BOOLEAN
  /\ Cancelled \subseteq Processes /\ Fatal \subseteq Processes
  /\ MaxInterrupts \in Nat

Completers == {"complete"} \X Processes
Cancellers == {"cancel"} \X Cancelled
TearDowns == {"teardown"} \X Fatal
Events == {"event"} \X Processes
Destroyers == Completers \cup Cancellers \cup TearDowns \cup Events

VARIABLES
  exec,         \* WfExecution: whether the record is there, and its list
  pis,          \* WfProcessInstance: the process instances with a record
  started,      \* processes whose first traversal has been published
  removed,      \* processes destroyProcessInstance has taken off the list
  terminated,   \* processes for which ProcessTerminated was published
  completions,  \* ExecutionComplete messages published
  lpc, launched, stale,  \* launcher: step, processes launched, list it read
  pc,           \* next step of each destroyer
  target,       \* the process instance it is destroying
  left,         \* the list as its update of the execution left it
  todo,         \* tearDownWorkflow: the process instances still to destroy
  interrupts,
  early         \* whether processes end while others are being launched

\* No action changes early, so it goes with either half of the state.
launch == <<lpc, launched, stale, early>>
destroy == <<pc, target, left, todo, early>>
vars == <<exec, pis, started, removed, terminated, completions, launch,
          destroy, interrupts>>

NoExecution == [present |-> FALSE, list |-> {}]
ExecutionOf(list) == [present |-> TRUE, list |-> list]
First(n) == {Order[i] : i \in 1 .. n}

Init ==
  /\ exec = NoExecution
  /\ pis = {}
  /\ started = {}
  /\ removed = {}
  /\ terminated = {}
  /\ completions = 0
  /\ lpc = "create"
  /\ launched = 0
  /\ stale = {}
  /\ pc = [a \in Destroyers |-> "idle"]
  /\ target = [a \in Destroyers |-> a[2]]
  /\ left = [a \in Destroyers |-> {}]
  /\ todo = [a \in Destroyers |-> {}]
  /\ interrupts = 0
  /\ early \in EarlyEnds

---------------------------------------------------------------------------
(* Launch.                                                                 *)
Launching == Order[launched + 1]
LaunchStep(from, to) == lpc = from /\ lpc' = to

createExecution ==
  /\ LaunchStep("create", "getExecution")
  /\ exec' = ExecutionOf({})
  /\ UNCHANGED <<pis, started, removed, terminated, completions, launched,
                 stale, destroy, interrupts>>

\* createProcessInstance: GetExecution.  Its failure ends the launch, and the
\* error of launchProcess is returned without rollBackLaunch.
LaunchGetExecution ==
  /\ \/ /\ exec.present
        /\ LaunchStep("getExecution", "saveInstance")
        /\ stale' = exec.list
     \/ /\ ~exec.present
        /\ LaunchStep("getExecution", "failed")
        /\ UNCHANGED stale
  /\ UNCHANGED <<exec, pis, started, removed, terminated, completions, launched,
                 destroy, interrupts>>

MutSkipSaveInstance ==
  /\ LaunchStep("saveInstance", "lookup")
  /\ UNCHANGED <<exec, pis, started, removed, terminated, completions, launched,
                 stale, destroy, interrupts>>

LaunchSaveInstance ==
  /\ LaunchStep("saveInstance", "lookup")
  /\ pis' = pis \cup {Launching}
  /\ UNCHANGED <<exec, started, removed, terminated, completions, launched,
                 stale, destroy, interrupts>>

\* UpdateObj appends to the list.  When the execution has gone meanwhile it
\* first saves the execution GetExecution returned.
LaunchLookup ==
  /\ LaunchStep("lookup", IF exec.present THEN "append" ELSE "restore")
  /\ UNCHANGED <<exec, pis, started, removed, terminated, completions, launched,
                 stale, destroy, interrupts>>

LaunchRestore ==
  /\ LaunchStep("restore", "append")
  /\ exec' = ExecutionOf(stale)
  /\ UNCHANGED <<pis, started, removed, terminated, completions, launched,
                 stale, destroy, interrupts>>

LaunchAppend ==
  /\ \/ /\ exec.present
        /\ LaunchStep("append", "start")
        /\ exec' = ExecutionOf(exec.list \cup {Launching})
     \/ /\ ~exec.present
        /\ LaunchStep("append", "failed")
        /\ UNCHANGED exec
  /\ UNCHANGED <<pis, started, removed, terminated, completions, launched,
                 stale, destroy, interrupts>>

\* The start events: ProcessExecute, the history entry, TraversalExecute.
LaunchStart ==
  /\ LaunchStep("start", IF launched + 1 = Len(Order) THEN "launched"
                         ELSE "getExecution")
  /\ started' = started \cup {Launching}
  /\ launched' = launched + 1
  /\ UNCHANGED <<exec, pis, removed, terminated, completions, stale, destroy,
                 interrupts>>

\* The server stops during a launch, which nothing resumes.
LaunchInterrupted ==
  /\ interrupts < MaxInterrupts
  /\ lpc \notin {"create", "launched", "failed"}
  /\ lpc' = "failed"
  /\ interrupts' = interrupts + 1
  /\ UNCHANGED <<exec, pis, started, removed, terminated, completions, launched,
                 stale, destroy>>

Launch == \/ createExecution \/ LaunchGetExecution \/ LaunchSaveInstance
          \/ LaunchLookup \/ LaunchRestore \/ LaunchAppend \/ LaunchStart

---------------------------------------------------------------------------
(* What brings a destroyer into play.                                      *)
Step(a, from, to) == pc[a] = from /\ pc' = [pc EXCEPT ![a] = to]

\* Processes run, and may end, while the ones after them are being launched,
\* unless the behaviour leaves these races out.
MayEnd == early \/ lpc \in {"launched", "failed"}

\* The process reaches its end event: ProcessComplete is published.
ReachEnd(p) ==
  /\ MayEnd
  /\ p \in started /\ p \in pis
  /\ Step(<<"complete", p>>, "idle", "queued")
  /\ UNCHANGED <<exec, pis, started, removed, terminated, completions, launch,
                 target, left, todo, interrupts>>

\* A client cancels the process instance, which it knows from the list.
RequestCancel(p) ==
  /\ MayEnd
  /\ p \in exec.list
  /\ Step(<<"cancel", p>>, "idle", "getExecution")
  /\ UNCHANGED <<exec, pis, started, removed, terminated, completions, launch,
                 target, left, todo, interrupts>>

\* A handler of the process signals a fatal error to be handled by teardown.
SignalFatal(p) ==
  /\ MayEnd
  /\ p \in started /\ p \in pis
  /\ Step(<<"teardown", p>>, "idle", "queued")
  /\ UNCHANGED <<exec, pis, started, removed, terminated, completions, launch,
                 target, left, todo, interrupts>>

---------------------------------------------------------------------------
(* The callers of destroyProcessInstance, up to the call and after it.     *)

\* A failed message handler is run again; a failed request is given up; a
\* teardown logs the failure and goes on with the next process instance.
OnFailure(a) == CASE a \in Completers \cup Events -> "queued"
                  [] a \in Cancellers -> "failed"
                  [] a \in TearDowns -> "next"

AfterDestroy(a) == CASE a \in Completers -> "acked"
                     [] a \in Cancellers \cup Events -> "deleteAll"
                     [] a \in TearDowns -> "next"

\* processProcessComplete: hasValidProcess reads the execution, ...
CompleteBegin(a) ==
  /\ a \in Completers
  /\ Step(a, "queued", IF exec.present THEN "checkInstance" ELSE "acked")
  /\ UNCHANGED <<exec, pis, started, removed, terminated, completions, launch,
                 target, left, todo, interrupts>>

\* ... then the process instance.
CheckInstance(a) ==
  /\ Step(a, "checkInstance", IF target[a] \in pis THEN "lookup" ELSE "acked")
  /\ UNCHANGED <<exec, pis, started, removed, terminated, completions, launch,
                 target, left, todo, interrupts>>

\* processWorkflowEvents on ExecutionComplete: hasValidExecution.
EventBegin(a) ==
  /\ a \in Events
  /\ Step(a, "queued", IF exec.present THEN "getExecution" ELSE "acked")
  /\ UNCHANGED <<exec, pis, started, removed, terminated, completions, launch,
                 target, left, todo, interrupts>>

\* xDestroyProcessInstance: GetExecution, GetProcessInstance, ...
GetExecution(a) ==
  /\ Step(a, "getExecution", IF exec.present THEN "getInstance" ELSE OnFailure(a))
  /\ UNCHANGED <<exec, pis, started, removed, terminated, completions, launch,
                 target, left, todo, interrupts>>

GetInstance(a) ==
  /\ Step(a, "getInstance", IF target[a] \in pis THEN "lookup" ELSE "acked")
  /\ UNCHANGED <<exec, pis, started, removed, terminated, completions, launch,
                 target, left, todo, interrupts>>

\* ... and, when the process instance is destroyed, deleteExecution.
deleteExecution(a) ==
  /\ Step(a, "deleteAll", "acked")
  /\ exec' = NoExecution
  /\ UNCHANGED <<pis, started, removed, terminated, completions, launch, target,
                 left, todo, interrupts>>

\* tearDownWorkflow: without an execution the message is refused and comes
\* again; otherwise every process instance of the list read is destroyed.
TearDownRefused(a) ==
  /\ a \in TearDowns
  /\ pc[a] = "queued"
  /\ ~exec.present
  /\ UNCHANGED vars

TearDownBegin(a) ==
  /\ a \in TearDowns
  /\ exec.present
  /\ Step(a, "queued", "next")
  /\ todo' = [todo EXCEPT ![a] = exec.list]
  /\ UNCHANGED <<exec, pis, started, removed, terminated, completions, launch,
                 target, left, interrupts>>

TearDownNext(a) ==
  /\ \/ /\ todo[a] = {}
        /\ Step(a, "next", "acked")
        /\ UNCHANGED <<target, todo>>
     \/ \E p \in todo[a] :
          /\ Step(a, "next", "lookup")
          /\ target' = [target EXCEPT ![a] = p]
          /\ todo' = [todo EXCEPT ![a] = @ \ {p}]
  /\ UNCHANGED <<exec, pis, started, removed, terminated, completions, launch,
                 left, interrupts>>

---------------------------------------------------------------------------
(* destroyProcessInstance.                                                 *)

\* UpdateObj on the execution: look it up, save a blank one if it is gone, ...
Lookup(a) ==
  /\ Step(a, "lookup", IF exec.present THEN "update" ELSE "saveBlank")
  /\ UNCHANGED <<exec, pis, started, removed, terminated, completions, launch,
                 target, left, todo, interrupts>>

SaveBlank(a) ==
  /\ Step(a, "saveBlank", "update")
  /\ exec' = ExecutionOf({})
  /\ UNCHANGED <<pis, started, removed, terminated, completions, launch, target,
                 left, todo, interrupts>>

MutOverWhenLastButOne(list) == Cardinality(list) <= 1

\* The decision taken on the list the update left: is the execution over?
Over(list) == list = {}

\* ... and take the process instance off the list.  When the execution goes
\* between the two, the call fails with what it had in its copy of the list:
\* nothing, unless a first attempt met a conflict.  An empty copy still deletes
\* the execution, before the error is returned.
Update(a) ==
  /\ \/ /\ exec.present
        /\ left' = [left EXCEPT ![a] = exec.list \ {target[a]}]
        /\ exec' = ExecutionOf(left'[a])
        /\ removed' = removed \cup {target[a]}
        /\ Step(a, "update", IF Over(left'[a]) THEN "deleteExecution"
                             ELSE "deleteInstance")
     \/ /\ ~exec.present
        /\ Step(a, "update", "deleteFailed") \/ Step(a, "update", OnFailure(a))
        /\ UNCHANGED <<exec, left, removed>>
  /\ UNCHANGED <<pis, started, terminated, completions, launch, target, todo,
                 interrupts>>

DeleteExecution(a) ==
  /\ Step(a, "deleteExecution", "deleteInstance")
  /\ exec' = NoExecution
  /\ UNCHANGED <<pis, started, removed, terminated, completions, launch, target,
                 left, todo, interrupts>>

DeleteFailed(a) ==
  /\ Step(a, "deleteFailed", OnFailure(a))
  /\ exec' = NoExecution
  /\ UNCHANGED <<pis, started, removed, terminated, completions, launch, target,
                 left, todo, interrupts>>

MutKeepInstance(a) ==
  /\ Step(a, "deleteInstance", "publishTerminated")
  /\ UNCHANGED <<exec, pis, started, removed, terminated, completions, launch,
                 target, left, todo, interrupts>>

DeleteInstance(a) ==
  /\ Step(a, "deleteInstance", "publishTerminated")
  /\ pis' = pis \ {target[a]}
  /\ UNCHANGED <<exec, started, removed, terminated, completions, launch, target,
                 left, todo, interrupts>>

\* ProcessTerminated carries the caller's state, not the process instance that
\* was destroyed; its consumer deletes the history of the instance it names.
PublishTerminated(a) ==
  /\ Step(a, "publishTerminated", IF Over(left[a]) THEN "publishComplete"
                                  ELSE AfterDestroy(a))
  /\ terminated' = terminated \cup {a[2]}
  /\ UNCHANGED <<exec, pis, started, removed, completions, launch, target, left,
                 todo, interrupts>>

PublishComplete(a) ==
  /\ pc[a] = "publishComplete"
  /\ pc' = [b \in Destroyers |->
              IF b = a THEN AfterDestroy(a)
              ELSE IF b = <<"event", a[2]>> /\ pc[b] \in {"idle", "acked"}
                   THEN "queued" ELSE pc[b]]
  /\ completions' = completions + 1
  /\ UNCHANGED <<exec, pis, started, removed, terminated, launch, target, left,
                 todo, interrupts>>

Handle(a) == \/ CompleteBegin(a) \/ CheckInstance(a) \/ EventBegin(a)
             \/ GetExecution(a) \/ GetInstance(a) \/ deleteExecution(a)
             \/ TearDownBegin(a) \/ TearDownNext(a)
             \/ Lookup(a) \/ SaveBlank(a) \/ Update(a) \/ DeleteExecution(a)
             \/ DeleteFailed(a) \/ DeleteInstance(a) \/ PublishTerminated(a)
             \/ PublishComplete(a)

\* A handler stops half way and its message comes again; a request is lost.
Interrupt(a) ==
  /\ interrupts < MaxInterrupts
  /\ pc[a] \notin {"idle", "queued", "acked", "failed"}
  /\ interrupts' = interrupts + 1
  /\ pc' = [pc EXCEPT ![a] = IF a \in Cancellers THEN "failed" ELSE "queued"]
  /\ UNCHANGED <<exec, pis, started, removed, terminated, completions, launch,
                 target, left, todo>>

Quiet == /\ lpc \in {"launched", "failed"}
         /\ \A p \in started \cap pis : pc[<<"complete", p>>] # "idle"
         /\ \A a \in Destroyers : \/ pc[a] \in {"idle", "acked", "failed"}
                                  \/ a \in TearDowns /\ pc[a] = "queued" /\ ~exec.present

Terminating == Quiet /\ UNCHANGED vars

Next == \/ Launch \/ LaunchInterrupted
        \/ \E p \in Processes : ReachEnd(p)
        \/ \E p \in Cancelled : RequestCancel(p)
        \/ \E p \in Fatal : SignalFatal(p)
        \/ \E a \in Destroyers : Handle(a) \/ TearDownRefused(a) \/ Interrupt(a)
        \/ Terminating

\* Launching and message handling go on, and every process comes to its end;
\* cancellation and fatal errors need not happen.
Fairness == /\ WF_vars(Launch)
            /\ \A p \in Processes : WF_vars(ReachEnd(p))
            /\ \A a \in Destroyers : WF_vars(Handle(a))

Spec == Init /\ [][Next]_vars /\ Fairness

---------------------------------------------------------------------------
(* Properties.                                                             *)

\* The records keep their types; only processes with a record of their own
\* are started, the launcher's list is one the execution had, and a process
\* being destroyed is off the list its destroyer decides on.
TypeOK ==
  /\ exec \in [present : BOOLEAN, list : SUBSET Processes]
  /\ ~exec.present => exec.list = {}
  /\ pis \subseteq Processes
  /\ started = First(launched)
  /\ removed \subseteq Processes
  /\ terminated \subseteq Processes
  /\ completions \in Nat
  /\ lpc \in {"create", "getExecution", "saveInstance", "lookup", "restore",
              "append", "start", "launched", "failed"}
  /\ launched \in 0 .. Len(Order)
  /\ stale \subseteq First(launched)
  /\ \A a \in Destroyers :
       /\ pc[a] \in {"idle", "queued", "checkInstance", "getExecution",
                     "getInstance", "next", "lookup", "saveBlank", "update",
                     "deleteExecution", "deleteFailed", "deleteInstance",
                     "publishTerminated", "publishComplete", "deleteAll",
                     "acked", "failed"}
       /\ target[a] \in Processes
       /\ left[a] \subseteq Processes
       /\ pc[a] \in {"deleteExecution", "deleteInstance", "publishTerminated",
                     "publishComplete"} => target[a] \notin left[a]
       /\ todo[a] \subseteq Processes
  /\ interrupts \in 0 .. MaxInterrupts
  /\ early \in BOOLEAN

\* A process that has started and has not been taken off the list by
\* destroyProcessInstance has its record, whatever is interrupted, torn down or
\* cancelled, and its execution has one, too: the execution goes only when all its
\* process instances are satisfied.  For the execution, that takes processes that
\* end when all are launched, as one that ends before removes it under the next,
\* and no cancellation, as CancelProcessInstance completes it whatever else runs.
RecordsOutliveProcesses ==
  \A p \in started \ removed :
    /\ p \in pis
    /\ (~early /\ \A a \in Cancellers : pc[a] = "idle") => exec.present

\* The race of the last completions has one winner: when nothing is delivered
\* again, nothing else destroys processes and all are launched before one ends,
\* ExecutionComplete is published at most once.
ExecutionCompletesOnce ==
  (~early /\ interrupts = 0 /\ \A a \in TearDowns \cup Cancellers : pc[a] = "idle")
    => completions <= 1

\* No record is left behind: once all processes were launched and each has been
\* taken off the list, and all messages are handled without an interruption,
\* the execution and its process instances are gone.
RemovedWhenSatisfied ==
  (Quiet /\ interrupts = 0 /\ lpc = "launched" /\ started \subseteq removed) =>
    ~exec.present /\ pis = {}

\* Unless a handler is interrupted, or a process ends while others are being
\* launched, the execution and all its process instances eventually go.
EventuallyRemoved == <>[](early \/ interrupts > 0 \/ (~exec.present /\ pis = {}))
=============================================================================
