---------------------------- MODULE ServiceTask ----------------------------
(***************************************************************************)
(* The execution of a service task by a client, and what happens when it   *)
(* fails.  The job's message is consumed by ClientProcessFn of             *)
(* internal/common/client, under common.Process with the back-off function *)
(* of client/backoff.go.  The server's side is CompleteServiceTask,        *)
(* HandleWorkflowError, the pause on a fatal error and the retry of a      *)
(* paused activity, in internal/server/workflow.                           *)
(*                                                                         *)
(* The module follows one activity.  A retry after a pause enters the      *)
(* element again, with a new job.                                          *)
(***************************************************************************)
EXTENDS Naturals, Sequences, FiniteSets, Bags

CONSTANTS Scenarios,   \* what the task's function may do in a call, outcomes,
                       \* its DefaultExceeded.Action, action, and two bounds:
                       \* retries, calls of RetryActivity, and faults,
                       \* deliveries outlived by their function
          Number       \* RetryBehaviour.Number

VARIABLES
  scenario,
  jobs,        \* the jobs of the activity: message, deliveries, job record
  calls,       \* deliveries that a client is working on
  inbox,       \* the server's messages: <<kind, job>>
  retrying,    \* steps of processJobRetry: <<job, step>>
  fatal,       \* WfFatalError: the job paused at the element, 0 for none
  process,     \* the process instance
  completed,   \* ActivityComplete messages for the activity
  caught,      \* traversals to the element that catches the error
  retries, faults

server == <<inbox, retrying, fatal, process, completed, caught>>
vars == <<scenario, jobs, calls, server, retries, faults>>

NewJob == [msg |-> "pending", n |-> 0, open |-> TRUE]

Init ==
  /\ scenario \in Scenarios
  /\ jobs = <<NewJob>> /\ calls = {} /\ retrying = {}
  /\ inbox = EmptyBag /\ fatal = 0 /\ process = "running"
  /\ completed = 0 /\ caught = 0 /\ retries = 0 /\ faults = 0

Publish(msgs) == inbox' = inbox (+) SetToBag(msgs)
Consume(m) == BagIn(m, inbox) /\ inbox' = inbox (-) SetToBag({m})

---------------------------------------------------------------------------
(* The client.  A call c has the job, the number of its delivery and a pc. *)
Deliver(j) ==
  /\ jobs[j].msg = "pending"
  /\ jobs' = [jobs EXCEPT ![j].msg = "delivered", ![j].n = @ + 1]
  /\ calls' = calls \cup {[job |-> j, n |-> jobs[j].n + 1, pc |-> "getJob"]}
  /\ UNCHANGED <<scenario, server, retries, faults>>

To(c, pc) == calls' = (calls \ {c}) \cup {[c EXCEPT !.pc = pc]}
Settle(c, msg) == /\ calls' = calls \ {c}
                  /\ jobs' = [jobs EXCEPT ![c.job].msg = IF @ = "gone" THEN @ ELSE msg]

\* InProgress is sent once, after half the AckWait.  A function that takes
\* longer than what is left then is called again.
Outlive(c) ==
  /\ faults < scenario.faults
  /\ c.pc = "call" /\ jobs[c.job].msg = "delivered"
  /\ jobs' = [jobs EXCEPT ![c.job].msg = "pending"]
  /\ faults' = faults + 1
  /\ UNCHANGED <<scenario, calls, server, retries>>

MutWaitForJob(c) ==
  /\ c.pc = "getJob"
  /\ IF jobs[c.job].open THEN To(c, "call") ELSE UNCHANGED calls
  /\ UNCHANGED <<scenario, jobs, server, retries, faults>>

\* ClientProcessFn: the job record, ...
GetJob(c) ==
  /\ c.pc = "getJob"
  /\ To(c, IF jobs[c.job].open THEN "call" ELSE "backoff")
  /\ UNCHANGED <<scenario, jobs, server, retries, faults>>

\* ... the call of the function and what its error leads to.  A panic is a
\* fatal error that carries the state.
Call(c) ==
  /\ c.pc = "call"
  /\ \E o \in scenario.outcomes :
       To(c, CASE o = "ok" -> "complete"
               [] o = "error" -> "backoff"
               [] o = "panic" -> "signal"
               [] OTHER -> o)
  /\ UNCHANGED <<scenario, jobs, server, retries, faults>>

\* CompleteServiceTask, for the client and for SetVariableValue.
CompleteServiceTask(j) ==
  IF jobs[j].open THEN Publish({<<"complete", j>>}) ELSE UNCHANGED inbox

\* A job that is gone makes the completion fail: the client backs off.
Complete(c) ==
  /\ c.pc = "complete"
  /\ CompleteServiceTask(c.job)
  /\ IF jobs[c.job].open THEN Settle(c, "gone") ELSE To(c, "backoff") /\ UNCHANGED jobs
  /\ UNCHANGED <<scenario, retrying, fatal, process, completed, caught, retries, faults>>

\* HandleWorkflowError for a code the element catches: the traversal to the
\* catching element, and the abort of the job.
Catch(j) ==
  IF jobs[j].open THEN Publish({<<"catch", j>>, <<"abort", j>>}) ELSE UNCHANGED inbox

\* The element catches the error.  ClientProcessFn reports its message as
\* done and the error with it.  Process looks for a workflow.Error where there
\* is a *workflow.Error, and backs off.
HandleCaught(c) ==
  /\ c.pc = "caught"
  /\ Catch(c.job)
  /\ IF jobs[c.job].open THEN To(c, "backoff") /\ UNCHANGED jobs ELSE Settle(c, "gone")
  /\ UNCHANGED <<scenario, retrying, fatal, process, completed, caught, retries, faults>>

\* The workflow has the code but the element does not catch it: not handled.
HandleUncaught(c) ==
  /\ c.pc = "uncaught"
  /\ IF jobs[c.job].open THEN To(c, "backoff") /\ UNCHANGED jobs ELSE Settle(c, "gone")
  /\ UNCHANGED <<scenario, server, retries, faults>>

\* The workflow does not have the code: abort, and cancel the process.  The
\* client is told of a fatal error and acknowledges.
HandleUnknown(c) ==
  /\ c.pc = "unknown"
  /\ \/ /\ jobs[c.job].open
        /\ Publish({<<"abort", c.job>>})
        /\ process' = IF process = "running" THEN "cancelled" ELSE process
     \/ ~jobs[c.job].open /\ UNCHANGED <<inbox, process>>
  /\ Settle(c, "gone")
  /\ UNCHANGED <<scenario, retrying, fatal, completed, caught, retries, faults>>

\* signalFatalErr: SignalFatalErrorPause.
Signal(c) ==
  /\ c.pc = "signal"
  /\ Publish({<<"pause", c.job>>})
  /\ Settle(c, "gone")
  /\ UNCHANGED <<scenario, retrying, fatal, process, completed, caught, retries, faults>>

\* meta.NumDelivered >= uint64(retryBehaviour.Number)
Exceeded(c) == c.n >= Number

\* backoff: the message is delayed, and delivered again.
Delay(c) ==
  /\ c.pc = "backoff" /\ ~Exceeded(c)
  /\ Settle(c, "pending")
  /\ UNCHANGED <<scenario, server, retries, faults>>

MutActNoTerm(c) ==
  /\ c.pc = "backoff" /\ Exceeded(c)
  /\ Catch(c.job)
  /\ Settle(c, "pending")
  /\ UNCHANGED <<scenario, retrying, fatal, process, completed, caught, retries, faults>>

\* backoff: the retries are used up.  Whatever comes of the action, the
\* message is terminated.
GiveUp(c) ==
  /\ c.pc = "backoff" /\ Exceeded(c)
  /\ \/ /\ scenario.action = "FailWorkflow"
        /\ process' = IF process = "running" THEN "cancelled" ELSE process
        /\ UNCHANGED inbox
     \/ scenario.action = "ThrowWorkflowError" /\ Catch(c.job) /\ UNCHANGED process
     \/ scenario.action = "PauseWorkflow" /\ Publish({<<"pause", c.job>>}) /\ UNCHANGED process
     \/ /\ scenario.action = "SetVariableValue"
        /\ CompleteServiceTask(c.job) /\ UNCHANGED process
  /\ Settle(c, "gone")
  /\ UNCHANGED <<scenario, retrying, fatal, completed, caught, retries, faults>>

ClientStep(c) == \/ GetJob(c) \/ Call(c) \/ Complete(c) \/ HandleCaught(c)
                 \/ HandleUncaught(c) \/ HandleUnknown(c) \/ Signal(c)
                 \/ Delay(c) \/ GiveUp(c)

---------------------------------------------------------------------------
(* The server.  Messages of a process that is gone are acknowledged.       *)
Drop == /\ process # "running"
        /\ \E m \in BagToSet(inbox) : m[1] # "pause" /\ m[1] # "retry" /\ Consume(m)
        /\ UNCHANGED <<scenario, jobs, calls, retrying, fatal, process, completed,
                       caught, retries, faults>>

\* completeJobProcessor completes the activity and deletes the job.
processCompletedJobs(j) ==
  /\ process = "running" /\ Consume(<<"complete", j>>)
  /\ completed' = completed + 1
  /\ jobs' = [jobs EXCEPT ![j].open = FALSE]
  /\ UNCHANGED <<scenario, calls, retrying, fatal, process, caught, retries, faults>>

\* deleteJob.
processJobAbort(j) ==
  /\ process = "running" /\ Consume(<<"abort", j>>)
  /\ jobs' = [jobs EXCEPT ![j].open = FALSE]
  /\ UNCHANGED <<scenario, calls, retrying, fatal, process, completed, caught, retries,
                 faults>>

\* The traversal to the catching element.
TraverseCatch(j) ==
  /\ process = "running" /\ Consume(<<"catch", j>>)
  /\ caught' = caught + 1
  /\ UNCHANGED <<scenario, jobs, calls, retrying, fatal, process, completed, retries,
                 faults>>

\* The traversal into the element: a new activity and its job.
TraverseAgain(j) ==
  /\ process = "running" /\ Consume(<<"again", j>>)
  /\ jobs' = Append(jobs, NewJob)
  /\ UNCHANGED <<scenario, calls, retrying, fatal, process, completed, caught, retries,
                 faults>>

\* processFatalError: PersistFatalError, under a key that names the element.
PersistFatalError(j) ==
  /\ Consume(<<"pause", j>>)
  /\ fatal' = j
  /\ UNCHANGED <<scenario, jobs, calls, retrying, process, completed, caught, retries,
                 faults>>

\* A client asks for the retry of what the record holds.
RetryActivity ==
  /\ retries < scenario.retries
  /\ fatal # 0
  /\ Publish({<<"retry", fatal>>})
  /\ retries' = retries + 1
  /\ UNCHANGED <<scenario, jobs, calls, retrying, fatal, process, completed, caught,
                 faults>>

\* processJobRetry: abort the old job, ...
RetryAbort(j) ==
  /\ BagIn(<<"retry", j>>, inbox)
  /\ inbox' = (inbox (-) SetToBag({<<"retry", j>>})) (+) SetToBag({<<"abort", j>>})
  /\ retrying' = retrying \cup {<<j, "traverse">>}
  /\ UNCHANGED <<scenario, jobs, calls, fatal, process, completed, caught, retries, faults>>

\* ... traverse into the element again, ...
RetryTraverse(j) ==
  /\ <<j, "traverse">> \in retrying
  /\ Publish({<<"again", j>>})
  /\ retrying' = (retrying \ {<<j, "traverse">>}) \cup {<<j, "delete">>}
  /\ UNCHANGED <<scenario, jobs, calls, fatal, process, completed, caught, retries, faults>>

\* ... and delete the record, whichever job it is about by now.
DeleteFatalError(j) ==
  /\ <<j, "delete">> \in retrying
  /\ fatal' = 0
  /\ retrying' = retrying \ {<<j, "delete">>}
  /\ UNCHANGED <<scenario, jobs, calls, inbox, process, completed, caught, retries, faults>>

\* The rest of the process reaches its end.
EndProcess ==
  /\ process = "running" /\ completed + caught > 0
  /\ process' = "ended"
  /\ UNCHANGED <<scenario, jobs, calls, inbox, retrying, fatal, completed, caught,
                 retries, faults>>

ServerStep(j) == \/ processCompletedJobs(j) \/ processJobAbort(j) \/ TraverseCatch(j)
                 \/ TraverseAgain(j) \/ PersistFatalError(j) \/ RetryAbort(j)
                 \/ RetryTraverse(j) \/ DeleteFatalError(j)

Idle == calls = {} /\ inbox = EmptyBag /\ retrying = {}
        /\ \A j \in DOMAIN jobs : jobs[j].msg = "gone"
Terminating == Idle /\ UNCHANGED vars

Step == \/ \E j \in DOMAIN jobs : Deliver(j) \/ ServerStep(j)
        \/ \E c \in calls : ClientStep(c)
        \/ Drop

Next == \/ Step \/ RetryActivity \/ EndProcess \/ Terminating
        \/ \E c \in calls : Outlive(c)

Spec == Init /\ [][Next]_vars /\ WF_vars(Step)

---------------------------------------------------------------------------
(* Properties.                                                             *)

\* Jobs and calls keep their types, and a call belongs to a delivery of its job.
TypeOK ==
  /\ \A j \in DOMAIN jobs : jobs[j].msg \in {"pending", "delivered", "gone"}
  /\ \A c \in calls : c.job \in DOMAIN jobs /\ c.n \in 1 .. jobs[c.job].n
  /\ fatal \in 0 .. Len(jobs)
  /\ process \in {"running", "cancelled", "ended"}
  /\ Len(jobs) <= 1 + retries /\ retries <= scenario.retries /\ faults <= scenario.faults

NoWorkflowError == "caught" \notin scenario.outcomes

\* A task whose function raises no workflow error leaves its element once: by
\* completion or by the error its retry policy throws, never by both or twice,
\* also when it is retried after a pause.
LeavesOnce == NoWorkflowError /\ faults = 0 => completed + caught <= 1

DealtWith == /\ \A j \in DOMAIN jobs : jobs[j].msg = "gone"
             /\ process = "running" /\ retries = 0 => completed + caught > 0 \/ fatal # 0

\* Each job's message is acknowledged or terminated in the end, and then no job
\* was dropped on the floor: if the process still runs, the activity was left,
\* or its pause is on record to be retried.  The latter holds until the first
\* retry.
EveryJobDealtWith == <>[]DealtWith

\* An error that the element catches is dealt with: the message is done, the
\* element is left once and the retry policy does not cancel the process.
CaughtIsDone ==
  scenario.outcomes = {"caught"} /\ faults = 0 => caught <= 1 /\ process # "cancelled"

\* A pause stays on record until its own job is retried.  Checked in no run, as it
\* does not hold: DeleteFatalError of the first retry may take the record of the
\* next pause.
PauseIsKept == Idle /\ process = "running" => completed + caught > 0 \/ fatal # 0
=============================================================================
