---------------------------- MODULE Compensation ----------------------------
(***************************************************************************)
(* Compensation of one process: internal/server/workflow/compensation.go.  *)
(*                                                                         *)
(* The tasks of a flow run one after the other and lead to a compensation  *)
(* end event, while tasks aside from the flow run in parallel.  Compensate *)
(* reads the history, publishes one plan entry for each completed task     *)
(* that has a compensation, latest first, and one ProcessCompensate.  Each *)
(* ProcessCompensate takes the next entry from the plan's own consumer and *)
(* starts the compensating job.  Its completion leads to the next          *)
(* ProcessCompensate, or after the last entry to the end of the process.   *)
(*                                                                         *)
(* Messages are delivered again when their handler fails.  Plan entries    *)
(* are published without acknowledgement and may be lost.                  *)
(***************************************************************************)
EXTENDS Naturals, Sequences, SequencesExt, FiniteSets

CONSTANTS Flows,         \* the processes: the tasks that lead to the event, in
                         \* order, the tasks in parallel with them, and the
                         \* bound on handlers interrupted and entries lost
          Compensable    \* the tasks with a CompensateWith element

VARIABLES
  flow,        \* the tasks before the compensation event
  aside,       \* the tasks in parallel
  started,     \* tasks in the order their jobs were published
  completed,   \* tasks whose ActivityComplete was published
  history,     \* WfHistory: <<task, entry type>>
  due,         \* tasks on record as completed when the event was entered
  msgs,        \* the messages published, each with the step of its handler
  plans,       \* one plan for each attempt at Compensate
  performed,   \* compensations in the order the client performed them
  ended,       \* the process has completed
  faults

tasks == <<started, completed, history, due>>
vars == <<flow, aside, tasks, msgs, plans, performed, ended, faults>>

MaxFaults == (CHOOSE f \in Flows : f[1] = flow /\ f[2] = aside)[3]
Tasks == UNION {Range(f[1]) \cup f[2] : f \in Flows}

\* found: entries still to be checked; steps: the plan, in the order of its
\* entries; at: entries acknowledged; held: an entry is fetched, not yet
\* acknowledged; checkpoint: the checkpoint of the event's activity is on record.
NewPlan(found) == [found |-> found, chosen |-> {}, steps |-> <<>>, at |-> 0,
                   held |-> FALSE, checkpoint |-> FALSE]

Message(kind, plan, step) ==
  [kind |-> kind, plan |-> plan, step |-> step, pc |-> "queued"]

Init ==
  /\ \E f \in Flows : flow = f[1] /\ aside = f[2]
  /\ started = <<>> /\ completed = {} /\ history = {} /\ due = {}
  /\ msgs = <<>> /\ plans = <<>> /\ performed = <<>>
  /\ ended = FALSE /\ faults = 0

At(i, kind, pc) == i \in DOMAIN msgs /\ msgs[i].kind = kind /\ msgs[i].pc = pc
PlanOf(i) == plans[msgs[i].plan]
Goto(i, pc) == msgs' = [msgs EXCEPT ![i].pc = pc]

\* The last publication of a handler, after which the message is acknowledged,
\* unless the handler is interrupted before that.
PublishLast(i, m) ==
  \/ /\ msgs' = Append([msgs EXCEPT ![i].pc = "acked"], m)
     /\ UNCHANGED faults
  \/ /\ faults < MaxFaults
     /\ msgs' = Append([msgs EXCEPT ![i].pc = "queued"], m)
     /\ faults' = faults + 1

---------------------------------------------------------------------------
(* The tasks.  Each record follows the publication it belongs to.          *)
Before(t) == {flow[j] : j \in {j \in DOMAIN flow : \E k \in DOMAIN flow :
                                  flow[k] = t /\ j < k}}

\* startJob publishes the job ...
startJob(t) ==
  /\ t \in (Range(flow) \cup aside) \ Range(started)
  /\ t \notin aside => Before(t) \subseteq completed
  /\ ~ended
  /\ started' = Append(started, t)
  /\ UNCHANGED <<flow, aside, completed, history, due, msgs, plans, performed, ended, faults>>

\* ... and then records it.
RecordHistoryJobExecute(t) ==
  /\ t \in Range(started) /\ <<t, "jobExecute">> \notin history
  /\ history' = history \cup {<<t, "jobExecute">>}
  /\ UNCHANGED <<flow, aside, started, completed, due, msgs, plans, performed, ended, faults>>

\* completeActivity publishes ActivityComplete, from where the flow goes on, ...
completeActivity(t) ==
  /\ t \in Range(started) \ completed
  /\ ~ended
  /\ completed' = completed \cup {t}
  /\ UNCHANGED <<flow, aside, started, history, due, msgs, plans, performed, ended, faults>>

\* ... and then records it.
RecordHistoryActivityComplete(t) ==
  /\ t \in completed /\ <<t, "activityComplete">> \notin history
  /\ history' = history \cup {<<t, "activityComplete">>}
  /\ UNCHANGED <<flow, aside, started, completed, due, msgs, plans, performed, ended, faults>>

OnRecord == {t \in Compensable : {<<t, "jobExecute">>, <<t, "activityComplete">>} \subseteq history}

\* The traversal to the compensation end event.
ReachEvent ==
  /\ msgs = <<>> /\ Range(flow) \subseteq completed
  /\ msgs' = <<Message("traversal", 0, 0)>>
  /\ due' = OnRecord
  /\ UNCHANGED <<flow, aside, started, completed, history, plans, performed, ended, faults>>

---------------------------------------------------------------------------
(* Compensate, called by activityStartProcessor for the event.             *)

\* A new activity, hence a new consumer, for each delivery.  The keys of the
\* history are listed.
CreatePlan(i) ==
  LET jobs == {t \in Compensable : <<t, "jobExecute">> \in history}
  IN /\ At(i, "traversal", "queued")
     /\ ~ended
     /\ plans' = Append(plans, NewPlan(jobs))
     /\ msgs' = [msgs EXCEPT ![i].pc = "check", ![i].plan = Len(plans) + 1]
     /\ UNCHANGED <<flow, aside, tasks, performed, ended, faults>>

\* Each entry found is kept if its activity is on record as completed.
CheckCompleted(i) ==
  /\ At(i, "traversal", "check")
  /\ \E t \in PlanOf(i).found :
       plans' = [plans EXCEPT ![msgs[i].plan].found = @ \ {t},
                              ![msgs[i].plan].chosen =
                                 IF <<t, "activityComplete">> \in history
                                 THEN @ \cup {t} ELSE @]
  /\ UNCHANGED <<flow, aside, tasks, msgs, performed, ended, faults>>

MutEarliestFirst(chosen) == SelectSeq(started, LAMBDA t : t \in chosen)

\* SortFunc by the time of the job, descending.
LatestFirst(chosen) == Reverse(SelectSeq(started, LAMBDA t : t \in chosen))

\* Conn.PublishMsg of one entry after the other ...
PublishEntry(i) ==
  LET steps == PlanOf(i).steps
      all == LatestFirst(PlanOf(i).chosen)
  IN /\ At(i, "traversal", "check")
     /\ PlanOf(i).found = {} /\ Len(steps) < Len(all)
     /\ plans' = [plans EXCEPT ![msgs[i].plan].steps = Append(@, all[Len(@) + 1])]
     /\ UNCHANGED <<flow, aside, tasks, msgs, performed, ended, faults>>

\* ... and PublishWorkflowState of ProcessCompensate.
PublishCompensate(i) ==
  /\ At(i, "traversal", "check")
  /\ PlanOf(i).found = {}
  /\ Len(PlanOf(i).steps) = Cardinality(PlanOf(i).chosen)
  /\ PublishLast(i, Message("compensate", msgs[i].plan, 0))
  /\ UNCHANGED <<flow, aside, tasks, plans, performed, ended>>

Compensate(i) == \/ CreatePlan(i) \/ CheckCompleted(i) \/ PublishEntry(i)
                 \/ PublishCompensate(i)

---------------------------------------------------------------------------
(* processProcessCompensate.                                               *)
Total(p) == Cardinality(p.chosen)
Lost == "lost"

\* The entries of a plan that have reached its consumer and are not yet
\* acknowledged.
Waiting(p) == {j \in p.at + 1 .. Len(p.steps) : p.steps[j] # Lost}

\* Fetch(1): the consumer hands out one entry at a time, and without an entry
\* the message is nil.
Fetch(i) ==
  /\ At(i, "compensate", "queued")
  /\ ~PlanOf(i).held
  /\ Waiting(PlanOf(i)) # {}
  /\ plans' = [plans EXCEPT ![msgs[i].plan].held = TRUE]
  /\ msgs' = [msgs EXCEPT ![i].pc = "ack",
                ![i].step = CHOOSE j \in Waiting(PlanOf(i)) :
                              \A l \in Waiting(PlanOf(i)) : j <= l]
  /\ UNCHANGED <<flow, aside, tasks, performed, ended, faults>>

\* cmsg.Data() of a nil message stops the server.
FetchNothing(i) ==
  /\ At(i, "compensate", "queued")
  /\ PlanOf(i).held \/ Waiting(PlanOf(i)) = {}
  /\ Goto(i, "panic")
  /\ UNCHANGED <<flow, aside, tasks, plans, performed, ended, faults>>

\* The plan entry is acknowledged before anything is done about it.
AckEntry(i) ==
  /\ At(i, "compensate", "ack")
  /\ plans' = [plans EXCEPT ![msgs[i].plan].held = FALSE,
                            ![msgs[i].plan].at = msgs[i].step]
  /\ Goto(i, "checkpoint")
  /\ UNCHANGED <<flow, aside, tasks, performed, ended, faults>>

\* RecordHistoryCompensationCheckpoint, under the event's activity.
Checkpoint(i) ==
  /\ At(i, "compensate", "checkpoint")
  /\ plans' = [plans EXCEPT ![msgs[i].plan].checkpoint = TRUE]
  /\ Goto(i, "startJob")
  /\ UNCHANGED <<flow, aside, tasks, performed, ended, faults>>

\* startJob of the compensating service task.
StartCompensation(i) ==
  /\ At(i, "compensate", "startJob")
  /\ PublishLast(i, Message("job", msgs[i].plan, msgs[i].step))
  /\ UNCHANGED <<flow, aside, tasks, plans, performed, ended>>

processProcessCompensate(i) ==
  \/ Fetch(i) \/ FetchNothing(i) \/ AckEntry(i) \/ Checkpoint(i) \/ StartCompensation(i)

---------------------------------------------------------------------------
\* The client performs the compensation and completes its job.
Perform(i) ==
  /\ At(i, "job", "queued")
  /\ performed' = Append(performed, PlanOf(i).steps[msgs[i].step])
  /\ PublishLast(i, Message("jobComplete", msgs[i].plan, msgs[i].step))
  /\ UNCHANGED <<flow, aside, tasks, plans, ended>>

MutLastButOne(m, p) == m.step >= Total(p) - 1

\* state.Compensation.Step == state.Compensation.TotalSteps-1, counting from 0.
LastStep(m, p) == m.step = Total(p)

\* compensationJobComplete: with its checkpoint on record, ProcessCompensate for
\* the next step, or after the last one ActivityComplete and ProcessComplete.
compensationJobComplete(i) ==
  /\ At(i, "jobComplete", "queued")
  /\ ~ended
  /\ PlanOf(i).checkpoint
  /\ PublishLast(i,
       Message(IF LastStep(msgs[i], PlanOf(i)) THEN "processComplete" ELSE "compensate",
               msgs[i].plan, 0))
  /\ UNCHANGED <<flow, aside, tasks, plans, performed, ended>>

\* processProcessComplete destroys the process instance.
processProcessComplete(i) ==
  /\ At(i, "processComplete", "queued")
  /\ ended' = TRUE
  /\ Goto(i, "acked")
  /\ UNCHANGED <<flow, aside, tasks, plans, performed, faults>>

\* A process that is gone: hasValidProcess has the message acknowledged.
Drop(i) ==
  /\ i \in DOMAIN msgs
  /\ ended /\ msgs[i].pc = "queued" /\ msgs[i].kind \in {"traversal", "jobComplete"}
  /\ Goto(i, "acked")
  /\ UNCHANGED <<flow, aside, tasks, plans, performed, ended, faults>>

\* A server that stopped is started again and the message is redelivered.
Restart(i) ==
  /\ i \in DOMAIN msgs /\ msgs[i].pc = "panic"
  /\ Goto(i, "queued")
  /\ UNCHANGED <<flow, aside, tasks, plans, performed, ended, faults>>

Handle(i) == \/ Compensate(i) \/ processProcessCompensate(i) \/ Perform(i)
             \/ compensationJobComplete(i) \/ processProcessComplete(i)
             \/ Drop(i) \/ Restart(i)

\* The consumer offers a held entry again when AckWait runs out and its
\* handler has not acknowledged it.
Expire(k) ==
  /\ k \in DOMAIN plans /\ plans[k].held
  /\ \A i \in DOMAIN msgs : msgs[i].plan = k => msgs[i].pc # "ack"
  /\ plans' = [plans EXCEPT ![k].held = FALSE]
  /\ UNCHANGED <<flow, aside, tasks, msgs, performed, ended, faults>>

\* A handler stops before it has acknowledged its message.
Interrupt(i) ==
  /\ faults < MaxFaults
  /\ i \in DOMAIN msgs /\ msgs[i].pc \notin {"queued", "acked", "panic"}
  /\ Goto(i, "queued")
  /\ faults' = faults + 1
  /\ UNCHANGED <<flow, aside, tasks, plans, performed, ended>>

\* An entry does not reach the stream: nobody waits for an acknowledgement.
Lose(k) ==
  /\ faults < MaxFaults
  /\ k \in DOMAIN plans
  /\ \E j \in Waiting(plans[k]) : j = Len(plans[k].steps)
       /\ plans' = [plans EXCEPT ![k].steps[j] = Lost]
  /\ ~\E i \in DOMAIN msgs : msgs[i].plan = k /\ msgs[i].kind = "compensate"
  /\ faults' = faults + 1
  /\ UNCHANGED <<flow, aside, tasks, msgs, performed, ended>>

TaskStep == \E t \in Tasks : \/ startJob(t) \/ RecordHistoryJobExecute(t)
                             \/ completeActivity(t) \/ RecordHistoryActivityComplete(t)

Finished == ended /\ \A i \in DOMAIN msgs : msgs[i].pc = "acked"
Terminating == Finished /\ UNCHANGED vars

Step == \/ TaskStep \/ ReachEvent
        \/ \E i \in DOMAIN msgs : Handle(i)
        \/ \E k \in DOMAIN plans : Expire(k)

Next == \/ Step
        \/ \E i \in DOMAIN msgs : Interrupt(i)
        \/ \E k \in DOMAIN plans : Lose(k)
        \/ Terminating

Spec == Init /\ [][Next]_vars /\ WF_vars(Step)

---------------------------------------------------------------------------
(* Properties.                                                             *)

Kinds == {"traversal", "compensate", "job", "jobComplete", "processComplete"}
Steps == {"queued", "check", "ack", "checkpoint", "startJob",
          "panic", "acked"}

\* Messages and plans keep their types, and a step taken from a plan is one of
\* its entries.
TypeOK ==
  /\ Range(started) \subseteq Tasks /\ completed \subseteq Range(started)
  /\ \A i \in DOMAIN msgs :
       /\ msgs[i].kind \in Kinds /\ msgs[i].pc \in Steps
       /\ msgs[i].kind \in {"job", "jobComplete"} => msgs[i].step \in DOMAIN PlanOf(i).steps
  /\ \A k \in DOMAIN plans :
       plans[k].at <= Len(plans[k].steps) /\ plans[k].found \cup plans[k].chosen \subseteq Compensable
  /\ faults \in 0 .. MaxFaults

\* Whatever is interrupted or lost, only tasks that completed and have a
\* compensation are compensated: Compensate checks the completion of each, while
\* tasks beside the event go on.  As long as nothing is interrupted, they are
\* undone one by one in the reverse order of their start, none of them twice.
CompensatesInReverse ==
  /\ Range(performed) \subseteq completed \cap Compensable
  /\ faults = 0 =>
    \A i, j \in DOMAIN performed : i < j =>
      \E k, l \in DOMAIN started :
        k < l /\ started[l] = performed[i] /\ started[k] = performed[j]

Undone == ended /\ due \subseteq Range(performed)

\* A process with something to compensate ends, if nothing is interrupted, and
\* when it does each task that was on record as completed when the event was
\* entered has been compensated.
CompensationCompletes == due # {} ~> (Undone \/ faults > 0)

\* The tests have every completed task compensated when the process has ended.
\* Checked in no run, as it does not hold: the event may be entered before the
\* completion of the task before it is on record.
AllCompensated ==
  faults = 0 /\ ended => Range(flow) \cap Compensable \subseteq Range(performed)
=============================================================================
