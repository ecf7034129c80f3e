------------------------------- MODULE Engine -------------------------------
(***************************************************************************)
(* How a token moves through a process: internal/server/workflow/engine.go *)
(* with startJob, createJob and DeleteJob of operations.go and the history *)
(* records of history.go.  A process instance has no program counter: its  *)
(* state is the messages in the WORKFLOW stream, the open jobs, the        *)
(* gateway instances and the history.  A consumer takes a message, runs    *)
(* its handler, which publishes the next messages and writes the           *)
(* key-value buckets one call at a time, and acknowledges it.  Handlers    *)
(* run concurrently; one that is interrupted leaves the calls it has made, *)
(* and its message is delivered again.                                     *)
(*                                                                         *)
(* A handler is the sequence of its calls.  Joins are taken from Gateway   *)
(* (one step here), the removal of a process instance from                 *)
(* ExecutionLifecycle (one step here).                                     *)
(***************************************************************************)
EXTENDS Naturals, Sequences, FiniteSets, SequencesExt, TLC

CONSTANTS Type,          \* element -> kind of element
          Outbound,      \* element -> elements its outbound flows lead to
          Conditional,   \* element -> those behind a condition
          Default,       \* element -> at most one: behind the default flow
          Reciprocal,    \* divergent gateway -> its convergent gateway
          Called,        \* call activity -> start event of the process
          Starts,        \* start events of the processes one may launch
          MaxHandlers,   \* bound: handlers that run at the same time
          MaxInterrupts  \* bound: handlers interrupted

Elements == DOMAIN Type

ASSUME EngineAssumption ==
  /\ \A e \in Elements :
       /\ Outbound[e] \subseteq Elements
       /\ Conditional[e] \subseteq Outbound[e]
       /\ Default[e] \subseteq Outbound[e] /\ Cardinality(Default[e]) <= 1
  /\ DOMAIN Reciprocal \cup DOMAIN Called \subseteq Elements
  /\ Starts \subseteq Elements
  /\ MaxHandlers \in Nat \ {0} /\ MaxInterrupts \in Nat

VARIABLES
  inbox,        \* messages of the stream that are not acknowledged
  run,          \* message being handled -> calls its handler has still to make
  pis,          \* WfProcessInstance
  history,      \* WfHistory: <<process instance, id, type>>
  archived,     \* history published on WorkflowSystemHistoryArchive
  jobs,         \* Job: id -> the saved state
  gates,        \* WfGateway: instance -> expectations met
  completions,  \* <<element, activity>> -> ActivityComplete messages published
  interrupts

vars == <<inbox, run, pis, history, archived, jobs, gates, completions, interrupts>>

\* An identifier is fresh for every delivery of the message it is made for:
\* it is the path of deliveries that led to it.
NewID(m, tag) == Append(m.id, <<m.tries, tag>>)

\* A process instance: how it was launched, and the job it was launched for.
Main == [launch |-> <<>>, job |-> <<>>]
IsChild(pi) == pi.job # <<>>

\* The state a message carries.  gw: the reciprocated divergent gateways the
\* token has passed, as SatisfiesGatewayExpectation and GatewayExpectations.
Message(kind, el, pi, act, gw, id) ==
  [kind |-> kind, el |-> el, pi |-> pi, act |-> act, gw |-> gw, id |-> id,
   tries |-> 0]
Then(m, kind, tag) == Message(kind, m.el, m.pi, m.act, m.gw, NewID(m, tag))

publish(msg) == [op |-> "publish", msg |-> msg]
RecordHistory(pi, id, type) == [op |-> "record", entry |-> <<pi, id, type>>]
createJob(msg) == [op |-> "createJob", msg |-> msg]
DeleteJob(id) == [op |-> "deleteJob", job |-> id]
Call(op, m) == [op |-> op, msg |-> m]

Valid(pi) == pi \in pis

Init ==
  /\ \E start \in Starts :
       inbox = {Message("traversal", start, Main, <<>>, <<>>, <<>>)}
  /\ run = << >>
  /\ pis = {Main}
  /\ history = {<<Main, <<>>, "processExecute">>}
  /\ archived = {}
  /\ jobs = << >>
  /\ gates = << >>
  /\ completions = << >>
  /\ interrupts = 0

---------------------------------------------------------------------------
(* The handlers, as the calls they make.                                   *)

completeActivity(m) ==
  << publish(Then(m, "activity", "ActivityComplete")),
     RecordHistory(m.pi, m.act, "activityComplete") >>

startJob(m, kind) ==
  << createJob(m), publish(Then(m, kind, "JobExecute")),
     RecordHistory(m.pi, m.act, "jobExecute") >>

\* The instance is removed (ExecutionLifecycle has the details), then
\* ProcessTerminated is published.
destroyProcessInstance(m) ==
  << Call("destroy", m), publish(Then(m, "terminated", "ProcessTerminated")) >>

\* Where a token goes from el.  satisfied: the conditions that hold.
TargetsOf(el, satisfied) ==
  LET met == ((Outbound[el] \ Conditional[el]) \cup satisfied) \ Default[el]
  IN IF met = {} THEN Default[el] ELSE met

\* The switch of activityStartProcessor on the type of the element.
MutEnterFallsThrough(m) ==
  CASE Type[m.el] = "task" -> startJob(m, "job") \o completeActivity(m)
    [] OTHER -> completeActivity(m)

Enter(m) ==
  CASE Type[m.el] = "task" -> startJob(m, "job")
    [] Type[m.el] = "call" -> startJob(m, "launch")
    [] Type[m.el] = "convergent" -> <<publish(Then(m, "gateway", "GatewayActivate"))>>
    [] Type[m.el] = "end" /\ ~IsChild(m.pi) ->
         completeActivity(m) \o <<publish(Then(m, "process", "ProcessComplete"))>>
    [] OTHER -> completeActivity(m)

MutActivityRecordedLate(traversal) ==
  LET m == [traversal EXCEPT !.act = NewID(traversal, "activity")]
  IN Enter(m) \o <<RecordHistory(m.pi, m.act, "activityExecute")>>

activityStartProcessor(traversal) ==
  LET m == [traversal EXCEPT !.act = NewID(traversal, "activity")]
  IN <<RecordHistory(m.pi, m.act, "activityExecute")>> \o Enter(m)

\* traverse: a divergent gateway with a reciprocal saves the gateway instance,
\* then every target gets a traversal, in the order of a Go map.
MutTraverseUnsaved(m, targets, order) ==
  LET gw(t) == IF m.el \in DOMAIN Reciprocal
               THEN Append(m.gw, [instance |-> NewID(m, "gateway"),
                                  join |-> Reciprocal[m.el],
                                  branch |-> t, expected |-> targets])
               ELSE m.gw
  IN [i \in 1 .. Len(order) |->
        publish(Message("traversal", order[i], m.pi, <<>>, gw(order[i]), NewID(m, order[i])))]

traverse(m, targets, order) ==
  LET instance == NewID(m, "gateway")
      reciprocated == m.el \in DOMAIN Reciprocal
      gw(t) == IF reciprocated
               THEN Append(m.gw, [instance |-> instance, join |-> Reciprocal[m.el],
                                  branch |-> t, expected |-> targets])
               ELSE m.gw
      traversal(t) == Message("traversal", t, m.pi, <<>>, gw(t), NewID(m, t))
  IN (IF reciprocated THEN <<[op |-> "saveGateway", instance |-> instance]>> ELSE << >>)
     \o [i \in 1 .. Len(order) |-> publish(traversal(order[i]))]

\* completeJobProcessor.  The activity of a job is the parent of its id.
completeJobProcessor(m) ==
  completeActivity(m) \o << RecordHistory(m.pi, m.act, "jobComplete"), DeleteJob(m.act) >>

\* activityCompleteProcessor at the end event of a called process, once it has
\* looked for the job: JobLaunchComplete is published before and after the
\* process instance is destroyed, the second time whether or not there is a
\* job, and there it dereferences it.
JobLaunchComplete(m, tag) ==
  publish([Then(jobs[m.pi.job], "jobComplete", tag) EXCEPT !.id = NewID(m, tag)])

MutDeletesJobFirst(m, live) ==
  <<DeleteJob(m.pi.job)>>
  \o (IF live THEN destroyProcessInstance(m) ELSE << >>)
  \o (IF m.pi.job \in DOMAIN jobs THEN <<JobLaunchComplete(m, "after")>>
      ELSE <<Call("panic", m)>>)

endOfCall(m, live) ==
  LET found == m.pi.job \in DOMAIN jobs
  IN (IF found THEN <<JobLaunchComplete(m, "before")>> ELSE << >>)
     \o <<DeleteJob(m.pi.job)>>
     \o (IF live THEN destroyProcessInstance(m) ELSE << >>)
     \o (IF found THEN <<JobLaunchComplete(m, "after")>> ELSE <<Call("panic", m)>>)

\* launchProcessor: a process instance of its own for every delivery.
MutLaunchCompletes(m) ==
  LET pi == [launch |-> NewID(m, "process"), job |-> m.act]
  IN << [op |-> "createProcessInstance", pi |-> pi],
        publish(Message("traversal", Called[m.el], pi, <<>>, <<>>, NewID(m, "start"))),
        publish(Then(m, "jobComplete", "JobComplete")) >>

launchProcessor(m) ==
  LET pi == [launch |-> NewID(m, "process"), job |-> m.act]
      start == Message("traversal", Called[m.el], pi, <<>>, <<>>, NewID(m, "start"))
  IN << [op |-> "createProcessInstance", pi |-> pi],
        RecordHistory(pi, start.id, "processExecute"),
        publish(start) >>

---------------------------------------------------------------------------
(* common.Process: the handler of a message makes its calls, and the       *)
(* message is acknowledged with the last one.                              *)
Forget(f, x) == [y \in DOMAIN f \ {x} |-> f[y]]

\* A server stops, or a call fails and the message is refused: the message is
\* delivered again.
Again(m, new) ==
  /\ interrupts < MaxInterrupts
  /\ interrupts' = interrupts + 1
  /\ inbox' = (inbox \ {m}) \cup new \cup {[m EXCEPT !.tries = @ + 1]}

Continue(m, calls, new) ==
  \/ /\ calls # << >>
     /\ run' = (m :> calls) @@ run
     /\ inbox' = inbox \cup new
     /\ UNCHANGED interrupts
  \/ /\ calls = << >>
     /\ run' = Forget(run, m)
     /\ \/ inbox' = (inbox \ {m}) \cup new /\ UNCHANGED interrupts
        \/ Again(m, new)

Interrupt(m) ==
  /\ Again(m, {})
  /\ run' = Forget(run, m)
  /\ UNCHANGED <<pis, history, archived, jobs, gates, completions>>

(* Delivery: the handler reads what it decides on, and has its calls to    *)
(* make.                                                                   *)
Begin(m, calls) ==
  /\ Cardinality(DOMAIN run) < MaxHandlers
  /\ Continue(m, calls, {})
  /\ UNCHANGED <<pis, history, archived, jobs, gates, completions>>

Recorded(m) == <<m.pi, m.act, "activityExecute">> \in history

processTraversals(m) ==
  /\ m.kind = "traversal"
  /\ Begin(m, IF Valid(m.pi) THEN activityStartProcessor(m) ELSE << >>)

\* activityCompleteProcessor: a missing process instance is not traversed.
processActivities(m) ==
  /\ m.kind = "activity"
  /\ \E satisfied \in SUBSET Conditional[m.el] :
       LET targets == IF Valid(m.pi) THEN TargetsOf(m.el, satisfied) ELSE {}
           returns == IF Type[m.el] = "end" /\ IsChild(m.pi)
                      THEN <<[op |-> "getJob", live |-> Valid(m.pi)]>> ELSE << >>
       IN \E order \in SetToSeqs(targets) :
            Begin(m, (IF targets = {} THEN << >> ELSE traverse(m, targets, order))
                     \o returns)

processCompletedJobs(m) ==
  /\ m.kind = "jobComplete"
  /\ Begin(m, IF Valid(m.pi) /\ Recorded(m) THEN completeJobProcessor(m) ELSE << >>)

processLaunch(m) ==
  /\ m.kind = "launch"
  /\ Begin(m, IF Valid(m.pi) THEN launchProcessor(m) ELSE << >>)

processProcessComplete(m) ==
  /\ m.kind = "process"
  /\ Begin(m, IF Valid(m.pi) THEN destroyProcessInstance(m) ELSE << >>)

processProcessTerminate(m) ==
  /\ m.kind = "terminated"
  /\ Begin(m, <<Call("archive", m)>>)

\* GetGatewayInstanceID.
Arrival(m) == m.gw[CHOOSE i \in DOMAIN m.gw :
                     /\ m.gw[i].join = m.el
                     /\ \A j \in i + 1 .. Len(m.gw) : m.gw[j].join # m.el]

\* Refused, and delivered again, while there is no gateway instance.
processGatewayActivation(m) ==
  /\ m.kind = "gateway"
  /\ Valid(m.pi) => Arrival(m).instance \in DOMAIN gates
  /\ Begin(m, IF Valid(m.pi) THEN <<publish(Then(m, "gatewayExecute", "GatewayExecute"))>>
              ELSE << >>)

gatewayExecProcessor(m) ==
  /\ m.kind = "gatewayExecute"
  /\ Begin(m, IF Valid(m.pi) THEN <<Call("join", m)>> ELSE << >>)

\* A client runs the service task and calls CompleteServiceTask.  Its message
\* is refused while there is no job, and aborted (which the missing process
\* instance makes a no-op) when the history is gone.
completeServiceTask(m) ==
  /\ m.kind = "job"
  /\ m.act \in DOMAIN jobs
  /\ Begin(m, IF Recorded(m) THEN <<publish(Then(m, "jobComplete", "JobComplete"))>>
              ELSE << >>)

Deliver(m) == \/ processTraversals(m) \/ processActivities(m)
              \/ processCompletedJobs(m) \/ processLaunch(m)
              \/ processProcessComplete(m) \/ processProcessTerminate(m)
              \/ processGatewayActivation(m) \/ gatewayExecProcessor(m)
              \/ completeServiceTask(m)

---------------------------------------------------------------------------
(* The calls.                                                              *)
CallOf(m, op) == Head(run[m]).op = op
Proceed(m) == Continue(m, Tail(run[m]), {})
Instead(m, calls) == Continue(m, calls \o Tail(run[m]), {})

Publish(m) ==
  /\ CallOf(m, "publish")
  /\ LET new == Head(run[m]).msg
         Count(a) == IF a \in DOMAIN completions THEN completions[a] ELSE 0
     IN /\ Continue(m, Tail(run[m]), {new})
        /\ completions' =
             IF new.kind = "activity"
             THEN (<<new.el, new.act>> :> Count(<<new.el, new.act>>) + 1) @@ completions
             ELSE completions
  /\ UNCHANGED <<pis, history, archived, jobs, gates>>

Record(m) ==
  /\ CallOf(m, "record")
  /\ Proceed(m)
  /\ history' = history \cup {Head(run[m]).entry}
  /\ UNCHANGED <<pis, archived, jobs, gates, completions>>

SaveJob(m) ==
  /\ CallOf(m, "createJob")
  /\ Proceed(m)
  /\ LET job == Head(run[m]).msg IN jobs' = (job.act :> job) @@ jobs
  /\ UNCHANGED <<pis, history, archived, gates, completions>>

RemoveJob(m) ==
  /\ CallOf(m, "deleteJob")
  /\ Proceed(m)
  /\ jobs' = Forget(jobs, Head(run[m]).job)
  /\ UNCHANGED <<pis, history, archived, gates, completions>>

GetJob(m) ==
  /\ CallOf(m, "getJob")
  /\ Instead(m, endOfCall(m, Head(run[m]).live))
  /\ UNCHANGED <<pis, history, archived, jobs, gates, completions>>

CreateProcessInstance(m) ==
  /\ CallOf(m, "createProcessInstance")
  /\ Proceed(m)
  /\ pis' = pis \cup {Head(run[m]).pi}
  /\ UNCHANGED <<history, archived, jobs, gates, completions>>

Destroy(m) ==
  /\ CallOf(m, "destroy")
  /\ Proceed(m)
  /\ pis' = pis \ {m.pi}
  /\ UNCHANGED <<history, archived, jobs, gates, completions>>

\* deleteProcessHistory: the keys found are archived and deleted.
Archive(m) ==
  /\ CallOf(m, "archive")
  /\ Proceed(m)
  /\ LET found == {h \in history : h[1] = m.pi}
     IN /\ archived' = archived \cup found
        /\ history' = history \ found
  /\ UNCHANGED <<pis, jobs, gates, completions>>

SaveGateway(m) ==
  /\ CallOf(m, "saveGateway")
  /\ Proceed(m)
  /\ gates' = (Head(run[m]).instance :> {}) @@ gates
  /\ UNCHANGED <<pis, history, archived, jobs, completions>>

\* The last expected branch completes the gateway, which then is removed.
Join(m) ==
  /\ CallOf(m, "join")
  /\ LET a == Arrival(m)
         met == (IF a.instance \in DOMAIN gates THEN gates[a.instance] ELSE {})
                \cup {a.branch}
     IN /\ gates' = (a.instance :> met) @@ gates
        /\ Instead(m, IF Cardinality(met) >= Cardinality(a.expected)
                      THEN completeActivity(m) \o <<Call("deleteGateway", m)>>
                      ELSE << >>)
  /\ UNCHANGED <<pis, history, archived, jobs, completions>>

DeleteGateway(m) ==
  /\ CallOf(m, "deleteGateway")
  /\ Proceed(m)
  /\ gates' = Forget(gates, Arrival(m).instance)
  /\ UNCHANGED <<pis, history, archived, jobs, completions>>

\* The nil job ends the server; the message is delivered again.
Panic(m) ==
  /\ CallOf(m, "panic")
  /\ run' = Forget(run, m)
  /\ UNCHANGED <<inbox, pis, history, archived, jobs, gates, completions,
                 interrupts>>

Step(m) == \/ Publish(m) \/ Record(m) \/ SaveJob(m) \/ RemoveJob(m) \/ GetJob(m)
           \/ CreateProcessInstance(m) \/ Destroy(m) \/ Archive(m)
           \/ SaveGateway(m) \/ Join(m) \/ DeleteGateway(m) \/ Panic(m)

Handle == \/ \E m \in inbox \ DOMAIN run : Deliver(m)
          \/ \E m \in DOMAIN run : Step(m)

\* What is left is refused for ever.
Refused(m) == \/ m.kind = "job" /\ m.act \notin DOMAIN jobs
              \/ /\ m.kind = "gateway" /\ Valid(m.pi)
                 /\ Arrival(m).instance \notin DOMAIN gates
Quiet == run = << >> /\ \A m \in inbox : Refused(m)
Terminating == Quiet /\ UNCHANGED vars

Next == Handle \/ (\E m \in DOMAIN run : Interrupt(m)) \/ Terminating

\* Every message is delivered until it is acknowledged, and the consumers run.
Fairness == WF_vars(Handle)
Spec == Init /\ [][Next]_vars /\ Fairness

---------------------------------------------------------------------------
Kinds == {"traversal", "activity", "job", "jobComplete", "launch", "gateway",
          "gatewayExecute", "process", "terminated"}

\* Every message being handled is still in the stream (common.Process
\* acknowledges last), and every job and message belongs to a known element.
TypeOK ==
  /\ DOMAIN run \subseteq inbox
  /\ \A m \in inbox : m.kind \in Kinds /\ m.el \in Elements /\ m.tries \in Nat
  /\ \A j \in DOMAIN jobs : jobs[j].act = j /\ Type[jobs[j].el] \in {"task", "call"}
  /\ \A h \in history \cup archived :
       h[3] \in {"processExecute", "activityExecute", "activityComplete",
                 "jobExecute", "jobComplete"}
  /\ interrupts \in 0 .. MaxInterrupts

\* A process instance never loses its last token, whatever handlers are
\* interrupted: once its start event has executed and while it has a record, a
\* message that will be accepted, or a called process, carries it on.  (A
\* divergent gateway whose conditions all fail and that has no default flow
\* ends a token in traverse.)
Carried(pi) ==
  \/ \E m \in inbox : m.pi = pi /\ ~Refused(m)
  \/ \E c \in pis : c.job \in DOMAIN jobs /\ jobs[c.job].pi = pi
AlwaysATarget ==
  \A e \in Elements : Type[e] = "end" \/ Default[e] \cup (Outbound[e] \ Conditional[e]) # {}
TokensCarriedOn ==
  AlwaysATarget => \A pi \in pis :
    (\E h \in history : h[1] = pi /\ h[3] = "activityExecute") => Carried(pi)

\* The activity of an open job is in the history of its running process:
\* completeJobProcessor drops the completion of a job without one.
JobsCanComplete ==
  \A j \in DOMAIN jobs : jobs[j].pi \in pis => <<jobs[j].pi, j, "activityExecute">> \in history

\* An activity other than a call is completed once when no handler is
\* interrupted: activityCompleteProcessor traverses its outbound flows for every
\* ActivityComplete.
CompletesOnce ==
  interrupts = 0 =>
    \A a \in DOMAIN completions : Type[a[1]] # "call" => completions[a] = 1

\* A call activity is completed once too when no handler is interrupted.  The
\* code says of the end of the called process "If we are a sub workflow then
\* complete the parent job" (engine.go:716).
CallCompletesOnce ==
  interrupts = 0 =>
    \A a \in DOMAIN completions : Type[a[1]] = "call" => completions[a] = 1

\* A call activity goes on only when the process it called is at its end event
\* ("If we are a sub workflow then complete the parent job").
CallWaitsForProcess ==
  \A c \in pis :
    (IsChild(c) /\ \E a \in DOMAIN completions : a[2] = c.job) =>
    \E m \in DOMAIN run : m.pi = c /\ m.kind = "activity" /\ Type[m.el] = "end"

\* Every process instance reaches its end and is removed.
ProcessEnds == <>[](pis = {})
=============================================================================
