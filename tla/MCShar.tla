------------------------------ MODULE MCShar ------------------------------
(* One run over several parts of SHAR.  The initial state chooses a part    *)
(* and an instance of it; from then on only that part moves.  The part      *)
(* "update" is OptimisticUpdate and has the variables of that module; the   *)
(* others take turns in using v1 to v14, which hold 0 where the part does   *)
(* not need them.                                                           *)
EXTENDS OptimisticUpdate, SharServers, SharRecords, SharUpdates, SharStores, Integers, Sequences

allVars == <<part, vars, pool>>

\* The key of OptimisticUpdate while another part is chosen.
Idle == Init /\ intact = "no"
Zero8 == Idle /\ v8 = 0 /\ v9 = 0 /\ v10 = 0 /\ v11 = 0 /\ v12 = 0 /\ v13 = 0 /\ v14 = 0
Zero10 == Idle /\ v10 = 0 /\ v11 = 0 /\ v12 = 0 /\ v13 = 0 /\ v14 = 0
Zero12 == Idle /\ v12 = 0 /\ v13 = 0 /\ v14 = 0
Zero13 == Idle /\ v13 = 0 /\ v14 = 0

\* What a part leaves alone: the variables from a number on.
From6 == UNCHANGED <<part, vars, v6, v7, v8, v9, v10, v11, v12, v13, v14>>
From8 == UNCHANGED <<part, vars, v8, v9, v10, v11, v12, v13, v14>>
From10 == UNCHANGED <<part, vars, v10, v11, v12, v13, v14>>
From11 == UNCHANGED <<part, vars, v11, v12, v13, v14>>
From12 == UNCHANGED <<part, vars, v12, v13, v14>>
From13 == UNCHANGED <<part, vars, v13, v14>>
From15 == UNCHANGED <<part, vars>>

---------------------------------------------------------------------------
(* OptimisticUpdate: three updates and a deletion.                          *)
OInit == /\ part = "update" /\ Init
         /\ v1 = 0 /\ v2 = 0 /\ v3 = 0 /\ v4 = 0 /\ v5 = 0 /\ v6 = 0 /\ v7 = 0 /\ v8 = 0
         /\ v9 = 0 /\ v10 = 0 /\ v11 = 0 /\ v12 = 0 /\ v13 = 0 /\ v14 = 0
ONext == part = "update" /\ Next /\ UNCHANGED <<part, pool>>
OStep == /\ part = "update" /\ UNCHANGED <<part, pool>>
         /\ (\E u \in Updaters : Call(u)) \/ (\E d \in Deleters : Delete(d))

---------------------------------------------------------------------------
(* Compensation: two tasks in sequence, a task in parallel with the event,  *)
(* and faults where there is one task only.                                 *)
Flows == {<< <<"a", "b">>, {}, 0 >>, << <<>>, {"c"}, 1 >>,
          << <<"a">>, {}, 1 >>, << <<"a">>, {"c"}, 0 >>}

C == INSTANCE Compensation WITH
       Compensable <- {"a", "b", "c"}, flow <- v1, aside <- v2, started <- v3, completed <- v4,
       history <- v5, due <- v6, msgs <- v7, plans <- v8, performed <- v9, ended <- v10,
       faults <- v11

CInit == part = "compensation" /\ C!Init /\ Zero12
CNext == part = "compensation" /\ C!Next /\ From12

---------------------------------------------------------------------------
(* ServiceTask: each error action, and each way for a function to end.      *)
Task(outcomes, action, retries, faults) ==
  [outcomes |-> outcomes, action |-> action, retries |-> retries, faults |-> faults]
ServiceTasks == {Task({"ok", "error"}, "FailWorkflow", 0, 1),
                 Task({"ok", "error"}, "ThrowWorkflowError", 0, 0),
                 Task({"ok", "error"}, "PauseWorkflow", 1, 0),
                 Task({"ok", "error"}, "SetVariableValue", 0, 0),
                 Task({"ok", "panic"}, "FailWorkflow", 0, 0),
                 Task({"caught"}, "FailWorkflow", 0, 0),
                 Task({"uncaught", "unknown"}, "PauseWorkflow", 0, 0)}

S == INSTANCE ServiceTask WITH
       Scenarios <- ServiceTasks, Number <- 2, scenario <- v1, jobs <- v2, calls <- v3,
       inbox <- v4, retrying <- v5, fatal <- v6, process <- v7, completed <- v8,
       caught <- v9, retries <- v10, faults <- v11

SInit == part = "serviceTask" /\ S!Init /\ Zero12
SNext == part = "serviceTask" /\ S!Next /\ From12

---------------------------------------------------------------------------
(* UserTasks: an owner with and without an identifier, two owners, and none. *)
Owned(owners, users, known) == [owners |-> owners, users |-> users, known |-> known]
MCUserTasks ==
  {Owned(<<"alice">>, {"alice"}, TRUE), Owned(<<"alice">>, {"alice"}, FALSE),
   Owned(<<"alice", "staff">>, {"alice", "staff"}, TRUE), Owned(<<>>, {"alice"}, TRUE)}

UInit == part = "userTask" /\ U!Init /\ Zero10
UNext == part = "userTask" /\ U!Next /\ From10

---------------------------------------------------------------------------
(* Timers: repeated, due and not due, and at a boundary.                    *)
Timer(kind, value, repeat, faults, ends) ==
  [kind |-> kind, value |-> value, repeat |-> repeat, faults |-> faults, ns |-> "default",
   ends |-> ends, outlived |-> FALSE]
Boundary(faults, ends) == Timer("boundary", 2, 0, faults, ends)
TimerCases == {Timer("duration", 2, 3, 0, FALSE), Timer("duration", 1, 2, 1, FALSE),
               Timer("duration", 2, 0, 0, FALSE), Timer("fixed", 12, 0, 0, FALSE),
               Timer("fixed", 9, 0, 0, FALSE), Boundary(0, FALSE), Boundary(1, TRUE),
               [Boundary(0, FALSE) EXCEPT !.ns = "other"],
               [Boundary(0, TRUE) EXCEPT !.outlived = TRUE]}

T == INSTANCE Timers WITH
       Scenarios <- TimerCases, Epoch <- 10, MaxTime <- 22, AckWait <- 3, MaxFired <- 6,
       Concurrency <- 2, scenario <- v1, now <- v2, timers <- v3, executions <- v4,
       process <- v5, workers <- v6, faults <- v7

TInit == part = "timer" /\ T!Init /\ Zero8
TNext == part = "timer" /\ T!Next /\ From8

---------------------------------------------------------------------------
(* WorkflowStore: the same definition twice, versions that replace each     *)
(* other, workflows that share a process or a message, and launches next to *)
(* the administrator's calls.                                               *)
Proc(id, task) == [id |-> id, task |-> task, valid |-> TRUE]
Workflow(name, hash, process, messages, received, timed) ==
  [name |-> name, hash |-> hash, process |-> process, messages |-> messages,
   received |-> received, timed |-> timed]
A1 == Workflow("A", "a1", <<Proc("p", "t"), Proc("q", "none")>>, {}, {}, TRUE)
A2 == Workflow("A", "a2", <<Proc("p", "t")>>, {}, {}, TRUE)
A3 == Workflow("A", "a3", <<Proc("p", "t")>>, {"m"}, {}, FALSE)
A4 == Workflow("A", "a4", <<Proc("p", "t")>>, {"m"}, {"m"}, FALSE)
B1 == Workflow("B", "b1", <<Proc("r", "none"), Proc("p", "none")>>, {"m"}, {"m"}, FALSE)
B2 == Workflow("B", "b2", <<Proc("r", "none"), [Proc("s", "t") EXCEPT !.valid = FALSE]>>,
               {}, {}, FALSE)
Loads(loads, launch, admin) == [loads |-> loads, launch |-> launch, admin |-> admin]
MCStores ==
  {Loads(<<A1, A1>>, "none", {}), Loads(<<A1, A2, A1>>, "none", {}),
   Loads(<<A1, A2>>, "q", {<<"disable", "A">>}),
   Loads(<<A2>>, "p", {<<"disable", "A">>, <<"deprecate", "t">>}),
   Loads(<<A2>>, "p", {<<"enable", "A">>, <<"register", "t">>}),
   Loads(<<A2, B1>>, "none", {}), Loads(<<A4, A4>>, "none", {}),
   Loads(<<A3, A3>>, "none", {}), Loads(<<B2>>, "r", {})}

WInit == part = "store" /\ W!Init /\ Zero12
WNext == part = "store" /\ W!Next /\ From12

---------------------------------------------------------------------------
(* ApiCall: each thing that can be wrong with a request, each way for the   *)
(* function to end, and a client that gives up at each result.              *)
Unary(request, fn, recovery) ==
  [stream |-> FALSE, request |-> request, fn |-> fn, n |-> 1, reject |-> 0, up |-> TRUE,
   recovery |-> recovery]
Stream(request, fn, n, reject) ==
  [stream |-> TRUE, request |-> request, fn |-> fn, n |-> n, reject |-> reject, up |-> TRUE,
   recovery |-> TRUE]
Requests == {"ok", "version", "middleware", "unmarshal", "header"}
Endings == {"ok", "error", "fatal", "panic"}
ApiCalls ==
  {Unary(q, "ok", TRUE) : q \in Requests} \cup {Stream(q, "ok", 2, 0) : q \in Requests}
  \cup {Unary("ok", f, r) : f \in Endings, r \in BOOLEAN}
  \cup {Stream("ok", f, 2, r) : f \in Endings, r \in 0 .. 2}
  \cup {[c EXCEPT !.up = FALSE] : c \in {Unary("ok", "ok", TRUE), Stream("ok", "ok", 2, 0)}}

A == INSTANCE ApiCall WITH
       Scenarios <- ApiCalls, scenario <- v1, handler <- v2, relay <- v3, fn <- v4,
       iErrs <- v5, retErr <- v6, wire <- v7, callback <- v8, errs <- v9, client <- v10,
       cancel <- v11, crashed <- v12

AInit == part = "apiCall" /\ A!Init /\ Zero13
ANext == part = "apiCall" /\ A!Next /\ From13

---------------------------------------------------------------------------
(* Consumer: each kind of message, each outcome of the function, with and   *)
(* without a backoff, and a shutdown of each kind.                          *)
Consumed(kind, outcome, backoff, faults) ==
  [kind |-> kind, outcome |-> outcome, backoff |-> backoff, stops |-> FALSE, exits |-> FALSE,
   own |-> FALSE, faults |-> faults]
Two == [m1 |-> "good", m2 |-> "good"]
MCConsumers ==
  {Consumed([m1 |-> "good", m2 |-> "embargo"], {"done"}, FALSE, 1),
   Consumed([m1 |-> "badEmbargo"], {"done"}, FALSE, 0),
   Consumed([m1 |-> "noNamespace", m2 |-> "badHeader"], {"done"}, FALSE, 0),
   Consumed([m1 |-> "good", m2 |-> "middleware"], {"done"}, FALSE, 0),
   Consumed([m1 |-> "good"], {"done", "retry", "fail", "fatal"}, TRUE, 0),
   Consumed([m1 |-> "good"], {"done", "retry", "fail", "fatal"}, FALSE, 0),
   Consumed([m1 |-> "good"], {"done", "fatalNoState", "failDone"}, FALSE, 0),
   [Consumed(Two, {"done"}, TRUE, 0) EXCEPT !.stops = TRUE],
   [Consumed(Two, {"done"}, TRUE, 1) EXCEPT !.stops = TRUE, !.exits = TRUE],
   [Consumed([m1 |-> "good"], {"done"}, FALSE, 0) EXCEPT !.stops = TRUE, !.own = TRUE]}

KInit == part = "consumer" /\ K!Init /\ Zero13
KNext == part = "consumer" /\ K!Next /\ From13

---------------------------------------------------------------------------
(* Locks: updates next to each other call on a large object, and PublishOnce *)
(* of servers that start together or one after another.                     *)
Locked(op, serial, slow, faults, deaths, timeouts) ==
  [op |-> op, serial |-> serial, slow |-> slow, faults |-> faults, deaths |-> deaths,
   timeouts |-> timeouts]
MCLocks ==
  {Locked([c1 |-> "update", c2 |-> "update"], FALSE, 0, 0, 1, 0),
   Locked([c1 |-> "update", c2 |-> "update", c3 |-> "load"], TRUE, 0, 1, 1, 0),
   Locked([c1 |-> "update", c2 |-> "save", c3 |-> "delete"], FALSE, 0, 0, 0, 1),
   Locked([c1 |-> "update", c2 |-> "load"], FALSE, 1, 1, 0, 0),
   Locked([c1 |-> "save", c2 |-> "delete"], FALSE, 1, 1, 1, 1),
   Locked([c1 |-> "once", c2 |-> "once"], TRUE, 1, 1, 1, 0),
   Locked([c1 |-> "once", c2 |-> "once"], FALSE, 1, 0, 1, 0)}

LInit == part = "lock" /\ L!Init /\ Zero10
LNext == part = "lock" /\ L!Next /\ From10

---------------------------------------------------------------------------
(* Parser: a start, a gateway g that may open, a gateway h that may join,   *)
(* two tasks and an end, connected in many ways; and a pair of link events. *)
Elements == {"s", "g", "h", "a", "b", "e"}
Graph(type, kind, out, in, outputs) ==
  [type |-> [s |-> "start", g |-> "gateway", h |-> "gateway", a |-> type[1], b |-> type[2],
             e |-> "end"],
   gateway |-> [x \in Elements |-> IF x = "g" THEN kind[1] ELSE IF x = "h" THEN kind[2] ELSE "none"],
   out |-> out, inputs |-> [x \in Elements |-> IF x = in THEN {"v"} ELSE {}],
   outputs |-> [x \in Elements |-> IF x \in outputs THEN {"v"} ELSE {}],
   order |-> <<"s", "g", "h", "a", "b", "e">>]
Tagged == {Graph(<<"task", "task">>, kind, [s |-> so, g |-> go, h |-> ho, a |-> ao, b |-> bo, e |-> <<>>],
                 in, outputs) :
             kind \in {<<"exclusive", "exclusive">>, <<"exclusive", "parallel">>,
                       <<"parallel", "parallel">>},
             so \in {<<"g">>, <<"g", "b">>},
             go \in {<<"a", "b">>, <<"a", "h">>, <<"b", "h", "a">>},
             ho \in {<<"e">>, <<"g", "e">>},
             ao \in {<<"h">>, <<"g">>, <<>>, <<"h", "e">>},
             bo \in {<<"h">>, <<"e">>},
             in \in {"b", "h"}, outputs \in {{"a"}, {"s"}}}
Linked == {Graph(<<t, "linkCatch">>, <<"exclusive", "exclusive">>,
                 [s |-> <<"g">>, g |-> <<"a", "h">>, h |-> <<"e">>, a |-> <<>>, b |-> bo, e |-> <<>>],
                 "none", {}) : t \in {"linkThrow", "end"}, bo \in {<<"h">>, <<"e">>}}

P == INSTANCE Parser WITH
       Processes <- Tagged \cup Linked, Fuel <- 8, process <- v1, stage <- v2, direction <- v3,
       reciprocal <- v4, transform <- v5

PInit == part = "parser" /\ P!Init /\ v6 = 0 /\ v7 = 0 /\ Zero8
PNext == part = "parser" /\ P!Next /\ From6

---------------------------------------------------------------------------
(* History: one or two copies of ProcessTerminated, next to a reader.       *)
Recorded(writes, deletes, early, reads, interrupts) ==
  [writes |-> writes, deletes |-> deletes, early |-> early, reads |-> reads,
   interrupts |-> interrupts]
Job == << <<"j", "jobExecute">>, <<"j", "jobComplete">> >>
Aborted == << <<"a", "activityExecute">>, <<"j", "jobExecute">>, <<"j", "jobAbort">> >>
Beside == << <<"a", "activityExecute">>, <<"b", "activityExecute">>, <<"b", "activityComplete">> >>
MCHistories ==
  {Recorded(Aborted, 1, FALSE, "none", 1), Recorded(Aborted, 2, FALSE, "none", 0),
   Recorded(Job, 1, TRUE, "active", 0), Recorded(Aborted, 1, FALSE, "active", 0),
   Recorded(Beside, 1, FALSE, "active", 0), Recorded(Job, 1, FALSE, "history", 1)}

HInit == part = "history" /\ H!Init /\ v11 = 0 /\ Zero12
HNext == part = "history" /\ H!Next /\ From11

---------------------------------------------------------------------------
(* Telemetry: a process in an execution, and an end that comes twice.       *)
State(id, scope, phase) == [id |-> id, scope |-> scope, phase |-> phase]
Traced(stream, faults, late, crashes) ==
  [stream |-> stream, faults |-> faults, late |-> late, crashes |-> crashes]
Traces ==
  {Traced(<<State("x", "execution", "start"), State("p", "process", "start"),
            State("a", "activity", "start"), State("j", "job", "start"),
            State("j", "job", "end"), State("a", "activity", "end"),
            State("p", "process", "end"), State("x", "execution", "end")>>, 1, 0, 0),
   Traced(<<State("a", "activity", "start"), State("t", "traversal", "start"),
            State("a", "activity", "end"), State("a", "activity", "end")>>, 0, 1, 1)}

E == INSTANCE Telemetry WITH
       Scenarios <- Traces, scenario <- v1, next <- v2, pc <- v3, tracking <- v4, spans <- v5,
       active <- v6, budget <- v7

EInit == part = "telemetry" /\ E!Init /\ Zero8
ENext == part = "telemetry" /\ E!Next /\ From8

---------------------------------------------------------------------------
(* Gateway: a parallel gateway, and an exclusive one with conditions that   *)
(* exclude each other; a handler is interrupted.                            *)
Paths == {"b1", "b2"}

G == INSTANCE Gateway WITH
       Gateways <- {"g1", "g2"}, Branches <- Paths,
       GatewayType <- [g1 |-> "parallel", g2 |-> "exclusive"],
       Choices <- [g1 |-> {Paths}, g2 |-> {{b} : b \in Paths}],
       Base <- [x |-> 0, y |-> 0, z |-> 0],
       BranchVars <- [b1 |-> [x |-> 1, y |-> 0, z |-> 1],
                      b2 |-> [x |-> 0, y |-> 2, z |-> 2, fresh |-> 2]],
       MaxCrashes <- 1, MaxRepublish <- 0, MayCancel <- FALSE,
       expected <- v1, gw <- v2, pi <- v3, arrived <- v4, activation <- v5, pc <- v6,
       local <- v7, published <- v8, crashes <- v9, republished <- v10

GInit == part = "gateway" /\ G!Init /\ v11 = 0 /\ Zero12
GNext == part = "gateway" /\ G!Next /\ From11
GStep == \/ \E g \in {"g1", "g2"} : G!Diverge(g) \/ \E b \in Paths : G!Arrive(g, b)
         \/ G!Activate \/ \E m \in G!Messages : G!Handle(m)

---------------------------------------------------------------------------
(* ExecutionLifecycle: a launch of two processes that may be interrupted, and *)
(* during which the first may be cancelled ...                              *)
X == INSTANCE ExecutionLifecycle WITH
       Order <- <<"p1", "p2">>, EarlyEnds <- {TRUE}, Cancelled <- {"p1"}, Fatal <- {},
       MaxInterrupts <- 1, exec <- v1, pis <- v2, started <- v3, removed <- v4,
       terminated <- v5, completions <- v6, lpc <- v7, launched <- v8, stale <- v9, pc <- v10,
       target <- v11, left <- v12, todo <- v13, interrupts <- v14, early <- part = "launch"

\* ... and the end of two processes, of which one may meet a fatal error.
D == INSTANCE ExecutionLifecycle WITH
       Order <- <<"p1", "p2">>, EarlyEnds <- {FALSE}, Cancelled <- {}, Fatal <- {"p1"},
       MaxInterrupts <- 0, exec <- v1, pis <- v2, started <- v3, removed <- v4,
       terminated <- v5, completions <- v6, lpc <- v7, launched <- v8, stale <- v9, pc <- v10,
       target <- v11, left <- v12, todo <- v13, interrupts <- v14, early <- part = "launch"

XInit == part = "launch" /\ X!Init /\ Idle
XNext == part = "launch" /\ From15 /\ X!Next
DInit == part = "end" /\ D!Init /\ Idle
DNext == part = "end" /\ From15 /\ D!Next
DStep == \/ D!Launch \/ (\E p \in {"p1", "p2"} : D!ReachEnd(p))
         \/ (\E a \in D!Destroyers : D!Handle(a))

---------------------------------------------------------------------------
(* Startup: servers of three releases and clients over a fresh, an older and *)
(* a current JetStream, one after another and at once; requests for new      *)
(* namespaces, alone and next to DeleteNamespace.                            *)
Server(ver) == [kind |-> "server", ver |-> ver, ns |-> "default"]
Client(ver) == [kind |-> "client", ver |-> ver, ns |-> "default"]
Request(ns) == [kind |-> "request", ver |-> 3, ns |-> ns]
Objects(there, ver, desc) ==
  LET object == [there |-> there, ver |-> ver, desc |-> desc]
  IN  [stream |-> object, consumer |-> object,
       terminal |-> [there |-> FALSE, ver |-> 0, desc |-> 0]]
Started(found, serial, faults, starting) ==
  [agents |-> starting, objects |-> found, buckets |-> {}, serial |-> serial,
   deletes |-> FALSE, faults |-> faults]
Requested(deletes, faults, requests) ==
  [agents |-> requests, objects |-> Objects(TRUE, 3, 0), buckets |-> {"default"}, serial |-> FALSE,
   deletes |-> deletes, faults |-> faults]
MCStartups ==
  {Started(found, TRUE, 1, <<Server(2), Server(3), Server(1)>>) :
     found \in {Objects(FALSE, 0, 0), Objects(TRUE, 0, 1), Objects(TRUE, 2, 0)}}
  \cup {Started(Objects(TRUE, 0, 1), FALSE, 1, <<Server(2), Server(3)>>),
        Started(Objects(FALSE, 0, 0), FALSE, 0, <<Server(2), Server(3), Client(2)>>),
        Started(Objects(TRUE, 2, 0), FALSE, 1, <<Client(2), Client(3)>>),
        Requested(FALSE, 2, <<Request("n"), Request("n"), Request("o")>>),
        Requested(TRUE, 0, <<Request("n"), Request("default")>>)}

MCBuckets == <<"job", "lock">>

IInit == part = "startup" /\ I!Init /\ Zero10
INext == part = "startup" /\ I!Next /\ From10

---------------------------------------------------------------------------
SharInit == \/ CInit \/ SInit \/ UInit \/ TInit \/ WInit \/ AInit \/ OInit \/ KInit \/ LInit
            \/ PInit \/ HInit \/ EInit \/ GInit \/ XInit \/ DInit \/ IInit
SharNext == \/ CNext \/ SNext \/ UNext \/ TNext \/ WNext \/ ANext \/ ONext \/ KNext \/ LNext
            \/ PNext \/ HNext \/ ENext \/ GNext \/ XNext \/ DNext \/ INext

\* The fairness of the part that was chosen: at most four actions of each.
Fair(i) ==
  \/ i = 1 /\ \/ part = "compensation" /\ C!Step /\ From12
              \/ part = "serviceTask" /\ S!Step /\ From12
              \/ part = "timer" /\ T!Step /\ From8
              \/ part = "apiCall" /\ A!ServerStep /\ From13
              \/ part = "consumer" /\ K!Step("w1") /\ From13
              \/ part = "gateway" /\ GStep /\ From11
              \/ part = "end" /\ From15 /\ DStep
              \/ OStep
  \/ i = 2 /\ \/ part = "apiCall" /\ A!ClientStep /\ From13
              \/ part = "consumer" /\ K!Step("w2") /\ From13
  \/ i = 3 /\ \/ part = "apiCall" /\ A!Timeout /\ From13
              \/ part = "consumer" /\ K!Delivery /\ From13
  \/ i = 4 /\ part = "consumer" /\ (K!Stop \/ K!ShutdownReturns) /\ From13

SharSpec == SharInit /\ [][SharNext]_allVars /\ \A i \in 1 .. 4 : WF_allVars(Fair(i))

---------------------------------------------------------------------------
(* Properties: those of the part that was chosen.                          *)

\* Each part keeps the types of its state: no more timers are handled than there
\* are goroutines, a call of a job belongs to a delivery, a step of a plan is one
\* of its entries.
PartsTypeOK == CASE part = "compensation" -> C!TypeOK
                 [] part = "serviceTask" -> S!TypeOK
                 [] part = "userTask" -> U!TypeOK
                 [] part = "timer" -> T!TypeOK
                 [] part = "store" -> W!TypeOK
                 [] part = "apiCall" -> A!TypeOK
                 [] part = "consumer" -> K!TypeOK
                 [] part = "lock" -> L!TypeOK
                 [] part = "parser" -> P!TypeOK
                 [] part = "history" -> H!TypeOK
                 [] part = "telemetry" -> E!TypeOK
                 [] part = "gateway" -> G!TypeOK
                 [] part = "startup" -> I!TypeOK
                 [] part = "launch" -> X!TypeOK
                 [] part = "end" -> D!TypeOK
                 [] OTHER -> TypeOK

\* Only tasks that completed are compensated, whatever is interrupted; as long as
\* nothing is, one by one in the reverse order of their start (the plan of
\* Compensate), none of them twice.
CompensatesInReverse == part = "compensation" => C!CompensatesInReverse

\* A process with something to compensate ends, if nothing is interrupted, and
\* then what was on record as completed at the event has been compensated.
CompensationCompletes ==
  (part = "compensation" /\ v6 # {}) ~> (part = "compensation" /\ (C!Undone \/ v11 > 0))

\* A task whose function raises no workflow error leaves its element once: by
\* completion or by the error its retry policy throws, also when it is retried.
LeavesOnce == part = "serviceTask" => S!LeavesOnce

\* Each job's message is acknowledged or terminated by the client in the end, and
\* then the activity was left, or its pause is on record (until the first retry).
EveryJobDealtWith == <>[](part = "serviceTask" => S!DealtWith)

\* timedExecuteProcessor fires nothing before its time, nor more often than the
\* repeat count of a cycle, or once at a boundary, if nothing is interrupted.
FiresOnSchedule == part = "timer" => T!FiresOnSchedule

\* A cycle comes to its repeat count and a boundary timer is traversed, if its
\* process still runs and is in the default namespace.
FiresInTheEnd == <>(part = "timer" => T!Fired)

\* A client of the API gets the results in order, and a call that returns without
\* an error was carried out and its stream received to the end, unless its header
\* cannot be decoded or nobody listens.
SuccessIsReal == part = "apiCall" => A!SuccessIsReal

\* A call returns, unless it is a stream whose server is missing or has
\* crashed.
CallReturns == <>(part = "apiCall" => A!Returned)

\* In a process that Parse accepts, every way to a join goes through its opening
\* gateway, one of the same type (tagReciprocal).
JoinsHaveAnOpening == part = "parser" => P!JoinsHaveAnOpening

\* checkVariables refuses exactly the processes in which some way to an element
\* leaves a variable of it without a value (parallel joins apart).
VariablesChecked == part = "parser" => P!VariablesChecked

\* Parsing a process without loops whose branches come to their joins does not
\* crash, and the join of an accepted process has the outputs of its branches,
\* unless the split leads to the join directly.
JoinKeepsOutputs == part = "parser" => P!JoinKeepsOutputs

\* The telemetry server loses no span to a restart or a late acknowledgement, and
\* exports none twice unless it restarts, as long as no operation failed.
SpansExact == part = "telemetry" => E!SpansExact

\* Every gateway that opens is completed in the end, although all gateways share
\* one activation message in flight and a handler may be interrupted.
JoinsComplete ==
  \A g \in {"g1", "g2"} :
    (part = "gateway" /\ v1[g] # {}) ~> (part = "gateway" /\ (v8[g] # <<>> \/ v3 # "live"))

\* A process that has started has its record until destroyProcessInstance takes
\* it off the list of its execution, also when the launch is interrupted or the
\* process is cancelled during it.
RecordsOutliveProcesses == part = "launch" => X!RecordsOutliveProcesses

\* The execution and all its process instances go in the end, whether the
\* processes end by themselves, are torn down, or both.
EventuallyRemoved == <>[](part = "end" => ~v1.present /\ v2 = {})

\* An error that the element catches is dealt with: the message is done, the
\* element is left once, and the retry policy does not cancel the process.
CaughtIsDone == part = "serviceTask" => S!CaughtIsDone

\* deleteProcessHistory deletes the history of its process, whatever interrupts
\* it.
AlwaysCleared == part = "history" => H!AlwaysCleared
=============================================================================
