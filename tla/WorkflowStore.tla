--------------------------- MODULE WorkflowStore ---------------------------
(***************************************************************************)
(* Workflow definitions: loading them (storeWorkflow), task specifications *)
(* (PutTaskSpec, DeprecateTaskSpec), switching a workflow off and on       *)
(* (makeExecutable), and what LaunchWithParent checks before it creates an *)
(* execution, in operations.go, taskspec.go and server/api/functions.go.   *)
(*                                                                         *)
(* Loads run concurrently.  Each step reads or writes one bucket.          *)
(***************************************************************************)
EXTENDS Naturals, Sequences, FiniteSets, Functions

CONSTANTS Scenarios,  \* [loads, launch, admin]: the definitions that are
                      \* loaded, a process to launch or "none", and the calls
                      \* an administrator makes
          Tasks       \* task specifications that processes use

VARIABLES
  scenario,
  wfProcess,   \* process -> workflow name, "none" for no entry
  wfMsgTypes,  \* message -> workflow that receives it, "" for none, "none"
  wfVersion,   \* workflow name -> [versions, disabled, rev], rev 0 for no entry
  wf,          \* identifiers saved: the load that chose one -> saved or not
  specs,       \* task -> "none", "active" or "deprecated"
  loads,       \* each load: [pc, at, seen, newWf, id, after]
  timers,      \* timed starts published: identifiers
  launch,      \* the launch: [pc, name, id, disabled, deprecated]
  admin,       \* administrator's calls that are left
  conflicts    \* updates of wfVersion that had to start over

store == <<wfProcess, wfMsgTypes, wfVersion, wf, specs>>
vars == <<scenario, store, loads, timers, launch, admin, conflicts>>

Defs == UNION {Range(s.loads) : s \in Scenarios}
Names == {d.name : d \in Defs}
Processes == UNION {{p.id : p \in Range(d.process)} : d \in Defs}
Messages == UNION {d.messages : d \in Defs}
Def(l) == scenario.loads[l]

Init ==
  /\ scenario \in Scenarios
  /\ wfProcess = [p \in Processes |-> "none"]
  /\ wfMsgTypes = [m \in Messages |-> "none"]
  /\ wfVersion = [n \in Names |-> [versions |-> <<>>, disabled |-> FALSE, rev |-> 0]]
  /\ wf = [l \in DOMAIN scenario.loads |-> FALSE]
  /\ specs = [t \in Tasks |-> "active"]
  /\ loads = [l \in DOMAIN scenario.loads |->
       [pc |-> "idle", at |-> 1, seen |-> wfVersion[Def(l).name], newWf |-> FALSE,
        id |-> l, after |-> {}]]
  /\ timers = <<>> /\ conflicts = 0
  /\ launch = [pc |-> "idle", name |-> "none", id |-> 0, disabled |-> {}, deprecated |-> {}]
  /\ admin = scenario.admin

Done(l) == loads[l].pc = "done"
To(l, pc) == loads' = [loads EXCEPT ![l].pc = pc]
LoadOnly == UNCHANGED <<scenario, specs, launch, admin>>

---------------------------------------------------------------------------
(* storeWorkflow.                                                          *)
StartLoad(l) ==
  /\ loads[l].pc = "idle"
  /\ loads' = [loads EXCEPT ![l].pc = "processes", ![l].after = {m \in DOMAIN loads : Done(m)}]
  /\ UNCHANGED <<scenario, store, timers, launch, admin, conflicts>>

\* A process that another workflow has makes the load fail.
validateUniqueProcessIdFor(l) ==
  /\ loads[l].pc = "processes"
  /\ To(l, IF \A p \in Range(Def(l).process) : wfProcess[p.id] \in {"none", Def(l).name}
             THEN "messages" ELSE "failed")
  /\ UNCHANGED <<store, timers, conflicts>> /\ LoadOnly

\* So does a message that is on record for another workflow.  A message that
\* nobody receives is on record for no workflow.
validateUniqueMessageNames(l) ==
  /\ loads[l].pc = "messages"
  /\ To(l, IF \A m \in Def(l).messages : wfMsgTypes[m] \in {"none", Def(l).name}
             THEN "tasks" ELSE "failed")
  /\ UNCHANGED <<store, timers, conflicts>> /\ LoadOnly

\* ProcessServiceTasks: each process in turn, its tasks must be registered and
\* valid, then it is mapped to the workflow.
ProcessServiceTasks(l) ==
  /\ loads[l].pc = "tasks"
  /\ LET p == Def(l).process[loads[l].at]
         last == loads[l].at = Len(Def(l).process)
     IN  IF p.task \in Tasks => specs[p.task] # "none" /\ p.valid
           THEN /\ wfProcess' = [wfProcess EXCEPT ![p.id] = Def(l).name]
                /\ loads' = [loads EXCEPT ![l].at = @ + 1,
                                          ![l].pc = IF last THEN "read" ELSE @]
           ELSE To(l, "failed") /\ UNCHANGED wfProcess
  /\ UNCHANGED <<wfMsgTypes, wfVersion, wf, timers, conflicts>> /\ LoadOnly

Latest(v) == v.versions[Len(v.versions)]

MutNeverSame(l, v) == FALSE

\* bytes.Equal(hash, v.Version[n-1].Sha256)
SameAsLatest(l, v) == v.versions # <<>> /\ Latest(v).hash = Def(l).hash

\* The function given to UpdateObj: a definition other than the latest is saved
\* and added.  wfID and newWf keep their values when it is called again.
ReadVersions(l) ==
  /\ loads[l].pc = "read"
  /\ LET v == wfVersion[Def(l).name]
         same == SameAsLatest(l, v)
     IN  /\ loads' = [loads EXCEPT ![l].pc = "write", ![l].seen = v,
                        ![l].id = IF same THEN Latest(v).id ELSE @,
                        ![l].newWf = @ \/ ~same]
         /\ wf' = IF same THEN wf ELSE [wf EXCEPT ![loads[l].id] = TRUE]
  /\ UNCHANGED <<wfProcess, wfMsgTypes, wfVersion, timers, conflicts>> /\ LoadOnly

Added(l, v) ==
  IF SameAsLatest(l, v) THEN v.versions
  ELSE Append(v.versions, [id |-> loads[l].id, hash |-> Def(l).hash])

\* UpdateObj writes if nobody else has, and starts over if somebody has.
WriteVersions(l) ==
  /\ loads[l].pc = "write"
  /\ LET n == Def(l).name
         v == loads[l].seen
     IN  IF wfVersion[n].rev = v.rev
           THEN /\ wfVersion' = [wfVersion EXCEPT ![n].versions = Added(l, v), ![n].rev = @ + 1]
                /\ To(l, IF loads[l].newWf THEN "buckets" ELSE "done")
                /\ UNCHANGED conflicts
           ELSE /\ To(l, "read") /\ conflicts' = conflicts + 1
                /\ UNCHANGED wfVersion
  /\ UNCHANGED <<wfProcess, wfMsgTypes, wf, timers>> /\ LoadOnly

\* ensureMessageBuckets.
ensureMessageBuckets(l) ==
  /\ loads[l].pc = "buckets"
  /\ wfMsgTypes' = [m \in Messages |->
       IF m \in Def(l).messages THEN IF m \in Def(l).received THEN Def(l).name ELSE ""
       ELSE wfMsgTypes[m]]
  /\ To(l, "timers")
  /\ UNCHANGED <<wfProcess, wfVersion, wf, timers, conflicts>> /\ LoadOnly

\* forEachTimedStartElement.
StartTimers(l) ==
  /\ loads[l].pc = "timers"
  /\ timers' = IF Def(l).timed THEN Append(timers, loads[l].id) ELSE timers
  /\ To(l, "done")
  /\ UNCHANGED <<store, conflicts>> /\ LoadOnly

LoadStep(l) == \/ validateUniqueProcessIdFor(l) \/ validateUniqueMessageNames(l)
               \/ ProcessServiceTasks(l) \/ ReadVersions(l) \/ WriteVersions(l)
               \/ ensureMessageBuckets(l) \/ StartTimers(l)

---------------------------------------------------------------------------
(* LaunchWithParent, up to the creation of the execution.                  *)
LaunchOnly == UNCHANGED <<scenario, store, loads, timers, admin, conflicts>>

\* The switches as they are when the call comes in.
StartLaunch ==
  /\ launch.pc = "idle" /\ scenario.launch # "none"
  /\ launch' = [launch EXCEPT !.pc = "name",
                  !.disabled = {n \in Names : wfVersion[n].disabled},
                  !.deprecated = {t \in Tasks : specs[t] = "deprecated"}]
  /\ LaunchOnly

getWorkflowNameFor ==
  /\ launch.pc = "name"
  /\ LET n == wfProcess[scenario.launch]
     IN  launch' = [launch EXCEPT !.name = n, !.pc = IF n = "none" THEN "failed" ELSE "versions"]
  /\ LaunchOnly

MutIgnoreSwitch ==
  /\ launch.pc = "versions"
  /\ LET v == wfVersion[launch.name]
     IN  launch' = IF v.versions = <<>> THEN [launch EXCEPT !.pc = "panic"]
                   ELSE [launch EXCEPT !.pc = "workflow", !.id = Latest(v).id]
  /\ LaunchOnly

\* The versions are used before the error is looked at, and the latest before
\* there is one.
getWorkflowVersions ==
  /\ launch.pc = "versions"
  /\ LET v == wfVersion[launch.name]
     IN  launch' = CASE v.rev = 0 -> [launch EXCEPT !.pc = "panic"]
                     [] v.rev > 0 /\ v.disabled -> [launch EXCEPT !.pc = "failed"]
                     [] v.rev > 0 /\ ~v.disabled /\ v.versions = <<>> ->
                          [launch EXCEPT !.pc = "panic"]
                     [] OTHER -> [launch EXCEPT !.pc = "workflow", !.id = Latest(v).id]
  /\ LaunchOnly

LaunchTasks ==
  LET d == scenario.loads[launch.id]
  IN  {d.process[i].task : i \in {j \in DOMAIN d.process : d.process[j].id = scenario.launch}}

\* checkProcessTaskDeprecation.  The latest version may not have the process.
checkProcessTaskDeprecation ==
  /\ launch.pc = "workflow"
  /\ launch' = [launch EXCEPT !.pc =
       CASE ~wf[launch.id] -> "failed"
         [] wf[launch.id] /\ LaunchTasks = {} -> "panic"
         [] \E t \in LaunchTasks \cap Tasks : specs[t] = "deprecated" -> "failed"
         [] OTHER -> "launched"]
  /\ LaunchOnly

LaunchStep == getWorkflowNameFor \/ getWorkflowVersions \/ checkProcessTaskDeprecation

---------------------------------------------------------------------------
(* The administrator.                                                      *)
makeExecutable(n, disabled) ==
  /\ <<IF disabled THEN "disable" ELSE "enable", n>> \in admin
  /\ admin' = admin \ {<<IF disabled THEN "disable" ELSE "enable", n>>}
  /\ wfVersion' = [wfVersion EXCEPT ![n].disabled = disabled, ![n].rev = @ + 1]
  /\ UNCHANGED <<scenario, wfProcess, wfMsgTypes, wf, specs, loads, timers, launch, conflicts>>

\* deprecateServiceTask looks for process instances that run first: any one of
\* them, whatever its tasks are.
GetTaskSpecUsage(t) ==
  /\ <<"deprecate", t>> \in admin
  /\ admin' = (admin \ {<<"deprecate", t>>})
              \cup (IF launch.pc = "launched" THEN {} ELSE {<<"mark", t>>})
  /\ UNCHANGED <<scenario, store, loads, timers, launch, conflicts>>

DeprecateTaskSpec(t) ==
  /\ <<"mark", t>> \in admin
  /\ admin' = admin \ {<<"mark", t>>}
  /\ specs' = [specs EXCEPT ![t] = "deprecated"]
  /\ UNCHANGED <<scenario, wfProcess, wfMsgTypes, wfVersion, wf, loads, timers, launch, conflicts>>

\* PutTaskSpec saves the specification, also over one that is deprecated.
PutTaskSpec(t) ==
  /\ <<"register", t>> \in admin
  /\ admin' = admin \ {<<"register", t>>}
  /\ specs' = [specs EXCEPT ![t] = "active"]
  /\ UNCHANGED <<scenario, wfProcess, wfMsgTypes, wfVersion, wf, loads, timers, launch, conflicts>>

AdminStep == \/ \E n \in Names, d \in BOOLEAN : makeExecutable(n, d)
             \/ \E t \in Tasks : GetTaskSpecUsage(t) \/ DeprecateTaskSpec(t) \/ PutTaskSpec(t)

Ended(l) == loads[l].pc \in {"done", "failed"}
Terminating == /\ \A l \in DOMAIN loads : Ended(l)
               /\ admin = {} /\ launch.pc \in {"idle", "launched", "failed", "panic"}
               /\ UNCHANGED vars

Next == \/ \E l \in DOMAIN loads : StartLoad(l) \/ LoadStep(l)
        \/ StartLaunch \/ LaunchStep \/ AdminStep \/ Terminating

Step == LaunchStep \/ \E l \in DOMAIN loads : LoadStep(l)

Spec == Init /\ [][Next]_vars /\ WF_vars(Step)

---------------------------------------------------------------------------
(* Properties.                                                             *)

\* Loads and the launch keep their types.
TypeOK ==
  /\ \A l \in DOMAIN loads :
       /\ loads[l].pc \in {"idle", "processes", "messages", "tasks", "read", "write",
                           "buckets", "timers", "done", "failed"}
       /\ loads[l].id \in DOMAIN loads /\ loads[l].after \subseteq DOMAIN loads
  /\ wfProcess \in [Processes -> Names \cup {"none"}]
  /\ specs \in [Tasks -> {"none", "active", "deprecated"}]
  /\ launch.pc \in {"idle", "name", "versions", "workflow", "launched", "failed", "panic"}

TimersOf(id) == Cardinality({i \in DOMAIN timers : timers[i] = id})
AllEnded == \A l \in DOMAIN loads : Ended(l)

\* Every version on a list has its definition stored, whoever saved it and
\* however often an update started over.  Loading a definition that is the latest
\* already adds no version, also when it is loaded twice at the same time.  When
\* the loads are over, each version of a timed workflow has one timer, provided
\* no update had to start over.
VersionsConsistent ==
  \A n \in Names : \A i \in DOMAIN wfVersion[n].versions :
    LET v == wfVersion[n].versions[i]
    IN  /\ wf[v.id]
        /\ i > 1 => v.hash # wfVersion[n].versions[i - 1].hash
        /\ AllEnded /\ conflicts = 0 /\ Def(v.id).timed => TimersOf(v.id) = 1

\* Nothing is launched that was switched off, or had a deprecated task, when
\* the call came in and has not been switched on again.
LaunchAllowed ==
  launch.pc = "launched" /\ scenario.admin \cap ({"enable", "register"} \X (Names \cup Tasks)) = {} =>
    launch.name \notin launch.disabled /\ LaunchTasks \cap launch.deprecated = {}
=============================================================================
