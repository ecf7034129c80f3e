------------------------------ MODULE Startup ------------------------------
(***************************************************************************)
(* What servers and clients do to JetStream before they work with it       *)
(* (common/setup/nats_setup.go, with the patches of common/setup/upgrader, *)
(* Dial of client/client.go), the buckets of a namespace as                *)
(* server/services/natz/natz.go opens them on their first use, and         *)
(* DeleteNamespace of internal/server/workflow/operations.go.              *)
(*                                                                         *)
(* An agent is a server or a client that starts, or a request that needs   *)
(* the buckets of its namespace, on a server that is up.  The stream and   *)
(* its consumers carry the version of the server that wrote them in their  *)
(* metadata; older releases had it in the description.  Each call on       *)
(* JetStream is a step: two agents may both find a thing missing.          *)
(***************************************************************************)
EXTENDS Naturals, Sequences, Functions

CONSTANTS Scenarios,   \* agents, each [kind, ver, ns]; objects, what is there
                       \* at first; buckets, the namespaces that are there;
                       \* serial, agents one after another; deletes, whether
                       \* DeleteNamespace is called; faults, calls that fail
                       \* and agents that stop
          Buckets,     \* the buckets of a namespace, in configuration order
          Patches      \* versions that have a patch

VARIABLES
  scenario,
  objects,     \* "stream", "consumer" and "terminal", a client's own consumer:
               \* there, the version in the metadata and in the description
  patched,     \* patches that were run over the data
  buckets,     \* <<namespace, bucket>>
  agents,
  sharKvs,     \* namespaces the server keeps handles for
  mutex,       \* the request that holds Rwmx for writing, 0 for none
  admin,       \* DeleteNamespace
  faults

vars == <<scenario, objects, patched, buckets, agents, sharKvs, mutex, admin, faults>>

Agents == DOMAIN scenario.agents
Kind(i) == scenario.agents[i].kind
Ver(i) == scenario.agents[i].ver
Missing == [there |-> FALSE, ver |-> 0, desc |-> 0]

\* What an agent ensures before it comes to the buckets.
Objects(i) == CASE Kind(i) = "server" -> <<"stream", "consumer">>
                [] Kind(i) = "client" -> <<"terminal">>
                [] OTHER -> <<>>
Object(i) == Objects(i)[agents[i].at]

Init ==
  /\ scenario \in Scenarios
  /\ objects = scenario.objects /\ patched = {}
  /\ buckets = scenario.buckets \X Range(Buckets)
  /\ agents = [i \in Agents |-> [pc |-> "idle", at |-> 1, seen |-> Missing, todo |-> <<>>]]
  /\ sharKvs = scenario.buckets /\ mutex = 0
  /\ admin = [pc |-> IF scenario.deletes THEN "list" ELSE "none", todo |-> {}]
  /\ faults = 0

At(i, pc) == agents[i].pc = pc
Goto(i, pc) == agents' = [agents EXCEPT ![i].pc = pc]
Over(i) == agents[i].pc \in {"idle", "up", "failed"}
Ensure(i, namespaces) ==
  agents' = [agents EXCEPT ![i].pc = "bucket", ![i].todo = namespaces]

Start(i) ==
  /\ At(i, "idle") /\ (scenario.serial => \A j \in Agents : Over(j))
  /\ Goto(i, IF Kind(i) = "request" THEN "check" ELSE "look")
  /\ UNCHANGED <<scenario, objects, patched, buckets, sharKvs, mutex, admin, faults>>

---------------------------------------------------------------------------
(* EnsureStream and EnsureConsumer.                                        *)

\* A thing without a version in its metadata is upgraded, and one that has the
\* same version is written again.
requiresUpgrade(old, new) == old = 0 \/ new >= old

\* setup.Nats has one object after the other, then the buckets; a second round of
\* EnsureBuckets is that of initNamespacedKvs.  Dial is over.
Ensured(i) ==
  IF agents[i].at < Len(Objects(i))
    THEN agents' = [agents EXCEPT ![i].pc = "look", ![i].at = @ + 1]
    ELSE IF Kind(i) = "server" THEN Ensure(i, Buckets \o Buckets) ELSE Goto(i, "up")

Look(i) ==
  /\ At(i, "look")
  /\ LET seen == objects[Object(i)]
         upgrade == Kind(i) = "server" /\ requiresUpgrade(seen.ver, Ver(i))
     IN  IF seen.there /\ ~upgrade THEN Ensured(i)
         ELSE agents' = [agents EXCEPT ![i].seen = seen,
                           ![i].pc = IF ~seen.there THEN "create"
                                     ELSE IF Object(i) = "stream" THEN "patch" ELSE "write"]
  /\ UNCHANGED <<scenario, objects, patched, buckets, sharKvs, mutex, admin, faults>>

Stamp(i) == [there |-> TRUE, ver |-> Ver(i), desc |-> 0]

\* CreateStream and CreateConsumer succeed over an equal object and are refused
\* over another one.
Create(i) ==
  /\ At(i, "create")
  /\ IF objects[Object(i)] \in {Missing, Stamp(i)}
       THEN objects' = [objects EXCEPT ![Object(i)] = Stamp(i)] /\ Ensured(i)
       ELSE Goto(i, "failed") /\ UNCHANGED objects
  /\ UNCHANGED <<scenario, patched, buckets, sharKvs, mutex, admin, faults>>

MutPatchNothing(i) ==
  /\ At(i, "patch") /\ Goto(i, "write")
  /\ UNCHANGED <<scenario, objects, patched, buckets, sharKvs, mutex, admin, faults>>

\* The version to patch from is looked for in the description; when it is not
\* there, it is taken to be the version of this server.  A server has the patches
\* up to its own version.
Patch(i) ==
  /\ At(i, "patch") /\ Goto(i, "write")
  /\ LET from == IF agents[i].seen.desc = 0 THEN Ver(i) ELSE agents[i].seen.desc
     IN  patched' = patched \cup {p \in Patches : p > from /\ p <= Ver(i)}
  /\ UNCHANGED <<scenario, objects, buckets, sharKvs, mutex, admin, faults>>

\* UpdateStream and UpdateConsumer: the description is that of the configuration.
Update(i) ==
  /\ At(i, "write") /\ Ensured(i)
  /\ objects' = [objects EXCEPT ![Object(i)] = Stamp(i)]
  /\ UNCHANGED <<scenario, patched, buckets, sharKvs, mutex, admin, faults>>

---------------------------------------------------------------------------
(* EnsureBuckets, and KvsFor around it.                                    *)
Bucket(i) == <<scenario.agents[i].ns, Head(agents[i].todo)>>
NextBucket(i) == agents' = [agents EXCEPT ![i].pc = "bucket", ![i].todo = Tail(@)]

LookBucket(i) ==
  /\ At(i, "bucket") /\ agents[i].todo # <<>>
  /\ IF Bucket(i) \in buckets THEN NextBucket(i) ELSE Goto(i, "createBucket")
  /\ UNCHANGED <<scenario, objects, patched, buckets, sharKvs, mutex, admin, faults>>

\* Buckets have no version: creating one that is there by now succeeds.
CreateBucket(i) ==
  /\ At(i, "createBucket") /\ NextBucket(i) /\ buckets' = buckets \cup {Bucket(i)}
  /\ UNCHANGED <<scenario, objects, patched, sharKvs, mutex, admin, faults>>

Unlock(i) == mutex' = IF mutex = i THEN 0 ELSE mutex

\* initNamespacedKvs opens every bucket, here in one step; KvsFor keeps the handles.
Open(i) ==
  /\ At(i, "bucket") /\ agents[i].todo = <<>> /\ Unlock(i)
  /\ IF {scenario.agents[i].ns} \X Range(Buckets) \subseteq buckets
       THEN /\ Goto(i, "up")
            /\ sharKvs' = sharKvs \cup (IF Kind(i) = "request" THEN {scenario.agents[i].ns} ELSE {})
       ELSE Goto(i, "failed") /\ UNCHANGED sharKvs
  /\ UNCHANGED <<scenario, objects, patched, buckets, admin, faults>>

\* KvsFor under the read lock,
Check(i) ==
  /\ At(i, "check") /\ mutex = 0
  /\ Goto(i, IF scenario.agents[i].ns \in sharKvs THEN "up" ELSE "lock")
  /\ UNCHANGED <<scenario, objects, patched, buckets, sharKvs, mutex, admin, faults>>

\* and under the write lock, without looking again.
Lock(i) ==
  /\ At(i, "lock") /\ mutex = 0
  /\ mutex' = i /\ Ensure(i, Buckets)
  /\ UNCHANGED <<scenario, objects, patched, buckets, sharKvs, admin, faults>>

---------------------------------------------------------------------------
(* DeleteNamespace.                                                        *)
\* It takes every bucket there is, whatever the namespace,
ListBuckets ==
  /\ admin.pc = "list" /\ admin' = [pc |-> "delete", todo |-> buckets]
  /\ UNCHANGED <<scenario, objects, patched, buckets, agents, sharKvs, mutex, faults>>

\* and deletes one after the other.  The handles are kept.
DeleteBucket ==
  /\ admin.pc = "delete"
  /\ \E b \in admin.todo :
       buckets' = buckets \ {b} /\ admin' = [admin EXCEPT !.todo = @ \ {b}]
  /\ UNCHANGED <<scenario, objects, patched, agents, sharKvs, mutex, faults>>

---------------------------------------------------------------------------
(* A call fails, and New or KvsFor returns its error; or the agent stops.  *)
Busy(i) == ~Over(i) /\ agents[i].pc \notin {"check", "lock"}
MutFailCached(i) ==
  /\ Busy(i) /\ faults < scenario.faults /\ faults' = faults + 1
  /\ Goto(i, "failed")
  /\ sharKvs' = sharKvs \cup (IF Kind(i) = "request" THEN {scenario.agents[i].ns} ELSE {})
  /\ Unlock(i)
  /\ UNCHANGED <<scenario, objects, patched, buckets, admin>>

Fail(i) ==
  /\ Busy(i) /\ faults < scenario.faults /\ faults' = faults + 1
  /\ Goto(i, "failed") /\ Unlock(i)
  /\ UNCHANGED <<scenario, objects, patched, buckets, sharKvs, admin>>

\* It is started, or comes, again.
Again(i) ==
  /\ At(i, "failed") /\ faults > 0 /\ (scenario.serial => \A j \in Agents : Over(j))
  /\ agents' = [agents EXCEPT ![i] = [pc |-> "idle", at |-> 1, seen |-> Missing, todo |-> <<>>]]
  /\ UNCHANGED <<scenario, objects, patched, buckets, sharKvs, mutex, admin, faults>>

Step(i) == \/ Start(i) \/ Look(i) \/ Create(i) \/ Patch(i) \/ Update(i) \/ LookBucket(i)
           \/ CreateBucket(i) \/ Open(i) \/ Check(i) \/ Lock(i) \/ Fail(i) \/ Again(i)
Terminating == (\A i \in Agents : Over(i)) /\ admin.todo = {} /\ UNCHANGED vars

Next == (\E i \in Agents : Step(i)) \/ ListBuckets \/ DeleteBucket \/ Terminating
Spec == Init /\ [][Next]_vars

---------------------------------------------------------------------------
(* Properties.                                                             *)

\* Agents and objects keep their types, and a request that is over holds no lock.
TypeOK ==
  /\ \A i \in Agents : agents[i].pc \in {"idle", "look", "create", "patch", "write", "bucket",
                                         "createBucket", "check", "lock", "up", "failed"}
  /\ DOMAIN objects = {"stream", "consumer", "terminal"}
  /\ mutex # 0 => agents[mutex].pc \in {"bucket", "createBucket"}
  /\ faults <= scenario.faults

Due == {p \in Patches : p > scenario.objects["stream"].desc}
AllHavePatches == \A i \in Agents : Kind(i) = "server" => \A p \in Patches : p <= Ver(i)

\* A step stamps a stream whose description states its version only if the patches
\* since that version were run, provided every server that starts has them, and
\* takes no stamp back while agents start one after another.
UpgradeStep ==
  /\ objects'["stream"].ver # objects["stream"].ver /\ scenario.objects["stream"].desc > 0
       /\ AllHavePatches => Due \subseteq patched
  /\ scenario.serial => \A o \in DOMAIN objects : objects[o].ver <= objects'[o].ver

\* Upgrades go forward, whoever stops in between and however many start at a time.
UpgradesForward == [][UpgradeStep]_vars

\* Unless DeleteNamespace is called, each namespace the server has handles for has
\* all its buckets, whichever request made them and whatever failed.
HandlesAreGood ==
  ~scenario.deletes => sharKvs \X Range(Buckets) \subseteq buckets
=============================================================================
