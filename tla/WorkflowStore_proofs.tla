------------------------ MODULE WorkflowStore_proofs ------------------------
(* Proofs about the definitions of workflows, for any number of loads of any *)
(* definitions, next to a launch and to any calls of an administrator.      *)
EXTENDS SharStores, FiniteSetTheorems, TLAPS

\* The variables of the parts by their names.
scenario == v1
wfProcess == v2
wfMsgTypes == v3
wfVersion == v4
wf == v5
specs == v6
loads == v7
timers == v8
launch == v9
admin == v10
conflicts == v11

USE DEF scenario, wfProcess, wfMsgTypes, wfVersion, wf, specs, loads, timers, launch,
        admin, conflicts

\* Lists of versions, and what a workflow has on record.
Versions == Seq([id : DOMAIN scenario.loads, hash : {d.hash : d \in W!Defs}])
Entries == [versions : Versions, disabled : BOOLEAN, rev : Nat]

\* A load is a record of these fields.
LoadShape(l) ==
  /\ loads[l] = [pc |-> loads[l].pc, at |-> loads[l].at, seen |-> loads[l].seen,
                 newWf |-> loads[l].newWf, id |-> loads[l].id, after |-> loads[l].after]
  /\ loads[l].seen \in Entries /\ loads[l].newWf \in BOOLEAN
  /\ loads[l].id \in DOMAIN scenario.loads

\* Records of the store, of the loads and of the launch.
StoreShapes ==
  /\ scenario \in Stores
  /\ wfVersion \in [W!Names -> Entries]
  /\ wf \in [DOMAIN scenario.loads -> BOOLEAN]
  /\ conflicts \in Nat
  /\ DOMAIN specs = TaskSpecs
  /\ DOMAIN loads = DOMAIN scenario.loads
  /\ \A l \in DOMAIN loads : LoadShape(l)
  /\ launch = [pc |-> launch.pc, name |-> launch.name, id |-> launch.id,
               disabled |-> launch.disabled, deprecated |-> launch.deprecated]

\* The calls that switch something on again.
SwitchOn == {"enable", "register"} \X (W!Names \cup TaskSpecs)

\* Without those, what was off when the launch came in is off still, and a launch
\* that has passed a check was not off.
Off ==
  scenario.admin \cap SwitchOn = {} =>
    /\ admin \cap SwitchOn = {}
    /\ \A n \in launch.disabled : n \in W!Names /\ wfVersion[n].disabled
    /\ \A t \in launch.deprecated : t \in TaskSpecs /\ specs[t] = "deprecated"
    /\ launch.pc \in {"workflow", "launched"} => launch.name \notin launch.disabled
    /\ launch.pc = "launched" => W!LaunchTasks \cap launch.deprecated = {}

\* Every version that is listed was saved, and differs from the one before.
Saved ==
  \A n \in W!Names : \A i \in 1 .. Len(wfVersion[n].versions) :
    /\ wf[wfVersion[n].versions[i].id]
    /\ i > 1 => wfVersion[n].versions[i].hash # wfVersion[n].versions[i - 1].hash

\* What a load has read is what is there still, if the revision is; and what it is
\* going to add was saved.
ReadBefore(l) ==
  loads[l].pc = "write" =>
    /\ loads[l].seen.rev <= wfVersion[W!Def(l).name].rev
    /\ loads[l].seen.rev = wfVersion[W!Def(l).name].rev =>
         loads[l].seen.versions = wfVersion[W!Def(l).name].versions
    /\ ~W!SameAsLatest(l, loads[l].seen) => wf[loads[l].id]

\* When no update had to start over: a load reads once, and keeps its own identifier
\* if it adds a version.
ReadsOnce(l) ==
  /\ loads[l].pc \in {"idle", "processes", "messages", "tasks", "read", "failed"} =>
       loads[l].id = l /\ ~loads[l].newWf
  /\ loads[l].newWf => loads[l].id = l
  /\ loads[l].pc = "write" => (loads[l].newWf <=> ~W!SameAsLatest(l, loads[l].seen))
  /\ loads[l].pc \in {"buckets", "timers"} => loads[l].newWf

\* A version comes from the load that has its identifier, and that load starts its
\* timer when it is done, once.
TimedOnce ==
  /\ \A l \in DOMAIN loads : ReadsOnce(l)
  /\ \A n \in W!Names : \A i \in 1 .. Len(wfVersion[n].versions) :
       LET l == wfVersion[n].versions[i].id
       IN  loads[l].newWf /\ loads[l].pc \in {"buckets", "timers", "done"}
  /\ timers \in Seq(DOMAIN loads)
  /\ \A i \in 1 .. Len(timers) : loads[timers[i]].newWf /\ loads[timers[i]].pc = "done"
  /\ \A i, j \in 1 .. Len(timers) : timers[i] = timers[j] => i = j
  /\ \A l \in DOMAIN loads : loads[l].newWf /\ loads[l].pc = "done" /\ W!Def(l).timed =>
       \E i \in 1 .. Len(timers) : timers[i] = l

\* The inductive invariant.
StoreInv ==
  /\ StoreShapes /\ Off /\ Saved
  /\ \A l \in DOMAIN loads : ReadBefore(l)
  /\ conflicts = 0 => TimedOnce

\* The name of a load's definition has an entry.
LEMMA NamesOfLoads ==
  ASSUME scenario \in Stores, NEW l \in DOMAIN scenario.loads
  PROVE  W!Def(l).name \in W!Names /\ W!Def(l).hash \in {d.hash : d \in W!Defs}
  <1>1. W!Def(l) \in W!Defs
    BY DEF W!Def, W!Defs, W!Range
  <1> QED
    BY <1>1 DEF W!Names

\* A version has the identifier of a load.
LEMMA VersionsAreLoads ==
  ASSUME NEW v \in Entries, NEW i \in 1 .. Len(v.versions)
  PROVE  v.versions[i] \in [id : DOMAIN scenario.loads, hash : {d.hash : d \in W!Defs}]
  <1> DEFINE S == [id : DOMAIN scenario.loads, hash : {d.hash : d \in W!Defs}]
  <1>1. v.versions \in Seq(S)
    BY DEF Entries, Versions
  <1> HIDE DEF S
  <1>2. v.versions[i] \in S
    BY <1>1
  <1> QED
    BY <1>2 DEF S

\* Nothing is stored at first.
LEMMA StoreInit == W!Init => StoreInv
  <1> SUFFICES ASSUME W!Init PROVE StoreInv
    OBVIOUS
  <1>1. scenario \in Stores /\ DOMAIN loads = DOMAIN scenario.loads
    BY DEF W!Init
  <1> DEFINE none == [versions |-> <<>>, disabled |-> FALSE, rev |-> 0]
  <1>2. none \in Entries
    BY DEF Entries, Versions
  <1>3. wfVersion = [n \in W!Names |-> none]
    BY DEF W!Init
  <1>4. \A l \in DOMAIN loads :
          loads[l] = [pc |-> "idle", at |-> 1, seen |-> none, newWf |-> FALSE, id |-> l,
                      after |-> {}]
    BY <1>1, <1>3, NamesOfLoads, Zenon DEF W!Init
  <1>5. launch = [pc |-> "idle", name |-> "none", id |-> 0, disabled |-> {}, deprecated |-> {}]
    BY DEF W!Init
  <1>6. StoreShapes
    <2>1. wfVersion \in [W!Names -> Entries]
      BY <1>2, <1>3
    <2>2. wf \in [DOMAIN scenario.loads -> BOOLEAN] /\ conflicts \in Nat /\ DOMAIN specs = TaskSpecs
      BY DEF W!Init
    <2>3. ASSUME NEW l \in DOMAIN loads PROVE LoadShape(l)
      <3>1. loads[l] = [pc |-> "idle", at |-> 1, seen |-> none, newWf |-> FALSE, id |-> l,
                        after |-> {}]
        BY <1>4
      <3> HIDE DEF none
      <3> QED
        BY <1>1, <1>2, <3>1 DEF LoadShape
    <2> QED
      BY <1>1, <1>5, <2>1, <2>2, <2>3 DEF StoreShapes
  <1>7. Off
    BY <1>5 DEF W!Init, Off
  <1>8. Saved
    BY <1>3 DEF Saved
  <1>9. \A l \in DOMAIN loads : ReadBefore(l)
    BY <1>4 DEF ReadBefore
  <1>10. TimedOnce
    <2>1. \A l \in DOMAIN loads : ReadsOnce(l)
      BY <1>4 DEF ReadsOnce
    <2>2. timers = <<>>
      BY DEF W!Init
    <2> QED
      BY <1>3, <1>4, <2>1, <2>2 DEF TimedOnce
  <1> QED
    BY <1>6, <1>7, <1>8, <1>9, <1>10 DEF StoreInv

\* The timers are right as long as the loads that add a version go on to them.
LEMMA TimersKept ==
  ASSUME StoreShapes, TimedOnce, UNCHANGED <<scenario, wfVersion, timers>>,
         DOMAIN loads' = DOMAIN loads, \A m \in DOMAIN loads : ReadsOnce(m)',
         \A m \in DOMAIN loads : loads[m].newWf =>
           /\ loads'[m].newWf
           /\ loads'[m].pc = loads[m].pc \/ (loads[m].pc = "buckets" /\ loads'[m].pc = "timers"),
         \A m \in DOMAIN loads : loads'[m].newWf /\ loads'[m].pc = "done" =>
           loads[m].newWf /\ loads[m].pc = "done"
  PROVE  TimedOnce'
  <1>1. \A n \in W!Names : \A i \in 1 .. Len(wfVersion[n].versions) :
          wfVersion[n].versions[i].id \in DOMAIN loads
    BY VersionsAreLoads DEF StoreShapes
  <1>2. ASSUME NEW n \in W!Names, NEW i \in 1 .. Len(wfVersion[n].versions)
        PROVE  LET m == wfVersion[n].versions[i].id
               IN  loads'[m].newWf /\ loads'[m].pc \in {"buckets", "timers", "done"}
    <2> DEFINE m == wfVersion[n].versions[i].id
    <2>1. loads[m].newWf /\ loads[m].pc \in {"buckets", "timers", "done"} /\ m \in DOMAIN loads
      BY <1>1, Zenon DEF TimedOnce
    <2> HIDE DEF m
    <2>2. loads'[m].newWf /\ loads'[m].pc \in {"buckets", "timers", "done"}
      BY <2>1
    <2> QED
      BY <2>2, Zenon DEF m
  <1>3. \A i \in 1 .. Len(timers) : timers[i] \in DOMAIN loads
    BY DEF TimedOnce
  <1>4. \A i \in 1 .. Len(timers) : loads'[timers[i]].newWf /\ loads'[timers[i]].pc = "done"
    BY <1>3 DEF TimedOnce
  <1>5. \A m \in DOMAIN loads : loads'[m].newWf /\ loads'[m].pc = "done" /\ W!Def(m).timed =>
          \E i \in 1 .. Len(timers) : timers[i] = m
    BY DEF TimedOnce
  <1> QED
    BY <1>2, <1>4, <1>5, ZenonT(30) DEF TimedOnce, W!Def

\* A load that is before its first read, or between its write and the timer, moves.
LEMMA LoadMoves ==
  ASSUME StoreInv, NEW l \in DOMAIN loads, NEW p,
         UNCHANGED <<scenario, wfVersion, wf, specs, launch, admin, timers, conflicts>>,
         DOMAIN loads' = DOMAIN loads, \A m \in DOMAIN loads \ {l} : loads'[m] = loads[m],
         \E at, after : loads'[l] = [pc |-> p, at |-> at, seen |-> loads[l].seen,
                                     newWf |-> loads[l].newWf, id |-> loads[l].id, after |-> after],
         \/ /\ loads[l].pc \in {"idle", "processes", "messages", "tasks"}
            /\ p \in {"processes", "messages", "tasks", "read", "failed"}
         \/ loads[l].pc = "buckets" /\ p = "timers"
  PROVE  StoreInv'
  <1>1. /\ loads'[l].pc = p /\ loads'[l].seen = loads[l].seen
        /\ loads'[l].newWf = loads[l].newWf /\ loads'[l].id = loads[l].id
        /\ loads'[l] = [pc |-> loads'[l].pc, at |-> loads'[l].at, seen |-> loads'[l].seen,
                        newWf |-> loads'[l].newWf, id |-> loads'[l].id, after |-> loads'[l].after]
    OBVIOUS
  <1>2. Entries' = Entries
    BY DEF Entries, Versions
  <1>3. StoreShapes'
    <2>1. \A m \in DOMAIN loads : LoadShape(m)'
      BY <1>1, <1>2, ZenonT(30) DEF StoreInv, StoreShapes, LoadShape
    <2> QED
      BY <1>2, <2>1 DEF StoreInv, StoreShapes
  <1>4. Off' /\ Saved'
    <2>1. W!LaunchTasks' = W!LaunchTasks
      BY DEF W!LaunchTasks
    <2>2. Off'
      BY <2>1, Zenon DEF StoreInv, Off
    <2>3. Saved'
      BY DEF StoreInv, Saved
    <2> QED
      BY <2>2, <2>3
  <1>5. \A m \in DOMAIN loads' : ReadBefore(m)'
    BY <1>1 DEF StoreInv, ReadBefore, W!Def, W!SameAsLatest
  <1>6. (conflicts = 0 => TimedOnce)'
    <2> SUFFICES ASSUME conflicts = 0, TimedOnce PROVE TimedOnce'
      BY DEF StoreInv
    <2>1. \A m \in DOMAIN loads : ReadsOnce(m)'
      BY <1>1 DEF TimedOnce, ReadsOnce, W!Def, W!SameAsLatest
    <2>2. loads[l].newWf => loads[l].pc = "buckets"
      BY DEF TimedOnce, ReadsOnce
    <2>3. \A m \in DOMAIN loads :
            /\ loads'[m].newWf = loads[m].newWf
            /\ loads[m].newWf => (loads'[m].pc = loads[m].pc \/ (m = l /\ p = "timers"))
            /\ loads[m].pc = "done" <=> loads'[m].pc = "done"
      BY <1>1, <2>2
    <2> QED
      BY <1>1, <2>1, <2>2, <2>3, TimersKept, Zenon DEF StoreInv
  <1> QED
    BY <1>3, <1>4, <1>5, <1>6 DEF StoreInv

\* A load reads the versions, and saves what it is going to add.
LEMMA ReadKeeps ==
  ASSUME StoreInv, NEW l \in DOMAIN loads, W!ReadVersions(l)
  PROVE  StoreInv'
  <1> DEFINE v == wfVersion[W!Def(l).name]
             same == W!SameAsLatest(l, v)
             id == IF same THEN W!Latest(v).id ELSE loads[l].id
             new == loads[l].newWf \/ ~same
  <1>1. /\ UNCHANGED <<scenario, wfVersion, specs, launch, admin, timers, conflicts>>
        /\ loads[l].pc = "read"
        /\ wf' = IF same THEN wf ELSE [wf EXCEPT ![loads[l].id] = TRUE]
        /\ loads' = [loads EXCEPT ![l].pc = "write", ![l].seen = v, ![l].id = id,
                                  ![l].newWf = @ \/ ~same]
    BY DEF W!ReadVersions, W!LoadOnly
  <1>2. /\ LoadShape(l) /\ DOMAIN loads = DOMAIN scenario.loads /\ scenario \in Stores
        /\ W!Def(l).name \in W!Names /\ v \in Entries
        /\ wf \in [DOMAIN scenario.loads -> BOOLEAN]
    BY NamesOfLoads DEF StoreInv, StoreShapes
  <1>3. id \in DOMAIN loads
    <2>1. CASE same
      <3>1. v.versions # <<>> /\ v.versions \in Versions
        BY <1>2, <2>1 DEF W!SameAsLatest, Entries
      <3>2. Len(v.versions) \in 1 .. Len(v.versions)
        BY <3>1 DEF Versions
      <3>3. v.versions[Len(v.versions)].id \in DOMAIN scenario.loads
        BY <1>2, <3>2, VersionsAreLoads
      <3> QED
        BY <1>2, <2>1, <3>3 DEF W!Latest
    <2>2. CASE ~same
      BY <1>2, <2>2 DEF LoadShape
    <2> QED
      BY <2>1, <2>2
  <1> HIDE DEF same, id, v
  <1>4. /\ DOMAIN loads' = DOMAIN loads /\ \A m \in DOMAIN loads \ {l} : loads'[m] = loads[m]
        /\ loads'[l] = [pc |-> "write", at |-> loads[l].at, seen |-> v,
                        newWf |-> new, id |-> id, after |-> loads[l].after]
    BY <1>1, <1>2, Zenon DEF LoadShape
  <1> HIDE DEF new
  <1>5. Entries' = Entries
    BY <1>1 DEF Entries, Versions
  <1>6. \A m \in DOMAIN loads \ {l} : LoadShape(m)'
    BY <1>1, <1>4, <1>5 DEF StoreInv, StoreShapes, LoadShape
  <1>7. LoadShape(l)'
    BY <1>1, <1>2, <1>3, <1>4, <1>5 DEF LoadShape, new
  <1>8. wf' \in [DOMAIN scenario.loads -> BOOLEAN] /\ \A m \in DOMAIN loads : wf[m] => wf'[m]
    BY <1>1, <1>2, Zenon
  <1>9. StoreShapes'
    BY <1>1, <1>4, <1>5, <1>6, <1>7, <1>8 DEF StoreInv, StoreShapes
  <1>10. Off'
    <2>1. W!LaunchTasks' = W!LaunchTasks
      BY <1>1 DEF W!LaunchTasks
    <2> QED
      BY <1>1, <2>1, Zenon DEF StoreInv, Off
  <1>11. Saved'
    <2>1. \A n \in W!Names : \A i \in 1 .. Len(wfVersion[n].versions) :
            wfVersion[n].versions[i].id \in DOMAIN loads
      BY VersionsAreLoads DEF StoreInv, StoreShapes
    <2> QED
      BY <1>1, <1>8, <2>1 DEF StoreInv, Saved
  <1>12. \A m \in DOMAIN loads : W!Def(m)' = W!Def(m)
    BY <1>1 DEF W!Def
  <1>13. \A m \in DOMAIN loads' : ReadBefore(m)'
    <2>1. \A m \in DOMAIN loads \ {l} : loads[m].id \in DOMAIN loads
      BY Zenon DEF StoreInv, StoreShapes, LoadShape
    <2>2. ASSUME NEW m \in DOMAIN loads \ {l} PROVE ReadBefore(m)'
      BY <1>1, <1>4, <1>8, <1>12, <2>1 DEF StoreInv, ReadBefore, W!SameAsLatest
    <2>3. ReadBefore(l)'
      <3>1. v.rev \in Nat
        BY <1>2 DEF Entries
      <3>2. W!SameAsLatest(l, loads[l].seen)' = same
        BY <1>4, <1>12 DEF W!SameAsLatest, same
      <3>3. ~same => wf'[id]
        BY <1>1, <1>2, <1>3 DEF id
      <3> QED
        BY <1>1, <1>4, <1>12, <3>1, <3>2, <3>3 DEF ReadBefore, v
    <2> QED
      BY <1>4, <2>2, <2>3
  <1>14. (conflicts = 0 => TimedOnce)'
    <2> SUFFICES ASSUME conflicts = 0, TimedOnce PROVE TimedOnce'
      BY <1>1 DEF StoreInv
    <2>1. loads[l].id = l /\ ~loads[l].newWf
      BY <1>1 DEF TimedOnce, ReadsOnce
    <2>2. \A m \in DOMAIN loads \ {l} : ReadsOnce(m)'
      BY <1>4, <1>12 DEF TimedOnce, ReadsOnce, W!SameAsLatest
    <2>3. ReadsOnce(l)'
      <3>1. W!SameAsLatest(l, loads[l].seen)' = same
        BY <1>4, <1>12 DEF W!SameAsLatest, same
      <3>2. loads'[l].newWf <=> ~same
        <4>1. loads'[l].newWf = new
          BY <1>4
        <4> QED
          BY <2>1, <4>1, Zenon DEF new
      <3>3. ~same => id = l
        BY <2>1, Zenon DEF id
      <3>4. loads'[l].id = id /\ loads'[l].pc = "write"
        BY <1>4
      <3> QED
        BY <3>1, <3>2, <3>3, <3>4 DEF ReadsOnce
    <2>4. \A m \in DOMAIN loads : loads[m].newWf => m # l /\ loads'[m] = loads[m]
      BY <1>4, <2>1
    <2>5. \A m \in DOMAIN loads : loads'[m].pc = "done" => loads'[m] = loads[m]
      BY <1>4
    <2> QED
      BY <1>1, <1>4, <2>2, <2>3, <2>4, <2>5, TimersKept, Zenon DEF StoreInv
  <1> QED
    BY <1>9, <1>10, <1>11, <1>13, <1>14 DEF StoreInv

\* Appending at most one element.
LEMMA Lengthened ==
  ASSUME NEW S, NEW old \in Seq(S), NEW e \in S, NEW new,
         new = old \/ new = Append(old, e)
  PROVE  /\ new \in Seq(S)
         /\ \A i \in 1 .. Len(new) : \/ i \in 1 .. Len(old) /\ new[i] = old[i]
                                     \/ new # old /\ i = Len(old) + 1 /\ new[i] = e
         /\ \A i \in 1 .. Len(old) : i \in 1 .. Len(new) /\ new[i] = old[i]
  <1>1. CASE new = old
    BY <1>1
  <1>2. CASE new = Append(old, e)
    BY <1>2
  <1> QED
    BY <1>1, <1>2

\* A load adds its version, if the revision is the one it has read.
LEMMA WriteKeeps ==
  ASSUME StoreInv, NEW l \in DOMAIN loads, loads[l].pc = "write",
         wfVersion[W!Def(l).name].rev = loads[l].seen.rev,
         wfVersion' = [wfVersion EXCEPT ![W!Def(l).name].versions = W!Added(l, loads[l].seen),
                                        ![W!Def(l).name].rev = @ + 1],
         loads' = [loads EXCEPT ![l].pc = IF loads[l].newWf THEN "buckets" ELSE "done"],
         UNCHANGED <<scenario, wf, specs, launch, admin, timers, conflicts>>
  PROVE  StoreInv'
  <1> DEFINE name == W!Def(l).name
             v == wfVersion[name]
             old == v.versions
             new == W!Added(l, loads[l].seen)
             same == W!SameAsLatest(l, loads[l].seen)
             added == [id |-> loads[l].id, hash |-> W!Def(l).hash]
             S == [id : DOMAIN scenario.loads, hash : {d.hash : d \in W!Defs}]
             p == IF loads[l].newWf THEN "buckets" ELSE "done"
  <1>1. /\ scenario \in Stores /\ LoadShape(l) /\ DOMAIN loads = DOMAIN scenario.loads
        /\ wfVersion \in [W!Names -> Entries] /\ name \in W!Names
        /\ W!Def(l).hash \in {d.hash : d \in W!Defs}
    BY NamesOfLoads DEF StoreInv, StoreShapes
  <1>2. loads[l].seen.versions = old /\ (~same => wf[loads[l].id])
    BY DEF StoreInv, ReadBefore
  <1>3. v \in Entries /\ old \in Seq(S) /\ v.rev \in Nat /\ v.disabled \in BOOLEAN
    BY <1>1, Zenon DEF Entries, Versions
  <1>4. added \in S
    BY <1>1 DEF LoadShape
  <1>5. same => new = old
    BY <1>2 DEF W!Added
  <1>6. ~same => new = Append(old, added)
    BY <1>2 DEF W!Added
  <1>7. ~same /\ old # <<>> => old[Len(old)].hash # added.hash
    BY <1>2 DEF W!SameAsLatest, W!Latest
  <1> HIDE DEF S, new, same, added
  <1>8. /\ new \in Seq(S)
        /\ \A i \in 1 .. Len(new) : \/ i \in 1 .. Len(old) /\ new[i] = old[i]
                                    \/ ~same /\ i = Len(old) + 1 /\ new[i] = added
        /\ \A i \in 1 .. Len(old) : i \in 1 .. Len(new) /\ new[i] = old[i]
    <2>1. new = old \/ new = Append(old, added)
      BY <1>5, <1>6, Zenon
    <2>2. old \in Seq(S)
      BY <1>3, Zenon
    <2>3. new # old => ~same
      BY <1>5, Zenon
    <2> HIDE DEF old
    <2>4. /\ new \in Seq(S)
          /\ \A i \in 1 .. Len(new) : \/ i \in 1 .. Len(old) /\ new[i] = old[i]
                                      \/ new # old /\ i = Len(old) + 1 /\ new[i] = added
          /\ \A i \in 1 .. Len(old) : i \in 1 .. Len(new) /\ new[i] = old[i]
      BY <1>4, <2>1, <2>2, Lengthened
    <2> QED
      BY <2>3, <2>4, Zenon
  <1>9. /\ \A n \in W!Names \ {name} : wfVersion'[n] = wfVersion[n]
        /\ wfVersion'[name] = [versions |-> new, disabled |-> v.disabled, rev |-> v.rev + 1]
        /\ DOMAIN wfVersion' = W!Names
    <2>1. v = [versions |-> v.versions, disabled |-> v.disabled, rev |-> v.rev]
      BY <1>3 DEF Entries
    <2> QED
      BY <1>1, <2>1, Zenon DEF new
  <1>10. Entries' = Entries
    BY DEF Entries, Versions
  <1>11. wfVersion' \in [W!Names -> Entries]
    <2>1. wfVersion'[name] \in Entries
      BY <1>3, <1>8, <1>9 DEF Entries, Versions, S
    <2>2. \A n \in W!Names : wfVersion'[n] \in Entries
      BY <1>1, <1>9, <2>1, Zenon
    <2>3. wfVersion' = [n \in W!Names |-> wfVersion'[n]]
      BY <1>1, Zenon
    <2> QED
      BY <2>2, <2>3, Zenon
  <1>12. /\ DOMAIN loads' = DOMAIN loads /\ \A m \in DOMAIN loads \ {l} : loads'[m] = loads[m]
         /\ loads'[l] = [pc |-> p, at |-> loads[l].at, seen |-> loads[l].seen,
                         newWf |-> loads[l].newWf, id |-> loads[l].id, after |-> loads[l].after]
    BY <1>1 DEF LoadShape
  <1> HIDE DEF p
  <1>13. StoreShapes'
    <2>1. \A m \in DOMAIN loads \ {l} : LoadShape(m)'
      BY <1>10, <1>12, Zenon DEF StoreInv, StoreShapes, LoadShape
    <2>2. LoadShape(l)'
      BY <1>1, <1>10, <1>12 DEF LoadShape
    <2> QED
      BY <1>10, <1>11, <1>12, <2>1, <2>2 DEF StoreInv, StoreShapes
  <1>14. Off'
    <2>1. W!LaunchTasks' = W!LaunchTasks
      BY DEF W!LaunchTasks
    <2>2. \A n \in W!Names : wfVersion'[n].disabled = wfVersion[n].disabled
      BY <1>9
    <2> QED
      BY <2>1, <2>2, Zenon DEF StoreInv, Off
  <1>15. old \in Seq(S) /\ wfVersion'[name].versions = new /\ wf' = wf
    <2> DEFINE entry == [versions |-> new, disabled |-> v.disabled, rev |-> v.rev + 1]
    <2>1. entry.versions = new
      OBVIOUS
    <2>2. wfVersion'[name] = entry
      BY <1>9, Zenon
    <2> HIDE DEF entry
    <2>3. wfVersion'[name].versions = new
      BY <2>1, <2>2, Zenon
    <2> QED
      BY <1>3, <2>3, Zenon
  <1>16. Saved'
    <2>1. ASSUME NEW i \in 1 .. Len(new)
          PROVE  wf[new[i].id] /\ (i > 1 => new[i].hash # new[i - 1].hash)
      <3>1. CASE i \in 1 .. Len(old) /\ new[i] = old[i]
        <4>1. wf[old[i].id] /\ (i > 1 => old[i].hash # old[i - 1].hash)
          BY <1>1, <3>1 DEF StoreInv, Saved
        <4>2. i > 1 => i - 1 \in 1 .. Len(old)
          BY <1>3, <3>1
        <4> QED
          BY <1>8, <3>1, <4>1, <4>2
      <3>2. CASE ~same /\ i = Len(old) + 1 /\ new[i] = added
        <4>1. Len(old) \in Nat /\ i - 1 = Len(old)
          BY <1>3, <3>2
        <4>2. i > 1 => i - 1 \in 1 .. Len(old) /\ old # <<>>
          BY <1>3, <4>1
        <4>3. i > 1 => new[i - 1] = old[Len(old)]
          BY <1>8, <4>1, <4>2
        <4>4. wf[added.id] /\ added.hash = W!Def(l).hash
          BY <1>2, <3>2 DEF added
        <4> QED
          BY <1>7, <3>2, <4>2, <4>3, <4>4
      <3> QED
        BY <1>8, <3>1, <3>2
    <2>2. ASSUME NEW n \in W!Names, NEW i \in 1 .. Len(wfVersion'[n].versions)
          PROVE  /\ wf'[wfVersion'[n].versions[i].id]
                 /\ i > 1 => wfVersion'[n].versions[i].hash # wfVersion'[n].versions[i - 1].hash
      <3>1. CASE n = name
        BY <1>15, <2>1, <3>1, ZenonT(30)
      <3>2. CASE n # name
        BY <1>9, <3>2 DEF StoreInv, Saved
      <3> QED
        BY <3>1, <3>2, Zenon
    <2> QED
      BY <2>2, Zenon DEF Saved
  <1>17. \A m \in DOMAIN loads' : ReadBefore(m)'
    <2>1. ASSUME NEW m \in DOMAIN loads \ {l}, loads[m].pc = "write" PROVE ReadBefore(m)'
      <3>1. loads[m].seen.rev \in Nat
        BY Zenon DEF StoreInv, StoreShapes, LoadShape, Entries
      <3>2. ReadBefore(m) /\ W!Def(m)' = W!Def(m)
        BY DEF StoreInv, W!Def
      <3>3. CASE W!Def(m).name = name
        BY <1>3, <1>9, <1>12, <2>1, <3>1, <3>2, <3>3, SMTT(20) DEF ReadBefore, W!SameAsLatest
      <3>4. CASE W!Def(m).name # name
        <4>1. W!Def(m).name \in W!Names
          BY <1>1, NamesOfLoads
        <4> QED
          BY <1>9, <1>12, <2>1, <3>2, <3>4, <4>1 DEF ReadBefore, W!SameAsLatest
      <3> QED
        BY <3>3, <3>4
    <2>2. ~(loads'[l].pc = "write")
      BY <1>12 DEF p
    <2> QED
      BY <1>12, <2>1, <2>2, Zenon DEF ReadBefore
  <1>18. (conflicts = 0 => TimedOnce)'
    <2> SUFFICES ASSUME conflicts = 0, TimedOnce PROVE TimedOnce'
      BY DEF StoreInv
    <2>1. loads[l].newWf <=> ~same
      BY DEF TimedOnce, ReadsOnce, same
    <2>2. ~same => loads[l].id = l
      BY <2>1 DEF TimedOnce, ReadsOnce
    <2>3. \A m \in DOMAIN loads : ReadsOnce(m)'
      <3>1. \A m \in DOMAIN loads \ {l} : ReadsOnce(m)'
        BY <1>12, ZenonT(30) DEF TimedOnce, ReadsOnce, W!Def, W!SameAsLatest
      <3>2. loads'[l].newWf = loads[l].newWf /\ loads'[l].id = loads[l].id /\ loads'[l].pc = p
        BY <1>12
      <3>3. p \in {"buckets", "done"} /\ (p = "buckets" => loads[l].newWf)
        BY DEF p
      <3>4. loads[l].newWf => loads[l].id = l
        BY DEF TimedOnce, ReadsOnce
      <3>5. ReadsOnce(l)'
        BY <3>2, <3>3, <3>4 DEF ReadsOnce
      <3> QED
        BY <3>1, <3>5
    <2>4. \A m \in DOMAIN loads : loads'[m].newWf = loads[m].newWf
      BY <1>12, ZenonT(30)
    <2>5. \A m \in DOMAIN loads : loads[m].pc \in {"buckets", "timers", "done"} =>
            loads'[m].pc = loads[m].pc
      BY <1>12, Zenon
    <2>6. ASSUME NEW n \in W!Names, NEW i \in 1 .. Len(wfVersion'[n].versions)
          PROVE  LET m == wfVersion'[n].versions[i].id
                 IN  loads'[m].newWf /\ loads'[m].pc \in {"buckets", "timers", "done"}
      <3>1. ASSUME NEW k \in 1 .. Len(wfVersion[n].versions),
                   wfVersion'[n].versions[i] = wfVersion[n].versions[k]
            PROVE  LET m == wfVersion'[n].versions[i].id
                   IN  loads'[m].newWf /\ loads'[m].pc \in {"buckets", "timers", "done"}
        <4> DEFINE m == wfVersion[n].versions[k].id
        <4>1. loads[m].newWf /\ loads[m].pc \in {"buckets", "timers", "done"}
          BY Zenon DEF TimedOnce
        <4>2. m \in DOMAIN loads
          BY <1>1, VersionsAreLoads
        <4> QED
          BY <2>4, <2>5, <3>1, <4>1, <4>2, Zenon
      <3>2. CASE n # name
        BY <1>9, <3>1, <3>2, Zenon
      <3>3. CASE n = name /\ i \in 1 .. Len(old) /\ new[i] = old[i]
        BY <1>15, <3>1, <3>3, ZenonT(30)
      <3>4. CASE n = name /\ ~same /\ new[i] = added
        <4>1. wfVersion'[n].versions[i].id = l
          <5>1. wfVersion'[n].versions[i] = added
            BY <1>15, <3>4, Zenon
          <5>2. added.id = l
            BY <2>2, <3>4 DEF added
          <5> QED
            BY <5>1, <5>2, Zenon
        <4>2. loads'[l].newWf /\ loads'[l].pc = "buckets"
          BY <1>12, <2>1, <3>4 DEF p
        <4> QED
          BY <4>1, <4>2, Zenon
      <3> QED
        <4>1. n = name => i \in 1 .. Len(new)
          BY <1>15
        <4> QED
          BY <1>8, <3>2, <3>3, <3>4, <4>1, Zenon
    <2>7. \A i \in 1 .. Len(timers) : timers[i] \in DOMAIN loads
      BY DEF TimedOnce
    <2>8. \A i \in 1 .. Len(timers) : loads'[timers[i]].newWf /\ loads'[timers[i]].pc = "done"
      BY <2>4, <2>5, <2>7, SMTT(20) DEF TimedOnce
    <2>9. \A m \in DOMAIN loads : loads'[m].newWf /\ loads'[m].pc = "done" /\ W!Def(m).timed =>
            \E i \in 1 .. Len(timers) : timers[i] = m
      <3>1. ~(loads'[l].newWf /\ loads'[l].pc = "done")
        BY <1>12, <2>4 DEF p
      <3>2. \A m \in DOMAIN loads \ {l} : loads'[m] = loads[m]
        BY <1>12, Zenon
      <3> QED
        BY <3>1, <3>2, Zenon DEF TimedOnce
    <2>10. timers' = timers /\ scenario' = scenario /\ DOMAIN loads' = DOMAIN loads
      BY <1>12
    <2>11. /\ timers \in Seq(DOMAIN loads)
           /\ \A i, j \in 1 .. Len(timers) : timers[i] = timers[j] => i = j
      BY DEF TimedOnce
    <2>12. \A m \in DOMAIN loads : W!Def(m)' = W!Def(m)
      BY DEF W!Def
    <2>13. /\ timers' \in Seq(DOMAIN loads')
           /\ \A i, j \in 1 .. Len(timers') : timers'[i] = timers'[j] => i = j
      BY <2>10, <2>11
    <2>14. \A i \in 1 .. Len(timers') : loads'[timers'[i]].newWf /\ loads'[timers'[i]].pc = "done"
      BY <2>8, <2>10
    <2>15. \A m \in DOMAIN loads' :
             loads'[m].newWf /\ loads'[m].pc = "done" /\ W!Def(m)'.timed =>
               \E i \in 1 .. Len(timers') : timers'[i] = m
      BY <2>9, <2>10, <2>12
    <2>16. \A m \in DOMAIN loads' : ReadsOnce(m)'
      BY <2>3, <2>10
    <2> QED
      BY <2>6, <2>13, <2>14, <2>15, <2>16, Zenon DEF TimedOnce
  <1> QED
    BY <1>13, <1>14, <1>16, <1>17, <1>18 DEF StoreInv

\* A load that comes second reads again, and counts as a conflict.
LEMMA RereadKeeps ==
  ASSUME StoreInv, NEW l \in DOMAIN loads, conflicts' = conflicts + 1,
         loads' = [loads EXCEPT ![l].pc = "read"],
         UNCHANGED <<scenario, wfVersion, wf, specs, launch, admin, timers>>
  PROVE  StoreInv'
  <1>1. LoadShape(l) /\ conflicts \in Nat
    BY DEF StoreInv, StoreShapes
  <1>2. /\ DOMAIN loads' = DOMAIN loads /\ \A m \in DOMAIN loads \ {l} : loads'[m] = loads[m]
        /\ loads'[l] = [pc |-> "read", at |-> loads[l].at, seen |-> loads[l].seen,
                        newWf |-> loads[l].newWf, id |-> loads[l].id, after |-> loads[l].after]
    BY <1>1 DEF LoadShape
  <1>3. Entries' = Entries
    BY DEF Entries, Versions
  <1>4. StoreShapes'
    <2>1. \A m \in DOMAIN loads \ {l} : LoadShape(m)'
      BY <1>2, <1>3, Zenon DEF StoreInv, StoreShapes, LoadShape
    <2>2. LoadShape(l)'
      BY <1>1, <1>2, <1>3 DEF LoadShape
    <2> QED
      BY <1>1, <1>2, <1>3, <2>1, <2>2 DEF StoreInv, StoreShapes
  <1>5. Off' /\ Saved'
    <2>1. W!LaunchTasks' = W!LaunchTasks
      BY DEF W!LaunchTasks
    <2>2. Off'
      BY <2>1, Zenon DEF StoreInv, Off
    <2>3. Saved'
      BY DEF StoreInv, Saved
    <2> QED
      BY <2>2, <2>3
  <1>6. \A m \in DOMAIN loads' : ReadBefore(m)'
    BY <1>2 DEF StoreInv, ReadBefore, W!Def, W!SameAsLatest
  <1>7. ~(conflicts' = 0)
    BY <1>1
  <1> QED
    BY <1>4, <1>5, <1>6, <1>7 DEF StoreInv

\* A load starts the timer of the version it has added, and is done.
LEMMA StartTimersKeeps ==
  ASSUME StoreInv, NEW l \in DOMAIN loads, W!StartTimers(l)
  PROVE  StoreInv'
  <1>1. /\ UNCHANGED <<scenario, wfVersion, wf, specs, launch, admin, conflicts>>
        /\ loads[l].pc = "timers" /\ loads' = [loads EXCEPT ![l].pc = "done"]
        /\ timers' = IF W!Def(l).timed THEN Append(timers, loads[l].id) ELSE timers
    BY DEF W!StartTimers, W!LoadOnly, W!store, W!To
  <1>2. LoadShape(l)
    BY DEF StoreInv, StoreShapes
  <1>3. /\ DOMAIN loads' = DOMAIN loads /\ \A m \in DOMAIN loads \ {l} : loads'[m] = loads[m]
        /\ loads'[l] = [pc |-> "done", at |-> loads[l].at, seen |-> loads[l].seen,
                        newWf |-> loads[l].newWf, id |-> loads[l].id, after |-> loads[l].after]
    BY <1>1, <1>2 DEF LoadShape
  <1>4. Entries' = Entries
    BY <1>1 DEF Entries, Versions
  <1>5. StoreShapes'
    <2>1. \A m \in DOMAIN loads \ {l} : LoadShape(m)'
      BY <1>1, <1>3, <1>4, Zenon DEF StoreInv, StoreShapes, LoadShape
    <2>2. LoadShape(l)'
      BY <1>1, <1>2, <1>3, <1>4 DEF LoadShape
    <2> QED
      BY <1>1, <1>3, <1>4, <2>1, <2>2 DEF StoreInv, StoreShapes
  <1>6. Off' /\ Saved'
    <2>1. W!LaunchTasks' = W!LaunchTasks
      BY <1>1 DEF W!LaunchTasks
    <2>2. Off'
      BY <1>1, <2>1, Zenon DEF StoreInv, Off
    <2>3. Saved'
      BY <1>1 DEF StoreInv, Saved
    <2> QED
      BY <2>2, <2>3
  <1>7. \A m \in DOMAIN loads' : ReadBefore(m)'
    BY <1>1, <1>3 DEF StoreInv, ReadBefore, W!Def, W!SameAsLatest
  <1>8. (conflicts = 0 => TimedOnce)'
    <2> SUFFICES ASSUME conflicts = 0, TimedOnce PROVE TimedOnce'
      BY <1>1 DEF StoreInv
    <2>1. loads[l].newWf /\ loads[l].id = l
      BY <1>1 DEF TimedOnce, ReadsOnce
    <2>2. /\ \A m \in DOMAIN loads : loads'[m].newWf = loads[m].newWf /\ loads'[m].id = loads[m].id
                                     /\ W!Def(m)' = W!Def(m) /\ loads'[m].seen = loads[m].seen
          /\ \A m \in DOMAIN loads \ {l} : loads'[m].pc = loads[m].pc
          /\ loads'[l].pc = "done"
      BY <1>1, <1>3, ZenonT(30) DEF W!Def
    <2>3. \A m \in DOMAIN loads' : ReadsOnce(m)'
      BY <1>3, <2>1, <2>2 DEF TimedOnce, ReadsOnce, W!SameAsLatest
    <2>4. ASSUME NEW n \in W!Names, NEW i \in 1 .. Len(wfVersion'[n].versions)
          PROVE  LET m == wfVersion'[n].versions[i].id
                 IN  loads'[m].newWf /\ loads'[m].pc \in {"buckets", "timers", "done"}
      <3> DEFINE m == wfVersion[n].versions[i].id
      <3>1. wfVersion' = wfVersion
        BY <1>1
      <3>2. i \in 1 .. Len(wfVersion[n].versions)
        BY <3>1, Zenon
      <3>3. loads[m].newWf /\ loads[m].pc \in {"buckets", "timers", "done"}
        BY <3>2, Zenon DEF TimedOnce
      <3>4. m \in DOMAIN loads
        BY <3>2, VersionsAreLoads DEF StoreInv, StoreShapes
      <3> HIDE DEF m
      <3>5. loads'[m].newWf /\ loads'[m].pc \in {"buckets", "timers", "done"}
        BY <2>2, <3>3, <3>4
      <3> QED
        BY <3>1, <3>5, Zenon DEF m
    <2>5. /\ timers \in Seq(DOMAIN loads)
          /\ \A i \in 1 .. Len(timers) : timers[i] \in DOMAIN loads \ {l}
      <3>1. \A i \in 1 .. Len(timers) : timers[i] \in DOMAIN loads /\ loads[timers[i]].pc = "done"
        BY DEF TimedOnce
      <3> QED
        BY <1>1, <3>1 DEF TimedOnce
    <2>6. /\ timers' \in Seq(DOMAIN loads)
          /\ \A i \in 1 .. Len(timers') : \/ i \in 1 .. Len(timers) /\ timers'[i] = timers[i]
                                          \/ i = Len(timers) + 1 /\ timers'[i] = l
          /\ \A i \in 1 .. Len(timers) : i \in 1 .. Len(timers') /\ timers'[i] = timers[i]
      <3>1. timers' = timers \/ timers' = Append(timers, l)
        BY <1>1, <2>1
      <3> QED
        BY <2>5, <3>1, Lengthened
    <2>7. \A i, j \in 1 .. Len(timers') : timers'[i] = timers'[j] => i = j
      <3> SUFFICES ASSUME NEW i \in 1 .. Len(timers'), NEW j \in 1 .. Len(timers'),
                          timers'[i] = timers'[j]
                   PROVE  i = j
        OBVIOUS
      <3>1. CASE i \in 1 .. Len(timers) /\ j \in 1 .. Len(timers)
        BY <2>6, <3>1 DEF TimedOnce
      <3>2. CASE ~(i \in 1 .. Len(timers)) /\ ~(j \in 1 .. Len(timers))
        BY <2>6, <3>2
      <3>3. CASE i \in 1 .. Len(timers) /\ ~(j \in 1 .. Len(timers))
        BY <2>5, <2>6, <3>3
      <3>4. CASE ~(i \in 1 .. Len(timers)) /\ j \in 1 .. Len(timers)
        BY <2>5, <2>6, <3>4
      <3> QED
        BY <3>1, <3>2, <3>3, <3>4
    <2>8. \A i \in 1 .. Len(timers') : loads'[timers'[i]].newWf /\ loads'[timers'[i]].pc = "done"
      <3> SUFFICES ASSUME NEW i \in 1 .. Len(timers')
                   PROVE  loads'[timers'[i]].newWf /\ loads'[timers'[i]].pc = "done"
        OBVIOUS
      <3>1. CASE i \in 1 .. Len(timers) /\ timers'[i] = timers[i]
        BY <2>2, <2>5, <3>1 DEF TimedOnce
      <3>2. CASE timers'[i] = l
        BY <2>1, <2>2, <3>2
      <3> QED
        BY <2>6, <3>1, <3>2
    <2>9. ASSUME NEW m \in DOMAIN loads', loads'[m].newWf, loads'[m].pc = "done", W!Def(m)'.timed
          PROVE  \E i \in 1 .. Len(timers') : timers'[i] = m
      <3>1. CASE m = l
        <4>1. timers' = Append(timers, l)
          BY <1>1, <1>3, <2>1, <2>2, <2>9, <3>1
        <4>2. Len(timers) + 1 \in 1 .. Len(timers') /\ timers'[Len(timers) + 1] = l
          BY <2>5, <4>1
        <4> QED
          BY <3>1, <4>2
      <3>2. CASE m # l
        <4>1. \E i \in 1 .. Len(timers) : timers[i] = m
          BY <1>3, <2>2, <2>9, <3>2 DEF TimedOnce
        <4> QED
          BY <2>6, <4>1
      <3> QED
        BY <3>1, <3>2
    <2>10. timers' \in Seq(DOMAIN loads')
      BY <1>3, <2>6, Zenon
    <2> QED
      BY <2>3, <2>4, <2>7, <2>8, <2>9, <2>10, Zenon DEF TimedOnce
  <1> QED
    BY <1>5, <1>6, <1>7, <1>8 DEF StoreInv

\* Steps of the launch and of the administrator leave the versions alone.
LEMMA VersionsStay ==
  ASSUME StoreInv, UNCHANGED <<scenario, wf, loads, timers, conflicts>>,
         wfVersion' \in [W!Names -> Entries],
         \A n \in W!Names : /\ wfVersion'[n].versions = wfVersion[n].versions
                            /\ wfVersion'[n].rev \in {wfVersion[n].rev, wfVersion[n].rev + 1},
         DOMAIN specs' = TaskSpecs, Off',
         launch' = [pc |-> launch'.pc, name |-> launch'.name, id |-> launch'.id,
                    disabled |-> launch'.disabled, deprecated |-> launch'.deprecated]
  PROVE  StoreInv'
  <1>1. Entries' = Entries
    BY DEF Entries, Versions
  <1>2. StoreShapes'
    <2>1. \A m \in DOMAIN loads' : LoadShape(m)'
      BY <1>1, Zenon DEF StoreInv, StoreShapes, LoadShape
    <2> QED
      BY <1>1, <2>1 DEF StoreInv, StoreShapes
  <1>3. Saved'
    BY DEF StoreInv, Saved
  <1>4. ASSUME NEW l \in DOMAIN loads' PROVE ReadBefore(l)'
    <2> DEFINE n == W!Def(l).name
    <2>1. n \in W!Names /\ W!Def(l)' = W!Def(l) /\ l \in DOMAIN loads
      BY NamesOfLoads DEF StoreInv, StoreShapes, W!Def
    <2>2. wfVersion[n].rev \in Nat /\ loads[l].seen.rev \in Nat
      BY <2>1, Zenon DEF StoreInv, StoreShapes, LoadShape, Entries
    <2>3. ReadBefore(l)
      BY <2>1 DEF StoreInv
    <2>4. loads' = loads /\ wf' = wf
      OBVIOUS
    <2> HIDE DEF n
    <2>5. /\ wfVersion'[n].versions = wfVersion[n].versions
          /\ wfVersion'[n].rev \in {wfVersion[n].rev, wfVersion[n].rev + 1}
      BY <2>1
    <2> QED
      BY <2>1, <2>2, <2>3, <2>4, <2>5 DEF ReadBefore, W!SameAsLatest, n
  <1>5. (conflicts = 0 => TimedOnce)'
    <2> SUFFICES ASSUME TimedOnce PROVE TimedOnce'
      BY DEF StoreInv
    <2>1. \A l \in DOMAIN loads' : ReadsOnce(l)' /\ W!Def(l)' = W!Def(l)
      BY DEF TimedOnce, ReadsOnce, W!Def, W!SameAsLatest
    <2>2. \A n \in W!Names : wfVersion'[n].versions = wfVersion[n].versions
      OBVIOUS
    <2> QED
      BY <2>1, <2>2, Zenon DEF TimedOnce
  <1> QED
    BY <1>2, <1>3, <1>4, <1>5 DEF StoreInv

\* The launch looks at the switch and at its tasks after it has come in.
LEMMA LaunchKeeps ==
  ASSUME StoreInv, W!StartLaunch \/ W!LaunchStep PROVE StoreInv'
  <1>1. /\ UNCHANGED <<scenario, wfVersion, wf, specs, loads, timers, admin, conflicts>>
    BY DEF W!LaunchStep, W!StartLaunch, W!getWorkflowNameFor, W!getWorkflowVersions,
           W!checkProcessTaskDeprecation, W!LaunchOnly, W!store
  <1>2. StoreShapes /\ Off
    BY DEF StoreInv
  <1>3. launch = [pc |-> launch.pc, name |-> launch.name, id |-> launch.id,
                  disabled |-> launch.disabled, deprecated |-> launch.deprecated]
    BY <1>2 DEF StoreShapes
  <1>4. SUFFICES /\ Off'
                 /\ launch' = [pc |-> launch'.pc, name |-> launch'.name, id |-> launch'.id,
                               disabled |-> launch'.disabled, deprecated |-> launch'.deprecated]
    BY <1>1, <1>2, VersionsStay DEF StoreShapes
  <1>5. CASE W!StartLaunch
    <2> DEFINE off == {n \in W!Names : wfVersion[n].disabled}
               old == {t \in TaskSpecs : specs[t] = "deprecated"}
    <2>1. launch' = [pc |-> "name", name |-> launch.name, id |-> launch.id,
                     disabled |-> off, deprecated |-> old]
      BY <1>3, <1>5, Zenon DEF W!StartLaunch
    <2> QED
      BY <1>1, <1>2, <2>1 DEF Off
  <1>6. CASE W!getWorkflowNameFor
    <2> DEFINE n == wfProcess[scenario.launch]
               p == IF n = "none" THEN "failed" ELSE "versions"
    <2>1. launch' = [pc |-> p, name |-> n, id |-> launch.id,
                     disabled |-> launch.disabled, deprecated |-> launch.deprecated]
      BY <1>3, <1>6, Zenon DEF W!getWorkflowNameFor
    <2>2. p \notin {"workflow", "launched"}
      OBVIOUS
    <2> HIDE DEF n, p
    <2> QED
      BY <1>1, <1>2, <2>1, <2>2 DEF Off
  <1>7. CASE W!getWorkflowVersions
    <2> DEFINE v == wfVersion[launch.name]
    <2>1. PICK p, id : /\ launch' = [pc |-> p, name |-> launch.name, id |-> id,
                             disabled |-> launch.disabled, deprecated |-> launch.deprecated]
                       /\ p # "launched"
                       /\ p = "workflow" => ~(v.rev = 0) /\ ~(v.rev > 0 /\ v.disabled)
      <3>1. \/ \E p \in {"panic", "failed"} : launch' = [launch EXCEPT !.pc = p]
            \/ /\ ~(v.rev = 0) /\ ~(v.rev > 0 /\ v.disabled)
               /\ launch' = [launch EXCEPT !.pc = "workflow", !.id = W!Latest(v).id]
        BY <1>7 DEF W!getWorkflowVersions
      <3>2. CASE \E p \in {"panic", "failed"} : launch' = [launch EXCEPT !.pc = p]
        BY <1>3, <3>2, Zenon
      <3>3. CASE /\ ~(v.rev = 0) /\ ~(v.rev > 0 /\ v.disabled)
                 /\ launch' = [launch EXCEPT !.pc = "workflow", !.id = W!Latest(v).id]
        <4> DEFINE id == W!Latest(v).id
        <4>1. launch' = [launch EXCEPT !.pc = "workflow", !.id = id]
          BY <3>3
        <4> HIDE DEF id
        <4>2. launch' = [pc |-> "workflow", name |-> launch.name, id |-> id,
                         disabled |-> launch.disabled, deprecated |-> launch.deprecated]
          BY <1>3, <4>1, Zenon
        <4> QED
          BY <3>3, <4>2, Zenon
      <3> QED
        BY <3>1, <3>2, <3>3
    <2>2. ASSUME launch.name \in W!Names, v.disabled, p = "workflow" PROVE FALSE
      <3>1. v.rev \in Nat
        BY <1>2, <2>2 DEF StoreShapes, Entries
      <3> QED
        BY <2>1, <2>2, <3>1
    <2> QED
      BY <1>1, <1>2, <2>1, <2>2 DEF Off
  <1>8. CASE W!checkProcessTaskDeprecation
    <2>1. PICK p : /\ launch' = [pc |-> p, name |-> launch.name, id |-> launch.id,
                         disabled |-> launch.disabled, deprecated |-> launch.deprecated]
                   /\ p # "workflow"
                   /\ p = "launched" =>
                        ~\E t \in W!LaunchTasks \cap TaskSpecs : specs[t] = "deprecated"
      BY <1>3, <1>8 DEF W!checkProcessTaskDeprecation
    <2>2. W!LaunchTasks' = W!LaunchTasks
      BY <1>1, <2>1 DEF W!LaunchTasks
    <2>3. launch.pc = "workflow"
      BY <1>8 DEF W!checkProcessTaskDeprecation
    <2> QED
      BY <1>1, <1>2, <2>1, <2>2, <2>3 DEF Off
  <1> QED
    BY <1>5, <1>6, <1>7, <1>8 DEF W!LaunchStep

\* Nothing is switched on unless the administrator is to do so.
LEMMA AdminKeeps ==
  ASSUME StoreInv, W!AdminStep PROVE StoreInv'
  <1>1. StoreShapes /\ Off
    BY DEF StoreInv
  <1>2. UNCHANGED <<scenario, wf, loads, timers, launch, conflicts>>
    BY Zenon DEF W!AdminStep, W!makeExecutable, W!GetTaskSpecUsage, W!DeprecateTaskSpec,
                 W!PutTaskSpec, W!store
  <1>3. W!LaunchTasks' = W!LaunchTasks
    BY <1>2 DEF W!LaunchTasks
  <1>4. ASSUME NEW n \in W!Names, NEW d \in BOOLEAN, W!makeExecutable(n, d) PROVE StoreInv'
    <2>1. /\ specs' = specs /\ wfVersion' = [wfVersion EXCEPT ![n].disabled = d, ![n].rev = @ + 1]
          /\ admin' \subseteq admin /\ (~d => <<"enable", n>> \in admin)
      BY <1>4, Zenon DEF W!makeExecutable
    <2> DEFINE v == wfVersion[n]
    <2>2. v \in Entries /\ wfVersion \in [W!Names -> Entries] /\ v.rev \in Nat
      BY <1>1 DEF StoreShapes, Entries
    <2>3. v = [versions |-> v.versions, disabled |-> v.disabled, rev |-> v.rev]
      BY <2>2 DEF Entries
    <2>4. /\ \A m \in W!Names \ {n} : wfVersion'[m] = wfVersion[m]
          /\ wfVersion'[n] = [versions |-> v.versions, disabled |-> d, rev |-> v.rev + 1]
          /\ wfVersion' = [m \in W!Names |-> wfVersion'[m]]
      BY <2>1, <2>2, <2>3
    <2>5. wfVersion'[n] \in Entries
      BY <2>2, <2>4 DEF Entries
    <2>6. wfVersion' \in [W!Names -> Entries]
      <3>1. \A m \in W!Names : wfVersion'[m] \in Entries
        BY <2>2, <2>4, <2>5
      <3> QED
        BY <2>4, <3>1
    <2>7. \A m \in W!Names : /\ wfVersion'[m].versions = wfVersion[m].versions
                             /\ wfVersion'[m].rev \in {wfVersion[m].rev, wfVersion[m].rev + 1}
      BY <2>4
    <2>8. Off'
      <3> SUFFICES ASSUME scenario.admin \cap SwitchOn = {} PROVE Off'
        BY <1>2 DEF Off, SwitchOn
      <3>1. admin \cap SwitchOn = {}
        BY <1>1 DEF Off
      <3>2. d
        BY <2>1, <3>1 DEF SwitchOn
      <3>3. \A m \in W!Names : wfVersion[m].disabled => wfVersion'[m].disabled
        BY <2>4, <3>2
      <3>4. admin' \cap SwitchOn = {}
        BY <2>1, <3>1
      <3> QED
        BY <1>1, <1>2, <1>3, <2>1, <3>3, <3>4, Zenon DEF Off, SwitchOn
    <2> QED
      BY <1>1, <1>2, <2>1, <2>6, <2>7, <2>8, VersionsStay DEF StoreShapes
  <1>5. ASSUME NEW t \in TaskSpecs,
               W!GetTaskSpecUsage(t) \/ W!DeprecateTaskSpec(t) \/ W!PutTaskSpec(t)
        PROVE  StoreInv'
    <2>1. wfVersion' = wfVersion /\ DOMAIN specs = TaskSpecs
      BY <1>1, <1>5 DEF W!GetTaskSpecUsage, W!DeprecateTaskSpec, W!PutTaskSpec, W!store, StoreShapes
    <2>2. DOMAIN specs' = TaskSpecs
      BY <1>5, <2>1 DEF W!GetTaskSpecUsage, W!DeprecateTaskSpec, W!PutTaskSpec, W!store
    <2>3. admin' \subseteq admin \cup {<<"mark", t>>}
      BY <1>5 DEF W!GetTaskSpecUsage, W!DeprecateTaskSpec, W!PutTaskSpec
    <2>4. \/ \A u \in TaskSpecs : specs[u] = "deprecated" => specs'[u] = "deprecated"
          \/ <<"register", t>> \in admin
      BY <1>5, <2>1 DEF W!GetTaskSpecUsage, W!DeprecateTaskSpec, W!PutTaskSpec, W!store
    <2>5. Off'
      <3> SUFFICES ASSUME scenario.admin \cap SwitchOn = {} PROVE Off'
        BY <1>2 DEF Off, SwitchOn
      <3>1. admin \cap SwitchOn = {}
        BY <1>1 DEF Off
      <3>2. \A u \in TaskSpecs : specs[u] = "deprecated" => specs'[u] = "deprecated"
        BY <2>4, <3>1 DEF SwitchOn
      <3>3. <<"mark", t>> \notin SwitchOn
        BY DEF SwitchOn
      <3>4. admin' \cap SwitchOn = {}
        BY <2>3, <3>1, <3>3
      <3> QED
        BY <1>1, <1>2, <1>3, <2>1, <3>2, <3>4 DEF Off, SwitchOn
    <2> QED
      BY <1>1, <1>2, <2>1, <2>2, <2>5, VersionsStay DEF StoreShapes
  <1> QED
    BY <1>4, <1>5 DEF W!AdminStep

\* Every step keeps the invariant.
LEMMA StoreStep == StoreInv /\ [W!Next]_(W!vars) => StoreInv'
  <1> SUFFICES ASSUME StoreInv, [W!Next]_(W!vars) PROVE StoreInv'
    OBVIOUS
  <1>1. ASSUME NEW l \in DOMAIN loads, NEW p,
               UNCHANGED <<scenario, wfVersion, wf, specs, launch, admin, timers, conflicts>>,
               \/ loads' = [loads EXCEPT ![l].pc = p]
               \/ loads' = [loads EXCEPT ![l].pc = p, ![l].after = {m \in DOMAIN loads : W!Done(m)}]
               \/ loads' = [loads EXCEPT ![l].at = @ + 1, ![l].pc = p],
               \/ /\ loads[l].pc \in {"idle", "processes", "messages", "tasks"}
                  /\ p \in {"processes", "messages", "tasks", "read", "failed"}
               \/ loads[l].pc = "buckets" /\ p = "timers"
        PROVE  StoreInv'
    <2>1. LoadShape(l)
      BY DEF StoreInv, StoreShapes
    <2>2. DOMAIN loads' = DOMAIN loads /\ \A m \in DOMAIN loads \ {l} : loads'[m] = loads[m]
      BY <1>1
    <2>3. \E at, after : loads'[l] = [pc |-> p, at |-> at, seen |-> loads[l].seen,
                                      newWf |-> loads[l].newWf, id |-> loads[l].id, after |-> after]
      <3> DEFINE a == loads[l].at + 1
                 f == {m \in DOMAIN loads : W!Done(m)}
      <3>1. \/ loads'[l] = [loads[l] EXCEPT !.pc = p]
            \/ loads'[l] = [loads[l] EXCEPT !.pc = p, !.after = f]
            \/ loads'[l] = [loads[l] EXCEPT !.at = a, !.pc = p]
        BY <1>1
      <3> HIDE DEF a, f
      <3>2. CASE loads'[l] = [loads[l] EXCEPT !.pc = p]
        BY <2>1, <3>2, Zenon DEF LoadShape
      <3>3. CASE loads'[l] = [loads[l] EXCEPT !.pc = p, !.after = f]
        BY <2>1, <3>3, Zenon DEF LoadShape
      <3>4. CASE loads'[l] = [loads[l] EXCEPT !.at = a, !.pc = p]
        BY <2>1, <3>4, ZenonT(30) DEF LoadShape
      <3> QED
        BY <3>1, <3>2, <3>3, <3>4, Zenon
    <2> QED
      BY <1>1, <2>2, <2>3, LoadMoves
  <1>2. ASSUME NEW l \in DOMAIN loads, W!StartLoad(l) PROVE StoreInv'
    BY <1>1, <1>2, Zenon DEF W!StartLoad, W!store
  <1>3. ASSUME NEW l \in DOMAIN loads, W!validateUniqueProcessIdFor(l) PROVE StoreInv'
    <2>1. /\ UNCHANGED <<scenario, wfVersion, wf, specs, launch, admin, timers, conflicts>>
          /\ loads[l].pc = "processes"
          /\ \E p \in {"messages", "failed"} : loads' = [loads EXCEPT ![l].pc = p]
      BY <1>3, ZenonT(30) DEF W!validateUniqueProcessIdFor, W!LoadOnly, W!store, W!To
    <2> QED
      BY <1>1, <2>1, ZenonT(30)
  <1>4. ASSUME NEW l \in DOMAIN loads, W!validateUniqueMessageNames(l) PROVE StoreInv'
    <2>1. /\ UNCHANGED <<scenario, wfVersion, wf, specs, launch, admin, timers, conflicts>>
          /\ loads[l].pc = "messages"
          /\ \E p \in {"tasks", "failed"} : loads' = [loads EXCEPT ![l].pc = p]
      BY <1>4, ZenonT(30) DEF W!validateUniqueMessageNames, W!LoadOnly, W!store, W!To
    <2> QED
      BY <1>1, <2>1, Zenon
  <1>5. ASSUME NEW l \in DOMAIN loads, W!ProcessServiceTasks(l) PROVE StoreInv'
    <2> DEFINE last == loads[l].at = Len(W!Def(l).process)
    <2>1. /\ UNCHANGED <<scenario, wfVersion, wf, specs, launch, admin, timers, conflicts>>
          /\ loads[l].pc = "tasks"
          /\ \/ loads' = [loads EXCEPT ![l].at = @ + 1, ![l].pc = IF last THEN "read" ELSE @]
             \/ loads' = [loads EXCEPT ![l].pc = "failed"]
      BY <1>5, Zenon DEF W!ProcessServiceTasks, W!LoadOnly, W!To
    <2>2. \E p \in {"tasks", "read"} : (IF last THEN "read" ELSE loads[l].pc) = p
      BY <2>1
    <2> HIDE DEF last
    <2>3. CASE loads' = [loads EXCEPT ![l].at = @ + 1, ![l].pc = IF last THEN "read" ELSE @]
      <3>1. \E p \in {"tasks", "read"} : loads' = [loads EXCEPT ![l].at = @ + 1, ![l].pc = p]
        BY <2>1, <2>3, Zenon
      <3> QED
        BY <1>1, <2>1, <3>1, ZenonT(30)
    <2>4. CASE loads' = [loads EXCEPT ![l].pc = "failed"]
      BY <1>1, <2>1, <2>4, Zenon
    <2> QED
      BY <2>1, <2>3, <2>4
  <1>6. ASSUME NEW l \in DOMAIN loads, W!WriteVersions(l) PROVE StoreInv'
    <2>1. /\ UNCHANGED <<scenario, wf, specs, launch, admin, timers>> /\ loads[l].pc = "write"
      BY <1>6 DEF W!WriteVersions, W!LoadOnly
    <2>2. CASE wfVersion[W!Def(l).name].rev = loads[l].seen.rev
      <3>1. /\ wfVersion' = [wfVersion EXCEPT ![W!Def(l).name].versions = W!Added(l, loads[l].seen),
                                              ![W!Def(l).name].rev = @ + 1]
            /\ loads' = [loads EXCEPT ![l].pc = IF loads[l].newWf THEN "buckets" ELSE "done"]
            /\ conflicts' = conflicts
        BY <1>6, <2>2, Zenon DEF W!WriteVersions, W!To
      <3> QED
        BY <2>1, <2>2, <3>1, WriteKeeps, Zenon
    <2>3. CASE ~(wfVersion[W!Def(l).name].rev = loads[l].seen.rev)
      <3>1. /\ wfVersion' = wfVersion /\ conflicts' = conflicts + 1
            /\ loads' = [loads EXCEPT ![l].pc = "read"]
        BY <1>6, <2>3, ZenonT(30) DEF W!WriteVersions, W!To
      <3> QED
        BY <2>1, <3>1, RereadKeeps, Zenon
    <2> QED
      BY <2>2, <2>3
  <1>7. ASSUME NEW l \in DOMAIN loads, W!ensureMessageBuckets(l) PROVE StoreInv'
    <2>1. /\ UNCHANGED <<scenario, wfVersion, wf, specs, launch, admin, timers, conflicts>>
          /\ loads[l].pc = "buckets" /\ loads' = [loads EXCEPT ![l].pc = "timers"]
      BY <1>7, ZenonT(30) DEF W!ensureMessageBuckets, W!LoadOnly, W!To
    <2> QED
      BY <1>1, <2>1, ZenonT(30)
  <1>8. CASE UNCHANGED W!vars
    <2>1. UNCHANGED <<scenario, wfVersion, wf, specs, loads, timers, launch, admin, conflicts>>
      BY <1>8 DEF W!vars, W!store
    <2>2. W!LaunchTasks' = W!LaunchTasks
      BY <2>1 DEF W!LaunchTasks
    <2>3. Off'
      BY <2>1, <2>2, Zenon DEF StoreInv, Off
    <2> QED
      BY <2>1, <2>3, VersionsStay DEF StoreInv, StoreShapes
  <1> QED
    BY <1>2, <1>3, <1>4, <1>5, <1>6, <1>7, <1>8, ReadKeeps, StartTimersKeeps, LaunchKeeps,
       AdminKeeps
    DEF W!Next, W!LoadStep, W!Terminating

\* LaunchWithParent starts nothing that was switched off, or had a deprecated task,
\* when the call came in, unless it was switched on again: whatever is loaded and
\* disabled at the same time.
THEOREM LaunchesAreAllowed == W!Spec => []LaunchAllowed
  <1>1. StoreInv => LaunchAllowed
    BY DEF StoreInv, Off, LaunchAllowed, W!LaunchAllowed, SwitchOn
  <1> QED
    BY <1>1, StoreInit, StoreStep, PTL DEF W!Spec

\* The instance has the cardinality of FiniteSets under a name of its own.
LEMMA SameCount == \A S : W!Cardinality(S) = Cardinality(S)
  BY Zenon DEF W!Cardinality, Cardinality, W!IsFiniteSet, IsFiniteSet

\* storeWorkflow lists no version whose definition is not stored, nor the same twice
\* in a row, and when the loads are over each timed version has one timer, unless an
\* update had to start over: for any number of loads of any definitions.
THEOREM VersionsStayConsistent == W!Spec => []VersionsConsistent
  <1>1. StoreInv => VersionsConsistent
    <2> SUFFICES ASSUME StoreInv, NEW n \in W!Names, NEW i \in DOMAIN wfVersion[n].versions
                 PROVE  LET v == wfVersion[n].versions[i]
                        IN  /\ wf[v.id]
                            /\ i > 1 => v.hash # wfVersion[n].versions[i - 1].hash
                            /\ W!AllEnded /\ conflicts = 0 /\ W!Def(v.id).timed =>
                                 W!TimersOf(v.id) = 1
      BY Zenon DEF VersionsConsistent, W!VersionsConsistent
    <2> DEFINE v == wfVersion[n].versions[i]
    <2>1. i \in 1 .. Len(wfVersion[n].versions)
      <3>1. wfVersion[n].versions \in Versions
        BY DEF StoreInv, StoreShapes, Entries
      <3> QED
        BY <3>1 DEF Versions
    <2>2. wf[v.id] /\ (i > 1 => v.hash # wfVersion[n].versions[i - 1].hash)
      BY <2>1 DEF StoreInv, Saved
    <2>3. ASSUME W!AllEnded, conflicts = 0, W!Def(v.id).timed PROVE W!TimersOf(v.id) = 1
      <3>1. TimedOnce
        BY <2>3 DEF StoreInv
      <3>2. loads[v.id].newWf /\ loads[v.id].pc \in {"buckets", "timers", "done"}
        BY <2>1, <3>1, Zenon DEF TimedOnce
      <3>3. v.id \in DOMAIN loads
        BY <2>1, VersionsAreLoads DEF StoreInv, StoreShapes
      <3> DEFINE l == v.id
      <3> HIDE DEF l
      <3>4. loads[l].newWf /\ loads[l].pc = "done" /\ l \in DOMAIN loads /\ W!Def(l).timed
        BY <2>3, <3>2, <3>3 DEF W!AllEnded, W!Ended, l
      <3>5. PICK k \in 1 .. Len(timers) : timers[k] = l
        BY <3>1, <3>4 DEF TimedOnce
      <3>6. DOMAIN timers = 1 .. Len(timers)
        BY <3>1 DEF TimedOnce
      <3>7. {j \in DOMAIN timers : timers[j] = l} = {k}
        BY <3>1, <3>5, <3>6 DEF TimedOnce
      <3>8. Cardinality({k}) = 1
        BY FS_Singleton, Zenon
      <3>9. W!TimersOf(l) = 1
        BY <3>7, <3>8, SameCount, Zenon DEF W!TimersOf
      <3> QED
        BY <3>9 DEF l
    <2> QED
      BY <2>2, <2>3
  <1> QED
    BY <1>1, StoreInit, StoreStep, PTL DEF W!Spec
=============================================================================
