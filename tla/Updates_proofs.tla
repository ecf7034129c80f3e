--------------------------- MODULE Updates_proofs ---------------------------
(* Proofs that updates are not lost: of an object with a revision, for any  *)
(* number of callers of UpdateObj and Delete (OptimisticUpdate), and of a   *)
(* large object under a lock, for any number of callers, faults, deaths and *)
(* timeouts, as long as no lock expires early (Locks).                      *)
EXTENDS OptimisticUpdate, SharUpdates, FiniteSetTheorems, TLAPS

---------------------------------------------------------------------------
(* OptimisticUpdate.                                                        *)

\* Every state of the program has its type: TypeOK holds for any number of
\* concurrent UpdateObj and Delete calls (common/natsutil.go:40-194).
THEOREM TypeCorrect == Spec => []TypeOK
<1>1. Init => TypeOK
  BY ConstantsAssumption DEF Init, TypeOK, Entries, Present
<1>2. TypeOK /\ [Next]_vars => TypeOK'
  <2> SUFFICES ASSUME TypeOK, [Next]_vars PROVE TypeOK'
    OBVIOUS
  <2> USE DEF TypeOK, Entries, Present, Goto, Put
  <2>1. ASSUME NEW u \in Updaters, Peek(u) PROVE TypeOK'
    BY <2>1 DEF Peek
  <2>2. ASSUME NEW u \in Updaters, SaveObj(u) PROVE TypeOK'
    BY <2>2 DEF SaveObj
  <2>3. ASSUME NEW u \in Updaters, Get(u) PROVE TypeOK'
    BY <2>3 DEF Get
  <2>4. ASSUME NEW u \in Updaters, Update(u) PROVE TypeOK'
    <3>1. seen[u].val \cup {u} \in SUBSET Updaters
      OBVIOUS
    <3> QED BY <2>4, <3>1 DEF Update
  <2>5. ASSUME NEW d \in Deleters, Delete(d) PROVE TypeOK'
    BY <2>5 DEF Delete, Remove
  <2>6. CASE UNCHANGED vars
    BY <2>6 DEF vars
  <2> QED BY <2>1, <2>2, <2>3, <2>4, <2>5, <2>6 DEF Next, Call, Terminating
<1> QED BY <1>1, <1>2, PTL DEF Spec

---------------------------------------------------------------------------
\* A call past its look-up has found the key or created it, so the key is
\* present unless a Delete has happened: this is what FailsOnlyAfterDelete
\* needs to be inductive.
PresentOrDeleted ==
  \A u \in Updaters : pc[u] \in {"get", "update", "failed"} =>
     (Present(entry) /\ pc[u] # "failed") \/ \E d \in Deleters : pc[d] = "done"

\* An UpdateObj call can miss its key only after a Delete, whatever the
\* callers and whether or not the key existed (UpdateObj, natsutil.go:129-153).
THEOREM MissingKeyMeansDeleted == Spec => []FailsOnlyAfterDelete
<1>1. Init => PresentOrDeleted
  BY DEF Init, PresentOrDeleted, Present
<1>2. TypeOK /\ PresentOrDeleted /\ [Next]_vars => PresentOrDeleted'
  <2> SUFFICES ASSUME TypeOK, PresentOrDeleted, [Next]_vars
               PROVE  PresentOrDeleted'
    OBVIOUS
  <2> USE ConstantsAssumption DEF TypeOK, Entries, Present, Goto, Put, PresentOrDeleted
  <2>1. ASSUME NEW u \in Updaters, Peek(u) PROVE PresentOrDeleted'
    BY <2>1 DEF Peek
  <2>2. ASSUME NEW u \in Updaters, SaveObj(u) PROVE PresentOrDeleted'
    BY <2>2 DEF SaveObj
  <2>3. ASSUME NEW u \in Updaters, Get(u) PROVE PresentOrDeleted'
    BY <2>3 DEF Get
  <2>4. ASSUME NEW u \in Updaters, Update(u) PROVE PresentOrDeleted'
    BY <2>4 DEF Update
  <2>5. ASSUME NEW d \in Deleters, Delete(d) PROVE PresentOrDeleted'
    BY <2>5 DEF Delete, Remove
  <2>6. CASE UNCHANGED vars
    BY <2>6 DEF vars
  <2> QED BY <2>1, <2>2, <2>3, <2>4, <2>5, <2>6 DEF Next, Call, Terminating
<1>3. PresentOrDeleted => FailsOnlyAfterDelete
  BY DEF PresentOrDeleted, FailsOnlyAfterDelete
<1> QED BY <1>1, <1>2, <1>3, TypeCorrect, PTL DEF Spec

---------------------------------------------------------------------------
\* NoLostUpdate is not inductive: a call that is about to write must have
\* read what is stored now, or else a revision that is no longer the latest.
Coherent == intact = "yes" =>
            /\ Present(entry)
            /\ entry.val = Succeeded
            /\ \A u \in Updaters :
                 /\ pc[u] \in {"peek", "get", "update", "done"}
                 /\ pc[u] = "update" =>
                      /\ seen[u].rev <= entry.rev
                      /\ seen[u].rev = entry.rev => seen[u].val = entry.val

\* The step of a caller that wins the revision check, on an intact key.
LEMMA WinningUpdate ==
  ASSUME TypeOK, Coherent, intact = "yes",
         NEW u \in Updaters, Update(u), entry.rev = seen[u].rev
  PROVE  /\ entry' = [op |-> "put", val |-> entry.val \cup {u},
                      rev |-> entry.rev + 1]
         /\ pc' = [pc EXCEPT ![u] = "done"]
         /\ UNCHANGED <<seen, intact>>
         /\ u \notin Succeeded
         /\ Succeeded' = Succeeded \cup {u}
<1> USE DEF TypeOK, Entries, Goto
<1>1. /\ pc[u] = "update"
      /\ entry' = [op |-> "put", val |-> seen[u].val \cup {u},
                   rev |-> entry.rev + 1]
      /\ pc' = [pc EXCEPT ![u] = "done"]
      /\ UNCHANGED <<seen, intact>>
  BY DEF Update, Put
<1>2. seen[u].val = entry.val
  BY <1>1 DEF Coherent
<1>3. u \notin Succeeded /\ Succeeded' = Succeeded \cup {u}
  BY <1>1 DEF Succeeded
<1> QED BY <1>1, <1>2, <1>3

\* Coherent is an invariant: only a winning Update (natsutil.go:52-66) changes
\* the value of an intact key.
LEMMA CoherentInvariant == Spec => []Coherent
<1>1. Init => Coherent
  <2> SUFFICES ASSUME Init, intact = "yes" PROVE Coherent
    BY DEF Coherent
  <2>1. entry = [op |-> "put", val |-> {}, rev |-> 1]
    BY DEF Init
  <2>2. \A u \in Updaters : pc[u] = "peek"
    BY DEF Init
  <2>3. Succeeded = {}
    BY <2>2 DEF Succeeded
  <2> QED BY <2>1, <2>2, <2>3 DEF Coherent, Present
<1>2. TypeOK /\ Coherent /\ [Next]_vars => Coherent'
  <2> SUFFICES ASSUME TypeOK, Coherent, [Next]_vars, intact' = "yes"
               PROVE  Coherent'
    BY DEF Coherent
  <2>0. intact = "yes"
    <3>1. ASSUME NEW d \in Deleters, Delete(d) PROVE FALSE
      BY <3>1 DEF Delete
    <3> QED BY <3>1, Zenon DEF Next, Call, Peek, SaveObj, Get, Update, Terminating, vars
  <2> USE <2>0 DEF TypeOK, Entries, Present, Goto, Coherent, Succeeded
  <2>1. ASSUME NEW u \in Updaters, Peek(u) PROVE Coherent'
    BY <2>1 DEF Peek
  <2>2. ASSUME NEW u \in Updaters, SaveObj(u) PROVE Coherent'
    BY <2>2 DEF SaveObj
  <2>3. ASSUME NEW u \in Updaters, Get(u) PROVE Coherent'
    <3>1. Succeeded' = Succeeded
      BY <2>3 DEF Get
    <3>2. UNCHANGED entry
      BY <2>3 DEF Get
    <3>3. \A v \in Updaters :
            pc'[v] \in {"peek", "get", "update", "done"}
      BY <2>3 DEF Get
    <3>4. \A v \in Updaters : pc'[v] = "update" => seen'[v] = entry \/
            (pc[v] = "update" /\ seen'[v] = seen[v])
      BY <2>3 DEF Get
    <3> QED BY <3>1, <3>2, <3>3, <3>4
  <2>4. ASSUME NEW u \in Updaters, Update(u) PROVE Coherent'
    <3>1. CASE entry.rev = seen[u].rev
      <4>1. /\ entry' = [op |-> "put", val |-> entry.val \cup {u},
                         rev |-> entry.rev + 1]
            /\ pc' = [pc EXCEPT ![u] = "done"]
            /\ UNCHANGED <<seen, intact>>
            /\ Succeeded' = Succeeded \cup {u}
        BY <2>4, <3>1, WinningUpdate
      <4>2. \A v \in Updaters : pc'[v] = "update" => seen'[v].rev < entry'.rev
        BY <4>1
      <4> QED BY <4>1, <4>2
    <3>2. CASE entry.rev # seen[u].rev
      <4>1. pc' = [pc EXCEPT ![u] = "get"] /\ UNCHANGED <<entry, seen>>
        BY <2>4, <3>2 DEF Update
      <4>2. Succeeded' = Succeeded
        BY <2>4, <4>1 DEF Update
      <4> QED BY <4>1, <4>2
    <3> QED BY <3>1, <3>2
  <2>5. ASSUME NEW d \in Deleters, Delete(d) PROVE Coherent'
    BY <2>5 DEF Delete
  <2>6. CASE UNCHANGED vars
    BY <2>6 DEF vars
  <2> QED BY <2>1, <2>2, <2>3, <2>4, <2>5, <2>6 DEF Next, Call, Terminating
<1> QED BY <1>1, <1>2, TypeCorrect, PTL DEF Spec

\* No update is lost, for any number of concurrent UpdateObj calls: the
\* revision check of updateKV (natsutil.go:52-66) suffices on a live key.
THEOREM UpdatesAreNotLost == Spec => []NoLostUpdate
<1>1. Coherent => NoLostUpdate
  BY DEF Coherent, NoLostUpdate
<1> QED BY <1>1, CoherentInvariant, PTL

---------------------------------------------------------------------------
AtomicSafety == Atomic!Init /\ [][Atomic!Next]_(Atomic!vars)

\* On a live key the interleaved steps of UpdateObj implement an atomic
\* update: a successful Update is the abstract Apply, and every other step of
\* natsutil.go:40-153 changes nothing the callers can observe, until a Delete
\* ends the promise.
THEOREM UpdateIsAtomic == Spec => AtomicSafety
<1>1. Init => Atomic!Init
  <2> SUFFICES ASSUME Init PROVE Atomic!Init
    OBVIOUS
  <2>1. entry.val = {} /\ intact \in {"yes", "no"}
    BY DEF Init
  <2>2. Succeeded = {}
    BY ConstantsAssumption, Zenon DEF Init, Succeeded
  <2> QED BY <2>1, <2>2 DEF Atomic!Init
<1>2. TypeOK /\ Coherent /\ [Next]_vars => [Atomic!Next]_(Atomic!vars)
  <2> SUFFICES ASSUME TypeOK, Coherent, [Next]_vars, intact' # "no"
               PROVE  [Atomic!Next]_(Atomic!vars)
    BY DEF Atomic!Next, Atomic!Unprotected
  <2>0. intact = "yes"
    <3>1. ASSUME NEW d \in Deleters, Delete(d) PROVE FALSE
      BY <3>1 DEF Delete
    <3>2. UNCHANGED intact
      BY <3>1, Zenon DEF Next, Call, Peek, SaveObj, Get, Update, Terminating, vars
    <3> QED BY <3>2 DEF TypeOK
  <2> USE <2>0 DEF TypeOK, Entries, Present, Goto, Atomic!vars
  <2>1. ASSUME NEW u \in Updaters, Peek(u) PROVE UNCHANGED Atomic!vars
    BY <2>1 DEF Peek, Coherent, Succeeded
  <2>2. ASSUME NEW u \in Updaters, SaveObj(u) PROVE FALSE
    BY <2>2 DEF SaveObj, Coherent
  <2>3. ASSUME NEW u \in Updaters, Get(u) PROVE UNCHANGED Atomic!vars
    BY <2>3 DEF Get, Coherent, Succeeded
  <2>4. ASSUME NEW u \in Updaters, Update(u)
        PROVE  Atomic!Apply(u) \/ UNCHANGED Atomic!vars
    <3>1. CASE entry.rev = seen[u].rev
      <4>1. /\ entry'.val = entry.val \cup {u}
            /\ u \notin Succeeded
            /\ Succeeded' = Succeeded \cup {u}
            /\ UNCHANGED intact
        BY <2>4, <3>1, WinningUpdate
      <4> QED BY <4>1 DEF Atomic!Apply
    <3>2. CASE entry.rev # seen[u].rev
      BY <2>4, <3>2 DEF Update, Succeeded
    <3> QED BY <3>1, <3>2
  <2>5. ASSUME NEW d \in Deleters, Delete(d) PROVE FALSE
    BY <2>5 DEF Delete
  <2>6. CASE UNCHANGED vars
    BY <2>6 DEF vars, Succeeded
  <2> QED BY <2>1, <2>2, <2>3, <2>4, <2>5, <2>6
          DEF Next, Call, Terminating, Atomic!Next
<1> QED BY <1>1, <1>2, CoherentInvariant, TypeCorrect, PTL DEF Spec, AtomicSafety

---------------------------------------------------------------------------
(* Locks.                                                                   *)

\* The variables of the parts by their names.
scenario == v1
lock == v2
object == v3
exists == v4
published == v5
call == v6
stale == v7
lost == v8
budget == v9

USE DEF scenario, lock, object, exists, published, call, stale, lost, budget

\* Records are updated field by field; this is what it takes to say of what.
Typed ==
  /\ "none" \notin L!Callers /\ lock \in L!Callers \cup {"none"} /\ DOMAIN call = L!Callers
  /\ \A c \in L!Callers : DOMAIN call[c] = {"pc", "phase", "read", "result"}

\* A call begins in its first phase, and only PublishOnce asks the consumer.
Phases ==
  \A c \in L!Callers : /\ call[c].phase \in {"first", "second"}
                       /\ L!At(c, "idle") => call[c].phase = "first"
                       /\ L!At(c, "info") => L!Op(c) = "once"

\* Between Lock and UnLock.
Inside(c) == call[c].pc \in {"access", "unlock", "remove"}

\* Whoever is between Lock and UnLock has the lock.
Held == ~lost => \A c \in L!Callers : Inside(c) => lock = c

\* What UpdatesKept asks for before it promises anything of updates.
Quiet == ~lost /\ stale = {} /\ \A c \in L!Callers : L!Op(c) \notin {"save", "delete"}

\* The course of an update: what it has read is what is in the object until it
\* saves, and from then on its change is in the object.
Course(c) ==
  /\ call[c].phase = "first" /\ call[c].result = "ok" /\ call[c].pc \in {"unlock", "remove"}
       => call[c].read = object
  /\ call[c].phase = "second" /\ call[c].pc \in {"lock", "access"} => call[c].read = object
  /\ call[c].phase = "second" /\ call[c].result = "ok" /\ call[c].pc \in {"unlock", "remove", "done"}
       => c \in object
  /\ call[c].result = "ok" /\ call[c].pc = "done" => call[c].phase = "second"

\* Updates keep to their course.
Updating == Quiet => \A c \in L!Callers : L!Op(c) = "update" => Course(c)

\* The inductive invariant.
LocksInv == Typed /\ Phases /\ Held /\ Updating

\* Caller c has come to these values, and the others are where they were.
Moved(c, p, f, r, s) ==
  /\ Typed' /\ L!Callers' = L!Callers /\ (\A d \in L!Callers : L!Op(d)' = L!Op(d))
  /\ call'[c].pc = p /\ call'[c].phase = f /\ call'[c].read = r /\ call'[c].result = s
  /\ \A d \in L!Callers \ {c} : call'[d] = call[d]

\* A step changes some fields of the record of its caller.
LEMMA OneCall ==
  ASSUME Typed, NEW c \in L!Callers, UNCHANGED scenario, lock' \in L!Callers \cup {"none"}
  PROVE  /\ \A p : call' = [call EXCEPT ![c].pc = p] =>
              Moved(c, p, call[c].phase, call[c].read, call[c].result)
         /\ \A p, s : call' = [call EXCEPT ![c].pc = p, ![c].result = s] =>
              Moved(c, p, call[c].phase, call[c].read, s)
         /\ \A p, f : call' = [call EXCEPT ![c].pc = p, ![c].phase = f] =>
              Moved(c, p, f, call[c].read, call[c].result)
         /\ \A p, r, s : call' = [call EXCEPT ![c].pc = p, ![c].read = r, ![c].result = s] =>
              Moved(c, p, call[c].phase, r, s)
  <1>1. L!Callers' = L!Callers /\ \A d \in L!Callers : L!Op(d)' = L!Op(d)
    BY DEF L!Callers, L!Op
  <1>2. ASSUME NEW p, call' = [call EXCEPT ![c].pc = p]
        PROVE  Moved(c, p, call[c].phase, call[c].read, call[c].result)
    <2>1. DOMAIN call' = L!Callers /\ \A d \in L!Callers \ {c} : call'[d] = call[d]
      BY <1>2 DEF Typed
    <2>2. DOMAIN call'[c] = DOMAIN call[c]
      BY <1>2 DEF Typed
    <2>3. /\ call'[c].pc = p /\ call'[c].phase = call[c].phase
          /\ call'[c].read = call[c].read /\ call'[c].result = call[c].result
      BY <1>2 DEF Typed
    <2>4. Typed'
      BY <1>1, <2>1, <2>2 DEF Typed
    <2> QED
      BY <1>1, <2>1, <2>3, <2>4 DEF Moved
  <1>3. ASSUME NEW p, NEW s, call' = [call EXCEPT ![c].pc = p, ![c].result = s]
        PROVE  Moved(c, p, call[c].phase, call[c].read, s)
    <2>1. DOMAIN call' = L!Callers /\ \A d \in L!Callers \ {c} : call'[d] = call[d]
      BY <1>3 DEF Typed
    <2>2. DOMAIN call'[c] = DOMAIN call[c]
      BY <1>3 DEF Typed
    <2>3. /\ call'[c].pc = p /\ call'[c].phase = call[c].phase
          /\ call'[c].read = call[c].read /\ call'[c].result = s
      BY <1>3 DEF Typed
    <2>4. Typed'
      BY <1>1, <2>1, <2>2 DEF Typed
    <2> QED
      BY <1>1, <2>1, <2>3, <2>4 DEF Moved
  <1>4. ASSUME NEW p, NEW f, call' = [call EXCEPT ![c].pc = p, ![c].phase = f]
        PROVE  Moved(c, p, f, call[c].read, call[c].result)
    <2>1. DOMAIN call' = L!Callers /\ \A d \in L!Callers \ {c} : call'[d] = call[d]
      BY <1>4 DEF Typed
    <2>2. DOMAIN call'[c] = DOMAIN call[c]
      BY <1>4 DEF Typed
    <2>3. /\ call'[c].pc = p /\ call'[c].phase = f
          /\ call'[c].read = call[c].read /\ call'[c].result = call[c].result
      BY <1>4 DEF Typed
    <2>4. Typed'
      BY <1>1, <2>1, <2>2 DEF Typed
    <2> QED
      BY <1>1, <2>1, <2>3, <2>4 DEF Moved
  <1>5. ASSUME NEW p, NEW r, NEW s, call' = [call EXCEPT ![c].pc = p, ![c].read = r, ![c].result = s]
        PROVE  Moved(c, p, call[c].phase, r, s)
    <2>1. DOMAIN call' = L!Callers /\ \A d \in L!Callers \ {c} : call'[d] = call[d]
      BY <1>5 DEF Typed
    <2>2. DOMAIN call'[c] = DOMAIN call[c]
      BY <1>5 DEF Typed
    <2>3. /\ call'[c].pc = p /\ call'[c].phase = call[c].phase
          /\ call'[c].read = r /\ call'[c].result = s
      BY <1>5 DEF Typed
    <2>4. Typed'
      BY <1>1, <2>1, <2>2 DEF Typed
    <2> QED
      BY <1>1, <2>1, <2>3, <2>4 DEF Moved
  <1> QED
    BY <1>2, <1>3, <1>4, <1>5, Zenon
\* The object is as it was: the other updates are where they were.
LEMMA OthersKept ==
  ASSUME LocksInv, NEW c \in L!Callers, NEW p, NEW f, NEW r, NEW s, Moved(c, p, f, r, s),
         f \in {"first", "second"}, p # "idle", p = "info" => L!Op(c) = "once", Held',
         object' = object, stale' = stale, lost => lost',
         Quiet /\ L!Op(c) = "update" => Course(c)'
  PROVE  LocksInv'
  <1>1. Phases'
    BY DEF Phases, LocksInv, Moved, L!At
  <1>2. Quiet' => Quiet
    BY DEF Quiet, Moved
  <1>3. ASSUME Quiet, NEW d \in L!Callers \ {c}, L!Op(d) = "update"
        PROVE  Course(d)'
    <2>1. Course(d) /\ call'[d] = call[d]
      BY <1>3 DEF LocksInv, Updating, Moved
    <2> QED
      BY <2>1 DEF Course
  <1>4. Updating'
    BY <1>2, <1>3 DEF Updating, Moved
  <1> QED
    BY <1>1, <1>4 DEF LocksInv, Moved

\* The way to the lock.
LEMMA Approach ==
  ASSUME LocksInv, NEW c \in L!Callers,
         L!Start(c) \/ L!Info(c) \/ L!Lock(c) \/ L!LockHeld(c) \/ L!ContextDone(c)
  PROVE  LocksInv'
  <1> USE DEF L!At
  <1>1. /\ Typed /\ Held /\ call[c].phase \in {"first", "second"}
        /\ Quiet /\ L!Op(c) = "update" => Course(c)
        /\ call[c].pc = "info" => L!Op(c) = "once"
        /\ call[c].pc = "idle" => call[c].phase = "first"
    BY DEF LocksInv, Phases, Updating
  <1>2. UNCHANGED <<scenario, object, stale, lost>>
    BY DEF L!Start, L!Info, L!Lock, L!LockHeld, L!ContextDone
  <1>3. CASE L!Start(c)
    <2> DEFINE p == IF L!Op(c) = "once" THEN "info" ELSE "lock"
    <2>1. call' = [call EXCEPT ![c].pc = p] /\ lock' = lock /\ call[c].pc = "idle"
      BY <1>3 DEF L!Start, L!Goto
    <2>2. lock' \in L!Callers \cup {"none"}
      BY <1>1, <2>1 DEF Typed
    <2>3. Moved(c, p, call[c].phase, call[c].read, call[c].result)
      BY <1>1, <1>2, <2>1, <2>2, OneCall, Zenon
    <2>4. Held'
      BY <1>1, <1>2, <2>1, <2>3 DEF Held, Inside, Moved
    <2>5. Quiet /\ L!Op(c) = "update" => Course(c)'
      BY <1>1, <1>2, <2>1, <2>3 DEF Course, Moved
    <2> QED
      BY <1>1, <1>2, <2>3, <2>4, <2>5, OthersKept
  <1>4. CASE L!Info(c)
    <2>1. lock' = lock /\ call[c].pc = "info"
      BY <1>4 DEF L!Info
    <2>2. lock' \in L!Callers \cup {"none"}
      BY <1>1, <2>1 DEF Typed
    <2>3. CASE call' = [call EXCEPT ![c].pc = "lock", ![c].phase = "second"]
      <3>1. Moved(c, "lock", "second", call[c].read, call[c].result)
        BY <1>1, <1>2, <2>2, <2>3, OneCall, Zenon
      <3>2. Held'
        BY <1>1, <1>2, <2>1, <3>1 DEF Held, Inside, Moved
      <3> QED
        BY <1>1, <1>2, <2>1, <3>1, <3>2, OthersKept
    <2>4. CASE call' = [call EXCEPT ![c].pc = "done", ![c].result = "ok"]
      <3>1. Moved(c, "done", call[c].phase, call[c].read, "ok")
        BY <1>1, <1>2, <2>2, <2>4, OneCall, Zenon
      <3>2. Held'
        BY <1>1, <1>2, <2>1, <3>1 DEF Held, Inside, Moved
      <3> QED
        BY <1>1, <1>2, <2>1, <3>1, <3>2, OthersKept
    <2> QED
      BY <1>4, <2>3, <2>4 DEF L!Info, L!Finish
  <1>5. CASE L!Lock(c)
    <2>1. /\ call' = [call EXCEPT ![c].pc = "access"]
          /\ lock = "none" /\ lock' = c /\ call[c].pc = "lock"
      BY <1>5 DEF L!Lock, L!Goto
    <2>2. Moved(c, "access", call[c].phase, call[c].read, call[c].result)
      BY <1>1, <1>2, <2>1, OneCall, Zenon
    <2>3. Held'
      BY <1>1, <1>2, <2>1, <2>2 DEF Held, Inside, Moved, Typed
    <2>4. Quiet /\ L!Op(c) = "update" => Course(c)'
      BY <1>1, <1>2, <2>1, <2>2 DEF Course, Moved
    <2> QED
      BY <1>1, <1>2, <2>2, <2>3, <2>4, OthersKept
  <1>6. CASE L!LockHeld(c) \/ L!ContextDone(c)
    <2>1. lock' = lock /\ call[c].pc = "lock"
      BY <1>6 DEF L!LockHeld, L!ContextDone
    <2>2. lock' \in L!Callers \cup {"none"}
      BY <1>1, <2>1 DEF Typed
    <2>3. ASSUME NEW s, call' = [call EXCEPT ![c].pc = "done", ![c].result = s],
                 L!Op(c) = "update" => s = "error"
          PROVE  LocksInv'
      <3>1. Moved(c, "done", call[c].phase, call[c].read, s)
        BY <1>1, <1>2, <2>2, <2>3, OneCall, Zenon
      <3>2. Held'
        BY <1>1, <1>2, <2>1, <3>1 DEF Held, Inside, Moved
      <3>3. Quiet /\ L!Op(c) = "update" => Course(c)'
        BY <1>1, <1>2, <2>3, <3>1 DEF Course, Moved
      <3> QED
        BY <1>1, <1>2, <3>1, <3>2, <3>3, OthersKept
    <2>4. CASE UNCHANGED call
      BY <1>2, <2>1, <2>4
      DEF LocksInv, Typed, Phases, Held, Updating, Course, Quiet, Inside, L!Callers, L!Op
    <2> QED
      BY <1>6, <2>3, <2>4 DEF L!LockHeld, L!ContextDone, L!Finish
  <1> QED
    BY <1>3, <1>4, <1>5, <1>6

\* What is done under the lock, and the end of it.
LEMMA Within ==
  ASSUME LocksInv, NEW c \in L!Callers,
         L!Read(c) \/ L!AccessFails(c) \/ L!FindLock(c) \/ L!UnLock(c) \/ L!Die(c)
  PROVE  LocksInv'
  <1> USE DEF L!At
  <1>1. /\ Typed /\ Held /\ call[c].phase \in {"first", "second"}
        /\ Quiet /\ L!Op(c) = "update" => Course(c)
    BY DEF LocksInv, Phases, Updating
  <1>2. UNCHANGED <<scenario, object, stale>> /\ (lost => lost')
    <2>1. UNCHANGED <<scenario, object, stale>>
      BY DEF L!Read, L!AccessFails, L!FindLock, L!UnLock, L!Die
    <2>2. lost => lost'
      BY Zenon DEF L!Read, L!AccessFails, L!FindLock, L!UnLock, L!Die
    <2> QED
      BY <2>1, <2>2
  <1>3. CASE L!Read(c)
    <2> DEFINE s == IF exists THEN "ok" ELSE "error"
    <2>1. /\ call' = [call EXCEPT ![c].pc = "unlock", ![c].read = object, ![c].result = s]
          /\ lock' = lock /\ lost' = lost /\ call[c].pc = "access" /\ ~L!Writes(c)
      BY <1>3 DEF L!Read
    <2>2. lock' \in L!Callers \cup {"none"}
      BY <1>1, <2>1 DEF Typed
    <2>3. Moved(c, "unlock", call[c].phase, object, s)
      BY <1>1, <1>2, <2>1, <2>2, OneCall, Zenon
    <2>4. Held'
      BY <1>1, <1>2, <2>1, <2>3 DEF Held, Inside, Moved
    <2>5. Quiet /\ L!Op(c) = "update" => Course(c)'
      BY <1>1, <1>2, <2>1, <2>3 DEF Course, Moved, L!Writes
    <2> QED
      BY <1>1, <1>2, <2>3, <2>4, <2>5, OthersKept
  <1>4. CASE L!AccessFails(c)
    <2> DEFINE s == IF L!Op(c) = "delete" THEN "ok" ELSE "error"
    <2>1. /\ call' = [call EXCEPT ![c].pc = "unlock", ![c].result = s]
          /\ lock' = lock /\ lost' = lost /\ call[c].pc = "access"
      BY <1>4 DEF L!AccessFails
    <2>2. lock' \in L!Callers \cup {"none"}
      BY <1>1, <2>1 DEF Typed
    <2>3. Moved(c, "unlock", call[c].phase, call[c].read, s)
      BY <1>1, <1>2, <2>1, <2>2, OneCall, Zenon
    <2>4. Held'
      BY <1>1, <1>2, <2>1, <2>3 DEF Held, Inside, Moved
    <2>5. Quiet /\ L!Op(c) = "update" => Course(c)'
      BY <1>1, <1>2, <2>1, <2>3 DEF Course, Moved
    <2> QED
      BY <1>1, <1>2, <2>3, <2>4, <2>5, OthersKept
  <1>5. CASE L!Die(c)
    <2>1. /\ call' = [call EXCEPT ![c].pc = "dead"] /\ lock' = lock /\ lost' = lost
      BY <1>5 DEF L!Die, L!Goto
    <2>2. lock' \in L!Callers \cup {"none"}
      BY <1>1, <2>1 DEF Typed
    <2>3. Moved(c, "dead", call[c].phase, call[c].read, call[c].result)
      BY <1>1, <1>2, <2>1, <2>2, OneCall, Zenon
    <2>4. Held'
      BY <1>1, <1>2, <2>1, <2>3 DEF Held, Inside, Moved
    <2>5. Quiet /\ L!Op(c) = "update" => Course(c)'
      BY <1>1, <1>2, <2>1, <2>3 DEF Course, Moved
    <2> QED
      BY <1>1, <1>2, <2>3, <2>4, <2>5, OthersKept
  <1>6. CASE L!FindLock(c) /\ lock # "none"
    <2>1. /\ call' = [call EXCEPT ![c].pc = "remove"] /\ lock' = lock /\ lost' = lost
          /\ call[c].pc = "unlock"
      BY <1>6 DEF L!FindLock
    <2>2. lock' \in L!Callers \cup {"none"}
      BY <1>1, <2>1 DEF Typed
    <2>3. Moved(c, "remove", call[c].phase, call[c].read, call[c].result)
      BY <1>1, <1>2, <2>1, <2>2, OneCall, Zenon
    <2>4. Held'
      BY <1>1, <1>2, <2>1, <2>3 DEF Held, Inside, Moved
    <2>5. Quiet /\ L!Op(c) = "update" => Course(c)'
      BY <1>1, <1>2, <2>1, <2>3 DEF Course, Moved
    <2> QED
      BY <1>1, <1>2, <2>3, <2>4, <2>5, OthersKept
  <1>7. CASE (L!FindLock(c) /\ lock = "none") \/ L!UnLock(c)
    <2>1. /\ call[c].pc \in {"unlock", "remove"} /\ call' = L!After(c) /\ lock' = "none"
          /\ ~lost' => lock \in {c, "none"}
      BY <1>7, ZenonT(30) DEF L!FindLock, L!UnLock
    <2>2. lock' \in L!Callers \cup {"none"}
      BY <1>1, <2>1 DEF Typed
    <2>3. ASSUME NEW p, NEW f, Moved(c, p, f, call[c].read, call[c].result), p \in {"lock", "done"}
          PROVE  Held'
      BY <1>1, <1>2, <2>1, <2>3 DEF Held, Inside, Moved, Typed
    <2>4. CASE L!Op(c) = "update" /\ call[c].phase = "first" /\ call[c].result = "ok"
      <3>1. Moved(c, "lock", "second", call[c].read, call[c].result)
        BY <1>1, <1>2, <2>1, <2>2, <2>4, OneCall, ZenonT(30) DEF L!After
      <3>2. Quiet /\ L!Op(c) = "update" => Course(c)'
        BY <1>1, <1>2, <2>1, <2>4, <3>1 DEF Course, Moved
      <3> QED
        BY <1>1, <1>2, <2>3, <3>1, <3>2, OthersKept
    <2>5. CASE ~(L!Op(c) = "update" /\ call[c].phase = "first" /\ call[c].result = "ok")
      <3>1. Moved(c, "done", call[c].phase, call[c].read, call[c].result)
        BY <1>1, <1>2, <2>1, <2>2, <2>5, OneCall, ZenonT(30) DEF L!After
      <3>2. Quiet /\ L!Op(c) = "update" => Course(c)'
        BY <1>1, <1>2, <2>1, <2>5, <3>1 DEF Course, Moved
      <3> QED
        BY <1>1, <1>2, <2>3, <3>1, <3>2, OthersKept
    <2> QED
      BY <2>4, <2>5
  <1> QED
    BY <1>3, <1>4, <1>5, <1>6, <1>7 DEF L!UnLock

\* A write: whoever has read and not saved is outdated by it, and the changes that
\* were in the object stay in it.
LEMMA Writing ==
  ASSUME LocksInv, NEW c \in L!Callers, L!Write(c)
  PROVE  LocksInv'
  <1> USE DEF L!At
  <1>1. /\ Typed /\ Held /\ call[c].phase \in {"first", "second"}
        /\ Quiet => \A d \in L!Callers : L!Op(d) = "update" => Course(d)
    BY DEF LocksInv, Phases, Updating
  <1>2. /\ call' = [call EXCEPT ![c].pc = "unlock", ![c].result = "ok"]
        /\ UNCHANGED <<scenario, lock, lost>> /\ call[c].pc = "access" /\ L!Writes(c)
        /\ stale' = stale \cup L!Outdate(c)
        /\ object' = CASE L!Op(c) = "save" -> {c}
                       [] L!Op(c) = "update" -> call[c].read \cup {c}
                       [] L!Op(c) = "delete" -> {}
                       [] OTHER -> object
    BY DEF L!Write
  <1>3. lock' \in L!Callers \cup {"none"}
    BY <1>1, <1>2 DEF Typed
  <1>4. Moved(c, "unlock", call[c].phase, call[c].read, "ok")
    BY <1>1, <1>2, <1>3, OneCall, Zenon
  <1>5. Held'
    BY <1>1, <1>2, <1>4 DEF Held, Inside, Moved
  <1>6. Phases'
    BY <1>4 DEF Phases, LocksInv, Moved
  <1>7. Quiet' => Quiet /\ L!Outdate(c) = {}
    BY <1>2, <1>4 DEF Quiet, Moved
  <1>8. Quiet' => L!Op(c) \in {"update", "once"} /\ object \subseteq object'
                  /\ (L!Op(c) = "update" => call[c].phase = "second" /\ object' = object \cup {c})
                  /\ (L!Op(c) # "update" => object' = object)
    <2>1. L!Op(c) = "update" /\ Quiet => call[c].phase = "second" /\ call[c].read = object
      BY <1>1, <1>2 DEF L!Writes, Course
    <2>2. Quiet' => L!Op(c) \in {"update", "once"}
      BY <1>2, <1>7 DEF L!Writes, Quiet
    <2> QED
      BY <1>2, <1>7, <2>1, <2>2
  <1>9. ASSUME Quiet', NEW d \in L!Callers \ {c}, L!Op(d) = "update"
        PROVE  Course(d)'
    <2>1. Course(d) /\ call'[d] = call[d]
      BY <1>1, <1>4, <1>7, <1>9 DEF Moved
    <2>2. ~(call[d].phase = "second" /\ call[d].pc \in {"lock", "access"})
      BY <1>7, <1>9 DEF L!Outdate
    <2>3. ~Inside(d)
      BY <1>1, <1>2, <1>7, <1>9 DEF Held, Inside, Quiet
    <2> QED
      BY <1>8, <1>9, <2>1, <2>2, <2>3 DEF Course, Inside
  <1>10. Quiet' /\ L!Op(c) = "update" => Course(c)'
    BY <1>4, <1>8 DEF Course, Moved
  <1>11. Updating'
    BY <1>4, <1>9, <1>10 DEF Updating, Moved
  <1> QED
    BY <1>4, <1>5, <1>6, <1>11 DEF LocksInv, Moved

\* The bucket forgets a lock: early only if its holder is still at work.
LEMMA Expiring == LocksInv /\ L!Expire => LocksInv'
  <1> SUFFICES ASSUME LocksInv, L!Expire PROVE LocksInv'
    OBVIOUS
  <1>1. /\ UNCHANGED <<scenario, object, call, stale>> /\ lock # "none" /\ lock' = "none"
        /\ (lost => lost') /\ (~lost' => L!Over(lock))
    BY DEF L!Expire
  <1>2. Typed' /\ Phases' /\ L!Callers' = L!Callers
    BY <1>1 DEF LocksInv, Typed, Phases, L!Callers, L!Op, L!At
  <1>3. Held'
    BY <1>1, <1>2 DEF LocksInv, Held, Inside, L!Over
  <1>4. Quiet' => Quiet
    BY <1>1 DEF Quiet, L!Callers, L!Op
  <1>5. \A c \in L!Callers : Course(c) => Course(c)'
    BY <1>1 DEF Course
  <1>6. Updating'
    BY <1>1, <1>2, <1>4, <1>5 DEF LocksInv, Updating, L!Op
  <1> QED
    BY <1>2, <1>3, <1>6 DEF LocksInv

\* Every step keeps the invariant.
LEMMA LocksStep == LocksInv /\ [L!Next]_(L!vars) => LocksInv'
  <1> SUFFICES ASSUME LocksInv, [L!Next]_(L!vars) PROVE LocksInv'
    OBVIOUS
  <1>1. CASE UNCHANGED L!vars
    BY <1>1 DEF L!vars, LocksInv, Typed, Phases, Held, Updating, Course, Quiet, Inside, L!Callers,
                L!Op, L!At
  <1> QED
    BY <1>1, Approach, Within, Writing, Expiring DEF L!Next, L!Step, L!Fault, L!Terminating

\* Nobody has a lock at first.
LEMMA LocksInit == L!Init => LocksInv
  <1> SUFFICES ASSUME L!Init PROVE LocksInv
    OBVIOUS
  <1>1. Typed /\ \A c \in L!Callers : call[c].pc = "idle" /\ call[c].phase = "first"
    BY LocksAssumption, Zenon DEF L!Init, Typed, L!Callers
  <1>2. Phases /\ Held /\ Updating
    BY <1>1 DEF Phases, Held, Updating, Course, Inside, L!At
  <1> QED
    BY <1>1, <1>2 DEF LocksInv

\* The instance has the cardinality of FiniteSets under a name of its own.
LEMMA SameCardinality == \A S : L!Cardinality(S) = Cardinality(S)
  BY Zenon DEF L!Cardinality, Cardinality, L!IsFiniteSet, IsFiniteSet

\* A lock that does not expire early keeps callers out of one another's way, and a
\* change that UpdateLargeObj has made is lost only to one that came between the
\* load and the save of an update, or to a save or a delete of the whole object.
THEOREM LocksProtect == L!Spec => []UpdatesKept
  <1>1. LocksInv => UpdatesKept
    <2> SUFFICES ASSUME LocksInv, ~lost PROVE L!UpdatesKept
      BY DEF UpdatesKept, L!UpdatesKept
    <2> DEFINE S == {c \in L!Callers : call[c].pc \in {"access", "unlock", "remove"}}
    <2>1. S \in SUBSET {lock}
      BY DEF LocksInv, Held, Inside
    <2>2. IsFiniteSet({lock}) /\ Cardinality({lock}) = 1
      BY FS_Singleton
    <2>3. L!Cardinality(S) <= 1
      BY <2>1, <2>2, SameCardinality, FS_Subset
    <2>4. Quiet => \A c \in L!Callers :
            L!Op(c) = "update" /\ L!At(c, "done") /\ call[c].result = "ok" => c \in object
      BY DEF LocksInv, Updating, Course, L!At
    <2> QED
      BY <2>3, <2>4 DEF L!UpdatesKept, Quiet
  <1> QED
    BY <1>1, LocksInit, LocksStep, PTL DEF L!Spec
=============================================================================
