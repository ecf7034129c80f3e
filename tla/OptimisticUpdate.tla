------------------------- MODULE OptimisticUpdate -------------------------
(***************************************************************************)
(* Concurrent updates of one key of a JetStream key-value bucket through   *)
(* common/natsutil.go: UpdateObj looks the key up, saves the caller's      *)
(* blank message when it is missing, and then runs updateKV, which reads   *)
(* the entry, applies the update function and writes the result back on    *)
(* condition that the revision has not moved, retrying when it has.  Every *)
(* call on the bucket is a step of its own, so the steps of any number of  *)
(* goroutines and servers interleave.                                      *)
(*                                                                         *)
(* The stored object is abstracted to the set of updates it contains, and  *)
(* the update function of caller u adds u to it.                           *)
(***************************************************************************)
EXTENDS Naturals

CONSTANTS Updaters,     \* concurrent calls of UpdateObj, one update each
          Deleters      \* concurrent calls of Delete

ASSUME ConstantsAssumption == Updaters \cap Deleters = {}

VARIABLES entry,  \* the latest entry of the key in the bucket
          pc,     \* the next step of each call
          seen,   \* the entry that each updateKV read last
          intact  \* "yes" while the key has been there since the start

vars == <<entry, pc, seen, intact>>

\* The bucket keeps the last operation on a key: a put with its value, or a
\* delete marker.  A key that was never written reads like a deleted one.
Entries == [op : {"put", "delete"}, val : SUBSET Updaters, rev : Nat]

Present(e) == e.op = "put"

Init == /\ intact \in {"yes", "no"}
        /\ entry = IF intact = "yes"
                     THEN [op |-> "put", val |-> {}, rev |-> 1]
                     ELSE [op |-> "delete", val |-> {}, rev |-> 0]
        /\ pc = [c \in Updaters \cup Deleters |->
                   IF c \in Updaters THEN "peek" ELSE "delete"]
        /\ seen = [u \in Updaters |-> entry]

---------------------------------------------------------------------------
(* Writing to a bucket: every write, a delete marker included, takes the   *)
(* next revision.                                                          *)
Put(v) == entry' = [op |-> "put", val |-> v, rev |-> entry.rev + 1]

Remove == entry' = [op |-> "delete", val |-> {}, rev |-> entry.rev + 1]

Goto(c, step) == pc' = [pc EXCEPT ![c] = step]

Peek(u) ==
  /\ pc[u] = "peek"
  /\ Goto(u, IF Present(entry) THEN "get" ELSE "save")
  /\ UNCHANGED <<entry, seen, intact>>

\* SaveObj of the caller's blank message: an unconditional Put.
SaveObj(u) ==
  /\ pc[u] = "save"
  /\ Put({})
  /\ Goto(u, "get")
  /\ UNCHANGED <<seen, intact>>

Get(u) ==
  /\ pc[u] = "get"
  /\ \/ /\ Present(entry)
        /\ seen' = [seen EXCEPT ![u] = entry]
        /\ Goto(u, "update")
     \/ /\ ~Present(entry)
        /\ Goto(u, "failed")
        /\ UNCHANGED seen
  /\ UNCHANGED <<entry, intact>>

\* The Update of updateKV: it writes only over the revision that was read,
\* and a wrong last sequence sends the call back to its Get.
MutUpdateBlindly(u) ==
  /\ pc[u] = "update"
  /\ Put(seen[u].val \cup {u})
  /\ Goto(u, "done")
  /\ UNCHANGED <<seen, intact>>

Update(u) ==
  /\ pc[u] = "update"
  /\ \/ /\ entry.rev = seen[u].rev
        /\ Put(seen[u].val \cup {u})
        /\ Goto(u, "done")
     \/ /\ entry.rev # seen[u].rev
        /\ Goto(u, "get")
        /\ UNCHANGED entry
  /\ UNCHANGED <<seen, intact>>

Delete(d) ==
  /\ pc[d] = "delete"
  /\ Remove
  /\ Goto(d, "done")
  /\ intact' = "no"
  /\ UNCHANGED seen

Call(u) == Peek(u) \/ SaveObj(u) \/ Get(u) \/ Update(u)

Returned(c) == pc[c] \in {"done", "failed"}

\* All calls have returned.
Terminating == /\ \A c \in Updaters \cup Deleters : Returned(c)
               /\ UNCHANGED vars

Next == \/ \E u \in Updaters : Call(u)
        \/ \E d \in Deleters : Delete(d)
        \/ Terminating

\* A caller that is running keeps running: nothing in updateKV blocks.
Fairness == /\ \A u \in Updaters : WF_vars(Call(u))
            /\ \A d \in Deleters : WF_vars(Delete(d))

Spec == Init /\ [][Next]_vars /\ Fairness

---------------------------------------------------------------------------
\* The state has its type, and an update function only ever runs on an
\* entry that was present when it was read (the not-found check of updateKV).
TypeOK == /\ entry \in Entries
          /\ pc \in [Updaters \cup Deleters ->
                      {"peek", "save", "get", "update", "delete", "done", "failed"}]
          /\ seen \in [Updaters -> Entries]
          /\ intact \in {"yes", "no"}
          /\ \A u \in Updaters : pc[u] = "update" => Present(seen[u])

Succeeded == {u \in Updaters : pc[u] = "done"}

\* For as long as the key has been there, the stored object contains
\* the update of every UpdateObj call that returned without an error and of
\* no other: the revision check of updateKV loses no concurrent update.
NoLostUpdate == intact = "yes" => entry.val = Succeeded

\* An UpdateObj call fails to find its key only when somebody deleted the
\* key: the SaveObj of UpdateObj covers a key that never existed.
FailsOnlyAfterDelete ==
  (\E u \in Updaters : pc[u] = "failed") => \E d \in Deleters : pc[d] = "done"

\* Every UpdateObj call returns: its retry loop ends because each conflict
\* is the success of another call.
EveryCallReturns == <>(\A u \in Updaters : Returned(u))

\* For as long as the key has been there, UpdateObj is an atomic
\* update: the interleaved Get and Update steps of all callers implement
\* AtomicObject, including that every call takes effect.
Atomic == INSTANCE AtomicObject WITH val <- entry.val, returned <- Succeeded

ImplementsAtomicUpdate == Atomic!Spec
===========================================================================
