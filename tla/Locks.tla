-------------------------------- MODULE Locks --------------------------------
(***************************************************************************)
(* Locks in the lock bucket, and what they protect (common/natsutil.go):   *)
(* large objects in an object store, and the message that PublishOnce       *)
(* publishes.  The bucket forgets a lock when its time to live is over.    *)
(***************************************************************************)
EXTENDS Naturals, FiniteSets

CONSTANT Scenarios   \* op: what each caller does ("save", "load", "update",
                     \* "delete", "once"); serial: one caller after another;
                     \* slow, faults, deaths, timeouts: how many of each

VARIABLES
  scenario,
  lock,       \* the caller whose lock is in the bucket, or "none"
  object,     \* the writers whose change is in the object
  exists,     \* there is an object
  published,  \* messages published by PublishOnce
  call,       \* [pc, phase, read, result]
  stale,      \* callers whose read or check was outdated when they wrote
  lost,       \* a lock expired while its holder was at work
  budget      \* [slow, faults, deaths, timeouts]

vars == <<scenario, lock, object, exists, published, call, stale, lost, budget>>

Callers == DOMAIN scenario.op
Op(c) == scenario.op[c]
Large == {"save", "load", "update", "delete"}

Init ==
  /\ scenario \in Scenarios
  /\ lock = "none" /\ object = {} /\ exists = TRUE /\ published = 0
  /\ call = [c \in Callers |-> [pc |-> "idle", phase |-> "first", read |-> {}, result |-> "none"]]
  /\ stale = {} /\ lost = FALSE
  /\ budget = [slow |-> scenario.slow, faults |-> scenario.faults, deaths |-> scenario.deaths,
               timeouts |-> scenario.timeouts]

At(c, pc) == call[c].pc = pc
Over(c) == call[c].pc \in {"done", "dead"}
Goto(c, pc) == call' = [call EXCEPT ![c].pc = pc]
Finish(c, result) == call' = [call EXCEPT ![c].pc = "done", ![c].result = result]
Spend(kind) == budget[kind] > 0 /\ budget' = [budget EXCEPT ![kind] = @ - 1]

\* Callers that have read, or checked, and have yet to write.
Outdate(c) == {d \in Callers \ {c} : call[d].phase = "second" /\ call[d].pc \in {"lock", "access"}}

Start(c) ==
  /\ At(c, "idle") /\ (scenario.serial => \A d \in Callers \ {c} : At(d, "idle") \/ Over(d))
  /\ Goto(c, IF Op(c) = "once" THEN "info" ELSE "lock")
  /\ UNCHANGED <<scenario, lock, object, exists, published, stale, lost, budget>>

\* PublishOnce asks the consumer first whether there is a message.  Nobody
\* pulls from the consumer it asks, so a message that was published is pending.
Info(c) ==
  /\ At(c, "info")
  /\ IF published = 0
       THEN call' = [call EXCEPT ![c].pc = "lock", ![c].phase = "second"]
       ELSE Finish(c, "ok")
  /\ UNCHANGED <<scenario, lock, object, exists, published, stale, lost, budget>>

\* Lock creates the key.
Lock(c) ==
  /\ At(c, "lock") /\ lock = "none"
  /\ lock' = c /\ Goto(c, "access")
  /\ UNCHANGED <<scenario, object, exists, published, stale, lost, budget>>

\* PublishOnce leaves it to the holder; the large object functions try again
\* until the context is done.
LockHeld(c) ==
  /\ At(c, "lock") /\ lock # "none"
  /\ IF Op(c) = "once" THEN Finish(c, "ok") ELSE UNCHANGED call
  /\ UNCHANGED <<scenario, lock, object, exists, published, stale, lost, budget>>

ContextDone(c) ==
  /\ At(c, "lock") /\ lock # "none" /\ Op(c) \in Large
  /\ Spend("timeouts") /\ Finish(c, "error")
  /\ UNCHANGED <<scenario, lock, object, exists, published, stale, lost>>

Writes(c) == Op(c) \in {"save", "delete", "once"} \/ (Op(c) = "update" /\ call[c].phase = "second")

MutForgetRead(c) ==
  /\ At(c, "access") /\ ~(Op(c) = "load" \/ (Op(c) = "update" /\ call[c].phase = "first"))
  /\ object' = IF Op(c) = "delete" THEN {} ELSE IF Op(c) = "once" THEN object ELSE {c}
  /\ exists' = (IF Op(c) = "once" THEN exists ELSE Op(c) # "delete")
  /\ published' = IF Op(c) = "once" THEN published + 1 ELSE published
  /\ stale' = stale \cup Outdate(c)
  /\ call' = [call EXCEPT ![c].pc = "unlock", ![c].result = "ok"]
  /\ UNCHANGED <<scenario, lock, lost, budget>>

\* What is done under the lock, when it changes something.
Write(c) ==
  /\ At(c, "access") /\ Writes(c)
  /\ object' = CASE Op(c) = "save" -> {c}
                 [] Op(c) = "update" -> call[c].read \cup {c}
                 [] Op(c) = "delete" -> {}
                 [] OTHER -> object
  /\ exists' = (IF Op(c) = "once" THEN exists ELSE Op(c) # "delete")
  /\ published' = IF Op(c) = "once" THEN published + 1 ELSE published
  /\ stale' = stale \cup Outdate(c)
  /\ call' = [call EXCEPT ![c].pc = "unlock", ![c].result = "ok"]
  /\ UNCHANGED <<scenario, lock, lost, budget>>

\* A load, and the load of an update, fail when there is no object.
Read(c) ==
  /\ At(c, "access") /\ ~Writes(c)
  /\ call' = [call EXCEPT ![c].pc = "unlock", ![c].read = object,
                          ![c].result = IF exists THEN "ok" ELSE "error"]
  /\ UNCHANGED <<scenario, lock, object, exists, published, stale, lost, budget>>

\* The store fails.  A failed delete is not reported: the error would have to be
\* ErrNoObjectsFound.
AccessFails(c) ==
  /\ At(c, "access") /\ Spend("faults")
  /\ call' = [call EXCEPT ![c].pc = "unlock",
                          ![c].result = IF Op(c) = "delete" THEN "ok" ELSE "error"]
  /\ UNCHANGED <<scenario, lock, object, exists, published, stale, lost>>

\* After UnLock.  An update that has read goes on to save.
After(c) ==
  IF Op(c) = "update" /\ call[c].phase = "first" /\ call[c].result = "ok"
    THEN [call EXCEPT ![c].pc = "lock", ![c].phase = "second"]
    ELSE [call EXCEPT ![c].pc = "done"]

\* UnLock looks for the lock, and reports an error nobody acts on if there is none,
FindLock(c) ==
  /\ At(c, "unlock")
  /\ call' = IF lock = "none" THEN After(c) ELSE [call EXCEPT ![c].pc = "remove"]
  /\ UNCHANGED <<scenario, lock, object, exists, published, stale, lost, budget>>

\* and deletes it, whoever holds it.
UnLock(c) ==
  /\ At(c, "remove") /\ lock' = "none" /\ call' = After(c)
  /\ lost' = (lost \/ lock \notin {c, "none"})
  /\ UNCHANGED <<scenario, object, exists, published, stale, budget>>

Die(c) ==
  /\ call[c].pc \in {"access", "unlock", "remove"} /\ Spend("deaths") /\ Goto(c, "dead")
  /\ UNCHANGED <<scenario, lock, object, exists, published, stale, lost>>

---------------------------------------------------------------------------
(* The bucket's time to live.                                              *)

Expire ==
  /\ lock # "none"
  /\ IF Over(lock) THEN UNCHANGED <<lost, budget>> ELSE Spend("slow") /\ lost' = TRUE
  /\ lock' = "none"
  /\ UNCHANGED <<scenario, object, exists, published, call, stale>>

Abandoned == lock # "none" /\ Over(lock) /\ Expire

Step(c) == \/ Start(c) \/ Info(c) \/ Lock(c) \/ LockHeld(c) \/ Write(c) \/ Read(c)
           \/ FindLock(c) \/ UnLock(c)
Fault(c) == ContextDone(c) \/ AccessFails(c) \/ Die(c)
Terminating == (\A c \in Callers : Over(c)) /\ UNCHANGED vars

Next == (\E c \in Callers : Step(c) \/ Fault(c)) \/ Expire \/ Terminating
Working == \E c \in Callers : Step(c)

\* Callers go on, and a lock that is left behind expires.
Spec == Init /\ [][Next]_vars /\ WF_vars(Working) /\ WF_vars(Abandoned)

---------------------------------------------------------------------------
(* Properties.                                                             *)

\* Calls, lock and object keep their types.
TypeOK ==
  /\ lock \in Callers \cup {"none"} /\ object \subseteq Callers /\ stale \subseteq Callers
  /\ published \in 0 .. Cardinality(Callers)
  /\ \A c \in Callers : call[c].pc \in {"idle", "info", "lock", "access", "unlock", "remove",
                                        "done", "dead"}

\* As long as no lock outlives its time to live while its holder is at work, one
\* caller at a time is between largeObjLock, or the Lock of PublishOnce, and
\* UnLock, and an update that has succeeded is in the object, unless a writer came
\* between the load and the save of some update, or the object was saved or
\* deleted as a whole: only then does UpdateLargeObj lose a change.
UpdatesKept ==
  ~lost =>
    /\ Cardinality({c \in Callers : call[c].pc \in {"access", "unlock", "remove"}}) <= 1
    /\ stale = {} /\ (\A c \in Callers : Op(c) \notin {"save", "delete"}) =>
         \A c \in Callers : Op(c) = "update" /\ At(c, "done") /\ call[c].result = "ok"
                            => c \in object

\* PublishOnce "sets up a single message".  Checked in no run, as it does not hold
\* for servers that start together: the count is read before the lock is taken.
SingleMessage == published <= 1
=============================================================================
