--------------------- MODULE ExecutionLifecycle_proofs ---------------------
(* Proof that the records of an execution outlive its processes, for any    *)
(* number of processes, cancellations, fatal errors and interruptions.      *)
EXTENDS ExecutionLifecycle, TLAPS

\* Every step of a destroyer has its state.
Domains == DOMAIN pc = Destroyers /\ DOMAIN target = Destroyers /\ DOMAIN left = Destroyers

\* Each record goes after its process instance was taken off the list, and
\* comes before its process is started.
Recorded ==
  /\ \A p \in started \ removed : p \in pis
  /\ lpc \in {"lookup", "restore", "append", "start"} => Launching \in pis \cup removed
  /\ \A a \in Destroyers :
       pc[a] \in {"deleteExecution", "deleteInstance"} => target[a] \in removed

\* No end came before the launch was over, and nothing is being cancelled.
Undisturbed == ~early /\ \A a \in Cancellers : pc[a] = "idle"

\* Steps that delete the execution, save a blank one, or lead to one of these.
Final(a) == \/ pc[a] \in {"saveBlank", "deleteExecution", "deleteFailed", "deleteAll",
                          "publishComplete"}
            \/ pc[a] \in {"deleteInstance", "publishTerminated"} /\ left[a] = {}
            \/ a \in Events /\ pc[a] # "idle"

\* The list has every process that has started and was not taken off it, and
\* whoever is about to delete the execution has found none.
Listed ==
  /\ started \ removed \subseteq exec.list
  /\ lpc = "create" => started = {}
  /\ lpc = "start" => Launching \in exec.list
  /\ lpc # "restore"
  /\ lpc \notin {"create", "launched", "failed"} => exec.present
  /\ \A a \in Destroyers : pc[a] # "idle" => lpc \in {"launched", "failed"}
  /\ \A a \in Destroyers : Final(a) => started \subseteq removed

\* The inductive invariant.
RecordsInv == /\ Domains
              /\ Recorded
              /\ ~exec.present => exec.list = {}
              /\ Undisturbed => Listed

\* As Undisturbed, and nothing is torn down or delivered again: only the ends of the
\* processes destroy, each once.
Calm == ~early /\ interrupts = 0 /\ \A a \in TearDowns \cup Cancellers : pc[a] = "idle"

\* An end that found the list empty and has not yet completed the execution.
Winner(c) ==
  /\ pc[c] \in {"deleteExecution", "deleteInstance", "publishTerminated", "publishComplete"}
  /\ left[c] = {}

\* The end of a process before its update has its process on the list, which no
\* other takes off; so the execution is there, nothing of it is saved again, and who
\* finds the list empty is the last.
LastEnd ==
  /\ \A c \in Completers :
       /\ target[c] = c[2]
       /\ pc[c] \in {"idle", "queued", "checkInstance", "lookup", "update", "deleteExecution",
                     "deleteInstance", "publishTerminated", "publishComplete", "acked"}
       /\ pc[c] = "idle" => c[2] \notin removed
       /\ pc[c] \in {"queued", "checkInstance", "lookup", "update"} => c[2] \in started \ removed
       /\ pc[c] \in {"deleteExecution", "publishComplete"} => left[c] = {}
       /\ Winner(c) => completions = 0
       /\ Winner(c) /\ pc[c] # "deleteExecution" => ~exec.present
  /\ \A c, d \in Completers : Winner(c) /\ Winner(d) => c = d
  /\ \A e \in Events : pc[e] \in {"idle", "queued", "acked"} /\ (pc[e] # "idle" => completions = 1)
  /\ completions \in {0, 1}
  /\ completions = 1 => /\ ~exec.present
                        /\ lpc \in {"launched", "failed"}
                        /\ started \subseteq removed

\* The inductive invariant of the last end.
OnceInv == /\ RecordsInv
           /\ interrupts \in Nat
           /\ Calm => LastEnd

---------------------------------------------------------------------------
\* What comes after a failure and after a success: never "idle", and the execution
\* is deleted outright for a cancellation and for the event ExecutionComplete only.
LEMMA Outcomes ==
  \A a \in Destroyers :
    /\ OnFailure(a) \in {"queued", "failed", "next"}
    /\ AfterDestroy(a) \in {"acked", "deleteAll", "next"}
    /\ AfterDestroy(a) = "deleteAll" => a \in Cancellers \cup Events
  BY DEF OnFailure, AfterDestroy, Destroyers, Completers, Cancellers, TearDowns, Events

\* The initial state: nothing is launched, nobody destroys.
LEMMA InitiallyRecorded == Init => RecordsInv
  BY DEF Init, NoExecution, RecordsInv, Domains, Recorded, Undisturbed, Listed, Final, Destroyers

\* The launcher saves the record of a process before it puts the process on the
\* list, and starts it last.
LEMMA LaunchKeepsRecords == RecordsInv /\ (Launch \/ LaunchInterrupted) => RecordsInv'
  <1> SUFFICES ASSUME RecordsInv, Launch \/ LaunchInterrupted PROVE RecordsInv'
    OBVIOUS
  <1> USE DEF RecordsInv, Domains, Recorded, Undisturbed, Listed, Final, LaunchStep, Launching,
              destroy, ExecutionOf
  <1>1. CASE createExecution
    BY <1>1 DEF createExecution
  <1>2. CASE LaunchGetExecution
    BY <1>2 DEF LaunchGetExecution
  <1>3. CASE LaunchSaveInstance
    BY <1>3 DEF LaunchSaveInstance
  <1>4. CASE LaunchLookup
    BY <1>4 DEF LaunchLookup
  <1>5. CASE LaunchRestore
    BY <1>5 DEF LaunchRestore
  <1>6. CASE LaunchAppend
    BY <1>6 DEF LaunchAppend
  <1>7. CASE LaunchStart
    BY <1>7 DEF LaunchStart
  <1>8. CASE LaunchInterrupted
    BY <1>8 DEF LaunchInterrupted
  <1> QED
    BY <1>1, <1>2, <1>3, <1>4, <1>5, <1>6, <1>7, <1>8 DEF Launch

\* A process that ends, is cancelled or fails brings a destroyer into play: with
\* Undisturbed, only when the launch is over.
LEMMA RequestsKeepRecords ==
  ASSUME RecordsInv,
         \/ \E p \in Processes : ReachEnd(p)
         \/ \E p \in Cancelled : RequestCancel(p)
         \/ \E p \in Fatal : SignalFatal(p)
  PROVE  RecordsInv'
  <1> USE DEF RecordsInv, Domains, Recorded, Undisturbed, Listed, Final, MayEnd, Step, launch,
              Launching, Destroyers, Completers, Cancellers, TearDowns, Events
  <1>1. ASSUME NEW p \in Processes, ReachEnd(p) PROVE RecordsInv'
    BY <1>1 DEF ReachEnd
  <1>2. ASSUME NEW p \in Cancelled, RequestCancel(p) PROVE RecordsInv'
    BY <1>2 DEF RequestCancel
  <1>3. ASSUME NEW p \in Fatal, SignalFatal(p) PROVE RecordsInv'
    BY <1>3 DEF SignalFatal
  <1> QED
    BY <1>1, <1>2, <1>3, Zenon

\* A destroyer takes its process instance off the list before it deletes the
\* record, and deletes the execution when it has found the list empty.
LEMMA HandlingKeepsRecords ==
  ASSUME RecordsInv, NEW a \in Destroyers, Handle(a) \/ TearDownRefused(a) \/ Interrupt(a)
  PROVE  RecordsInv'
  <1> USE Outcomes DEF RecordsInv, Domains, Recorded, Undisturbed, Listed, Final, Step, launch,
              Launching
  <1>1. CASE CompleteBegin(a)
    BY <1>1 DEF CompleteBegin
  <1>2. CASE CheckInstance(a)
    BY <1>2 DEF CheckInstance
  <1>3. CASE EventBegin(a)
    BY <1>3 DEF EventBegin
  <1>4. CASE GetExecution(a)
    BY <1>4 DEF GetExecution
  <1>5. CASE GetInstance(a)
    BY <1>5 DEF GetInstance
  <1>6. CASE deleteExecution(a)
    BY <1>6 DEF deleteExecution, NoExecution
  <1>7. CASE TearDownBegin(a)
    BY <1>7 DEF TearDownBegin
  <1>8. CASE TearDownNext(a)
    <2>1. CASE todo[a] = {} /\ Step(a, "next", "acked") /\ UNCHANGED <<target, todo>>
      BY <1>8, <2>1 DEF TearDownNext
    <2>2. ASSUME NEW p \in todo[a], Step(a, "next", "lookup"), target' = [target EXCEPT ![a] = p]
          PROVE  RecordsInv'
      BY <1>8, <2>2 DEF TearDownNext
    <2> QED
      BY <1>8, <2>1, <2>2 DEF TearDownNext
  <1>9. CASE Lookup(a)
    BY <1>9 DEF Lookup
  <1>10. CASE SaveBlank(a)
    BY <1>10 DEF SaveBlank, ExecutionOf
  <1>11. CASE Update(a)
    <2>1. CASE exec.present
      <3>1. /\ left' = [left EXCEPT ![a] = exec.list \ {target[a]}]
            /\ exec'.present /\ exec'.list = left'[a]
            /\ left'[a] = exec.list \ {target[a]}
            /\ removed' = removed \cup {target[a]}
            /\ pc[a] = "update"
            /\ pc' = [pc EXCEPT ![a] = IF left'[a] = {} THEN "deleteExecution" ELSE "deleteInstance"]
            /\ UNCHANGED <<pis, started, target, lpc, launched, early>>
        BY <1>11, <2>1 DEF Update, ExecutionOf, Over
      <3>2. Domains' /\ Recorded'
        BY <3>1
      <3>3. Undisturbed' => Undisturbed
        BY <3>1
      <3>4. ASSUME Undisturbed PROVE Listed'
        <4>1. started' \ removed' \subseteq exec'.list
          BY <3>1, <3>4
        <4>2. ASSUME NEW b \in Destroyers, Final(b)' PROVE started' \subseteq removed'
          <5>1. CASE b = a
            <6>1. left'[a] = {} \/ a \in Events
              BY <3>1, <4>2, <5>1
            <6>2. CASE left'[a] = {}
              BY <3>1, <4>1, <6>2
            <6>3. CASE a \in Events
              BY <3>1, <3>4, <6>3
            <6> QED
              BY <6>1, <6>2, <6>3
          <5>2. CASE b # a
            BY <3>1, <3>4, <4>2, <5>2
          <5> QED
            BY <5>1, <5>2
        <4> QED
          BY <3>1, <3>4, <4>1, <4>2
      <3> QED
        BY <3>1, <3>2, <3>3, <3>4
    <2>2. CASE ~exec.present
      <3>1. PICK to \in {"deleteFailed", OnFailure(a)} : pc' = [pc EXCEPT ![a] = to]
        BY <1>11, <2>2 DEF Update
      <3>2. pc[a] = "update" /\ to \in {"deleteFailed", "queued", "failed", "next"}
        BY <1>11, <2>2, <3>1 DEF Update
      <3>3. UNCHANGED <<exec, pis, started, removed, target, left, lpc, launched, early>>
        BY <1>11, <2>2 DEF Update
      <3>4. Undisturbed => started \subseteq removed
        BY <2>2
      <3> QED
        BY <3>1, <3>2, <3>3, <3>4
    <2> QED
      BY <2>1, <2>2
  <1>12. CASE DeleteExecution(a)
    BY <1>12 DEF DeleteExecution, NoExecution
  <1>13. CASE DeleteFailed(a)
    BY <1>13 DEF DeleteFailed, NoExecution
  <1>14. CASE DeleteInstance(a)
    BY <1>14 DEF DeleteInstance
  <1>15. CASE PublishTerminated(a)
    BY <1>15 DEF PublishTerminated, Over
  <1>16. CASE PublishComplete(a)
    <2>1. Undisturbed => started \subseteq removed
      BY <1>16 DEF PublishComplete
    <2>2. \A b \in Destroyers : \/ pc'[b] = pc[b]
                                \/ pc[b] # "idle" /\ pc'[b] \in {"acked", "deleteAll", "next"}
                                \/ b \in Events /\ pc'[b] = "queued"
      BY <1>16 DEF PublishComplete, Destroyers, Completers, Cancellers, TearDowns, Events
    <2>3. UNCHANGED <<exec, pis, started, removed, target, left, lpc, launched, early>>
      BY <1>16 DEF PublishComplete
    <2>4. DOMAIN pc' = Destroyers /\ pc[a] # "idle"
      BY <1>16 DEF PublishComplete
    <2>5. \A c \in Cancellers : c \in Destroyers /\ c \notin Events
      BY DEF Destroyers, Completers, Cancellers, TearDowns, Events
    <2> QED
      BY <2>1, <2>2, <2>3, <2>4, <2>5
  <1>17. CASE TearDownRefused(a)
    BY <1>17 DEF TearDownRefused, vars, destroy
  <1>18. CASE Interrupt(a)
    BY <1>18 DEF Interrupt
  <1> QED
    BY <1>1, <1>2, <1>3, <1>4, <1>5, <1>6, <1>7, <1>8, <1>9, <1>10, <1>11, <1>12, <1>13, <1>14, <1>15, <1>16, <1>17, <1>18, Zenon DEF Handle

\* Every step keeps the invariant.
LEMMA NextKeepsRecords == RecordsInv /\ [Next]_vars => RecordsInv'
  <1> SUFFICES ASSUME RecordsInv, [Next]_vars PROVE RecordsInv'
    OBVIOUS
  <1>1. CASE Launch \/ LaunchInterrupted
    BY <1>1, LaunchKeepsRecords
  <1>2. CASE \/ \E p \in Processes : ReachEnd(p)
             \/ \E p \in Cancelled : RequestCancel(p)
             \/ \E p \in Fatal : SignalFatal(p)
    BY <1>2, RequestsKeepRecords
  <1>3. CASE \E a \in Destroyers : Handle(a) \/ TearDownRefused(a) \/ Interrupt(a)
    BY <1>3, HandlingKeepsRecords
  <1>4. CASE UNCHANGED vars
    BY <1>4 DEF vars, launch, destroy, RecordsInv, Domains, Recorded, Undisturbed, Listed, Final,
                Launching
  <1> QED
    BY <1>1, <1>2, <1>3, <1>4 DEF Next, Terminating

\* A started process keeps its record until destroyProcessInstance takes it off the
\* list, and its execution keeps its own, provided processes end after the launch
\* and none is cancelled; with any number of processes, fatal errors,
\* interruptions and cancellations.
THEOREM RecordsOutlive == Spec => []RecordsOutliveProcesses
  <1>1. RecordsInv => RecordsOutliveProcesses
    BY DEF RecordsInv, Recorded, Undisturbed, Listed, RecordsOutliveProcesses
  <1> QED
    BY <1>1, InitiallyRecorded, NextKeepsRecords, PTL DEF Spec

---------------------------------------------------------------------------
(* ExecutionComplete is published once.                                    *)

\* The four kinds of destroyers are different, and an end is known by its process.
LEMMA Kinds ==
  /\ \A a \in Completers : a \notin Events \cup TearDowns \cup Cancellers /\ a \in Destroyers
  /\ \A a \in Events : a \notin TearDowns \cup Cancellers /\ a \in Destroyers
  /\ \A a \in TearDowns \cup Cancellers : a \in Destroyers
  /\ \A a, b \in Completers : a[2] = b[2] => a = b
  /\ \A p \in Processes : <<"complete", p>> \in Completers /\ <<"complete", p>>[2] = p
  /\ \A a \in Completers : a[2] \in Processes
  /\ Destroyers = Completers \cup Events \cup TearDowns \cup Cancellers
  BY DEF Completers, Events, TearDowns, Cancellers, Destroyers

\* In the initial state nobody has ended.
LEMMA InitiallyOnce == Init => OnceInv
  <1> SUFFICES ASSUME Init PROVE OnceInv
    OBVIOUS
  <1>1. RecordsInv
    BY InitiallyRecorded
  <1>2. LastEnd
    BY Kinds DEF Init, LastEnd, Winner
  <1> QED
    BY <1>1, <1>2 DEF Init, OnceInv

\* The launcher takes nothing off the list; when it writes the execution, nobody
\* has ended.
LEMMA LaunchKeepsOnce ==
  ASSUME OnceInv, Launch \/ LaunchInterrupted
  PROVE  OnceInv'
  <1>1. RecordsInv'
    BY LaunchKeepsRecords DEF OnceInv
  <1>2. UNCHANGED <<pc, target, left, removed, completions, early>>
    BY DEF Launch, LaunchInterrupted, createExecution, LaunchGetExecution, LaunchSaveInstance,
           LaunchLookup, LaunchRestore, LaunchAppend, LaunchStart, destroy
  <1>3. interrupts' \in Nat /\ (interrupts' = 0 => interrupts = 0)
    BY DEF OnceInv, Launch, LaunchInterrupted, createExecution, LaunchGetExecution,
           LaunchSaveInstance, LaunchLookup, LaunchRestore, LaunchAppend, LaunchStart
  <1>4. started \subseteq started'
    BY DEF Launch, LaunchInterrupted, createExecution, LaunchGetExecution, LaunchSaveInstance,
           LaunchLookup, LaunchRestore, LaunchAppend, LaunchStart
  <1>5. lpc \notin {"launched", "failed"}
    BY DEF Launch, LaunchInterrupted, createExecution, LaunchGetExecution, LaunchSaveInstance,
           LaunchLookup, LaunchRestore, LaunchAppend, LaunchStart, LaunchStep
  <1>6. ASSUME Calm' PROVE LastEnd'
    <2>1. Calm
      BY <1>2, <1>3, <1>6 DEF Calm
    <2>2. LastEnd /\ Listed
      BY <2>1 DEF OnceInv, RecordsInv, Calm, Undisturbed
    <2>3. \A a \in Destroyers : pc[a] = "idle"
      BY <1>5, <2>2 DEF Listed
    <2>4. completions = 0
      BY <1>5, <2>2 DEF LastEnd
    <2> QED
      BY <1>2, <2>2, <2>3, <2>4, Kinds DEF LastEnd, Winner
  <1> QED
    BY <1>1, <1>3, <1>6 DEF OnceInv

\* A process that ends is on the list.
LEMMA RequestsKeepOnce ==
  ASSUME OnceInv,
         \/ \E p \in Processes : ReachEnd(p)
         \/ \E p \in Cancelled : RequestCancel(p)
         \/ \E p \in Fatal : SignalFatal(p)
  PROVE  OnceInv'
  <1>1. RecordsInv'
    BY RequestsKeepRecords DEF OnceInv
  <1>2. UNCHANGED <<exec, started, target, left, removed, completions, early, lpc, interrupts>>
    BY Zenon DEF ReachEnd, RequestCancel, SignalFatal, launch
  <1>3. DOMAIN pc = Destroyers
    BY DEF OnceInv, RecordsInv, Domains
  <1>4. ASSUME Calm' PROVE LastEnd'
    <2>1. CASE \E p \in Processes : ReachEnd(p)
      <3>1. PICK p \in Processes : ReachEnd(p)
        BY <2>1
      <3> DEFINE e == <<"complete", p>>
      <3>2. pc[e] = "idle" /\ pc' = [pc EXCEPT ![e] = "queued"] /\ p \in started
        BY <3>1 DEF ReachEnd, Step
      <3>3. e \in Completers /\ e[2] = p
        BY Kinds
      <3> HIDE DEF e
      <3>4. pc'[e] = "queued" /\ \A a \in Destroyers : a # e => pc'[a] = pc[a]
        BY <1>3, <3>2, <3>3, Kinds
      <3>5. Calm
        BY <1>2, <1>4, <3>3, <3>4, Kinds DEF Calm
      <3>6. LastEnd
        BY <3>5 DEF OnceInv
      <3> QED
        BY <1>2, <3>2, <3>3, <3>4, <3>6, Kinds DEF LastEnd, Winner
    <2>2. CASE \E p \in Cancelled : RequestCancel(p)
      <3>1. PICK p \in Cancelled : RequestCancel(p)
        BY <2>2
      <3>2. <<"cancel", p>> \in Cancellers
        BY DEF Cancellers
      <3>3. pc'[<<"cancel", p>>] = "getExecution"
        BY <1>3, <3>1, <3>2, Kinds DEF RequestCancel, Step
      <3> QED
        BY <1>4, <3>2, <3>3 DEF Calm
    <2>3. CASE \E p \in Fatal : SignalFatal(p)
      <3>1. PICK p \in Fatal : SignalFatal(p)
        BY <2>3
      <3>2. <<"teardown", p>> \in TearDowns
        BY DEF TearDowns
      <3>3. pc'[<<"teardown", p>>] = "queued"
        BY <1>3, <3>1, <3>2, Kinds DEF SignalFatal, Step
      <3> QED
        BY <1>4, <3>2, <3>3 DEF Calm
    <2> QED
      BY <2>1, <2>2, <2>3
  <1> QED
    BY <1>1, <1>2, <1>4 DEF OnceInv

\* A destroyer that is not idle stays in play, and an interruption is counted.
LEMMA HandlingStaysCalm ==
  ASSUME OnceInv, NEW a \in Destroyers, Handle(a) \/ TearDownRefused(a) \/ Interrupt(a)
  PROVE  /\ interrupts' \in Nat
         /\ Calm' => Calm
         /\ Calm' => ~Interrupt(a)
         /\ pc[a] # "idle"
  <1> USE Outcomes DEF OnceInv, RecordsInv, Domains
  <1>1. interrupts' \in Nat /\ (interrupts' = 0 => interrupts = 0 /\ ~Interrupt(a))
    <2>1. Interrupt(a) => interrupts' = interrupts + 1
      BY DEF Interrupt
    <2>2. TearDownRefused(a) => interrupts' = interrupts
      BY DEF TearDownRefused, vars
    <2>3. Handle(a) => interrupts' = interrupts
      BY Zenon DEF Handle, CompleteBegin, CheckInstance, EventBegin, GetExecution, GetInstance,
         deleteExecution, TearDownBegin, TearDownNext, Lookup, SaveBlank, Update, DeleteExecution,
         DeleteFailed, DeleteInstance, PublishTerminated, PublishComplete
    <2>4. interrupts \in Nat
      OBVIOUS
    <2> HIDE DEF OnceInv, RecordsInv, Domains
    <2> QED
      BY <2>1, <2>2, <2>3, <2>4
  <1>2. UNCHANGED early
    BY Zenon DEF Handle, TearDownRefused, Interrupt, CompleteBegin, CheckInstance, EventBegin, GetExecution,
           GetInstance, deleteExecution, TearDownBegin, TearDownNext, Lookup, SaveBlank, Update,
           DeleteExecution, DeleteFailed, DeleteInstance, PublishTerminated, PublishComplete, vars,
           launch, destroy
  <1>3. pc[a] # "idle"
    <2>1. Interrupt(a) \/ TearDownRefused(a) => pc[a] # "idle"
      BY DEF Interrupt, TearDownRefused
    <2>2. Handle(a) => pc[a] # "idle"
      BY Zenon DEF Handle, CompleteBegin, CheckInstance, EventBegin, GetExecution, GetInstance,
         deleteExecution, TearDownBegin, TearDownNext, Lookup, SaveBlank, Update, DeleteExecution,
         DeleteFailed, DeleteInstance, PublishTerminated, PublishComplete, Step
    <2> QED
      BY <2>1, <2>2, Zenon
  <1>4. \A b \in Destroyers : pc'[b] = "idle" => pc[b] = "idle"
    <2>1. CASE PublishComplete(a)
      BY <2>1 DEF PublishComplete
    <2>2. CASE ~PublishComplete(a)
      BY <2>2, Zenon DEF Handle, TearDownRefused, Interrupt, CompleteBegin, CheckInstance, EventBegin,
           GetExecution, GetInstance, deleteExecution, TearDownBegin, TearDownNext, Lookup, SaveBlank,
           Update, DeleteExecution, DeleteFailed, DeleteInstance, PublishTerminated, Step, vars,
           destroy, Over
    <2> QED
      BY <2>1, <2>2, Zenon
  <1> QED
    BY <1>1, <1>2, <1>3, <1>4, Kinds DEF Calm

\* A step of one end that takes nothing off the list, and by which that end does not
\* come to win.
LEMMA EndGoesOn ==
  ASSUME LastEnd, Domains, NEW a \in Completers,
         NEW to \in {"queued", "checkInstance", "lookup", "update", "deleteExecution",
                     "deleteInstance", "publishTerminated", "publishComplete", "acked"},
         pc' = [pc EXCEPT ![a] = to],
         UNCHANGED <<started, lpc, removed, completions, target, left>>,
         exec'.present => exec.present,
         to \in {"queued", "checkInstance", "lookup", "update"} => a[2] \in started \ removed,
         to \in {"deleteExecution", "publishComplete"} => left[a] = {},
         Winner(a)' => Winner(a) /\ (to # "deleteExecution" => ~exec'.present)
  PROVE  LastEnd'
  <1>1. pc'[a] = to /\ \A b \in Destroyers : b # a => pc'[b] = pc[b]
    BY Kinds DEF Domains
  <1>2. \A c \in Completers : c # a => pc'[c] = pc[c] /\ (Winner(c)' <=> Winner(c))
    BY <1>1, Kinds DEF Winner
  <1>3. \A e \in Events : pc'[e] = pc[e]
    BY <1>1, Kinds
  <1>4. ASSUME NEW c \in Completers
        PROVE  /\ target'[c] = c[2]
               /\ pc'[c] \in {"idle", "queued", "checkInstance", "lookup", "update",
                               "deleteExecution", "deleteInstance", "publishTerminated",
                               "publishComplete", "acked"}
               /\ pc'[c] = "idle" => c[2] \notin removed'
               /\ pc'[c] \in {"queued", "checkInstance", "lookup", "update"} =>
                    c[2] \in started' \ removed'
               /\ pc'[c] \in {"deleteExecution", "publishComplete"} => left'[c] = {}
    <2>1. CASE c = a
      BY <1>1, <2>1 DEF LastEnd
    <2>2. CASE c # a
      BY <1>2, <2>2 DEF LastEnd
    <2> QED
      BY <2>1, <2>2
  <1>5. \A c \in Completers : Winner(c)' => Winner(c)
    BY <1>2
  <1>6. \A c \in Completers : Winner(c)' /\ pc'[c] # "deleteExecution" => ~exec'.present
    BY <1>1, <1>2 DEF LastEnd
  <1>7. \A c \in Completers : Winner(c)' => completions' = 0
    BY <1>5 DEF LastEnd
  <1>8. \A c, d \in Completers : Winner(c)' /\ Winner(d)' => c = d
    BY <1>5 DEF LastEnd
  <1>9. \A e \in Events : pc'[e] \in {"idle", "queued", "acked"} /\ (pc'[e] # "idle" => completions' = 1)
    BY <1>3 DEF LastEnd
  <1>10. completions' \in {0, 1} /\ (completions' = 1 => /\ ~exec'.present
                                                        /\ lpc' \in {"launched", "failed"}
                                                        /\ started' \subseteq removed')
    BY DEF LastEnd
  <1> QED
    BY <1>4, <1>6, <1>7, <1>8, <1>9, <1>10, Zenon DEF LastEnd

\* The end of a process takes its own process off the list and completes the
\* execution when that was the last; what ExecutionComplete brings finds it gone.
LEMMA HandlingKeepsOnce ==
  ASSUME OnceInv, NEW a \in Destroyers, Handle(a) \/ TearDownRefused(a) \/ Interrupt(a)
  PROVE  OnceInv'
  <1>1. RecordsInv' /\ interrupts' \in Nat
    BY HandlingKeepsRecords, HandlingStaysCalm DEF OnceInv
  <1>2. SUFFICES ASSUME Calm' PROVE LastEnd'
    BY <1>1 DEF OnceInv
  <1>3. Calm /\ pc[a] # "idle" /\ (Handle(a) \/ TearDownRefused(a))
    BY <1>2, HandlingStaysCalm, Zenon
  <1>4. LastEnd /\ Listed /\ Recorded /\ Domains /\ (~exec.present => exec.list = {})
    BY <1>3, Zenon DEF OnceInv, RecordsInv, Calm, Undisturbed
  <1>5. a \in Completers \/ a \in Events
    BY <1>3, Kinds, Zenon DEF Calm
  <1>6. CASE a \in Events
    <2>0. pc[a] \in {"queued", "acked"} /\ a \notin Completers /\ a \notin TearDowns
      BY <1>4, <1>6, HandlingStaysCalm, Kinds, Zenon DEF LastEnd
    <2>1. EventBegin(a)
      BY <1>3, <2>0, Zenon DEF Handle, TearDownRefused, CompleteBegin, CheckInstance,
         GetExecution, GetInstance, deleteExecution, TearDownBegin, TearDownNext, Lookup,
         SaveBlank, Update, DeleteExecution, DeleteFailed, DeleteInstance, PublishTerminated,
         PublishComplete, Step
    <2>2. pc' = [pc EXCEPT ![a] = "acked"] /\ pc[a] = "queued"
      BY <1>4, <1>6, <2>1, Zenon DEF EventBegin, Step, LastEnd
    <2>3. UNCHANGED <<exec, started, removed, completions, lpc, target, left>>
      BY <2>1 DEF EventBegin, launch
    <2> QED
      BY <1>4, <1>6, <2>2, <2>3, Kinds DEF LastEnd, Winner, Domains
  <1>7. CASE a \in Completers
    <2>1. a[2] \in started \ removed => exec.present /\ a[2] \in pis /\ completions = 0
      BY <1>4, Zenon DEF Listed, Recorded, LastEnd
    <2>2. a[2] \in started \ removed => \A c \in Completers : ~Winner(c)
      BY <1>4, Kinds DEF Listed, Winner, Final
    <2>3. UNCHANGED <<started, lpc>>
      BY <1>2, HandlingStaysCalm, Zenon DEF Handle, TearDownRefused, CompleteBegin, CheckInstance, EventBegin,
         GetExecution, GetInstance, deleteExecution, TearDownBegin, TearDownNext, Lookup, SaveBlank,
         Update, DeleteExecution, DeleteFailed, DeleteInstance, PublishTerminated, PublishComplete,
         launch, vars
    <2>40. AfterDestroy(a) = "acked"
      BY <1>7, Kinds DEF AfterDestroy
    <2>41. \A e \in Events : e \in Destroyers /\ e # a
      BY <1>7, Kinds
    <2>4. CASE CompleteBegin(a) \/ CheckInstance(a) \/ Lookup(a)
      <3>1. a[2] \in started \ removed /\ target[a] = a[2]
        BY <1>4, <1>7, <2>4 DEF LastEnd, CompleteBegin, CheckInstance, Lookup, Step
      <3>2. PICK to \in {"checkInstance", "lookup", "update"} : pc' = [pc EXCEPT ![a] = to]
        BY <2>1, <2>4, <3>1 DEF CompleteBegin, CheckInstance, Lookup, Step
      <3>3. UNCHANGED <<exec, removed, completions, target, left>>
        BY <2>4 DEF CompleteBegin, CheckInstance, Lookup
      <3>4. ~Winner(a)'
        BY <1>4, <1>7, <3>2, Kinds DEF Winner, Domains
      <3> QED
        BY <1>4, <1>7, <2>3, <3>1, <3>2, <3>3, <3>4, EndGoesOn, Zenon
    <2>5. CASE Update(a)
      <3>1. a[2] \in started \ removed /\ target[a] = a[2]
        <4>1. pc[a] = "update"
          BY <2>5, Zenon DEF Update, Step
        <4> QED
          BY <1>4, <1>7, <4>1 DEF LastEnd
      <3>2. /\ left' = [left EXCEPT ![a] = exec.list \ {a[2]}]
            /\ removed' = removed \cup {a[2]}
            /\ UNCHANGED <<completions, target>>
        BY <2>1, <2>5, <3>1, Zenon DEF Update
      <3>3. pc' = [pc EXCEPT ![a] = IF left'[a] = {} THEN "deleteExecution" ELSE "deleteInstance"]
        BY <2>1, <2>5, <3>1 DEF Update, Step, Over
      <3>4. \A c \in Completers : Winner(c)' => c = a /\ pc'[c] = "deleteExecution"
        BY <1>4, <1>7, <2>2, <3>1, <3>2, <3>3, Kinds DEF Winner, Domains
      <3>5. /\ left'[a] = exec.list \ {a[2]} /\ \A c \in Completers : c # a => left'[c] = left[c]
            /\ pc'[a] \in {"deleteExecution", "deleteInstance"}
            /\ pc'[a] = "deleteExecution" => left'[a] = {}
            /\ \A b \in Destroyers : b # a => pc'[b] = pc[b]
        BY <1>4, <1>7, <3>2, <3>3, Kinds DEF Domains
      <3>6. \A c \in Completers : c \in Destroyers /\ (c # a => c[2] # a[2])
        BY <1>7, Kinds, Zenon
      <3>7. ASSUME NEW c \in Completers
            PROVE  /\ target'[c] = c[2]
                   /\ pc'[c] \in {"idle", "queued", "checkInstance", "lookup", "update",
                                   "deleteExecution", "deleteInstance", "publishTerminated",
                                   "publishComplete", "acked"}
                   /\ pc'[c] = "idle" => c[2] \notin removed'
                   /\ pc'[c] \in {"queued", "checkInstance", "lookup", "update"} =>
                        c[2] \in started' \ removed'
                   /\ pc'[c] \in {"deleteExecution", "publishComplete"} => left'[c] = {}
        <4>1. CASE c = a
          BY <3>1, <3>2, <3>5, <4>1
        <4>2. CASE c # a
          BY <1>4, <2>3, <3>2, <3>5, <3>6, <4>2 DEF LastEnd
        <4> QED
          BY <4>1, <4>2
      <3>8. completions' = 0
        BY <2>1, <3>1, <3>2
      <3>9. \A e \in Events : pc'[e] = pc[e]
        BY <2>41, <3>5
      <3>10. \A e \in Events : pc'[e] \in {"idle", "queued", "acked"} /\ (pc'[e] # "idle" => completions' = 1)
        BY <1>4, <3>2, <3>9 DEF LastEnd
      <3> QED
        BY <3>4, <3>7, <3>8, <3>10 DEF LastEnd
    <2>6. CASE DeleteExecution(a)
      <3>1. pc[a] = "deleteExecution" /\ pc' = [pc EXCEPT ![a] = "deleteInstance"] /\ ~exec'.present
        BY <2>6 DEF DeleteExecution, Step, NoExecution
      <3>2. UNCHANGED <<removed, completions, target, left>>
        BY <2>6 DEF DeleteExecution
      <3>3. Winner(a)' => Winner(a)
        BY <1>4, <1>7, <3>1, <3>2, Kinds DEF Winner, Domains
      <3> QED
        BY <1>4, <1>7, <2>3, <3>1, <3>2, <3>3, EndGoesOn, Zenon
    <2>7. CASE DeleteInstance(a)
      <3>1. pc[a] = "deleteInstance" /\ pc' = [pc EXCEPT ![a] = "publishTerminated"]
        BY <2>7 DEF DeleteInstance, Step
      <3>2. UNCHANGED <<exec, removed, completions, target, left>>
        BY <2>7 DEF DeleteInstance
      <3>3. Winner(a)' => Winner(a)
        BY <1>4, <1>7, <3>1, <3>2, Kinds DEF Winner, Domains
      <3>4. Winner(a) => ~exec'.present
        BY <1>4, <1>7, <3>1, <3>2 DEF LastEnd
      <3> QED
        BY <1>4, <1>7, <2>3, <3>1, <3>2, <3>3, <3>4, EndGoesOn, Zenon
    <2>8. CASE PublishTerminated(a)
      <3>1. /\ pc[a] = "publishTerminated"
            /\ pc' = [pc EXCEPT ![a] = IF left[a] = {} THEN "publishComplete" ELSE "acked"]
        BY <1>7, <2>8, <2>40 DEF PublishTerminated, Step, Over
      <3>2. UNCHANGED <<exec, removed, completions, target, left>>
        BY <2>8, Zenon DEF PublishTerminated
      <3>3. Winner(a)' => Winner(a)
        BY <1>4, <1>7, <3>1, <3>2, Kinds DEF Winner, Domains
      <3>4. Winner(a) => ~exec'.present
        BY <1>4, <1>7, <3>1, <3>2 DEF LastEnd
      <3>5. CASE left[a] = {}
        BY <1>4, <1>7, <2>3, <3>1, <3>2, <3>3, <3>4, <3>5, EndGoesOn, Zenon
      <3>6. CASE left[a] # {}
        BY <1>4, <1>7, <2>3, <3>1, <3>2, <3>3, <3>4, <3>6, EndGoesOn, Zenon
      <3> QED
        BY <3>5, <3>6
    <2>9. CASE PublishComplete(a)
      <3>1. pc[a] = "publishComplete" /\ pc'[a] = "acked" /\ completions' = completions + 1
        BY <1>7, <2>9, <2>40 DEF PublishComplete
      <3>2. \A b \in Destroyers : b # a => \/ pc'[b] = pc[b]
                                           \/ b \in Events /\ pc'[b] = "queued"
        BY <1>7, <2>9, Kinds DEF PublishComplete, Events
      <3>3. UNCHANGED <<exec, removed, target, left>>
        BY <2>9 DEF PublishComplete
      <3>4. started \subseteq removed /\ lpc \in {"launched", "failed"}
        BY <1>4, <3>1 DEF Listed, Final
      <3>5. Winner(a)
        BY <1>4, <1>7, <3>1 DEF LastEnd, Winner
      <3>6. completions = 0 /\ ~exec'.present
        BY <1>4, <1>7, <3>1, <3>3, <3>5 DEF LastEnd
      <3>7. \A c \in Completers : pc'[c] = pc[c] \/ c = a
        BY <3>2, Kinds
      <3>8. \A c \in Completers : ~Winner(c)'
        <4>1. \A c \in Completers : Winner(c)' => c # a /\ Winner(c)
          BY <3>1, <3>3, <3>7 DEF Winner
        <4> QED
          BY <1>4, <1>7, <3>5, <4>1 DEF LastEnd
      <3>9. \A e \in Events : pc'[e] \in {"idle", "queued", "acked"}
        <4>2. \A e \in Events : pc[e] \in {"idle", "queued", "acked"}
          BY <1>4, Zenon DEF LastEnd
        <4> QED
          BY <2>41, <3>2, <4>2, Zenon
      <3>10. ASSUME NEW c \in Completers
             PROVE  /\ target'[c] = c[2]
                    /\ pc'[c] \in {"idle", "queued", "checkInstance", "lookup", "update",
                                    "deleteExecution", "deleteInstance", "publishTerminated",
                                    "publishComplete", "acked"}
                    /\ pc'[c] = "idle" => c[2] \notin removed'
                    /\ pc'[c] \in {"queued", "checkInstance", "lookup", "update"} =>
                         c[2] \in started' \ removed'
                    /\ pc'[c] \in {"deleteExecution", "publishComplete"} => left'[c] = {}
        <4>1. CASE c = a
          BY <1>4, <3>1, <3>3, <4>1, Zenon DEF LastEnd
        <4>2. CASE c # a
          BY <1>4, <2>3, <3>3, <3>7, <4>2 DEF LastEnd
        <4> QED
          BY <4>1, <4>2
      <3>11. completions' = 1
        BY <3>1, <3>6
      <3>12. \A c, d \in Completers : Winner(c)' /\ Winner(d)' => c = d
        BY <3>8, Zenon
      <3>13. started' \subseteq removed' /\ lpc' \in {"launched", "failed"}
        BY <2>3, <3>3, <3>4
      <3> QED
        BY <3>6, <3>8, <3>9, <3>10, <3>11, <3>12, <3>13 DEF LastEnd
    <2>10. /\ pc[a] \in {"queued", "checkInstance", "lookup", "update", "deleteExecution",
                         "deleteInstance", "publishTerminated", "publishComplete", "acked"}
           /\ a \notin Events /\ a \notin TearDowns
      BY <1>3, <1>4, <1>7, Kinds, Zenon DEF LastEnd
    <2> QED
      BY <1>3, <2>4, <2>5, <2>6, <2>7, <2>8, <2>9, <2>10, Zenon DEF Handle, TearDownRefused, EventBegin,
         GetExecution, GetInstance, deleteExecution, TearDownBegin, TearDownNext, SaveBlank,
         DeleteFailed, Step
  <1> QED
    BY <1>5, <1>6, <1>7

\* Every step keeps the invariant.
LEMMA NextKeepsOnce == OnceInv /\ [Next]_vars => OnceInv'
  <1> SUFFICES ASSUME OnceInv, [Next]_vars PROVE OnceInv'
    OBVIOUS
  <1>1. CASE Launch \/ LaunchInterrupted
    BY <1>1, LaunchKeepsOnce
  <1>2. CASE \/ \E p \in Processes : ReachEnd(p)
             \/ \E p \in Cancelled : RequestCancel(p)
             \/ \E p \in Fatal : SignalFatal(p)
    BY <1>2, RequestsKeepOnce
  <1>3. CASE \E a \in Destroyers : Handle(a) \/ TearDownRefused(a) \/ Interrupt(a)
    BY <1>3, HandlingKeepsOnce
  <1>4. CASE UNCHANGED vars
    <2>1. RecordsInv'
      BY <1>4, NextKeepsRecords DEF OnceInv
    <2>2. UNCHANGED <<exec, started, pc, target, left, removed, completions, early, lpc, interrupts>>
      BY <1>4, Zenon DEF vars, launch, destroy
    <2>3. (Calm <=> Calm') /\ (LastEnd => LastEnd')
      BY <2>2, Zenon DEF Calm, LastEnd, Winner
    <2> QED
      BY <2>1, <2>2, <2>3 DEF OnceInv
  <1> QED
    BY <1>1, <1>2, <1>3, <1>4 DEF Next, Terminating

\* Of the processes that end together one completes the execution: when all are
\* launched before one ends, nothing is delivered again and nothing else destroys
\* them, ExecutionComplete is published at most once, however many there are.
THEOREM LastEndCompletes == Spec => []ExecutionCompletesOnce
  <1>1. OnceInv => ExecutionCompletesOnce
    BY DEF OnceInv, Calm, LastEnd, ExecutionCompletesOnce
  <1> QED
    BY <1>1, InitiallyOnce, NextKeepsOnce, PTL DEF Spec
=============================================================================
