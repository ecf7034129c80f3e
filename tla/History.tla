------------------------------- MODULE History -------------------------------
(***************************************************************************)
(* The history bucket of one process (internal/server/workflow/history.go  *)
(* and engine.go): handlers record what activities and jobs do, clients    *)
(* ask for what is active, and the handler of ProcessTerminated archives   *)
(* and deletes the entries.                                                *)
(*                                                                         *)
(* A deleted key leaves a delete marker in the stream of the bucket, and   *)
(* the searches by prefix list the keys with a marker too.                 *)
(***************************************************************************)
EXTENDS Naturals, Sequences, FiniteSets

CONSTANT Scenarios   \* writes: the entries recorded, in order; deletes: copies of
                     \* the ProcessTerminated message; early: it may come before
                     \* the last writes; reads: "active", "history" or "none";
                     \* interrupts

VARIABLES
  scenario,
  written,    \* how many entries were recorded
  store,      \* keys that are there
  markers,    \* keys that were deleted
  archive,    \* keys published to the archive
  deleter,    \* each copy of the message: [pc, todo, key]
  reader,     \* [pc, keys, todo, result, error]
  ended,      \* what had ended when the reader searched
  active,     \* what has been active since then
  interrupts

vars == <<scenario, written, store, markers, archive, deleter, reader, ended, active, interrupts>>

\* An entry is the tracking id of an activity or a job with what happened to it.
EndsOf(k) == IF k[2] = "activityExecute" THEN {"activityComplete", "activityAbort"}
             ELSE IF k[2] = "jobExecute" THEN {"jobComplete", "jobAbort"} ELSE {}
Execute(k) == k[2] \in {"activityExecute", "jobExecute"}
HasEnd(k, keys) == \E t \in EndsOf(k) : <<k[1], t>> \in keys

Past(n) == {scenario.writes[i] : i \in 1 .. n}

Init ==
  /\ scenario \in Scenarios
  /\ written = 0 /\ store = {} /\ markers = {} /\ archive = {}
  /\ deleter = [d \in 1 .. scenario.deletes |-> [pc |-> "queued", todo |-> {}, key |-> <<>>]]
  /\ reader = [pc |-> "idle", keys |-> {}, todo |-> {}, result |-> {}, error |-> FALSE]
  /\ ended = {} /\ active = {} /\ interrupts = 0

---------------------------------------------------------------------------
RecordHistory ==
  /\ written < Len(scenario.writes)
  /\ written' = written + 1
  /\ LET k == scenario.writes[written + 1]
     IN  /\ store' = store \cup {k} /\ markers' = markers \ {k}
         /\ active' = {a \in active : a[1] # k[1] \/ k[2] \notin EndsOf(a)}
  /\ UNCHANGED <<scenario, archive, deleter, reader, ended, interrupts>>

KeyPrefixSearch == store \cup markers

---------------------------------------------------------------------------
(* deleteProcessHistory.                                                   *)
At(d, pc) == deleter[d].pc = pc

SearchToDelete(d) ==
  /\ At(d, "queued") /\ (scenario.early \/ written = Len(scenario.writes))
  /\ deleter' = [deleter EXCEPT ![d] = [pc |-> "next", todo |-> KeyPrefixSearch, key |-> <<>>]]
  /\ UNCHANGED <<scenario, written, store, markers, archive, reader, ended, active, interrupts>>

MutDeleteFirst(d) ==
  /\ At(d, "next") /\ deleter[d].todo # {}
  /\ \E k \in deleter[d].todo :
       /\ store' = store \ {k} /\ markers' = markers \cup {k}
       /\ deleter' = [deleter EXCEPT ![d].todo = @ \ {k}]
  /\ active' = active \ markers'
  /\ UNCHANGED <<scenario, written, archive, reader, ended, interrupts>>

\* A key that is not there ends the handler, which is then done: the error is a
\* not found.
Archive(d) ==
  /\ At(d, "next")
  /\ \E k \in deleter[d].todo :
       IF k \in store
         THEN /\ archive' = archive \cup {k}
              /\ deleter' = [deleter EXCEPT ![d] = [pc |-> "delete", todo |-> @.todo \ {k}, key |-> k]]
         ELSE /\ deleter' = [deleter EXCEPT ![d].pc = "acked"]
              /\ UNCHANGED archive
  /\ UNCHANGED <<scenario, written, store, markers, reader, ended, active, interrupts>>

Delete(d) ==
  /\ At(d, "delete")
  /\ LET k == deleter[d].key
     IN  /\ store' = store \ {k} /\ markers' = markers \cup {k}
         /\ active' = active \ {k}
  /\ deleter' = [deleter EXCEPT ![d].pc = "next"]
  /\ UNCHANGED <<scenario, written, archive, reader, ended, interrupts>>

Deleted(d) ==
  /\ At(d, "next") /\ deleter[d].todo = {}
  /\ deleter' = [deleter EXCEPT ![d].pc = "acked"]
  /\ UNCHANGED <<scenario, written, store, markers, archive, reader, ended, active, interrupts>>

\* The server stops in the handler, and the message is delivered again.
Interrupt(d) ==
  /\ deleter[d].pc \in {"next", "delete"} /\ interrupts < scenario.interrupts
  /\ deleter' = [deleter EXCEPT ![d].pc = "queued"] /\ interrupts' = interrupts + 1
  /\ UNCHANGED <<scenario, written, store, markers, archive, reader, ended, active>>

---------------------------------------------------------------------------
(* GetActiveEntries, and GetProcessHistory, which loads every key.         *)
SearchToRead ==
  /\ scenario.reads # "none" /\ reader.pc = "idle"
  /\ reader' = [reader EXCEPT !.pc = "next", !.keys = KeyPrefixSearch, !.todo = KeyPrefixSearch]
  /\ ended' = {k \in Past(written) : Execute(k) /\ HasEnd(k, Past(written))}
  /\ active' = {k \in store : Execute(k) /\ ~HasEnd(k, Past(written))}
  /\ UNCHANGED <<scenario, written, store, markers, archive, deleter, interrupts>>

MutSkipOnAnyEnd(k) ==
  scenario.reads = "active" /\ (~Execute(k) \/ \E e \in reader.keys : e[2] \in EndsOf(k))

Skipped(k) == scenario.reads = "active" /\ (~Execute(k) \/ HasEnd(k, reader.keys))

\* The entries of a map come in any order; one that has gone is an error.
Load ==
  /\ reader.pc = "next"
  /\ \E k \in reader.todo :
       IF Skipped(k) THEN reader' = [reader EXCEPT !.todo = @ \ {k}]
       ELSE IF k \in store
         THEN reader' = [reader EXCEPT !.todo = @ \ {k}, !.result = @ \cup {k}]
         ELSE reader' = [reader EXCEPT !.pc = "done", !.error = TRUE]
  /\ UNCHANGED <<scenario, written, store, markers, archive, deleter, ended, active, interrupts>>

ReadDone ==
  /\ reader.pc = "next" /\ reader.todo = {}
  /\ reader' = [reader EXCEPT !.pc = "done"]
  /\ UNCHANGED <<scenario, written, store, markers, archive, deleter, ended, active, interrupts>>

---------------------------------------------------------------------------
DeleteStep(d) == SearchToDelete(d) \/ Archive(d) \/ Delete(d) \/ Deleted(d)
Acked == \A d \in DOMAIN deleter : At(d, "acked")
Terminating == /\ Acked /\ written = Len(scenario.writes)
               /\ reader.pc = "done" \/ scenario.reads = "none"
               /\ UNCHANGED vars

Next == \/ RecordHistory \/ SearchToRead \/ Load \/ ReadDone
        \/ \E d \in DOMAIN deleter : DeleteStep(d) \/ Interrupt(d)
        \/ Terminating
Step == RecordHistory \/ \E d \in DOMAIN deleter : DeleteStep(d)

Spec == Init /\ [][Next]_vars /\ WF_vars(Step)

---------------------------------------------------------------------------
(* Properties.                                                             *)

\* Keys are of entries that were recorded, and have a value or a marker.
TypeOK ==
  /\ store \cup markers = Past(written) /\ store \cap markers = {}
  /\ reader.result \subseteq Past(written)

\* No entry is deleted that was not published to the archive before, whenever
\* the handler is interrupted.  When ProcessTerminated came once, after the last
\* entry, and its handler was not interrupted, the history is gone once the
\* message is done.
ClearedAfterArchive ==
  /\ markers \subseteq archive
  /\ Acked /\ interrupts = 0 /\ scenario.deletes = 1 /\ ~scenario.early => store = {}

\* An activity or a job that had ended before the search is not reported as
\* active, even while the history is deleted: the marker of its end still counts.
\* What is active from the search to the end of a call without an error is.
ActiveExact ==
  scenario.reads = "active" =>
    /\ reader.result \cap ended = {}
    /\ reader.pc = "done" /\ ~reader.error => active \subseteq reader.result

\* deleteProcessHistory deletes the process history, whatever interrupts it.
AlwaysCleared == Acked /\ ~scenario.early => store = {}
=============================================================================
