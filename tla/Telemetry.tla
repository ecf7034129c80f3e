------------------------------ MODULE Telemetry ------------------------------
(***************************************************************************)
(* The telemetry server (telemetry/server/server.go): one goroutine takes  *)
(* the state messages of the engine one at a time and in their order (its  *)
(* consumer has max_ack_pending 1), keeps the start of each activity and   *)
(* job in the tracking bucket, exports a span when the end comes, and      *)
(* counts what is active.                                                  *)
(***************************************************************************)
EXTENDS Integers, Sequences, FiniteSets

CONSTANT Scenarios  \* stream: the messages, [id, scope, phase]; faults: operations
                    \* that may fail; late, crashes: acknowledgements that come too
                    \* late, and restarts

VARIABLES
  scenario,
  next,     \* the first message that is not acknowledged
  pc,       \* "fetch", "count", "save", "load", "export", "delete", "ack"
  tracking, \* the tracking bucket: ids whose start is kept
  spans,    \* the ids of the spans exported, in order
  active,   \* wfStateUpDownCounter, by action
  budget    \* what may still go wrong

vars == <<scenario, next, pc, tracking, spans, active, budget>>

Message == scenario.stream[next]
Scopes == {"execution", "process", "activity", "job"}
Tracked == {"activity", "job"}  \* a span from one message to another

Init ==
  /\ scenario \in Scenarios
  /\ next = 1 /\ pc = "fetch" /\ tracking = {} /\ spans = <<>>
  /\ active = [s \in Scopes |-> 0]
  /\ budget = [faults |-> scenario.faults, late |-> scenario.late, crashes |-> scenario.crashes]

Spend(kind) == budget[kind] > 0 /\ budget' = [budget EXCEPT ![kind] = @ - 1]

\* workflowTrace: traversals, logs and messages without a tracking id are done.
Fetch ==
  /\ pc = "fetch" /\ next <= Len(scenario.stream)
  /\ pc' = IF Message.scope \in Scopes THEN "count" ELSE "ack"
  /\ UNCHANGED <<scenario, next, tracking, spans, active, budget>>

AfterCount == CASE Message.scope \in Tracked /\ Message.phase = "start" -> "save"
                [] Message.scope \in Tracked /\ Message.phase = "end" -> "load"
                [] Message.scope \notin Tracked /\ Message.phase = "start" -> "export"
                [] OTHER -> "ack"

\* The counter comes before anything that can fail.
Count ==
  /\ pc = "count" /\ pc' = AfterCount
  /\ active' = [active EXCEPT ![Message.scope] = IF Message.phase = "start" THEN @ + 1 ELSE @ - 1]
  /\ UNCHANGED <<scenario, next, tracking, spans, budget>>

spanStart ==
  /\ pc = "save" /\ pc' = "ack" /\ tracking' = tracking \cup {Message.id}
  /\ UNCHANGED <<scenario, next, spans, active, budget>>

MutDeleteFirst ==
  /\ pc = "load" /\ pc' = IF Message.id \in tracking THEN "export" ELSE "ack"
  /\ tracking' = tracking \ {Message.id}
  /\ UNCHANGED <<scenario, next, spans, active, budget>>

\* An end whose start is not in the bucket is abandoned.
spanEnd ==
  /\ pc = "load" /\ pc' = IF Message.id \in tracking THEN "export" ELSE "ack"
  /\ UNCHANGED <<scenario, next, tracking, spans, active, budget>>

\* saveSpan, as far as the exporter.
Export ==
  /\ pc = "export" /\ pc' = "delete" /\ spans' = Append(spans, Message.id)
  /\ UNCHANGED <<scenario, next, tracking, active, budget>>

\* saveSpan's last step.
Delete ==
  /\ pc = "delete" /\ pc' = "ack" /\ tracking' = tracking \ {Message.id}
  /\ UNCHANGED <<scenario, next, spans, active, budget>>

\* Whatever fails, workflowTrace returns true: the message is acknowledged.
Fail ==
  /\ pc \in {"save", "load", "export", "delete"} /\ Spend("faults") /\ pc' = "ack"
  /\ UNCHANGED <<scenario, next, tracking, spans, active>>

Ack ==
  /\ pc = "ack" /\ pc' = "fetch" /\ next' = next + 1
  /\ UNCHANGED <<scenario, tracking, spans, active, budget>>

\* The acknowledgement comes after ack_wait or is lost: the message comes again.
AckLate ==
  /\ pc = "ack" /\ Spend("late") /\ pc' = "fetch"
  /\ UNCHANGED <<scenario, next, tracking, spans, active>>

\* A restart: the message in hand comes again, and the counters start from zero.
Crash ==
  /\ pc # "fetch" /\ Spend("crashes") /\ pc' = "fetch" /\ active' = [s \in Scopes |-> 0]
  /\ UNCHANGED <<scenario, next, tracking, spans>>

Step == Fetch \/ Count \/ spanStart \/ spanEnd \/ Export \/ Delete \/ Ack
Finished == pc = "fetch" /\ next > Len(scenario.stream)
Terminating == Finished /\ UNCHANGED vars
Next == Step \/ Fail \/ AckLate \/ Crash \/ Terminating
Spec == Init /\ [][Next]_vars

---------------------------------------------------------------------------
(* Properties.                                                             *)

\* The position in the stream and the counters keep their types.
TypeOK ==
  /\ next \in 1 .. (Len(scenario.stream) + 1)
  /\ \A s \in Scopes : active[s] \in Int
  /\ pc # "fetch" => next <= Len(scenario.stream)

Unbroken(kind) == budget[kind] = scenario[kind]
Handled(phase) == LET s == scenario.stream
                  IN  {s[i].id : i \in {j \in 1 .. (next - 1) : s[j].phase = phase}}
TrackedIds == LET s == scenario.stream
              IN  {s[i].id : i \in {j \in DOMAIN s : s[j].scope \in Tracked}}
Exports(id) == {i \in DOMAIN spans : spans[i] = id}

\* The span of an activity or a job whose start and end were acknowledged is not
\* lost to a restart or a late acknowledgement, and its start is no longer in the
\* bucket, as long as no operation failed.  Nor is it exported twice, although its
\* end may be published twice (the engine's handler was redelivered): saveSpan has
\* deleted the start.  Only a restart between export and deletion makes it two.
SpansExact ==
  Unbroken("faults") =>
    /\ \A id \in TrackedIds \cap Handled("start") \cap Handled("end") :
         Exports(id) # {} /\ (id \in tracking => pc # "fetch")
    /\ Unbroken("crashes") => \A id \in TrackedIds : Cardinality(Exports(id)) <= 1
=============================================================================
