----------------------------- MODULE SharStores -----------------------------
(* The part of SHAR that is about the definitions of workflows, their       *)
(* versions and their launch (WorkflowStore).                               *)
EXTENDS Pool, Naturals, Sequences, FiniteSets

CONSTANTS Stores,    \* instances of WorkflowStore
          TaskSpecs  \* the task specifications of those

W == INSTANCE WorkflowStore WITH
       Scenarios <- Stores, Tasks <- TaskSpecs, scenario <- v1, wfProcess <- v2,
       wfMsgTypes <- v3, wfVersion <- v4, wf <- v5, specs <- v6, loads <- v7, timers <- v8,
       launch <- v9, admin <- v10, conflicts <- v11

\* storeWorkflow lists no version without its definition, nor the same one twice
\* in a row when two loads meet, and each timed version gets one timer.
VersionsConsistent == part = "store" => W!VersionsConsistent

\* Nothing is launched that was switched off, or had a deprecated task, when
\* the call came in.
LaunchAllowed == part = "store" => W!LaunchAllowed
=============================================================================
