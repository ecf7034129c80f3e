---------------------------- MODULE SharUpdates ----------------------------
(* The part of SHAR that is about large objects, which several callers      *)
(* update under a lock (Locks).                                             *)
EXTENDS Pool

CONSTANT LockCases  \* instances of Locks

L == INSTANCE Locks WITH
       Scenarios <- LockCases, scenario <- v1, lock <- v2, object <- v3, exists <- v4,
       published <- v5, call <- v6, stale <- v7, lost <- v8, budget <- v9

\* "none" stands for the absence of a lock and is no caller.
ASSUME LocksAssumption == \A s \in LockCases : "none" \notin DOMAIN s.op

\* As long as no lock of a large object is lost to its time to live, its holders
\* exclude each other, and an update that has succeeded is in the object, unless
\* a writer came between the load and the save of some UpdateLargeObj.
UpdatesKept == part = "lock" => L!UpdatesKept
=============================================================================
