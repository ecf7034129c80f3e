---------------------------- MODULE SharServers ----------------------------
(* The parts of SHAR that are about a server and its messages: how it       *)
(* starts (Startup), and the loop that takes messages from a stream         *)
(* (Consumer).                                                              *)
EXTENDS Pool, Naturals

CONSTANTS Consumers,   \* instances of Consumer
          Goroutines,  \* its workers
          Startups,    \* instances of Startup
          Buckets,     \* the buckets of a namespace
          Patches      \* the versions that have a patch

Found == [there : BOOLEAN, ver : Nat, desc : Nat]

\* Versions are numbers, 0 for none, and agents are of the three kinds.
ASSUME StartupAssumption ==
  /\ Patches \subseteq Nat
  /\ \A s \in Startups :
       /\ s.objects \in [{"stream", "consumer", "terminal"} -> Found]
       /\ \A i \in DOMAIN s.agents :
            s.agents[i].kind \in {"server", "client", "request"} /\ s.agents[i].ver \in Nat

K == INSTANCE Consumer WITH
       Scenarios <- Consumers, Workers <- Goroutines, scenario <- v1, msgs <- v2, due <- v3,
       handled <- v4, signalled <- v5, worker <- v6, processing <- v7, owing <- v8,
       closer <- v9, shutdown <- v10, crashed <- v11, faults <- v12

I == INSTANCE Startup WITH
       Scenarios <- Startups, scenario <- v1, objects <- v2, patched <- v3, buckets <- v4,
       agents <- v5, sharKvs <- v6, mutex <- v7, admin <- v8, faults <- v9

\* A message that the worker loop of Process acknowledges was dealt with, or its
\* fatal error was signalled, or it could not be read; fatal errors without a
\* state and errors of a function that says it is done are the exceptions.
AckedIsDealtWith == part = "consumer" => K!AckedIsDealtWith

\* Shutdown returns, although goroutines may go on fetching, and when it does
\* each function that was running when it began is over.
ShutdownDrains ==
  (part = "consumer" /\ v10 = "waiting") ~>
    (\/ part = "consumer" /\ v11
     \/ (part = "consumer" => K!Over) /\ [](part = "consumer" => K!Drained))

\* A stream whose description states its version is stamped by a server only after
\* the patches since that version, whoever stops in between, provided every server
\* that starts has them; agents that start one after another take no stamp back.
UpgradesForward == [][part = "startup" => I!UpgradeStep]_pool

\* Unless DeleteNamespace is called, each namespace that KvsFor has handles for has
\* all its buckets, whichever request made them and whatever failed.
HandlesAreGood == part = "startup" => I!HandlesAreGood
=============================================================================
