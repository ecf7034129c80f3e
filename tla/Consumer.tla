------------------------------ MODULE Consumer ------------------------------
(***************************************************************************)
(* The goroutines of common.Process that take messages from a durable      *)
(* consumer (common/natsutil.go), and the shutdown of a client that runs   *)
(* them (client/client.go).                                                *)
(*                                                                         *)
(* JetStream keeps a message until it is acknowledged: a message that is   *)
(* rejected, or not acknowledged in time, is delivered again.              *)
(***************************************************************************)
EXTENDS Naturals, FiniteSets

CONSTANTS Scenarios,  \* kind: what each message is like; outcome: what fn may
                      \* return for it; backoff: there is a BackoffCalc; stops:
                      \* Shutdown is called; exits: on a signal, so that the
                      \* program exits after it; own: the closer is not the
                      \* client's; faults
          Workers     \* the goroutines

VARIABLES
  scenario,
  msgs,       \* "pending", "delivered", "delayed" or "acked"
  due,        \* messages whose embargo is over
  handled,    \* messages that fn has dealt with
  signalled,  \* messages with a fatal error that was signalled
  worker,     \* [pc, msg, result]
  processing, \* the client's counter
  owing,      \* goroutines that were in fn when Shutdown began
  closer,     \* "open", "closed", "stopped"
  shutdown,   \* "idle", "waiting", "returned", "exited"
  crashed, faults

vars == <<scenario, msgs, due, handled, signalled, worker, processing, owing, closer,
          shutdown, crashed, faults>>

Msgs == UNION {DOMAIN s.kind : s \in Scenarios}

Init ==
  /\ scenario \in Scenarios
  /\ msgs = [m \in DOMAIN scenario.kind |-> "pending"]
  /\ due = {} /\ handled = {} /\ signalled = {}
  /\ worker = [w \in Workers |-> [pc |-> "next", msg |-> "none", result |-> "none"]]
  /\ processing = 0 /\ owing = {} /\ closer = "open" /\ shutdown = "idle"
  /\ crashed = FALSE /\ faults = 0

Running == ~crashed /\ shutdown # "exited"
At(w, pc) == Running /\ worker[w].pc = pc
Held(m) == \E w \in Workers : worker[w].msg = m
Msg(w) == worker[w].msg
Free == [pc |-> "next", msg |-> "none", result |-> "none"]
Continue(w) == worker' = [worker EXCEPT ![w] = Free]
Settle(w, state) == Continue(w) /\ msgs' = [msgs EXCEPT ![Msg(w)] = IF @ = "acked" THEN @ ELSE state]

---------------------------------------------------------------------------
(* The loop of a goroutine.                                                *)
Fetch(w) ==
  /\ At(w, "next") /\ closer # "stopped"
  /\ \E m \in DOMAIN msgs :
       /\ msgs[m] = "pending"
       /\ msgs' = [msgs EXCEPT ![m] = "delivered"]
       /\ worker' = [worker EXCEPT ![w] = [pc |-> "check", msg |-> m, result |-> "none"]]
  /\ UNCHANGED <<scenario, due, handled, signalled, processing, owing, closer, shutdown,
                 crashed, faults>>

\* The iterator is closed: the goroutine returns.
IteratorClosed(w) ==
  /\ At(w, "next") /\ closer = "stopped"
  /\ worker' = [worker EXCEPT ![w].pc = "gone"]
  /\ UNCHANGED <<scenario, msgs, due, handled, signalled, processing, owing, closer, shutdown,
                 crashed, faults>>

Malformed(m) == scenario.kind[m] \in {"noNamespace", "badHeader"}

\* A message without a namespace or with a bad header is acknowledged, one with
\* an embargo is delayed, one with a bad embargo is left to come back.
CheckMessage(w) ==
  /\ At(w, "check")
  /\ LET m == Msg(w)
         k == scenario.kind[m]
     IN  \/ Malformed(m) /\ Settle(w, "acked")
         \/ k = "badEmbargo" /\ Continue(w) /\ UNCHANGED msgs
         \/ k = "embargo" /\ m \notin due /\ Settle(w, "delayed")
         \/ /\ k \in {"good", "middleware"} \/ (k = "embargo" /\ m \in due)
            /\ worker' = [worker EXCEPT ![w].pc = "middleware"] /\ UNCHANGED msgs
  /\ UNCHANGED <<scenario, due, handled, signalled, processing, owing, closer, shutdown,
                 crashed, faults>>

\* A middleware that fails returns no context, and the message goes to fn all
\* the same: the continue is one of the loop over the middleware.
Middleware(w) ==
  /\ At(w, "middleware")
  /\ IF scenario.kind[Msg(w)] = "middleware"
       THEN crashed' = TRUE /\ UNCHANGED worker
       ELSE worker' = [worker EXCEPT ![w].pc = "call"] /\ UNCHANGED crashed
  /\ UNCHANGED <<scenario, msgs, due, handled, signalled, processing, owing, closer, shutdown,
                 faults>>

\* ClientProcessFn counts itself first.
Call(w) ==
  /\ At(w, "call")
  /\ worker' = [worker EXCEPT ![w].pc = "fn"]
  /\ processing' = processing + 1
  /\ UNCHANGED <<scenario, msgs, due, handled, signalled, owing, closer, shutdown, crashed, faults>>

\* fn returns.
Return(w) ==
  /\ At(w, "fn")
  /\ \E r \in scenario.outcome :
       /\ worker' = [worker EXCEPT ![w].pc = "settle", ![w].result = r]
       /\ handled' = IF r = "done" THEN handled \cup {Msg(w)} ELSE handled
  /\ processing' = processing - 1 /\ owing' = owing \ {w}
  /\ UNCHANGED <<scenario, msgs, due, signalled, closer, shutdown, crashed, faults>>

MutAckErrors(w) ==
  /\ At(w, "settle") /\ Settle(w, "acked")
  /\ signalled' = IF worker[w].result = "fatal" THEN signalled \cup {Msg(w)} ELSE signalled
  /\ UNCHANGED <<scenario, due, handled, processing, owing, closer, shutdown, crashed, faults>>

\* A fatal error is signalled, if it has the state, and acknowledged; any other
\* error backs off, or has the message rejected or acknowledged as fn says.
SettleMessage(w) ==
  /\ At(w, "settle")
  /\ LET r == worker[w].result
     IN  /\ signalled' = IF r = "fatal" THEN signalled \cup {Msg(w)} ELSE signalled
         /\ Settle(w, CASE r \in {"done", "fatal", "fatalNoState"} -> "acked"
                        [] r \in {"fail", "failDone"} /\ scenario.backoff -> "delayed"
                        [] r = "failDone" /\ ~scenario.backoff -> "acked"
                        [] OTHER -> "pending")
  /\ UNCHANGED <<scenario, due, handled, processing, owing, closer, shutdown, crashed, faults>>

Step(w) == \/ Fetch(w) \/ IteratorClosed(w) \/ CheckMessage(w) \/ Middleware(w) \/ Call(w)
           \/ Return(w) \/ SettleMessage(w)

---------------------------------------------------------------------------
(* JetStream.                                                              *)

\* A delay is over.
Delayed(m) ==
  /\ msgs[m] = "delayed"
  /\ msgs' = [msgs EXCEPT ![m] = "pending"] /\ due' = due \cup {m}
  /\ UNCHANGED <<scenario, handled, signalled, worker, processing, owing, closer, shutdown,
                 crashed, faults>>

\* AckWait is over for a message that nobody works on any more ...
Expire(m) ==
  /\ msgs[m] = "delivered" /\ Running /\ ~Held(m)
  /\ msgs' = [msgs EXCEPT ![m] = "pending"]
  /\ UNCHANGED <<scenario, due, handled, signalled, worker, processing, owing, closer,
                 shutdown, crashed, faults>>

\* ... or for one that takes long.
Late(m) ==
  /\ msgs[m] = "delivered" /\ Held(m) /\ faults < scenario.faults
  /\ msgs' = [msgs EXCEPT ![m] = "pending"] /\ faults' = faults + 1
  /\ UNCHANGED <<scenario, due, handled, signalled, worker, processing, owing, closer,
                 shutdown, crashed>>

---------------------------------------------------------------------------
(* Shutdown.                                                               *)
Shutdown ==
  /\ Running /\ scenario.stops /\ shutdown = "idle"
  /\ shutdown' = "waiting"
  /\ owing' = {w \in Workers : worker[w].pc = "fn"}
  /\ closer' = IF scenario.own THEN closer ELSE "closed"
  /\ UNCHANGED <<scenario, msgs, due, handled, signalled, worker, processing, crashed, faults>>

\* The goroutine of Process that waits for the closer stops the iterators.
Stop ==
  /\ Running /\ closer = "closed" /\ closer' = "stopped"
  /\ UNCHANGED <<scenario, msgs, due, handled, signalled, worker, processing, owing, shutdown,
                 crashed, faults>>

MutNoWait ==
  /\ Running /\ shutdown = "waiting"
  /\ shutdown' = IF scenario.exits THEN "exited" ELSE "returned"
  /\ UNCHANGED <<scenario, msgs, due, handled, signalled, worker, processing, owing, closer,
                 crashed, faults>>

\* Shutdown returns when nothing is counted.  After a signal the program exits.
ShutdownReturns ==
  /\ Running /\ shutdown = "waiting" /\ processing = 0
  /\ shutdown' = IF scenario.exits THEN "exited" ELSE "returned"
  /\ UNCHANGED <<scenario, msgs, due, handled, signalled, worker, processing, owing, closer,
                 crashed, faults>>

Terminating ==
  /\ \/ ~Running
     \/ \A w \in Workers : worker[w].pc = "gone"
     \/ /\ \A m \in DOMAIN msgs : msgs[m] = "acked"
        /\ \A w \in Workers : worker[w].pc = "next"
  /\ UNCHANGED vars

Next == \/ \E w \in Workers : Step(w)
        \/ \E m \in DOMAIN msgs : Delayed(m) \/ Expire(m) \/ Late(m)
        \/ Shutdown \/ Stop \/ ShutdownReturns \/ Terminating

\* Each goroutine goes on, JetStream delivers again, and Shutdown polls.
Delivery == \E m \in DOMAIN msgs : Delayed(m) \/ Expire(m)
Fairness == /\ \A w \in Workers : WF_vars(Step(w))
            /\ WF_vars(Delivery) /\ WF_vars(Stop) /\ WF_vars(ShutdownReturns)

Spec == Init /\ [][Next]_vars /\ Fairness

---------------------------------------------------------------------------
(* Properties.                                                             *)

\* Goroutines and messages keep their types, and the counter counts the
\* goroutines in fn.
TypeOK ==
  /\ \A m \in DOMAIN msgs : msgs[m] \in {"pending", "delivered", "delayed", "acked"}
  /\ \A w \in Workers : worker[w].pc \in {"next", "check", "middleware", "call", "fn", "settle", "gone"}
  /\ processing = Cardinality({w \in Workers : worker[w].pc = "fn"})

Lossy == {"fatalNoState", "failDone"}

\* A message that is acknowledged was dealt with, or its fatal error was
\* signalled, or it could not be read.  Fatal errors without a state and errors
\* of a function that says it is done are the exceptions.
AckedIsDealtWith ==
  \A m \in DOMAIN msgs : msgs[m] = "acked" /\ scenario.outcome \cap Lossy = {} =>
    m \in handled \cup signalled \/ Malformed(m)

Over == shutdown \in {"returned", "exited"}
Drained == Over => owing = {}

\* Shutdown returns, although goroutines may go on fetching, and when it does
\* each function that was running when it began is over.
ShutdownDrains == shutdown = "waiting" ~> crashed \/ (Over /\ []Drained)

\* Shutdown stops the processing: nothing is in a function when it has returned.
\* Checked in no run, as it does not hold: a goroutine may be between its fetch and
\* the counter.
NothingRunsAfterShutdown == shutdown = "returned" => \A w \in Workers : worker[w].pc # "fn"
=============================================================================
