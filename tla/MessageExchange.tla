-------------------------- MODULE MessageExchange --------------------------
(***************************************************************************)
(* Correlation of BPMN messages: internal/server/workflow/messages.go.     *)
(*                                                                         *)
(* The parties of one exchange, that is of one message name and one        *)
(* correlation key, meet in a record of the WfMessages bucket.  A sender   *)
(* is a message instance, a receiver is a message catch element whose job  *)
(* is open.  Each party's handler adds the party to the record, loads the  *)
(* record, and delivers if it holds a sender and some receivers: a sender  *)
(* to every receiver in it, a receiver to itself.  Whoever then finds all  *)
(* the receivers the message type expects in its copy of the record        *)
(* deletes the exchange.  Handlers run concurrently, and one that fails    *)
(* is started again from the top.                                          *)
(***************************************************************************)
EXTENDS Naturals, FiniteSets

CONSTANTS Senders,        \* messages that may be sent with this name and key
          Receivers,      \* the receivers WfMsgTypes lists for the message
          None,           \* no sender
          MaxInterrupts,  \* bound: handlers interrupted and redelivered
          CountCap        \* bound: completions are counted up to this many

ASSUME ExchangeAssumption ==
  /\ IsFiniteSet(Senders) /\ IsFiniteSet(Receivers)
  /\ Senders # {} /\ Senders \cap Receivers = {}
  /\ None \notin Senders
  /\ MaxInterrupts \in Nat
  /\ CountCap \in Nat \ {0}

Parties == Senders \cup Receivers

VARIABLES
  exchange,    \* the WfMessages record: whether it is there, and its parties
  jobs,        \* receivers whose job record is in the Job bucket
  ended,       \* receivers whose process instance is gone
  pc,          \* next step of each party's handler
  loaded,      \* the exchange as the handler loaded it
  todo,        \* receivers the handler still has to deliver to
  to,          \* the receiver it is delivering to
  sent,        \* AwaitMessageComplete messages pending for each receiver
  continued,   \* times each receiver's activity was completed
  closed,      \* whether the exchange has been deleted (history)
  interrupts

vars == <<exchange, jobs, ended, pc, loaded, todo, to, sent, continued, closed,
          interrupts>>

NoExchange == [present |-> FALSE, sender |-> None, receivers |-> {}]
BlankExchange == [NoExchange EXCEPT !.present = TRUE]

MutSoleReceiver(e, p) ==
  IF p \in Senders THEN [e EXCEPT !.sender = p]
                   ELSE [e EXCEPT !.receivers = {p}]

\* setPartyFn: the exchange with party p recorded in it.
WithParty(e, p) ==
  IF p \in Senders THEN [e EXCEPT !.sender = p]
                   ELSE [e EXCEPT !.receivers = @ \cup {p}]

Init ==
  /\ exchange = NoExchange
  /\ jobs = Receivers
  /\ ended = {}
  /\ \E sending \in (SUBSET Senders) \ {{}} :
       pc = [p \in Parties |-> IF p \in Receivers \cup sending THEN "queued"
                               ELSE "absent"]
  /\ loaded = [p \in Parties |-> NoExchange]
  /\ todo = [p \in Parties |-> {}]
  /\ to = [p \in Parties |-> None]
  /\ sent = [r \in Receivers |-> 0]
  /\ continued = [r \in Receivers |-> 0]
  /\ closed = FALSE
  /\ interrupts = 0

Capped(n) == IF n > CountCap THEN CountCap ELSE n
Goto(p, step) == pc' = [pc EXCEPT ![p] = step]
Nak(p) == Goto(p, "queued")

---------------------------------------------------------------------------
\* awaitMessageProcessor checks the receiver's process; processMessage has no
\* process to check.
Begin(p) ==
  /\ pc[p] = "queued"
  /\ Goto(p, IF p \in ended THEN "acked" ELSE "create")
  /\ UNCHANGED <<exchange, jobs, ended, loaded, todo, to, sent, continued, closed,
                 interrupts>>

\* handleMessageExchange: WfMessages.Create fails if the exchange exists.
Create(p) ==
  /\ pc[p] = "create"
  /\ \/ /\ exchange.present
        /\ Goto(p, "lookup")
        /\ UNCHANGED exchange
     \/ /\ ~exchange.present
        /\ exchange' = WithParty(BlankExchange, p)
        /\ Goto(p, "load")
  /\ UNCHANGED <<jobs, ended, loaded, todo, to, sent, continued, closed, interrupts>>

\* UpdateObj: look the record up, save a blank one if there is none, ...
Lookup(p) ==
  /\ pc[p] = "lookup"
  /\ Goto(p, IF exchange.present THEN "update" ELSE "saveBlank")
  /\ UNCHANGED <<exchange, jobs, ended, loaded, todo, to, sent, continued, closed,
                 interrupts>>

SaveBlank(p) ==
  /\ pc[p] = "saveBlank"
  /\ exchange' = BlankExchange
  /\ Goto(p, "update")
  /\ UNCHANGED <<jobs, ended, loaded, todo, to, sent, continued, closed, interrupts>>

MutUpdateReplaces(p) ==
  /\ pc[p] = "update"
  /\ exchange' = WithParty(BlankExchange, p)
  /\ Goto(p, "load")
  /\ UNCHANGED <<jobs, ended, loaded, todo, to, sent, continued, closed, interrupts>>

\* ... and apply setPartyFn, atomically by the revision check.
Update(p) ==
  /\ pc[p] = "update"
  /\ \/ /\ exchange.present
        /\ exchange' = WithParty(exchange, p)
        /\ Goto(p, "load")
     \/ /\ ~exchange.present
        /\ Nak(p)
        /\ UNCHANGED exchange
  /\ UNCHANGED <<jobs, ended, loaded, todo, to, sent, continued, closed, interrupts>>

\* attemptMessageDelivery: whom the party that has just arrived delivers to.
Addressees(p, e) == IF p \in Senders THEN e.receivers ELSE {p}

\* LoadObj, and the choice to deliver or not.  A missing record is an error.
\* A receiver that is not in the record it loads dereferences a nil entry of
\* the map, and the server stops.
Load(p) ==
  /\ pc[p] = "load"
  /\ \/ /\ ~exchange.present
        /\ Nak(p)
        /\ UNCHANGED <<loaded, todo>>
     \/ /\ exchange.present
        /\ exchange.sender = None \/ exchange.receivers = {}
        /\ Goto(p, "acked")
        /\ UNCHANGED <<loaded, todo>>
     \/ /\ exchange.sender # None /\ exchange.receivers # {}
        /\ p \in Receivers => p \in exchange.receivers
        /\ loaded' = [loaded EXCEPT ![p] = exchange]
        /\ todo' = [todo EXCEPT ![p] = Addressees(p, exchange)]
        /\ Goto(p, "getJob")
     \/ /\ exchange.sender # None /\ exchange.receivers # {}
        /\ p \in Receivers /\ p \notin exchange.receivers
        /\ Goto(p, "panic")
        /\ UNCHANGED <<loaded, todo>>
  /\ UNCHANGED <<exchange, jobs, ended, to, sent, continued, closed, interrupts>>

\* After the last addressee: hasAllReceivers on the loaded exchange.
AfterDelivery(p) ==
  IF Receivers \subseteq loaded[p].receivers THEN "delete" ELSE "acked"

\* GetJob of the next receiver.  A missing job is ErrJobNotFound, which the
\* test for ErrKeyNotFound does not match: the handler fails.
GetJob(p) ==
  /\ pc[p] = "getJob"
  /\ \E r \in todo[p] :
       \/ /\ r \in jobs
          /\ to' = [to EXCEPT ![p] = r]
          /\ Goto(p, "publish")
       \/ /\ r \notin jobs
          /\ Nak(p)
          /\ UNCHANGED to
  /\ UNCHANGED <<exchange, jobs, ended, loaded, todo, sent, continued, closed,
                 interrupts>>

\* PublishWorkflowState of AwaitMessageComplete with the sender's variables.
Publish(p) ==
  /\ pc[p] = "publish"
  /\ sent' = [sent EXCEPT ![to[p]] = Capped(@ + 1)]
  /\ todo' = [todo EXCEPT ![p] = @ \ {to[p]}]
  /\ Goto(p, IF todo'[p] # {} THEN "getJob" ELSE AfterDelivery(p))
  /\ UNCHANGED <<exchange, jobs, ended, loaded, to, continued, closed, interrupts>>

MutKeepExchange(p) ==
  /\ pc[p] = "delete"
  /\ Goto(p, "deleted")
  /\ UNCHANGED <<exchange, jobs, ended, loaded, todo, to, sent, continued, closed,
                 interrupts>>

\* WfMessages.Delete once all the receivers have been seen.
DeleteExchange(p) ==
  /\ pc[p] = "delete"
  /\ exchange' = NoExchange
  /\ closed' = TRUE
  /\ Goto(p, "deleted")
  /\ UNCHANGED <<jobs, ended, loaded, todo, to, sent, continued, interrupts>>

Ack(p) ==
  /\ pc[p] = "deleted"
  /\ Goto(p, "acked")
  /\ UNCHANGED <<exchange, jobs, ended, loaded, todo, to, sent, continued, closed,
                 interrupts>>

\* A server that stopped is restarted and the message is delivered again.
Restart(p) ==
  /\ pc[p] = "panic"
  /\ Nak(p)
  /\ UNCHANGED <<exchange, jobs, ended, loaded, todo, to, sent, continued, closed,
                 interrupts>>

Handle(p) == \/ Begin(p) \/ Create(p) \/ Lookup(p) \/ SaveBlank(p) \/ Update(p)
             \/ Load(p) \/ GetJob(p) \/ Publish(p) \/ DeleteExchange(p)
             \/ Ack(p) \/ Restart(p)

Interrupt(p) ==
  /\ interrupts < MaxInterrupts
  /\ pc[p] \notin {"queued", "acked", "panic", "absent"}
  /\ interrupts' = interrupts + 1
  /\ Nak(p)
  /\ UNCHANGED <<exchange, jobs, ended, loaded, todo, to, sent, continued, closed>>

---------------------------------------------------------------------------
\* processCompletedJobs: completeJobProcessor completes the activity and
\* deletes the job, unless the process is gone.  It does not check that the
\* job was completed before.
CompleteJob(r) ==
  /\ sent[r] > 0
  /\ sent' = [sent EXCEPT ![r] = @ - 1]
  /\ \/ /\ r \notin ended
        /\ continued' = [continued EXCEPT ![r] = Capped(@ + 1)]
        /\ jobs' = jobs \ {r}
     \/ /\ r \in ended
        /\ UNCHANGED <<continued, jobs>>
  /\ UNCHANGED <<exchange, ended, pc, loaded, todo, to, closed, interrupts>>

\* The receiver's process goes on to its end event.
EndProcess(r) ==
  /\ continued[r] > 0
  /\ r \notin ended
  /\ ended' = ended \cup {r}
  /\ UNCHANGED <<exchange, jobs, pc, loaded, todo, to, sent, continued, closed,
                 interrupts>>

Settled(p) == pc[p] \in {"acked", "absent"}

Quiet == /\ \A p \in Parties : Settled(p)
         /\ \A r \in Receivers : sent[r] = 0 /\ (continued[r] > 0 => r \in ended)

Terminating == Quiet /\ UNCHANGED vars

Next == \/ \E p \in Parties : Handle(p) \/ Interrupt(p)
        \/ \E r \in Receivers : CompleteJob(r) \/ EndProcess(r)
        \/ Terminating

Fairness == /\ \A p \in Parties : WF_vars(Handle(p))
            /\ \A r \in Receivers : WF_vars(CompleteJob(r)) /\ WF_vars(EndProcess(r))

Spec == Init /\ [][Next]_vars /\ Fairness

---------------------------------------------------------------------------
(* Properties.                                                             *)

Exchanges == [present : BOOLEAN, sender : Senders \cup {None},
              receivers : SUBSET Receivers]

\* The record, the jobs and the handlers keep their types, and a handler
\* delivers only from an exchange that has both a sender and receivers.
TypeOK ==
  /\ exchange \in Exchanges
  /\ jobs \subseteq Receivers
  /\ ended \subseteq Receivers
  /\ pc \in [Parties -> {"queued", "create", "lookup", "saveBlank", "update",
                         "load", "getJob", "publish", "delete", "deleted",
                         "panic", "acked", "absent"}]
  /\ loaded \in [Parties -> Exchanges]
  /\ todo \in [Parties -> SUBSET Receivers]
  /\ sent \in [Receivers -> 0 .. CountCap]
  /\ continued \in [Receivers -> 0 .. CountCap]
  /\ closed \in BOOLEAN
  /\ interrupts \in 0 .. MaxInterrupts
  /\ \A p \in Parties : pc[p] \in {"getJob", "publish", "delete"} =>
       loaded[p].sender # None /\ todo[p] \subseteq loaded[p].receivers

\* A single message is sent, and nothing is interrupted.
OneMessage == /\ Cardinality({s \in Senders : pc[s] # "absent"}) = 1
              /\ interrupts = 0

\* A step loses no party of the exchange, for as long as the record is there.
KeepsParties ==
  exchange.present /\ exchange'.present =>
    /\ exchange.receivers \subseteq exchange'.receivers
    /\ exchange.sender # None => exchange'.sender # None

\* Create and the revision check of UpdateObj lose no write: a party that is
\* in the record stays in it for as long as the record is there.
PartiesKept == [][OneMessage' => KeepsParties]_vars

\* A receiver that loads the exchange after adding itself finds itself in it, so
\* attemptMessageDelivery never dereferences a missing receiver: whatever is
\* interrupted and however many messages are sent, until the exchange is deleted, and
\* with one uninterrupted message and at most two receivers even after that.  (With a
\* third receiver, or a second message, the parties that add themselves again after
\* the deletion make a record without one that was in the deleted one.)
NeverPanics ==
  ~closed \/ (OneMessage /\ Cardinality(Receivers) <= 2) =>
    \A p \in Parties : pc[p] # "panic"

\* No receiver is lost: once a message has been sent, every receiver that
\* waits for it is eventually continued by handleMessageExchange.
EveryReceiverContinues == \A r \in Receivers : <>(continued[r] > 0)

\* Every handler eventually acknowledges its message for good: no message is
\* refused and redelivered for ever.
EveryMessageSettles == \A p \in Parties : <>[](OneMessage => Settled(p))
=============================================================================
