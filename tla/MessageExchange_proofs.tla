----------------------- MODULE MessageExchange_proofs -----------------------
(***************************************************************************)
(* What the exchange of a message promises its parties, for any number of  *)
(* messages, receivers and interruptions: until the exchange is deleted no *)
(* party is lost from it, and no receiver finds itself missing.  After the *)
(* deletion the parties may add themselves to a new record, and the party  *)
(* that deleted does not come back: with one message and at most two       *)
(* receivers no receiver is left for the others to miss.                   *)
(***************************************************************************)
EXTENDS MessageExchange, FiniteSetTheorems, TLAPS

\* The receiver a handler is delivering to is one it still has to deliver to.
TypeInv == /\ TypeOK
           /\ to \in [Parties -> Receivers \cup {None}]
           /\ \A p \in Parties : pc[p] = "publish" => to[p] \in todo[p]

\* Before the exchange is deleted, a handler past Create finds the record, with its
\* party in it once it has added it.
Open ==
  \A p \in Parties :
    /\ pc[p] \notin {"saveBlank", "deleted", "panic"}
    /\ pc[p] \in {"lookup", "update", "load", "getJob", "publish", "delete"} =>
         exchange.present
    /\ pc[p] = "load" /\ p \in Receivers => p \in exchange.receivers

\* A party whose handler has deleted the exchange, and is in no exchange since.
Gone(d) == /\ pc[d] \in {"deleted", "acked"}
           /\ d \in Senders => exchange.sender # d
           /\ d \in Receivers => d \notin exchange.receivers

\* The inductive invariant.
PanicInv ==
  /\ TypeInv
  /\ ~closed => Open
  /\ exchange.sender # None => pc[exchange.sender] # "absent"
  /\ closed /\ interrupts = 0 => \E d \in Parties : Gone(d)
  /\ NeverPanics

\* Until the exchange is deleted, a step loses no party of it: Create is refused when
\* there is a record, and UpdateObj adds to the one it finds.
KeptUntilDeleted == [][~closed' => KeepsParties]_vars

---------------------------------------------------------------------------
(* The types.                                                              *)

Steps == {"queued", "create", "lookup", "saveBlank", "update", "load", "getJob", "publish",
          "delete", "deleted", "panic", "acked", "absent"}

\* setPartyFn adds one party and loses none.
LEMMA WithPartyAdds ==
  ASSUME NEW e \in Exchanges, NEW p \in Parties
  PROVE  /\ WithParty(e, p) \in Exchanges
         /\ WithParty(e, p).present = e.present
         /\ p \in Senders => WithParty(e, p).sender = p /\ WithParty(e, p).receivers = e.receivers
         /\ p \notin Senders => /\ WithParty(e, p).sender = e.sender
                                /\ WithParty(e, p).receivers = e.receivers \cup {p}
  BY DEF WithParty, Exchanges, Parties

\* The records the code makes itself.
LEMMA FreshRecords ==
  /\ NoExchange \in Exchanges /\ ~NoExchange.present
  /\ NoExchange.sender = None /\ NoExchange.receivers = {}
  /\ BlankExchange \in Exchanges /\ BlankExchange.present
  /\ BlankExchange.sender = None /\ BlankExchange.receivers = {}
  BY Zenon DEF NoExchange, BlankExchange, Exchanges

\* A sender is no receiver, and None is no sender.
LEMMA PartyKinds ==
  /\ \A s \in Senders : s \in Parties /\ s \notin Receivers /\ s # None
  /\ \A r \in Receivers : r \in Parties /\ r \notin Senders
  BY ExchangeAssumption DEF Parties

LEMMA InitiallyTyped == Init => TypeInv
  <1> SUFFICES ASSUME Init PROVE TypeInv
    OBVIOUS
  <1>1. pc \in [Parties -> Steps] /\ \A p \in Parties : pc[p] \in {"queued", "absent"}
    BY DEF Init, Steps
  <1>2. 0 \in 0 .. CountCap /\ 0 \in 0 .. MaxInterrupts
    BY ExchangeAssumption
  <1> QED
    BY <1>1, <1>2, FreshRecords, Zenon DEF Init, TypeInv, TypeOK, Steps

\* A step of one handler that leaves what it delivers, and takes it to no delivery.
LEMMA MoveKeepsTypes ==
  ASSUME TypeInv, NEW p \in Parties, NEW step \in Steps \ {"getJob", "publish", "delete"},
         Goto(p, step), exchange' \in Exchanges, closed' \in BOOLEAN, interrupts' \in 0 .. MaxInterrupts,
         UNCHANGED <<jobs, ended, loaded, todo, to, sent, continued>>
  PROVE  TypeInv'
  <1>1. pc' \in [Parties -> Steps] /\ \A q \in Parties : pc'[q] = IF q = p THEN step ELSE pc[q]
    BY DEF TypeInv, TypeOK, Goto, Steps
  <1>2. \A q \in Parties : pc'[q] \in {"getJob", "publish", "delete"} => pc'[q] = pc[q]
    BY <1>1
  <1> QED
    BY <1>1, <1>2 DEF TypeInv, TypeOK, Steps

LEMMA HandlingKeepsTypes ==
  ASSUME TypeInv, NEW p \in Parties, Handle(p) \/ Interrupt(p)
  PROVE  TypeInv'
  <1>0. exchange \in Exchanges /\ closed \in BOOLEAN /\ interrupts \in 0 .. MaxInterrupts
    BY DEF TypeInv, TypeOK
  <1>1. CASE Begin(p)
    <2>1. PICK step \in {"acked", "create"} : Goto(p, step)
      BY <1>1 DEF Begin
    <2> QED
      BY <1>0, <1>1, <2>1, MoveKeepsTypes DEF Begin, Steps
  <1>2. CASE Create(p)
    <2>1. PICK step \in {"lookup", "load"} : Goto(p, step)
      BY <1>2 DEF Create
    <2>2. exchange' \in Exchanges
      BY <1>0, <1>2, WithPartyAdds, FreshRecords DEF Create
    <2> QED
      BY <1>0, <1>2, <2>1, <2>2, MoveKeepsTypes DEF Create, Steps
  <1>3. CASE Lookup(p)
    <2>1. PICK step \in {"update", "saveBlank"} : Goto(p, step)
      BY <1>3 DEF Lookup
    <2> QED
      BY <1>0, <1>3, <2>1, MoveKeepsTypes DEF Lookup, Steps
  <1>4. CASE SaveBlank(p)
    BY <1>0, <1>4, MoveKeepsTypes, FreshRecords DEF SaveBlank, Steps
  <1>5. CASE Update(p)
    <2>1. PICK step \in {"load", "queued"} : Goto(p, step)
      BY <1>5 DEF Update, Nak
    <2>2. exchange' \in Exchanges
      BY <1>0, <1>5, WithPartyAdds DEF Update
    <2> QED
      BY <1>0, <1>5, <2>1, <2>2, MoveKeepsTypes DEF Update, Steps
  <1>6. CASE Load(p)
    <2>1. CASE UNCHANGED <<loaded, todo>> /\ \E step \in {"queued", "acked", "panic"} : Goto(p, step)
      BY <1>0, <1>6, <2>1, MoveKeepsTypes DEF Load, Steps
    <2>2. CASE /\ exchange.sender # None /\ exchange.receivers # {}
               /\ p \in Receivers => p \in exchange.receivers
               /\ loaded' = [loaded EXCEPT ![p] = exchange]
               /\ todo' = [todo EXCEPT ![p] = Addressees(p, exchange)]
               /\ Goto(p, "getJob")
      <3>1. Addressees(p, exchange) \subseteq exchange.receivers /\ exchange.receivers \subseteq Receivers
        BY <1>0, <2>2 DEF Addressees, Parties, Exchanges
      <3>2. /\ loaded' \in [Parties -> Exchanges] /\ todo' \in [Parties -> SUBSET Receivers]
            /\ loaded'[p] = exchange /\ todo'[p] = Addressees(p, exchange) /\ pc'[p] = "getJob"
            /\ \A q \in Parties : q # p => loaded'[q] = loaded[q] /\ todo'[q] = todo[q] /\ pc'[q] = pc[q]
        BY <1>0, <2>2, <3>1 DEF TypeInv, TypeOK, Goto
      <3>3. pc' \in [Parties -> Steps]
        BY <2>2 DEF TypeInv, TypeOK, Goto, Steps
      <3>4. UNCHANGED <<exchange, jobs, ended, to, sent, continued, closed, interrupts>>
        BY <1>6 DEF Load
      <3>5. \A q \in Parties : pc'[q] \in {"getJob", "publish", "delete"} =>
              loaded'[q].sender # None /\ todo'[q] \subseteq loaded'[q].receivers
        BY <2>2, <3>1, <3>2 DEF TypeInv, TypeOK
      <3>6. \A q \in Parties : pc'[q] = "publish" => to'[q] \in todo'[q]
        BY <3>2, <3>4 DEF TypeInv
      <3> QED
        BY <3>2, <3>3, <3>4, <3>5, <3>6 DEF TypeInv, TypeOK, Steps
    <2> QED
      BY <1>6, <2>1, <2>2 DEF Load, Nak
  <1>7. CASE GetJob(p)
    <2>1. PICK r \in todo[p] : \/ to' = [to EXCEPT ![p] = r] /\ Goto(p, "publish")
                               \/ Goto(p, "queued") /\ UNCHANGED to
      BY <1>7 DEF GetJob, Nak
    <2>2. UNCHANGED <<exchange, jobs, ended, loaded, todo, sent, continued, closed, interrupts>>
      BY <1>7 DEF GetJob
    <2>3. CASE Goto(p, "queued") /\ UNCHANGED to
      BY <1>0, <2>2, <2>3, MoveKeepsTypes DEF Steps
    <2>4. CASE to' = [to EXCEPT ![p] = r] /\ Goto(p, "publish")
      <3>1. /\ pc' \in [Parties -> Steps] /\ pc'[p] = "publish"
            /\ \A q \in Parties : q # p => pc'[q] = pc[q]
        BY <2>4 DEF TypeInv, TypeOK, Goto, Steps
      <3>2. /\ to'[p] = r /\ to' \in [Parties -> Receivers \cup {None}]
            /\ \A q \in Parties : q # p => to'[q] = to[q]
        BY <2>1, <2>4 DEF TypeInv, TypeOK
      <3>3. \A q \in Parties : pc'[q] = "publish" => to'[q] \in todo'[q]
        BY <2>1, <2>2, <3>1, <3>2 DEF TypeInv
      <3>4. \A q \in Parties : pc'[q] \in {"getJob", "publish", "delete"} =>
              pc[q] \in {"getJob", "publish", "delete"}
        BY <1>7, <3>1 DEF GetJob
      <3> QED
        BY <2>2, <3>1, <3>2, <3>3, <3>4 DEF TypeInv, TypeOK, Steps
    <2> QED
      BY <2>1, <2>3, <2>4
  <1>8. CASE Publish(p)
    <2>1. PICK step \in {"getJob", "delete", "acked"} : Goto(p, step)
      BY <1>8 DEF Publish, AfterDelivery
    <2>2. UNCHANGED <<exchange, jobs, ended, loaded, to, continued, closed, interrupts>>
      BY <1>8 DEF Publish
    <2>3. pc[p] = "publish" /\ to[p] \in Receivers
      BY <1>8 DEF Publish, TypeInv, TypeOK
    <2>4. sent' \in [Receivers -> 0 .. CountCap]
      <3>1. \A n \in 0 .. CountCap : Capped(n + 1) \in 0 .. CountCap
        BY ExchangeAssumption DEF Capped
      <3> QED
        BY <1>8, <2>3, <3>1 DEF Publish, TypeInv, TypeOK
    <2>5. /\ pc' \in [Parties -> Steps] /\ pc'[p] # "publish"
          /\ \A q \in Parties : q # p => pc'[q] = pc[q]
      BY <2>1 DEF TypeInv, TypeOK, Goto, Steps
    <2>6. /\ todo' \in [Parties -> SUBSET Receivers] /\ todo'[p] \subseteq todo[p]
          /\ \A q \in Parties : q # p => todo'[q] = todo[q]
      BY <1>8 DEF Publish, TypeInv, TypeOK
    <2>7. \A q \in Parties : pc'[q] \in {"getJob", "publish", "delete"} =>
            loaded[q].sender # None /\ todo'[q] \subseteq loaded[q].receivers
      BY <2>3, <2>5, <2>6 DEF TypeInv, TypeOK
    <2>8. \A q \in Parties : pc'[q] = "publish" => to[q] \in todo'[q]
      BY <2>5, <2>6 DEF TypeInv
    <2> QED
      BY <2>2, <2>4, <2>5, <2>6, <2>7, <2>8 DEF TypeInv, TypeOK, Steps
  <1>9. CASE DeleteExchange(p)
    BY <1>0, <1>9, MoveKeepsTypes, FreshRecords DEF DeleteExchange, Steps
  <1>10. CASE Ack(p)
    BY <1>0, <1>10, MoveKeepsTypes DEF Ack, Steps
  <1>11. CASE Restart(p)
    BY <1>0, <1>11, MoveKeepsTypes DEF Restart, Nak, Steps
  <1>12. CASE Interrupt(p)
    <2>1. interrupts' \in 0 .. MaxInterrupts
      BY <1>0, <1>12, ExchangeAssumption DEF Interrupt
    <2> QED
      BY <1>0, <1>12, <2>1, MoveKeepsTypes DEF Interrupt, Nak, Steps
  <1> QED
    BY <1>1, <1>2, <1>3, <1>4, <1>5, <1>6, <1>7, <1>8, <1>9, <1>10, <1>11, <1>12 DEF Handle

\* Every step keeps the types.
LEMMA NextKeepsTypes == TypeInv /\ [Next]_vars => TypeInv'
  <1> SUFFICES ASSUME TypeInv, [Next]_vars PROVE TypeInv'
    OBVIOUS
  <1>1. ASSUME NEW p \in Parties, Handle(p) \/ Interrupt(p) PROVE TypeInv'
    BY <1>1, HandlingKeepsTypes
  <1>2. ASSUME NEW r \in Receivers, CompleteJob(r) PROVE TypeInv'
    <2>1. \A n \in 0 .. CountCap : Capped(n + 1) \in 0 .. CountCap /\ (n > 0 => n - 1 \in 0 .. CountCap)
      BY ExchangeAssumption DEF Capped
    <2>2. sent' \in [Receivers -> 0 .. CountCap]
      BY <1>2, <2>1 DEF CompleteJob, TypeInv, TypeOK
    <2>3. continued' \in [Receivers -> 0 .. CountCap] /\ jobs' \subseteq Receivers
      BY <1>2, <2>1 DEF CompleteJob, TypeInv, TypeOK
    <2>4. UNCHANGED <<exchange, ended, pc, loaded, todo, to, closed, interrupts>>
      BY <1>2 DEF CompleteJob
    <2> QED
      BY <2>2, <2>3, <2>4 DEF TypeInv, TypeOK
  <1>3. ASSUME NEW r \in Receivers, EndProcess(r) PROVE TypeInv'
    BY <1>3 DEF EndProcess, TypeInv, TypeOK
  <1>4. CASE UNCHANGED vars
    BY <1>4 DEF vars, TypeInv, TypeOK
  <1> QED
    BY <1>1, <1>2, <1>3, <1>4 DEF Next, Terminating

\* The record, the jobs and the handlers keep their types, and a handler delivers only
\* from an exchange with a sender, to receivers in it.
THEOREM TypeCorrect == Spec => []TypeOK
  <1>1. TypeInv => TypeOK
    BY DEF TypeInv
  <1> QED
    BY <1>1, InitiallyTyped, NextKeepsTypes, PTL DEF Spec

---------------------------------------------------------------------------
(* The exchange and its deletion.                                          *)

\* What a step of one handler may do: it moves that handler only, an acknowledged
\* one does not run again, the exchange is kept, removed, blanked or given one party.
LEMMA HandlerMoves ==
  ASSUME TypeInv, NEW p \in Parties, Handle(p) \/ Interrupt(p)
  PROVE  /\ pc[p] \notin {"acked", "absent"} /\ pc'[p] # "absent"
         /\ \A q \in Parties : q # p => pc'[q] = pc[q]
         /\ interrupts' = 0 => interrupts = 0
         /\ pc[p] = "deleted" /\ interrupts' = 0 => pc'[p] = "acked"
         /\ closed => closed'
         /\ closed' /\ ~closed => pc'[p] = "deleted" /\ exchange' = NoExchange
         /\ \/ exchange' \in {exchange, NoExchange, BlankExchange}
            \/ /\ pc[p] # "deleted"
               /\ exchange' \in {WithParty(exchange, p), WithParty(BlankExchange, p)}
  <1>0. pc \in [Parties -> Steps] /\ interrupts \in Nat
    BY ExchangeAssumption DEF TypeInv, TypeOK, Steps
  <1>1. CASE Begin(p)
    BY <1>0, <1>1 DEF Begin, Goto
  <1>2. CASE Create(p)
    BY <1>0, <1>2 DEF Create, Goto
  <1>3. CASE Lookup(p)
    BY <1>0, <1>3 DEF Lookup, Goto
  <1>4. CASE SaveBlank(p)
    BY <1>0, <1>4 DEF SaveBlank, Goto
  <1>5. CASE Update(p)
    BY <1>0, <1>5 DEF Update, Goto, Nak
  <1>6. CASE Load(p)
    BY <1>0, <1>6 DEF Load, Goto, Nak
  <1>7. CASE GetJob(p)
    BY <1>0, <1>7 DEF GetJob, Goto, Nak
  <1>8. CASE Publish(p)
    BY <1>0, <1>8 DEF Publish, AfterDelivery, Goto
  <1>9. CASE DeleteExchange(p)
    BY <1>0, <1>9 DEF DeleteExchange, Goto
  <1>10. CASE Ack(p)
    BY <1>0, <1>10 DEF Ack, Goto
  <1>11. CASE Restart(p)
    BY <1>0, <1>11 DEF Restart, Goto, Nak
  <1>12. CASE Interrupt(p)
    BY <1>0, <1>12 DEF Interrupt, Goto, Nak
  <1> QED
    BY <1>1, <1>2, <1>3, <1>4, <1>5, <1>6, <1>7, <1>8, <1>9, <1>10, <1>11, <1>12, Zenon DEF Handle

\* Until the exchange is deleted the record stays, and so do the parties in it.
LEMMA HandlerKeepsOpen ==
  ASSUME TypeInv, Open, NEW p \in Parties, Handle(p) \/ Interrupt(p), ~closed'
  PROVE  Open' /\ KeepsParties
  <1>0. /\ pc \in [Parties -> Steps] /\ exchange \in Exchanges
        /\ \A q \in Parties : q # p => pc'[q] = pc[q]
    BY HandlerMoves DEF TypeInv, TypeOK, Steps
  <1>1. CASE Begin(p)
    BY <1>0, <1>1 DEF Begin, Goto, Open, KeepsParties
  <1>2. CASE Create(p)
    <2>1. CASE exchange.present
      BY <1>0, <1>2, <2>1 DEF Create, Goto, Open, KeepsParties
    <2>2. CASE ~exchange.present
      <3>1. exchange' = WithParty(BlankExchange, p) /\ pc'[p] = "load"
        BY <1>0, <1>2, <2>2 DEF Create, Goto
      <3>2. exchange'.present /\ (p \in Receivers => p \in exchange'.receivers)
        BY <3>1, WithPartyAdds, FreshRecords, PartyKinds
      <3> QED
        BY <1>0, <2>2, <3>1, <3>2 DEF Open, KeepsParties
    <2> QED
      BY <2>1, <2>2
  <1>3. CASE Lookup(p)
    BY <1>0, <1>3 DEF Lookup, Goto, Open, KeepsParties
  <1>5. CASE Update(p)
    <2>1. exchange.present /\ exchange' = WithParty(exchange, p) /\ pc'[p] = "load"
      BY <1>0, <1>5 DEF Update, Goto, Nak, Open
    <2>2. /\ exchange'.present /\ (p \in Receivers => p \in exchange'.receivers)
          /\ exchange.receivers \subseteq exchange'.receivers
          /\ exchange.sender # None => exchange'.sender # None
      BY <1>0, <2>1, WithPartyAdds, PartyKinds
    <2> QED
      BY <1>0, <2>1, <2>2 DEF Open, KeepsParties
  <1>6. CASE Load(p)
    <2>1. exchange.present /\ (p \in Receivers => p \in exchange.receivers)
      BY <1>6 DEF Load, Open
    <2>2. UNCHANGED exchange /\ pc'[p] \in {"acked", "getJob"}
      BY <1>0, <1>6, <2>1 DEF Load, Goto, Nak
    <2> QED
      BY <1>0, <2>1, <2>2 DEF Open, KeepsParties
  <1>7. CASE GetJob(p)
    <2>1. UNCHANGED exchange /\ pc[p] = "getJob" /\ pc'[p] \in {"publish", "queued"}
      BY <1>0, <1>7 DEF GetJob, Goto, Nak
    <2> QED
      BY <1>0, <2>1 DEF Open, KeepsParties
  <1>8. CASE Publish(p)
    <2>1. UNCHANGED exchange /\ pc[p] = "publish" /\ pc'[p] \in {"getJob", "delete", "acked"}
      BY <1>0, <1>8 DEF Publish, AfterDelivery, Goto
    <2> QED
      BY <1>0, <2>1 DEF Open, KeepsParties
  <1>12. CASE Interrupt(p)
    BY <1>0, <1>12 DEF Interrupt, Goto, Nak, Open, KeepsParties
  <1>13. ~SaveBlank(p) /\ ~DeleteExchange(p) /\ ~Ack(p) /\ ~Restart(p)
    BY DEF Open, SaveBlank, DeleteExchange, Ack, Restart
  <1> QED
    BY <1>1, <1>2, <1>3, <1>5, <1>6, <1>7, <1>8, <1>12, <1>13, Zenon DEF Handle

\* The sender of the exchange is one that sends: only a party that runs adds itself.
LEMMA HandlerKeepsSender ==
  ASSUME TypeInv, exchange.sender # None => pc[exchange.sender] # "absent",
         NEW p \in Parties, Handle(p) \/ Interrupt(p)
  PROVE  exchange'.sender # None => pc'[exchange'.sender] # "absent"
  <1>1. exchange \in Exchanges /\ (exchange.sender # None => exchange.sender \in Parties)
    BY PartyKinds DEF TypeInv, TypeOK, Exchanges
  <1>2. exchange'.sender \in {exchange.sender, None, p}
    BY <1>1, HandlerMoves, WithPartyAdds, FreshRecords
  <1> QED
    BY <1>1, <1>2, HandlerMoves

\* The party that deleted the exchange does not run again, nor add itself.
LEMMA HandlerKeepsGone ==
  ASSUME TypeInv, closed /\ interrupts = 0 => \E d \in Parties : Gone(d),
         NEW p \in Parties, Handle(p) \/ Interrupt(p), closed', interrupts' = 0
  PROVE  \E d \in Parties : Gone(d)'
  <1>1. CASE ~closed
    <2>1. Gone(p)'
      BY <1>1, HandlerMoves, FreshRecords, PartyKinds DEF Gone
    <2> QED
      BY <2>1
  <1>2. CASE closed
    <2>1. PICK d \in Parties : Gone(d)
      BY <1>2, HandlerMoves
    <2>2. pc'[d] \in {"deleted", "acked"}
      BY <2>1, HandlerMoves DEF Gone
    <2>3. exchange \in Exchanges
      BY DEF TypeInv, TypeOK
    <2>4. CASE d = p
      <3>1. exchange' \in {exchange, NoExchange, BlankExchange}
        BY <2>1, <2>4, HandlerMoves DEF Gone
      <3> QED
        BY <2>1, <2>2, <3>1, FreshRecords, PartyKinds DEF Gone
    <2>5. CASE d # p
      <3>1. /\ exchange'.sender \in {exchange.sender, None, p}
            /\ \A r \in exchange'.receivers : r = p \/ r \in exchange.receivers
        <4>1. CASE exchange' \in {exchange, NoExchange, BlankExchange}
          BY <4>1, FreshRecords
        <4>2. CASE exchange' = WithParty(exchange, p)
          BY <2>3, <4>2, WithPartyAdds
        <4>3. CASE exchange' = WithParty(BlankExchange, p)
          <5>1. /\ BlankExchange \in Exchanges
                /\ BlankExchange.sender = None /\ BlankExchange.receivers = {}
            BY FreshRecords
          <5> QED
            BY <4>3, <5>1, WithPartyAdds
        <4> QED
          BY <4>1, <4>2, <4>3, HandlerMoves
      <3> QED
        BY <2>1, <2>2, <2>5, <3>1, PartyKinds DEF Gone
    <2> QED
      BY <2>4, <2>5
  <1> QED
    BY <1>1, <1>2

\* Two receivers are not three.
LEMMA AtMostTwo ==
  ASSUME Cardinality(Receivers) <= 2, NEW a \in Receivers, NEW b \in Receivers, NEW c \in Receivers
  PROVE  a = b \/ a = c \/ b = c
  <1> SUFFICES ASSUME a # b, a # c, b # c PROVE FALSE
    OBVIOUS
  <1>1. IsFiniteSet({a}) /\ Cardinality({a}) = 1
    BY FS_Singleton, Zenon
  <1> DEFINE T == {a} \cup {b}
  <1>2. IsFiniteSet(T) /\ Cardinality(T) = 2
    BY <1>1, FS_AddElement
  <1>6. T \subseteq Receivers /\ c \notin T
    OBVIOUS
  <1> HIDE DEF T
  <1>3. Cardinality(T \cup {c}) = 3
    BY <1>2, <1>6, FS_AddElement
  <1>4. Cardinality(T \cup {c}) <= Cardinality(Receivers)
    BY <1>6, FS_Subset, ExchangeAssumption
  <1>5. Cardinality(Receivers) \in Nat
    BY FS_CardinalityType, ExchangeAssumption, Zenon
  <1> QED
    BY <1>3, <1>4, <1>5

\* With one message there is one sender.
LEMMA OneSender ==
  ASSUME OneMessage, NEW a \in Senders, NEW b \in Senders, pc[a] # "absent", pc[b] # "absent"
  PROVE  a = b
  <1> DEFINE Sending == {s \in Senders : pc[s] # "absent"}
  <1>1. IsFiniteSet(Sending)
    BY FS_Subset, ExchangeAssumption
  <1>2. \E x : Sending = {x}
    BY <1>1, FS_Singleton, Zenon DEF OneMessage
  <1>3. a \in Sending /\ b \in Sending
    OBVIOUS
  <1> QED
    BY <1>2, <1>3

\* A receiver that loads an exchange with a sender is in it: before the deletion as it
\* added itself, after it as the party that deleted leaves no two others to meet.
LEMMA LoadFindsReceiver ==
  ASSUME PanicInv, NEW p \in Receivers, pc[p] = "load",
         exchange.sender # None, exchange.receivers # {},
         ~closed \/ (OneMessage /\ Cardinality(Receivers) <= 2)
  PROVE  p \in exchange.receivers
  <1>1. CASE ~closed
    BY <1>1, PartyKinds DEF PanicInv, Open
  <1>2. CASE closed /\ OneMessage /\ Cardinality(Receivers) <= 2
    <2>1. PICK d \in Parties : Gone(d)
      BY <1>2 DEF PanicInv, OneMessage
    <2>2. exchange.sender \in Senders /\ exchange.receivers \subseteq Receivers
      BY DEF PanicInv, TypeInv, TypeOK, Exchanges
    <2>3. CASE d \in Senders
      BY <1>2, <2>1, <2>2, <2>3, OneSender DEF PanicInv, Gone
    <2>4. CASE d \in Receivers
      <3>1. PICK q \in exchange.receivers : TRUE
        OBVIOUS
      <3> QED
        BY <1>2, <2>1, <2>2, <2>4, <3>1, AtMostTwo DEF Gone
    <2> QED
      BY <2>3, <2>4 DEF Parties
  <1> QED
    BY <1>1, <1>2

\* No handler comes to dereference a missing receiver.
LEMMA HandlerNeverPanics ==
  ASSUME PanicInv, NEW p \in Parties, Handle(p) \/ Interrupt(p)
  PROVE  NeverPanics'
  <1> SUFFICES ASSUME (~closed \/ (OneMessage /\ Cardinality(Receivers) <= 2))'
               PROVE  \A q \in Parties : pc'[q] # "panic"
    BY DEF NeverPanics
  <1>0. TypeInv /\ pc \in [Parties -> Steps]
    BY DEF PanicInv, TypeInv, TypeOK, Steps
  <1>1. OneMessage' => OneMessage
    <2>1. {s \in Senders : pc'[s] # "absent"} = {s \in Senders : pc[s] # "absent"}
      BY <1>0, HandlerMoves, PartyKinds
    <2> QED
      BY <1>0, <2>1, HandlerMoves DEF OneMessage
  <1>2. ~closed \/ (OneMessage /\ Cardinality(Receivers) <= 2)
    BY <1>0, <1>1, HandlerMoves
  <1>3. \A q \in Parties : pc[q] # "panic"
    BY <1>2 DEF PanicInv, NeverPanics
  <1>4. pc'[p] # "panic"
    <2>1. CASE Load(p)
      <3>1. pc[p] = "load"
        BY <2>1 DEF Load
      <3>2. exchange.sender # None /\ exchange.receivers # {} /\ p \in Receivers =>
              p \in exchange.receivers
        BY <1>2, <3>1, LoadFindsReceiver
      <3> QED
        BY <1>0, <2>1, <3>2 DEF Load, Goto, Nak
    <2>2. CASE ~Load(p)
      <3>1. PICK step \in Steps \ {"panic"} : Goto(p, step)
        BY <2>2, Zenon DEF Handle, Interrupt, Begin, Create, Lookup, SaveBlank, Update, GetJob, Publish,
           AfterDelivery, DeleteExchange, Ack, Restart, Nak, Steps
      <3> QED
        BY <1>0, <3>1 DEF Goto
    <2> QED
      BY <2>1, <2>2
  <1> QED
    BY <1>0, <1>3, <1>4, HandlerMoves

\* The steps of the receivers' processes and the end leave the exchange alone.
LEMMA OthersKeepPanicInv ==
  ASSUME PanicInv, UNCHANGED <<exchange, pc, closed, interrupts>>, TypeInv'
  PROVE  PanicInv'
  <1>1. Open <=> Open'
    BY DEF Open
  <1>2. \A d \in Parties : Gone(d) <=> Gone(d)'
    BY DEF Gone
  <1>3. NeverPanics <=> NeverPanics'
    BY DEF NeverPanics, OneMessage
  <1> QED
    BY <1>1, <1>2, <1>3 DEF PanicInv

\* Every step keeps the invariant, and the parties of an exchange not yet deleted.
LEMMA NextKeepsPanicInv ==
  ASSUME PanicInv, [Next]_vars
  PROVE  PanicInv' /\ (~closed' => KeepsParties)
  <1>0. TypeInv /\ TypeInv'
    BY NextKeepsTypes DEF PanicInv
  <1>1. ASSUME NEW p \in Parties, Handle(p) \/ Interrupt(p)
        PROVE  PanicInv' /\ (~closed' => KeepsParties)
    <2>1. ~closed' => Open' /\ KeepsParties
      BY <1>0, <1>1, HandlerMoves, HandlerKeepsOpen DEF PanicInv
    <2>2. exchange'.sender # None => pc'[exchange'.sender] # "absent"
      BY <1>0, <1>1, HandlerKeepsSender DEF PanicInv
    <2>3. closed' /\ interrupts' = 0 => \E d \in Parties : Gone(d)'
      BY <1>0, <1>1, HandlerKeepsGone DEF PanicInv
    <2>4. NeverPanics'
      BY <1>1, HandlerNeverPanics
    <2> QED
      BY <1>0, <2>1, <2>2, <2>3, <2>4 DEF PanicInv
  <1>2. CASE UNCHANGED <<exchange, pc, closed, interrupts>>
    <2>1. PanicInv'
      BY <1>0, <1>2, OthersKeepPanicInv
    <2> QED
      BY <1>2, <2>1 DEF KeepsParties
  <1>3. ASSUME NEW r \in Receivers, CompleteJob(r) \/ EndProcess(r)
        PROVE  UNCHANGED <<exchange, pc, closed, interrupts>>
    BY <1>3 DEF CompleteJob, EndProcess
  <1>4. ASSUME Terminating \/ UNCHANGED vars
        PROVE  UNCHANGED <<exchange, pc, closed, interrupts>>
    BY <1>4 DEF Terminating, vars
  <1> QED
    BY <1>1, <1>2, <1>3, <1>4, Zenon DEF Next

\* At first there is no exchange and no handler runs.
LEMMA InitiallyOpen == Init => PanicInv
  <1> SUFFICES ASSUME Init PROVE PanicInv
    OBVIOUS
  <1>1. \A p \in Parties : pc[p] \in {"queued", "absent"}
    BY DEF Init
  <1>2. exchange = NoExchange /\ closed = FALSE
    BY DEF Init
  <1>3. TypeInv
    BY InitiallyTyped
  <1> QED
    BY <1>1, <1>2, <1>3, FreshRecords DEF PanicInv, Open, NeverPanics

\* A receiver that loads the exchange finds itself in it, and attemptMessageDelivery
\* dereferences no missing receiver: with any number of messages, receivers and
\* interruptions until the exchange is deleted, and with one uninterrupted message
\* and up to two receivers always.
THEOREM ReceiversAreFound == Spec => []NeverPanics
  <1>1. PanicInv /\ [Next]_vars => PanicInv'
    BY NextKeepsPanicInv
  <1>2. PanicInv => NeverPanics
    BY DEF PanicInv
  <1> QED
    BY <1>1, <1>2, InitiallyOpen, PTL DEF Spec

\* Create and UpdateObj lose no party of an exchange until it is deleted, whatever
\* the handlers of other messages and receivers do in between.
THEOREM PartiesKeptUntilDeleted == Spec => KeptUntilDeleted
  <1>1. PanicInv /\ [Next]_vars => PanicInv'
    BY NextKeepsPanicInv
  <1>2. PanicInv /\ [Next]_vars => [~closed' => KeepsParties]_vars
    BY NextKeepsPanicInv
  <1> QED
    BY <1>1, <1>2, InitiallyOpen, PTL DEF Spec, KeptUntilDeleted
=============================================================================
