--------------------------- MODULE Servers_proofs ---------------------------
(* Proofs about a server: the worker loop acknowledges no message that was  *)
(* not dealt with, for any number of goroutines, messages and late          *)
(* acknowledgements; and servers, clients and requests that start together, *)
(* stop anywhere and fail leave the streams and the handles as they should. *)
EXTENDS SharServers, Sequences, TLAPS

\* The variables of the parts by their names.
scenario == v1
msgs == v2
handled == v4
signalled == v5
worker == v6
objects == v2
patched == v3
buckets == v4
agents == v5
sharKvs == v6
mutex == v7
admin == v8
faults == v9

USE DEF scenario, msgs, handled, signalled, worker, objects, patched, buckets, agents,
        sharKvs, mutex, admin, faults

---------------------------------------------------------------------------
(* Consumer.                                                                *)

\* The state of each goroutine is a record of these fields.
Typed == /\ DOMAIN worker = Goroutines
         /\ \A w \in Goroutines : worker[w] = [pc |-> worker[w].pc, msg |-> worker[w].msg,
                                               result |-> worker[w].result]

\* AckedIsDealtWith says nothing of a goroutine that is about to acknowledge: one
\* that comes from fn has what fn returned, and with "done" its message is dealt
\* with.
Settling ==
  \A w \in Goroutines : worker[w].pc = "settle" =>
    /\ worker[w].result \in scenario.outcome
    /\ worker[w].result = "done" => K!Msg(w) \in handled

\* The inductive invariant.
ConsumerInv == Typed /\ Settling /\ K!AckedIsDealtWith

\* Settling a message acknowledges no other message, and none at all with a state
\* other than "acked".
LEMMA SettleOne ==
  ASSUME NEW w \in Goroutines, NEW state, K!Settle(w, state)
  PROVE  /\ DOMAIN msgs' = DOMAIN msgs
         /\ \A m \in DOMAIN msgs : msgs'[m] = "acked" =>
              msgs[m] = "acked" \/ (m = K!Msg(w) /\ state = "acked")
  BY DEF K!Settle, K!Continue

\* Nothing is acknowledged at first.
LEMMA ConsumerInit == K!Init => ConsumerInv
  <1> SUFFICES ASSUME K!Init PROVE ConsumerInv
    OBVIOUS
  <1>1. Typed
    BY DEF K!Init, Typed
  <1>2. Settling
    BY DEF K!Init, Settling
  <1>3. DOMAIN msgs = DOMAIN scenario.kind /\ \A m \in DOMAIN msgs : msgs[m] = "pending"
    BY DEF K!Init
  <1> QED
    BY <1>1, <1>2, <1>3 DEF ConsumerInv, K!AckedIsDealtWith

\* A goroutine that goes from one step to the next.
LEMMA GoOn ==
  ASSUME Typed, NEW w \in Goroutines, NEW p \in STRING, worker' = [worker EXCEPT ![w].pc = p]
  PROVE  /\ Typed'
         /\ worker'[w].pc = p /\ worker'[w].msg = worker[w].msg
         /\ \A v \in Goroutines \ {w} : worker'[v] = worker[v]
  BY DEF Typed

\* A goroutine that is done with its message.
LEMMA StartOver ==
  ASSUME Typed, NEW w \in Goroutines, K!Continue(w)
  PROVE  /\ Typed'
         /\ worker'[w].pc = "next"
         /\ \A v \in Goroutines \ {w} : worker'[v] = worker[v]
  BY DEF Typed, K!Continue, K!Free

\* Every step of a goroutine, and of the stream, keeps the invariant.
LEMMA ConsumerStep == ConsumerInv /\ [K!Next]_(K!vars) => ConsumerInv'
  <1> SUFFICES ASSUME ConsumerInv, [K!Next]_(K!vars) PROVE ConsumerInv'
    OBVIOUS
  <1> USE DEF ConsumerInv
  <1>1. ASSUME NEW w \in Goroutines, K!Step(w) PROVE ConsumerInv'
    <2>1. CASE K!Fetch(w)
      <3>1. PICK m \in DOMAIN msgs :
               /\ msgs' = [msgs EXCEPT ![m] = "delivered"]
               /\ worker' = [worker EXCEPT ![w] = [pc |-> "check", msg |-> m, result |-> "none"]]
        BY <2>1, Zenon DEF K!Fetch
      <3>2. UNCHANGED <<scenario, handled, signalled>>
        BY <2>1 DEF K!Fetch
      <3>3. Typed'
        BY <3>1, <3>2 DEF Typed
      <3>4. Settling'
        BY <3>1, <3>2 DEF Typed, Settling, K!Msg
      <3>5. K!AckedIsDealtWith'
        BY <3>1, <3>2 DEF K!AckedIsDealtWith, K!Malformed
      <3> QED
        BY <3>3, <3>4, <3>5
    <2>2. CASE K!IteratorClosed(w)
      <3>1. UNCHANGED <<scenario, msgs, handled, signalled>>
            /\ worker' = [worker EXCEPT ![w].pc = "gone"]
        BY <2>2 DEF K!IteratorClosed
      <3>2. Typed' /\ Settling'
        BY <3>1, GoOn DEF Typed, Settling, K!Msg
      <3> QED
        BY <3>1, <3>2 DEF K!AckedIsDealtWith, K!Malformed
    <2>3. CASE K!CheckMessage(w)
      <3>1. UNCHANGED <<scenario, handled, signalled>>
        BY <2>3 DEF K!CheckMessage
      <3>2. CASE K!Settle(w, "acked") /\ K!Malformed(K!Msg(w))
        <4>1. Typed' /\ Settling'
          BY <3>1, <3>2, SettleOne, StartOver DEF K!Settle, Settling, K!Msg
        <4> QED
          BY <4>1, <3>1, <3>2, SettleOne DEF K!AckedIsDealtWith, K!Malformed
      <3>3. CASE K!Settle(w, "delayed")
        <4>1. Typed' /\ Settling'
          BY <3>1, <3>3, SettleOne, StartOver DEF K!Settle, Settling, K!Msg
        <4> QED
          BY <4>1, <3>1, <3>3, SettleOne DEF K!AckedIsDealtWith, K!Malformed
      <3>4. CASE K!Continue(w) /\ UNCHANGED msgs
        <4>1. Typed' /\ Settling'
          BY <3>1, <3>4, StartOver DEF Settling, K!Msg
        <4> QED
          BY <4>1, <3>1, <3>4 DEF K!AckedIsDealtWith, K!Malformed
      <3>5. CASE worker' = [worker EXCEPT ![w].pc = "middleware"] /\ UNCHANGED msgs
        <4>1. Typed' /\ Settling'
          BY <3>1, <3>5, GoOn DEF Typed, Settling, K!Msg
        <4> QED
          BY <4>1, <3>1, <3>5 DEF K!AckedIsDealtWith, K!Malformed
      <3> QED
        BY <2>3, <3>2, <3>3, <3>4, <3>5 DEF K!CheckMessage
    <2>4. CASE K!Middleware(w)
      <3>1. UNCHANGED <<scenario, msgs, handled, signalled>>
            /\ (UNCHANGED worker \/ worker' = [worker EXCEPT ![w].pc = "call"])
        BY <2>4 DEF K!Middleware
      <3>2. Typed' /\ Settling'
        BY <3>1, GoOn DEF Typed, Settling, K!Msg
      <3> QED
        BY <3>1, <3>2 DEF K!AckedIsDealtWith, K!Malformed
    <2>5. CASE K!Call(w)
      <3>1. UNCHANGED <<scenario, msgs, handled, signalled>>
            /\ worker' = [worker EXCEPT ![w].pc = "fn"]
        BY <2>5 DEF K!Call
      <3>2. Typed' /\ Settling'
        BY <3>1, GoOn DEF Typed, Settling, K!Msg
      <3> QED
        BY <3>1, <3>2 DEF K!AckedIsDealtWith, K!Malformed
    <2>6. CASE K!Return(w)
      <3>1. PICK r \in scenario.outcome :
               /\ worker' = [worker EXCEPT ![w].pc = "settle", ![w].result = r]
               /\ handled' = IF r = "done" THEN handled \cup {K!Msg(w)} ELSE handled
        BY <2>6, Zenon DEF K!Return
      <3>2. UNCHANGED <<scenario, msgs, signalled>>
        BY <2>6 DEF K!Return
      <3>3. Typed'
        BY <3>1, <3>2, Zenon DEF Typed
      <3>4. /\ worker'[w].result = r /\ worker'[w].msg = worker[w].msg
            /\ \A v \in Goroutines \ {w} : worker'[v] = worker[v]
        BY <3>1 DEF Typed
      <3>5. Settling'
        <4>1. worker'[w].result \in scenario'.outcome
          BY <3>2, <3>4
        <4>2. worker'[w].result = "done" => worker'[w].msg \in handled'
          BY <3>1, <3>4 DEF K!Msg
        <4>3. handled \subseteq handled'
          BY <3>1
        <4> QED
          BY <3>2, <3>4, <4>1, <4>2, <4>3 DEF Settling, K!Msg
      <3> QED
        BY <3>1, <3>2, <3>3, <3>5 DEF K!AckedIsDealtWith, K!Malformed
    <2>7. CASE K!SettleMessage(w)
      <3>1. UNCHANGED <<scenario, handled>>
        BY <2>7 DEF K!SettleMessage
      <3>2. PICK state : K!Settle(w, state) /\ (state = "acked" =>
                            \/ worker[w].result \in {"done", "fatal"}
                            \/ worker[w].result \in K!Lossy)
        BY <2>7 DEF K!SettleMessage, K!Lossy
      <3>3. signalled' = IF worker[w].result = "fatal" THEN signalled \cup {K!Msg(w)} ELSE signalled
        BY <2>7 DEF K!SettleMessage
      <3>4. Typed' /\ Settling'
        BY <3>1, <3>2, SettleOne, StartOver DEF K!Settle, Settling, K!Msg
      <3>5. scenario.outcome \cap K!Lossy = {} /\ state = "acked" =>
              K!Msg(w) \in handled' \cup signalled'
        BY <2>7, <3>1, <3>2, <3>3 DEF K!SettleMessage, K!At, Settling
      <3> QED
        BY <3>1, <3>2, <3>3, <3>4, <3>5, SettleOne DEF K!AckedIsDealtWith, K!Malformed
    <2> QED
      BY <1>1, <2>1, <2>2, <2>3, <2>4, <2>5, <2>6, <2>7 DEF K!Step
  <1>2. ASSUME NEW m \in DOMAIN msgs, K!Delayed(m) \/ K!Expire(m) \/ K!Late(m) PROVE ConsumerInv'
    <2>1. /\ msgs' = [msgs EXCEPT ![m] = "pending"]
          /\ UNCHANGED <<scenario, handled, signalled, worker>>
      BY <1>2 DEF K!Delayed, K!Expire, K!Late
    <2> QED
      BY <2>1 DEF Typed, Settling, K!Msg, K!AckedIsDealtWith, K!Malformed
  <1>3. CASE K!Shutdown \/ K!Stop \/ K!ShutdownReturns \/ UNCHANGED K!vars
    <2>1. UNCHANGED <<scenario, msgs, handled, signalled, worker>>
      BY <1>3 DEF K!Shutdown, K!Stop, K!ShutdownReturns, K!vars
    <2> QED
      BY <2>1 DEF Typed, Settling, K!Msg, K!AckedIsDealtWith, K!Malformed
  <1> QED
    BY <1>1, <1>2, <1>3 DEF K!Next, K!Terminating

\* A message that Process acknowledges was dealt with by its function, or its fatal
\* error was signalled, or it could not be read, whichever goroutines have it and
\* however often it is delivered, if the function does not lose it itself.
THEOREM AckedMeansDealtWith == K!Spec => []AckedIsDealtWith
  <1>1. ConsumerInv => AckedIsDealtWith
    BY DEF ConsumerInv, AckedIsDealtWith
  <1> QED
    BY <1>1, ConsumerInit, ConsumerStep, PTL DEF K!Spec

---------------------------------------------------------------------------
(* Startup.                                                                 *)

\* An agent is a record of these fields.
AgentShape(i) ==
  agents[i] = [pc |-> agents[i].pc, at |-> agents[i].at, seen |-> agents[i].seen,
               todo |-> agents[i].todo]

\* The agent that is at an object is at one of its objects; one that has not
\* started is at the first.
Placed(i) ==
  /\ agents[i].pc \in {"look", "create", "patch", "write"} =>
       I!Kind(i) # "request" /\ agents[i].at \in 1 .. Len(I!Objects(i))
  /\ agents[i].pc = "idle" => agents[i].at = 1

ObjectNames == {"stream", "consumer", "terminal"}

Agree ==
  /\ scenario \in Startups
  /\ objects \in [ObjectNames -> Found]
  /\ DOMAIN agents = I!Agents
  /\ \A i \in I!Agents : AgentShape(i) /\ Placed(i)

\* What the stream said of its version at first.
Before == scenario.objects["stream"].desc

\* The stream has said so ever since, or the patches since then were run.
Known(desc) == desc = Before \/ I!Due \subseteq patched

\* A server patches from the version that the stream had at first, unless somebody
\* else has done so; when it comes to write its stamp, the patches were run.
Patching ==
  Before > 0 /\ I!AllHavePatches =>
    /\ Known(objects["stream"].desc)
    /\ \A i \in I!Agents :
         /\ I!At(i, "patch") => I!Kind(i) = "server" /\ Known(agents[i].seen.desc)
         /\ I!At(i, "write") /\ I!Object(i) = "stream" => I!Due \subseteq patched

\* Agents that start one after another are alone, and what an agent has seen is
\* there still when it writes.
Alone ==
  scenario.serial =>
    /\ \A i, j \in I!Agents : ~I!Over(i) /\ ~I!Over(j) => i = j
    /\ \A i \in I!Agents : agents[i].pc \in {"patch", "write"} =>
         I!requiresUpgrade(objects[I!Object(i)].ver, I!Ver(i))

\* Without DeleteNamespace no bucket goes.
Handles == ~scenario.deletes => admin.pc = "none" /\ sharKvs \X I!Range(Buckets) \subseteq buckets

\* The inductive invariant.
StartupInv == Agree /\ Patching /\ Alone /\ Handles

\* The object an agent is at.
LEMMA ObjectsOf ==
  ASSUME Agree, NEW i \in I!Agents
  PROVE  /\ I!Ver(i) \in Nat /\ I!Stamp(i) \in Found
         /\ agents[i].pc \in {"look", "create", "patch", "write"} => I!Object(i) \in ObjectNames
         /\ I!Kind(i) # "server" /\ agents[i].pc \in {"look", "create", "patch", "write"} =>
              I!Object(i) = "terminal"
  <1>1. I!Ver(i) \in Nat /\ I!Kind(i) \in {"server", "client", "request"}
    BY StartupAssumption DEF Agree, I!Ver, I!Kind, I!Agents
  <1>2. I!Stamp(i) \in Found
    BY <1>1 DEF I!Stamp, Found
  <1>3. ASSUME agents[i].pc \in {"look", "create", "patch", "write"}
        PROVE  I!Object(i) \in ObjectNames /\ (I!Kind(i) # "server" => I!Object(i) = "terminal")
    <2>1. I!Kind(i) # "request" /\ agents[i].at \in 1 .. Len(I!Objects(i))
      BY <1>3 DEF Agree, Placed
    <2>2. CASE I!Kind(i) = "server"
      <3>1. I!Objects(i) = <<"stream", "consumer">>
        BY <2>2 DEF I!Objects
      <3>2. agents[i].at \in 1 .. 2
        BY <2>1, <3>1
      <3> QED
        BY <2>2, <3>1, <3>2 DEF I!Object, ObjectNames
    <2>3. CASE I!Kind(i) = "client"
      <3>1. I!Objects(i) = <<"terminal">>
        BY <2>3 DEF I!Objects
      <3>2. agents[i].at = 1
        BY <2>1, <3>1
      <3> QED
        BY <2>3, <3>1, <3>2 DEF I!Object, ObjectNames
    <2> QED
      BY <1>1, <2>1, <2>2, <2>3
  <1> QED
    BY <1>1, <1>2, <1>3

\* Nothing was done at first.
LEMMA StartupInit == I!Init => StartupInv
  <1> SUFFICES ASSUME I!Init PROVE StartupInv
    OBVIOUS
  <1>1. scenario \in Startups /\ objects = scenario.objects
    BY DEF I!Init
  <1>2. \A i \in I!Agents : agents[i] = [pc |-> "idle", at |-> 1, seen |-> I!Missing, todo |-> <<>>]
    BY DEF I!Init
  <1>3. Agree
    BY <1>1, <1>2, StartupAssumption DEF I!Init, Agree, AgentShape, Placed, ObjectNames
  <1>4. Patching
    BY <1>1, <1>2 DEF Patching, Known, Before, I!At
  <1>5. Alone
    BY <1>2 DEF Alone, I!Over
  <1>6. Handles
    BY DEF I!Init, Handles
  <1> QED
    BY <1>3, <1>4, <1>5, <1>6 DEF StartupInv

\* An agent moves, and comes neither to a patch nor to a stamp: it leaves the
\* objects alone.
LEMMA MovesOn ==
  ASSUME StartupInv, NEW i \in I!Agents, UNCHANGED <<scenario, objects, patched>>,
         DOMAIN agents' = DOMAIN agents, \A j \in I!Agents \ {i} : agents'[j] = agents[j],
         AgentShape(i)', Placed(i)', agents'[i].pc \notin {"patch", "write"},
         I!Over(i)' \/ ~I!Over(i) \/ (scenario.serial => \A j \in I!Agents : I!Over(j))
  PROVE  Agree' /\ Patching' /\ Alone'
  <1>1. I!Agents' = I!Agents /\ \A j \in I!Agents : I!Kind(j)' = I!Kind(j) /\ I!Ver(j)' = I!Ver(j)
                                                  /\ I!Objects(j)' = I!Objects(j)
    BY DEF I!Agents, I!Kind, I!Ver, I!Objects
  <1>2. \A j \in I!Agents \ {i} : /\ AgentShape(j)' = AgentShape(j)
                                 /\ Placed(j)' = Placed(j) /\ I!Over(j)' = I!Over(j)
                                 /\ I!Object(j)' = I!Object(j)
    BY <1>1 DEF AgentShape, Placed, I!Over, I!Object
  <1>3. Agree'
    BY <1>1, <1>2 DEF StartupInv, Agree
  <1>4. Patching'
    <2>1. Before' = Before /\ I!Due' = I!Due /\ I!AllHavePatches' = I!AllHavePatches
      BY <1>1 DEF Before, I!Due, I!AllHavePatches
    <2>2. \A d : Known(d)' <=> Known(d)
      BY <2>1 DEF Known
    <2> QED
      BY <1>1, <1>2, <2>1, <2>2 DEF StartupInv, Patching, I!At, Known
  <1>5. Alone'
    BY <1>1, <1>2 DEF StartupInv, Alone
  <1> QED
    BY <1>3, <1>4, <1>5

\* The next object, or the buckets, or the end.
LEMMA EnsuredGoesOn ==
  ASSUME StartupInv, NEW i \in I!Agents, I!Ensured(i), UNCHANGED scenario,
         agents[i].pc \in {"look", "create", "write"}
  PROVE  /\ DOMAIN agents' = DOMAIN agents /\ \A j \in I!Agents \ {i} : agents'[j] = agents[j]
         /\ AgentShape(i)' /\ Placed(i)' /\ agents'[i].pc \in {"look", "bucket", "up"}
  <1>1. DOMAIN agents = I!Agents /\ AgentShape(i) /\ agents[i].at \in 1 .. Len(I!Objects(i))
        /\ I!Kind(i) # "request"
    BY DEF StartupInv, Agree, Placed
  <1>2. I!Objects(i)' = I!Objects(i) /\ I!Kind(i)' = I!Kind(i)
    BY DEF I!Objects, I!Kind
  <1>3. Len(I!Objects(i)) \in Nat
    BY DEF I!Objects
  <1>4. CASE agents' = [agents EXCEPT ![i].pc = "look", ![i].at = @ + 1]
             /\ agents[i].at < Len(I!Objects(i))
    <2>1. agents'[i] = [pc |-> "look", at |-> agents[i].at + 1, seen |-> agents[i].seen,
                        todo |-> agents[i].todo]
      BY <1>1, <1>4 DEF AgentShape
    <2>2. agents'[i].at \in 1 .. Len(I!Objects(i))
      BY <1>1, <1>3, <1>4, <2>1
    <2> QED
      BY <1>1, <1>2, <1>4, <2>1, <2>2 DEF AgentShape, Placed
  <1>5. CASE I!Ensure(i, Buckets \o Buckets) \/ I!Goto(i, "up")
    BY <1>1, <1>5 DEF AgentShape, Placed, I!Ensure, I!Goto
  <1> QED
    BY <1>4, <1>5 DEF I!Ensured

\* A thing that stays as it is has the version it had.
LEMMA Unstamped == StartupInv /\ UNCHANGED objects => I!UpgradeStep
  <1> SUFFICES ASSUME StartupInv, UNCHANGED objects PROVE I!UpgradeStep
    OBVIOUS
  <1>1. \A o \in DOMAIN objects : objects[o].ver \in Nat
    BY DEF StartupInv, Agree, Found
  <1> QED
    BY <1>1 DEF I!UpgradeStep

\* Without DeleteNamespace, the handles are good as long as no bucket goes.
LEMMA HandlesStay ==
  ASSUME StartupInv, UNCHANGED <<scenario, admin, sharKvs>>, buckets \subseteq buckets'
  PROVE  Handles'
  BY DEF StartupInv, Handles

\* An agent looks at an object.
LEMMA LookKeeps ==
  ASSUME StartupInv, NEW i \in I!Agents, I!Look(i)
  PROVE  StartupInv' /\ I!UpgradeStep
  <1>1. UNCHANGED <<scenario, objects, patched, buckets, sharKvs, admin>> /\ I!At(i, "look")
    BY DEF I!Look
  <1>2. Handles' /\ I!UpgradeStep
    BY <1>1, HandlesStay, Unstamped
  <1>3. agents[i].pc = "look" /\ ~I!Over(i) /\ AgentShape(i) /\ DOMAIN agents = I!Agents
    BY <1>1 DEF I!At, I!Over, StartupInv, Agree
  <1>4. CASE I!Ensured(i)
    BY <1>1, <1>2, <1>3, <1>4, EnsuredGoesOn, MovesOn DEF StartupInv
  <1> DEFINE seen == objects[I!Object(i)]
  <1>5. ASSUME NEW p \in {"create", "patch", "write"},
               agents' = [agents EXCEPT ![i].seen = seen, ![i].pc = p],
               p # "create" => I!Kind(i) = "server" /\ I!requiresUpgrade(seen.ver, I!Ver(i)),
               p # "create" => (p = "patch" <=> I!Object(i) = "stream")
        PROVE  StartupInv'
    <2>1. agents'[i] = [pc |-> p, at |-> agents[i].at, seen |-> seen, todo |-> agents[i].todo]
          /\ DOMAIN agents' = DOMAIN agents /\ \A j \in I!Agents \ {i} : agents'[j] = agents[j]
      BY <1>3, <1>5 DEF AgentShape
    <2>2. AgentShape(i)'
      BY <2>1 DEF AgentShape
    <2>3. I!Agents' = I!Agents /\ \A j \in I!Agents : I!Kind(j)' = I!Kind(j) /\ I!Ver(j)' = I!Ver(j)
                                                    /\ I!Objects(j)' = I!Objects(j)
      BY <1>1 DEF I!Agents, I!Kind, I!Ver, I!Objects
    <2>4. Placed(i)'
      BY <1>3, <2>1, <2>3 DEF StartupInv, Agree, Placed
    <2>5. \A j \in I!Agents \ {i} : /\ AgentShape(j)' = AgentShape(j)
                                   /\ Placed(j)' = Placed(j) /\ I!Over(j)' = I!Over(j)
                                   /\ I!Object(j)' = I!Object(j)
      BY <2>1, <2>3 DEF AgentShape, Placed, I!Over, I!Object
    <2>6. I!Object(i)' = I!Object(i) /\ ~I!Over(i)'
      BY <2>1, <2>3 DEF I!Object, I!Over
    <2>7. Agree'
      BY <1>1, <2>1, <2>2, <2>3, <2>4, <2>5 DEF StartupInv, Agree
    <2>8. Patching'
      <3>1. Before' = Before /\ I!Due' = I!Due /\ I!AllHavePatches' = I!AllHavePatches
        BY <1>1, <2>3 DEF Before, I!Due, I!AllHavePatches
      <3>2. SUFFICES ASSUME Before > 0, I!AllHavePatches PROVE
              /\ Known(objects["stream"].desc)'
              /\ \A j \in I!Agents :
                   /\ I!At(j, "patch")' => I!Kind(j) = "server" /\ Known(agents[j].seen.desc)'
                   /\ I!At(j, "write")' /\ I!Object(j)' = "stream" => I!Due \subseteq patched
        BY <1>1, <2>3, <3>1 DEF Patching
      <3>3. Known(objects["stream"].desc)'
        BY <1>1, <3>1, <3>2 DEF StartupInv, Patching, Known
      <3>4. p = "patch" => agents'[i].seen.desc = objects["stream"].desc
        BY <1>5, <2>1
      <3>5. /\ I!At(i, "patch")' => I!Kind(i) = "server" /\ Known(agents[i].seen.desc)'
            /\ I!At(i, "write")' => I!Object(i)' # "stream"
        BY <1>1, <1>5, <2>1, <2>6, <3>3, <3>4 DEF I!At, Known
      <3>6. \A j \in I!Agents \ {i} :
              /\ I!At(j, "patch")' => I!Kind(j) = "server" /\ Known(agents[j].seen.desc)'
              /\ I!At(j, "write")' /\ I!Object(j)' = "stream" => I!Due \subseteq patched
        BY <1>1, <2>1, <2>5, <3>1, <3>2 DEF StartupInv, Patching, Known, I!At
      <3> QED
        BY <3>3, <3>5, <3>6
    <2>9. Alone'
      <3>1. SUFFICES ASSUME scenario.serial PROVE
              /\ \A j, k \in I!Agents : ~I!Over(j)' /\ ~I!Over(k)' => j = k
              /\ \A j \in I!Agents : agents'[j].pc \in {"patch", "write"} =>
                   I!requiresUpgrade(objects[I!Object(j)].ver, I!Ver(j))'
        BY <1>1, <2>3 DEF Alone
      <3>2. \A j, k \in I!Agents : ~I!Over(j)' /\ ~I!Over(k)' => j = k
        BY <1>3, <2>5, <3>1 DEF StartupInv, Alone
      <3>3. \A j \in I!Agents : agents'[j].pc \in {"patch", "write"} => j = i
        BY <2>6, <3>2 DEF I!Over
      <3>4. agents'[i].pc \in {"patch", "write"} =>
              I!requiresUpgrade(objects[I!Object(i)].ver, I!Ver(i))'
        BY <1>1, <1>5, <2>1, <2>3, <2>6 DEF I!requiresUpgrade
      <3> QED
        BY <3>2, <3>3, <3>4
    <2> QED
      BY <1>2, <2>7, <2>8, <2>9 DEF StartupInv
  <1>6. ~I!Ensured(i) => \E p \in {"create", "patch", "write"} :
          /\ agents' = [agents EXCEPT ![i].seen = seen, ![i].pc = p]
          /\ p # "create" => I!Kind(i) = "server" /\ I!requiresUpgrade(seen.ver, I!Ver(i))
          /\ p # "create" => (p = "patch" <=> I!Object(i) = "stream")
    BY DEF I!Look
  <1> QED
    BY <1>2, <1>4, <1>5, <1>6

\* An agent stamps an object, or finds its stamp there, and goes on.
LEMMA StampKeeps ==
  ASSUME StartupInv, NEW i \in I!Agents, agents[i].pc \in {"create", "write"},
         I!Ensured(i), objects' = [objects EXCEPT ![I!Object(i)] = I!Stamp(i)],
         UNCHANGED <<scenario, patched, buckets, sharKvs, admin>>,
         agents[i].pc = "create" => objects[I!Object(i)] \in {I!Missing, I!Stamp(i)}
  PROVE  StartupInv' /\ I!UpgradeStep
  <1> DEFINE o == I!Object(i)
  <1>1. o \in ObjectNames /\ I!Stamp(i) \in Found /\ I!Ver(i) \in Nat
    BY ObjectsOf DEF StartupInv
  <1>2. /\ objects \in [ObjectNames -> Found] /\ objects' \in [ObjectNames -> Found]
        /\ objects'[o] = I!Stamp(i)
        /\ \A n \in ObjectNames \ {o} : objects'[n] = objects[n]
    BY <1>1 DEF StartupInv, Agree
  <1>3. /\ DOMAIN agents' = DOMAIN agents /\ DOMAIN agents = I!Agents
        /\ \A j \in I!Agents \ {i} : agents'[j] = agents[j]
        /\ AgentShape(i)' /\ Placed(i)' /\ agents'[i].pc \in {"look", "bucket", "up"}
    BY EnsuredGoesOn DEF StartupInv, Agree
  <1>4. I!Agents' = I!Agents /\ \A j \in I!Agents : I!Kind(j)' = I!Kind(j) /\ I!Ver(j)' = I!Ver(j)
                                                  /\ I!Objects(j)' = I!Objects(j)
    BY DEF I!Agents, I!Kind, I!Ver, I!Objects
  <1>5. \A j \in I!Agents \ {i} : /\ AgentShape(j)' = AgentShape(j)
                                 /\ Placed(j)' = Placed(j) /\ I!Over(j)' = I!Over(j)
                                 /\ I!Object(j)' = I!Object(j)
    BY <1>3, <1>4 DEF AgentShape, Placed, I!Over, I!Object
  <1>6. Agree'
    BY <1>2, <1>3, <1>4, <1>5 DEF StartupInv, Agree
  <1>7. Before' = Before /\ I!Due' = I!Due /\ I!AllHavePatches' = I!AllHavePatches
    BY <1>4 DEF Before, I!Due, I!AllHavePatches
  <1>8. o = "stream" /\ Before > 0 /\ I!AllHavePatches => I!Due \subseteq patched
    <2> SUFFICES ASSUME o = "stream", Before > 0, I!AllHavePatches PROVE I!Due \subseteq patched
      OBVIOUS
    <2>1. CASE agents[i].pc = "write"
      BY <2>1 DEF StartupInv, Patching, I!At
    <2>2. CASE agents[i].pc = "create"
      <3>1. objects["stream"].desc = 0
        BY <2>2 DEF I!Missing, I!Stamp
      <3> QED
        BY <3>1 DEF StartupInv, Patching, Known
    <2> QED
      BY <2>1, <2>2
  <1>9. Patching'
    <2>1. SUFFICES ASSUME Before > 0, I!AllHavePatches PROVE
            /\ Known(objects["stream"].desc)'
            /\ \A j \in I!Agents :
                 /\ I!At(j, "patch")' => I!Kind(j) = "server" /\ Known(agents[j].seen.desc)'
                 /\ I!At(j, "write")' /\ I!Object(j)' = "stream" => I!Due \subseteq patched
      BY <1>4, <1>7 DEF Patching
    <2>2. Known(objects["stream"].desc)'
      <3>1. CASE o = "stream"
        BY <1>7, <1>8, <2>1, <3>1 DEF Known
      <3>2. CASE o # "stream"
        BY <1>2, <1>7, <2>1, <3>2 DEF Known, StartupInv, Patching, ObjectNames
      <3> QED
        BY <3>1, <3>2
    <2>3. \A j \in I!Agents \ {i} :
            /\ I!At(j, "patch")' => I!Kind(j) = "server" /\ Known(agents[j].seen.desc)'
            /\ I!At(j, "write")' /\ I!Object(j)' = "stream" => I!Due \subseteq patched
      BY <1>3, <1>5, <1>7, <2>1 DEF StartupInv, Patching, Known, I!At
    <2>4. ~I!At(i, "patch")' /\ ~I!At(i, "write")'
      BY <1>3 DEF I!At
    <2> QED
      BY <2>2, <2>3, <2>4
  <1>10. Alone'
    <2>1. SUFFICES ASSUME scenario.serial PROVE
            /\ \A j, k \in I!Agents : ~I!Over(j)' /\ ~I!Over(k)' => j = k
            /\ \A j \in I!Agents : agents'[j].pc \notin {"patch", "write"}
      BY <1>4 DEF Alone
    <2>2. ~I!Over(i)
      BY DEF I!Over
    <2>3. \A j \in I!Agents \ {i} : I!Over(j)'
      BY <1>5, <2>1, <2>2 DEF StartupInv, Alone
    <2>4. \A j \in I!Agents \ {i} : agents'[j].pc \notin {"patch", "write"}
      BY <2>3 DEF I!Over
    <2> QED
      BY <1>3, <2>3, <2>4
  <1>11. I!UpgradeStep
    <2>1. objects'["stream"].ver # objects["stream"].ver => o = "stream"
      BY <1>2 DEF ObjectNames
    <2>2. ASSUME scenario.serial, NEW n \in ObjectNames PROVE objects[n].ver <= objects'[n].ver
      <3>1. objects[n].ver \in Nat
        BY <1>2 DEF Found
      <3>2. CASE n # o
        BY <1>2, <3>1, <3>2
      <3>3. CASE n = o /\ agents[i].pc = "create"
        BY <1>1, <1>2, <3>1, <3>3 DEF I!Missing, I!Stamp
      <3>4. CASE n = o /\ agents[i].pc = "write"
        <4>1. I!requiresUpgrade(objects[o].ver, I!Ver(i))
          BY <2>2, <3>4 DEF StartupInv, Alone
        <4> QED
          BY <1>1, <1>2, <3>1, <3>4, <4>1 DEF I!requiresUpgrade, I!Stamp
      <3> QED
        BY <3>2, <3>3, <3>4
    <2>3. DOMAIN objects = ObjectNames
      BY <1>2
    <2> QED
      BY <1>8, <2>1, <2>2, <2>3 DEF I!UpgradeStep, Before
  <1> QED
    BY <1>6, <1>9, <1>10, <1>11, HandlesStay DEF StartupInv

\* A server runs the patches since the version it has seen.
LEMMA PatchKeeps ==
  ASSUME StartupInv, NEW i \in I!Agents, I!Patch(i)
  PROVE  StartupInv' /\ I!UpgradeStep
  <1>1. /\ UNCHANGED <<scenario, objects, buckets, sharKvs, admin>>
        /\ agents[i].pc = "patch" /\ agents' = [agents EXCEPT ![i].pc = "write"]
        /\ patched \subseteq patched'
    BY DEF I!Patch, I!At, I!Goto
  <1>2. Handles' /\ I!UpgradeStep
    BY <1>1, HandlesStay, Unstamped
  <1>3. /\ DOMAIN agents' = DOMAIN agents /\ DOMAIN agents = I!Agents
        /\ \A j \in I!Agents \ {i} : agents'[j] = agents[j]
        /\ agents'[i] = [pc |-> "write", at |-> agents[i].at, seen |-> agents[i].seen,
                         todo |-> agents[i].todo]
    BY <1>1 DEF StartupInv, Agree, AgentShape
  <1>4. I!Agents' = I!Agents /\ \A j \in I!Agents : I!Kind(j)' = I!Kind(j) /\ I!Ver(j)' = I!Ver(j)
                                                  /\ I!Objects(j)' = I!Objects(j)
    BY <1>1 DEF I!Agents, I!Kind, I!Ver, I!Objects
  <1>5. \A j \in I!Agents : /\ AgentShape(j)' /\ Placed(j)' /\ I!Over(j)' = I!Over(j)
                            /\ I!Object(j)' = I!Object(j)
    BY <1>1, <1>3, <1>4 DEF StartupInv, Agree, AgentShape, Placed, I!Over, I!Object
  <1>6. Agree'
    BY <1>1, <1>3, <1>4, <1>5 DEF StartupInv, Agree
  <1>7. Before' = Before /\ I!Due' = I!Due /\ I!AllHavePatches' = I!AllHavePatches
    BY <1>1, <1>4 DEF Before, I!Due, I!AllHavePatches
  <1>8. Before > 0 /\ I!AllHavePatches => I!Due \subseteq patched'
    <2> SUFFICES ASSUME Before > 0, I!AllHavePatches PROVE I!Due \subseteq patched'
      OBVIOUS
    <2>1. I!Kind(i) = "server" /\ Known(agents[i].seen.desc)
      BY <1>1 DEF StartupInv, Patching, I!At
    <2>2. CASE agents[i].seen.desc = Before
      <3>1. patched' = patched \cup {p \in Patches : p > Before /\ p <= I!Ver(i)}
        BY <2>2 DEF I!Patch
      <3>2. \A p \in Patches : p <= I!Ver(i)
        BY <2>1 DEF I!AllHavePatches
      <3> QED
        BY <3>1, <3>2 DEF I!Due, Before
    <2> QED
      BY <1>1, <2>1, <2>2 DEF Known
  <1>9. Patching'
    BY <1>1, <1>3, <1>4, <1>5, <1>7, <1>8 DEF StartupInv, Patching, Known, I!At
  <1>10. Alone'
    BY <1>1, <1>3, <1>4, <1>5, ZenonT(30) DEF StartupInv, Alone
  <1> QED
    BY <1>2, <1>6, <1>9, <1>10 DEF StartupInv

\* A step of an agent that leaves the objects alone: it starts, ensures its buckets,
\* waits for the lock, fails or comes again.
LEMMA ElseKeeps ==
  ASSUME StartupInv, NEW i \in I!Agents, UNCHANGED <<scenario, objects, patched, admin>>,
         \/ I!Start(i) \/ I!LookBucket(i) \/ I!CreateBucket(i) \/ I!Open(i)
         \/ I!Check(i) \/ I!Lock(i) \/ I!Fail(i) \/ I!Again(i)
         \/ I!Create(i) /\ I!Goto(i, "failed")
  PROVE  Agree' /\ Patching' /\ Alone' /\ I!UpgradeStep
  <1>1. DOMAIN agents = I!Agents /\ AgentShape(i)
    BY DEF StartupInv, Agree
  <1>2. /\ DOMAIN agents' = DOMAIN agents
        /\ \A j \in I!Agents \ {i} : agents'[j] = agents[j]
        /\ AgentShape(i)' /\ agents'[i].pc \notin {"create", "patch", "write"}
        /\ agents'[i].pc = "look" => I!Kind(i) # "request" /\ agents[i].pc = "idle"
                                     /\ agents'[i].at = agents[i].at
        /\ agents'[i].pc = "idle" => agents'[i].at = 1
    <2>1. CASE I!Start(i)
      BY <1>1, <2>1 DEF I!Start, I!Goto, I!At, AgentShape
    <2>2. CASE I!LookBucket(i) \/ I!CreateBucket(i)
      BY <1>1, <2>2 DEF I!LookBucket, I!CreateBucket, I!NextBucket, I!Goto, AgentShape
    <2>3. CASE \/ I!Open(i) \/ I!Check(i) \/ I!Lock(i) \/ I!Fail(i)
               \/ I!Create(i) /\ I!Goto(i, "failed")
      BY <1>1, <2>3 DEF I!Open, I!Check, I!Lock, I!Ensure, I!Fail, I!Goto, AgentShape
    <2>4. CASE I!Again(i)
      BY <1>1, <2>4 DEF I!Again, AgentShape
    <2> QED
      BY <2>1, <2>2, <2>3, <2>4
  <1>3. I!Over(i)' \/ ~I!Over(i) \/ (scenario.serial => \A j \in I!Agents : I!Over(j))
    BY ZenonT(30) DEF I!Start, I!LookBucket, I!CreateBucket, I!Open, I!Check, I!Lock, I!Fail, I!Busy,
           I!Again, I!Create, I!At, I!Over
  <1>4. Placed(i)'
    <2>1. I!Objects(i)' = I!Objects(i) /\ I!Kind(i)' = I!Kind(i)
      BY DEF I!Objects, I!Kind
    <2>2. agents'[i].pc = "look" => agents'[i].at = 1 /\ 1 \in 1 .. Len(I!Objects(i))
      <3>1. I!Kind(i) \in {"server", "client", "request"}
        BY StartupAssumption, Zenon DEF StartupInv, Agree, I!Kind, I!Agents
      <3>2. I!Kind(i) # "request" => Len(I!Objects(i)) \in {1, 2}
        BY <3>1 DEF I!Objects
      <3>3. I!Kind(i) # "request" => 1 \in 1 .. Len(I!Objects(i))
        BY <3>2
      <3>4. agents[i].pc = "idle" => agents[i].at = 1
        BY DEF StartupInv, Agree, Placed
      <3> QED
        BY <1>2, <3>3, <3>4, ZenonT(30)
    <2> QED
      BY <1>2, <2>1, <2>2, Zenon DEF Placed
  <1>5. Agree' /\ Patching' /\ Alone'
    BY <1>2, <1>3, <1>4, MovesOn
  <1> QED
    BY <1>5, Unstamped

\* Every step keeps the invariant and upgrades forward.
LEMMA StartupStep ==
  StartupInv /\ [I!Next]_(I!vars) => StartupInv' /\ I!UpgradeStep
  <1> SUFFICES ASSUME StartupInv, [I!Next]_(I!vars) PROVE StartupInv' /\ I!UpgradeStep
    OBVIOUS
  <1>1. ASSUME NEW i \in I!Agents, I!Step(i) PROVE StartupInv' /\ I!UpgradeStep
    <2>1. CASE I!Look(i)
      BY <2>1, LookKeeps
    <2>2. CASE I!Patch(i)
      BY <2>2, PatchKeeps
    <2>3. CASE I!Update(i)
      BY <2>3, StampKeeps, Zenon DEF I!Update, I!At
    <2>4. CASE I!Create(i)
      <3>1. CASE I!Ensured(i) /\ objects' = [objects EXCEPT ![I!Object(i)] = I!Stamp(i)]
                 /\ objects[I!Object(i)] \in {I!Missing, I!Stamp(i)}
        BY <2>4, <3>1, StampKeeps, Zenon DEF I!Create, I!At
      <3>2. CASE I!Goto(i, "failed") /\ UNCHANGED objects
        BY <2>4, <3>2, ElseKeeps, HandlesStay DEF I!Create, StartupInv
      <3> QED
        BY <2>4, <3>1, <3>2 DEF I!Create
    <2>5. CASE \/ I!Start(i) \/ I!LookBucket(i) \/ I!CreateBucket(i) \/ I!Check(i) \/ I!Lock(i)
               \/ I!Fail(i) \/ I!Again(i)
      <3>1. UNCHANGED <<scenario, objects, patched, sharKvs, admin>> /\ buckets \subseteq buckets'
        BY <2>5, Zenon DEF I!Start, I!LookBucket, I!CreateBucket, I!Check, I!Lock, I!Fail, I!Again
      <3> QED
        BY <2>5, <3>1, ElseKeeps, HandlesStay DEF StartupInv
    <2>6. CASE I!Open(i)
      <3>1. UNCHANGED <<scenario, objects, patched, buckets, admin>>
        BY <2>6 DEF I!Open
      <3>2. \/ UNCHANGED sharKvs
            \/ /\ sharKvs' \subseteq sharKvs \cup {scenario.agents[i].ns}
               /\ {scenario.agents[i].ns} \X I!Range(Buckets) \subseteq buckets
        BY <2>6 DEF I!Open
      <3>3. Handles'
        BY <3>1, <3>2 DEF StartupInv, Handles
      <3> QED
        BY <2>6, <3>1, <3>3, ElseKeeps DEF StartupInv
    <2> QED
      BY <1>1, <2>1, <2>2, <2>3, <2>4, <2>5, <2>6 DEF I!Step
  <1>2. CASE I!ListBuckets \/ I!DeleteBucket \/ UNCHANGED I!vars
    <2>1. UNCHANGED <<scenario, objects, patched, agents, sharKvs>>
      BY <1>2 DEF I!ListBuckets, I!DeleteBucket, I!vars
    <2>2. I!UpgradeStep
      BY <2>1, Unstamped
    <2>3. Handles'
      BY <1>2 DEF I!ListBuckets, I!DeleteBucket, I!vars, StartupInv, Handles
    <2>4. I!Agents' = I!Agents /\ I!Due' = I!Due /\ I!AllHavePatches' = I!AllHavePatches
      BY <2>1 DEF I!Agents, I!Due, I!AllHavePatches, I!Kind, I!Ver
    <2>5. \A i \in I!Agents :
            /\ AgentShape(i)' = AgentShape(i) /\ Placed(i)' = Placed(i) /\ I!Over(i)' = I!Over(i)
            /\ I!Object(i)' = I!Object(i) /\ I!Ver(i)' = I!Ver(i) /\ I!Kind(i)' = I!Kind(i)
      BY <2>1 DEF AgentShape, Placed, I!Over, I!Object, I!Objects, I!Ver, I!Kind
    <2>6. Agree'
      BY <2>1, <2>4, <2>5 DEF StartupInv, Agree
    <2>7. Patching'
      BY <2>1, <2>4, <2>5, ZenonT(30) DEF StartupInv, Patching, Known, Before, I!At
    <2>8. Alone'
      BY <2>1, <2>4, <2>5, Zenon DEF StartupInv, Alone
    <2> QED
      BY <2>2, <2>3, <2>6, <2>7, <2>8 DEF StartupInv
  <1> QED
    BY <1>1, <1>2 DEF I!Next, I!Terminating

\* A server's handles are to buckets that are there, for any number of namespaces,
\* requests that come at once and calls that fail, as long as nobody calls
\* DeleteNamespace.
THEOREM HandlesStayGood == I!Spec => []HandlesAreGood
  <1>1. StartupInv => HandlesAreGood
    BY DEF StartupInv, Handles, HandlesAreGood, I!HandlesAreGood
  <1> QED
    BY <1>1, StartupInit, StartupStep, PTL DEF I!Spec

\* A server stamps an old stream after its patches only, for any releases, any
\* number of servers at once and wherever they stop, and servers that start one
\* after another never take a stamp back.
THEOREM StampsFollowPatches == I!Spec => UpgradesForward
  <1>1. StartupInv /\ [I!Next]_(I!vars) => [part = "startup" => I!UpgradeStep]_pool
    BY StartupStep
  <1> QED
    BY <1>1, StartupInit, StartupStep, PTL DEF I!Spec, UpgradesForward
=============================================================================
