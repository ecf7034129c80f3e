------------------------- MODULE GatewayOnce_proofs -------------------------
(***************************************************************************)
(* Proof that a join completes once, for any number of gateways and        *)
(* branches.                                                               *)
(***************************************************************************)
EXTENDS Gateway_proofs

\* The steps of a handler after its UpdateObj, and of one that closes the join.
Past == {"close", "complete", "delete", "deleted", "acked"}
Closing(m) == pc[m] \in {"close", "complete", "delete", "deleted"}

\* The token of branch b has been dealt with.
Done(g, b) == \E m \in Messages : m[1] = g /\ m[2] = b /\ pc[m] \in Past

\* Each token is one message, in the activation queue or with one handler; when a
\* handler closes the join, all tokens of the gateway have been dealt with.
OneToken ==
  /\ \A i, j \in 1 .. Len(activation) : activation[i] = activation[j] => i = j
  /\ \A i \in 1 .. Len(activation) : \A m \in Messages :
       activation[i] = <<m[1], m[2]>> => pc[m] = "unsent"
  /\ \A m, n \in Messages :
       m[1] = n[1] /\ m[2] = n[2] /\ pc[m] # "unsent" /\ pc[n] # "unsent" => m = n
  /\ \A g \in Gateways : \A b \in gw[g].met : Done(g, b)
OneCloser ==
  /\ \A m \in Messages : Closing(m) => \A b \in expected[m[1]] : Done(m[1], b)
  /\ \A g \in Gateways : published[g] # <<>> => \A b \in expected[g] : Done(g, b)
  /\ \A m, n \in Messages : Closing(m) /\ Closing(n) /\ m[1] = n[1] => m = n
  /\ \A m \in Messages : pc[m] \in {"close", "complete"} => published[m[1]] = <<>>
  /\ \A g \in Gateways : Len(published[g]) <= 1

\* In a live process every token is recorded in the instance, until that is deleted,
\* and when it has them all one of the handlers goes on to delete it.
Recording ==
  /\ \A m \in Messages : pc[m] \in Past => m[2] \in gw[m[1]].met \/ ~Exists(m[1])
  /\ \A a \in arrived : \/ \E i \in 1 .. Len(activation) : activation[i] = a
                        \/ \E m \in Messages : pc[m] # "unsent" /\ <<m[1], m[2]>> = a
  /\ \A g \in Gateways : Exists(g) /\ gw[g].met = expected[g] =>
       \E m \in Messages : m[1] = g /\ pc[m] \in {"close", "complete", "delete"}

Once == NoRedelivery => OneToken /\ OneCloser /\ (pi = "live" => Recording)

\* A handler moves its own message, and past its UpdateObj it goes on to the end.
LEMMA HandlerMoves ==
  ASSUME TypeOK, NEW m \in Messages, Handle(m)
  PROVE  /\ \A n \in Messages : n # m => pc'[n] = pc[n]
         /\ pc[m] # "unsent" /\ pc'[m] # "unsent"
         /\ pc[m] \in Past => pc'[m] \in Past
         /\ UNCHANGED <<expected, arrived, activation>>
<1>1. pc \in [Messages -> Steps]
  BY DEF TypeOK
<1>2. PICK s : pc' = [pc EXCEPT ![m] = s] /\ s # "unsent" /\ (pc[m] \in Past => s \in Past)
  BY DEF Handle, Validate, Lookup, SaveBlank, UpdateInstance, CloseGateway,
         CompleteActivity, DeleteInstance, Ack, Goto, Past
<1>3. pc[m] # "unsent" /\ UNCHANGED <<expected, arrived, activation>>
  BY DEF Handle, Validate, Lookup, SaveBlank, UpdateInstance, CloseGateway,
         CompleteActivity, DeleteInstance, Ack
<1> QED BY <1>1, <1>2, <1>3

\* A token that has been dealt with stays so.
LEMMA DoneStays ==
  ASSUME \A n \in Messages : pc[n] \in Past => pc'[n] \in Past,
         NEW g, NEW b, Done(g, b)
  PROVE  Done(g, b)'
BY DEF Done

\* A handler that has not yet recorded its branch has the only message for it.
LEMMA NotDoneYet ==
  ASSUME OneToken, NEW m \in Messages, pc[m] \notin Past, pc[m] # "unsent"
  PROVE  ~Done(m[1], m[2])
BY DEF OneToken, Done, Past

\* A step of a handler keeps OneToken.
LEMMA HandlerKeepsToken ==
  ASSUME TypeOK, OneToken, NEW m \in Messages, Handle(m)
  PROVE  OneToken'
<1> DEFINE g == m[1]
           b == m[2]
<1>0. g \in Gateways /\ gw \in [Gateways -> Instances] /\ pc \in [Messages -> Steps]
  BY DEF Messages, TypeOK
<1>1. /\ \A n \in Messages : pc[n] \in Past => pc'[n] \in Past
      /\ \A n \in Messages : pc'[n] # "unsent" <=> pc[n] # "unsent"
      /\ UNCHANGED activation
  BY HandlerMoves
<1>2. ASSUME NEW h \in Gateways, NEW c \in gw'[h].met PROVE Done(h, c)'
  <2>1. CASE c \in gw[h].met
    BY <1>1, <2>1, DoneStays DEF OneToken
  <2>2. CASE c \notin gw[h].met
    <3>1. NoGateway.met = {} /\ BlankGateway.met = {}
      BY DEF NoGateway, BlankGateway
    <3>2. UpdateInstance(m) /\ Exists(g)
      BY <1>0, <1>2, <2>2, <3>1 DEF Handle, Validate, Lookup, SaveBlank, UpdateInstance,
         CloseGateway, CompleteActivity, DeleteInstance, Ack
    <3>3. /\ gw' = [gw EXCEPT ![g] = Visited(gw[g], b)]
          /\ pc' = [pc EXCEPT ![m] = IF Satisfied(g, Visited(gw[g], b)) THEN "close" ELSE "acked"]
      BY <3>2 DEF UpdateInstance, Goto
    <3>4. Visited(gw[g], b).met = gw[g].met \cup {b}
      BY DEF Visited
    <3>5. h = g /\ c = b
      BY <1>0, <1>2, <2>2, <3>3, <3>4
    <3>6. pc'[m] \in Past
      BY <1>0, <3>3 DEF Past
    <3> QED BY <3>5, <3>6 DEF Done
  <2> QED BY <2>1, <2>2
<1> QED BY <1>1, <1>2 DEF OneToken

\* A step of a handler keeps OneCloser: the one that completes the set finds no other
\* that has, as its own token had still to be recorded.
LEMMA HandlerKeepsCloser ==
  ASSUME TypeOK, Traced, Awaited, Kept, ExclusiveConditions, OneToken, OneCloser,
         NEW m \in Messages, Handle(m)
  PROVE  OneCloser'
<1> DEFINE g == m[1]
           b == m[2]
<1>0. /\ g \in Gateways /\ b \in Branches /\ pc \in [Messages -> Steps]
      /\ published \in [Gateways -> Seq(Results)]
      /\ \A n \in Messages : n[1] \in Gateways
  BY DEF Messages, TypeOK, Kept
<1>1. /\ \A n \in Messages : pc[n] \in Past => pc'[n] \in Past
      /\ \A n \in Messages : n # m => pc'[n] = pc[n]
      /\ pc[m] # "unsent"
      /\ UNCHANGED expected
  BY HandlerMoves
<1>2. b \in expected[g]
  BY <1>0, <1>1, Zenon DEF Traced
<1>3. CASE UpdateInstance(m) /\ pc'[m] = "close"
  <2>1. pc[m] = "update" /\ UNCHANGED published
    BY <1>3 DEF UpdateInstance
  <2>2. Satisfied(g, Visited(gw[g], b))
    BY <1>0, <1>3 DEF UpdateInstance, Goto
  <2>3. gw[g].met \cup {b} = expected[g]
    BY <2>1, <2>2, SatisfiedMeansAllMet
  <2>4. \A c \in expected[g] : Done(g, c)'
    <3>1. \A c \in gw[g].met : Done(g, c)'
      BY <1>0, <1>1, DoneStays DEF OneToken
    <3>2. Done(g, b)'
      BY <1>3 DEF Done, Past
    <3> QED BY <2>3, <3>1, <3>2
  <2>5. ~Done(g, b)
    BY <2>1, NotDoneYet DEF Past
  <2>6. published[g] = <<>> /\ \A n \in Messages : n[1] = g => ~Closing(n)
    BY <1>0, <1>2, <2>5, Zenon DEF OneCloser
  <2>7. \A n \in Messages : Closing(n)' <=> Closing(n) \/ n = m
    BY <1>1, <1>3 DEF Closing
  <2>8. \A n \in Messages : Closing(n)' => \A c \in expected[n[1]] : Done(n[1], c)'
    BY <1>1, <2>4, <2>7, DoneStays DEF OneCloser
  <2>9. \A h \in Gateways : published[h] # <<>> => \A c \in expected[h] : Done(h, c)'
    BY <1>1, DoneStays DEF OneCloser
  <2>10. \A n, k \in Messages : Closing(n)' /\ Closing(k)' /\ n[1] = k[1] => n = k
    BY <2>6, <2>7 DEF OneCloser
  <2>11. \A n \in Messages : pc'[n] \in {"close", "complete"} => published[n[1]] = <<>>
    BY <1>1, <2>6 DEF OneCloser
  <2> QED BY <1>1, <2>1, <2>8, <2>9, <2>10, <2>11 DEF OneCloser
<1>4. CASE CompleteActivity(m)
  <2>1. /\ pc[m] = "complete" /\ pc' = [pc EXCEPT ![m] = "delete"]
        /\ \A h \in Gateways : h # g => published'[h] = published[h]
        /\ \E v : published' = [published EXCEPT ![g] = Append(published[g], v)]
    BY <1>0, <1>4, Zenon DEF CompleteActivity, Goto
  <2>2. published[g] = <<>>
    BY <2>1 DEF OneCloser
  <2>3. Len(published'[g]) <= 1
    BY <1>0, <2>1, <2>2
  <2>4. pc'[m] = "delete" /\ \A n \in Messages : Closing(n)' <=> Closing(n)
    BY <1>0, <1>1, <2>1 DEF Closing
  <2>5. \A n \in Messages : n[1] = g /\ n # m => ~Closing(n)
    BY <2>1 DEF OneCloser, Closing
  <2>6. \A h \in Gateways : \A c \in expected[h] : Done(h, c) => Done(h, c)'
    BY <1>1, DoneStays
  <2>7. \A c \in expected[g] : Done(g, c)
    BY <2>1 DEF OneCloser, Closing
  <2>8. \A n \in Messages : Closing(n)' => \A c \in expected[n[1]] : Done(n[1], c)'
    BY <1>0, <2>4, <2>6, Zenon DEF OneCloser
  <2>9. \A h \in Gateways : published'[h] # <<>> => \A c \in expected[h] : Done(h, c)'
    BY <2>1, <2>6, <2>7 DEF OneCloser
  <2>10. \A n, k \in Messages : Closing(n)' /\ Closing(k)' /\ n[1] = k[1] => n = k
    BY <2>4 DEF OneCloser
  <2>11. \A n \in Messages : pc'[n] \in {"close", "complete"} => published'[n[1]] = <<>>
    BY <1>0, <1>1, <2>1, <2>4, <2>5 DEF OneCloser, Closing
  <2>12. \A h \in Gateways : Len(published'[h]) <= 1
    BY <2>1, <2>3 DEF OneCloser
  <2> QED BY <1>1, <2>8, <2>9, <2>10, <2>11, <2>12 DEF OneCloser
<1>5. CASE ~CompleteActivity(m) /\ ~(UpdateInstance(m) /\ pc'[m] = "close")
  <2>1. UNCHANGED published
    BY <1>5 DEF Handle, Validate, Lookup, SaveBlank, UpdateInstance, CloseGateway,
         CompleteActivity, DeleteInstance, Ack
  <2>2. /\ Closing(m)' => Closing(m)
        /\ pc'[m] \in {"close", "complete"} => pc[m] \in {"close", "complete"}
    BY <1>0, <1>5 DEF Handle, Validate, Lookup, SaveBlank, UpdateInstance, CloseGateway,
         DeleteInstance, Ack, Goto, Closing
  <2>3. \A n \in Messages : Closing(n)' => Closing(n)
    BY <1>1, <2>2 DEF Closing
  <2>4. \A h \in Gateways : \A c \in expected[h] : Done(h, c) => Done(h, c)'
    BY <1>1, DoneStays
  <2>5. \A n \in Messages : Closing(n)' => \A c \in expected[n[1]] : Done(n[1], c)'
    BY <1>0, <2>3, <2>4, Zenon DEF OneCloser
  <2>6. \A n \in Messages : pc'[n] \in {"close", "complete"} => published[n[1]] = <<>>
    BY <1>1, <2>2 DEF OneCloser
  <2> QED BY <1>1, <2>1, <2>3, <2>4, <2>5, <2>6 DEF OneCloser
<1> QED BY <1>3, <1>4, <1>5

\* A step of a handler in a live process keeps Recording: no instance is created anew,
\* and the handler whose branch is the last of the set goes on to delete it.
LEMMA HandlerKeepsRecording ==
  ASSUME TypeOK, Traced, Awaited, Kept, ExclusiveConditions, OneToken, OneCloser,
         Recording, pi = "live", NEW m \in Messages, Handle(m)
  PROVE  Recording'
<1> DEFINE g == m[1]
           b == m[2]
<1>0. /\ g \in Gateways /\ b \in Branches /\ pc \in [Messages -> Steps]
      /\ gw \in [Gateways -> Instances]
      /\ \A n \in Messages : n[1] \in Gateways
  BY DEF Messages, TypeOK
<1>1. /\ \A n \in Messages : pc[n] \in Past => pc'[n] \in Past
      /\ \A n \in Messages : n # m => pc'[n] = pc[n]
      /\ pc[m] # "unsent" /\ pc'[m] # "unsent"
      /\ UNCHANGED <<expected, arrived, activation>>
  BY HandlerMoves
<1>2. b \in expected[g]
  BY <1>0, <1>1, Zenon DEF Traced
<1>3. ~SaveBlank(m)
  <2> SUFFICES ASSUME SaveBlank(m) PROVE FALSE
    OBVIOUS
  <2>1. pc[m] = "saveBlank"
    BY DEF SaveBlank
  <2>2. published[g] # <<>>
    BY <2>1 DEF Kept
  <2>3. Done(g, b)
    BY <1>0, <1>2, <2>2 DEF OneCloser
  <2> QED BY <2>1, <2>3, NotDoneYet DEF Past
<1>4. \A a \in arrived' : \/ \E i \in 1 .. Len(activation') : activation'[i] = a
                          \/ \E n \in Messages : pc'[n] # "unsent" /\ <<n[1], n[2]>> = a
  <2> SUFFICES ASSUME NEW a \in arrived
               PROVE  \/ \E i \in 1 .. Len(activation) : activation[i] = a
                      \/ \E n \in Messages : pc'[n] # "unsent" /\ <<n[1], n[2]>> = a
    BY <1>1
  <2>1. CASE \E i \in 1 .. Len(activation) : activation[i] = a
    BY <2>1
  <2>2. ASSUME NEW n \in Messages, pc[n] # "unsent", <<n[1], n[2]>> = a
        PROVE  \E k \in Messages : pc'[k] # "unsent" /\ <<k[1], k[2]>> = a
    <3>1. pc'[n] # "unsent"
      BY <1>1, <2>2
    <3> QED BY <2>2, <3>1
  <2> QED BY <2>1, <2>2 DEF Recording
<1>5. CASE UpdateInstance(m) /\ Exists(g)
  <2> DEFINE inst == Visited(gw[g], b)
  <2>1. /\ gw' = [gw EXCEPT ![g] = inst]
        /\ pc' = [pc EXCEPT ![m] = IF Satisfied(g, inst) THEN "close" ELSE "acked"]
    BY <1>5 DEF UpdateInstance, Goto
  <2>2. inst.present = gw[g].present /\ inst.met = gw[g].met \cup {b}
    BY DEF Visited
  <2>3. inst.met = expected[g] => pc'[m] = "close"
    <3> SUFFICES ASSUME inst.met = expected[g] PROVE Satisfied(g, inst)
      BY <1>0, <2>1
    <3>1. IsFiniteSet(expected[g])
      <4>1. expected[g] \in SUBSET Branches /\ IsFiniteSet(Branches)
        BY <1>0, GatewayAssumption DEF TypeOK
      <4> QED BY <4>1, FS_Subset
    <3>2. Cardinality(inst.met) \in Nat /\ Cardinality(inst.met) = Cardinality(expected[g])
      BY <3>1, FS_CardinalityType
    <3> HIDE DEF inst
    <3> QED BY <3>2 DEF Satisfied
  <2> HIDE DEF inst
  <2>4. gw'[g] = inst /\ \A h \in Gateways : h # g => gw'[h] = gw[h]
    BY <1>0, <2>1
  <2>5. \A h \in Gateways : Exists(h)' <=> Exists(h)
    BY <2>2, <2>4 DEF Exists
  <2>6. \A n \in Messages : pc'[n] \in Past => n[2] \in gw'[n[1]].met \/ ~Exists(n[1])'
    <3> SUFFICES ASSUME NEW n \in Messages, pc'[n] \in Past
                 PROVE  n[2] \in gw'[n[1]].met \/ ~Exists(n[1])
      BY <1>0, <2>5
    <3>1. CASE n = m
      BY <2>2, <2>4, <3>1
    <3>2. CASE n # m
      BY <1>0, <1>1, <2>2, <2>4, <3>2 DEF Recording
    <3> QED BY <3>1, <3>2
  <2>7. ASSUME NEW h \in Gateways, Exists(h)', gw'[h].met = expected[h]
        PROVE  \E n \in Messages : n[1] = h /\ pc'[n] \in {"close", "complete", "delete"}
    <3>1. CASE h = g
      BY <2>3, <2>4, <2>7, <3>1
    <3>2. CASE h # g
      <4>1. PICK n \in Messages : n[1] = h /\ pc[n] \in {"close", "complete", "delete"}
        BY <2>4, <2>5, <2>7, <3>2 DEF Recording
      <4> QED BY <1>1, <3>2, <4>1
    <3> QED BY <3>1, <3>2
  <2> QED BY <1>1, <1>4, <2>6, <2>7 DEF Recording
<1>6. CASE DeleteInstance(m)
  <2>1. /\ gw' = [gw EXCEPT ![g] = NoGateway]
        /\ pc[m] = "delete"
    BY <1>6 DEF DeleteInstance
  <2>2. ~Exists(g)' /\ \A h \in Gateways : h # g => gw'[h] = gw[h]
    BY <1>0, <2>1 DEF Exists, NoGateway
  <2>3. \A n \in Messages : pc'[n] \in Past => pc[n] \in Past
    BY <1>1, <2>1 DEF Past
  <2>4. \A n \in Messages : pc'[n] \in Past => n[2] \in gw'[n[1]].met \/ ~Exists(n[1])'
    BY <1>0, <2>2, <2>3 DEF Recording, Exists
  <2>5. ASSUME NEW h \in Gateways, Exists(h)', gw'[h].met = expected[h]
        PROVE  \E n \in Messages : n[1] = h /\ pc'[n] \in {"close", "complete", "delete"}
    <3>1. h # g
      BY <2>2, <2>5
    <3>2. PICK n \in Messages : n[1] = h /\ pc[n] \in {"close", "complete", "delete"}
      BY <2>2, <2>5, <3>1 DEF Recording, Exists
    <3> QED BY <1>1, <3>1, <3>2
  <2> QED BY <1>1, <1>4, <2>4, <2>5 DEF Recording
<1>7. CASE \/ Validate(m) \/ Lookup(m) \/ CloseGateway(m) \/ CompleteActivity(m) \/ Ack(m)
           \/ UpdateInstance(m) /\ ~Exists(g)
  <2>1. UNCHANGED gw
    BY <1>7 DEF Validate, Lookup, CloseGateway, CompleteActivity, Ack, UpdateInstance
  <2>2. /\ pc'[m] \in Past => pc[m] \in Past
        /\ pc[m] \in {"close", "complete", "delete"} => pc'[m] \in {"close", "complete", "delete"}
    BY <1>0, <1>7 DEF Validate, Lookup, CloseGateway, CompleteActivity, Ack, UpdateInstance,
                      Goto, Past
  <2>3. \A n \in Messages :
          /\ pc'[n] \in Past => pc[n] \in Past
          /\ pc[n] \in {"close", "complete", "delete"} => pc'[n] \in {"close", "complete", "delete"}
    BY <1>1, <2>2
  <2>4. \A h \in Gateways : Exists(h)' <=> Exists(h)
    BY <2>1 DEF Exists
  <2>5. \A n \in Messages : pc'[n] \in Past => n[2] \in gw'[n[1]].met \/ ~Exists(n[1])'
    BY <1>0, <2>1, <2>3, <2>4 DEF Recording
  <2>6. \A h \in Gateways : Exists(h)' /\ gw'[h].met = expected[h] =>
          \E n \in Messages : n[1] = h /\ pc'[n] \in {"close", "complete", "delete"}
    BY <2>1, <2>3, <2>4 DEF Recording
  <2> QED BY <1>1, <1>4, <2>5, <2>6 DEF Recording
<1> QED BY <1>3, <1>5, <1>6, <1>7 DEF Handle

\* processGatewayActivation forwards the token at the head of the queue once.
LEMMA ForwardKeepsOnce ==
  ASSUME TypeOK, OneToken, OneCloser, ActivationForwarded, NoRedelivery'
  PROVE  OneToken' /\ OneCloser' /\ (Recording => Recording')
<1>1. /\ activation # <<>> /\ activation \in Seq(arrived) /\ arrived \subseteq Gateways \X Branches
      /\ pc \in [Messages -> Steps]
  BY DEF ActivationForwarded, TypeOK
<1>2. /\ activation' = Tail(activation)
      /\ UNCHANGED <<expected, gw, arrived, published>>
  BY DEF ActivationForwarded, NoRedelivery, TypeOK
<1>3. /\ Len(activation) \in Nat /\ Len(activation) >= 1
      /\ Len(activation') = Len(activation) - 1
      /\ \A i \in 1 .. Len(activation') : activation'[i] = activation[i + 1]
      /\ Head(activation) = activation[1] /\ activation[1] \in arrived
  BY <1>1, <1>2
<1>4. PICK g \in Gateways, b \in Branches : activation[1] = <<g, b>>
  BY <1>1, <1>3
<1>5. PICK k \in Copies : pc[<<g, b, k>>] = "unsent" /\ pc' = [pc EXCEPT ![<<g, b, k>>] = "queued"]
  <2>1. Head(activation)[1] = g /\ Head(activation)[2] = b
    BY <1>3, <1>4
  <2> HIDE DEF TypeOK, OneToken, OneCloser
  <2> QED BY <2>1, Zenon DEF ActivationForwarded
<1> DEFINE m == <<g, b, k>>
<1>6. m \in Messages /\ m[1] = g /\ m[2] = b
  BY <1>5 DEF Messages
<1>7. /\ pc'[m] = "queued" /\ pc[m] = "unsent"
      /\ \A n \in Messages : n # m => pc'[n] = pc[n]
  BY <1>1, <1>5, <1>6
<1> HIDE DEF m
<1>8. \A n \in Messages : n[1] = g /\ n[2] = b => pc[n] = "unsent"
  BY <1>3, <1>4 DEF OneToken
<1>9. \A h, c : Done(h, c) <=> Done(h, c)'
  BY <1>7 DEF Done, Past
<1>10. OneToken'
  <2>1. ASSUME NEW i \in 1 .. Len(activation'), NEW j \in 1 .. Len(activation'),
               activation'[i] = activation'[j]
        PROVE  i = j
    <3>1. /\ i + 1 \in 1 .. Len(activation) /\ j + 1 \in 1 .. Len(activation)
          /\ activation[i + 1] = activation[j + 1]
      BY <1>3, <2>1
    <3>2. i + 1 = j + 1
      BY <3>1 DEF OneToken
    <3> QED BY <3>2
  <2>2. ASSUME NEW i \in 1 .. Len(activation'), NEW n \in Messages,
               activation'[i] = <<n[1], n[2]>>
        PROVE  pc'[n] = "unsent"
    <3>1. /\ i + 1 \in 1 .. Len(activation) /\ i + 1 # 1 /\ 1 \in 1 .. Len(activation)
          /\ activation[i + 1] = <<n[1], n[2]>>
      BY <1>3, <2>2
    <3>2. pc[n] = "unsent"
      BY <3>1 DEF OneToken
    <3>3. activation[i + 1] # activation[1]
      BY <3>1 DEF OneToken
    <3>4. n # m
      BY <1>4, <1>6, <3>1, <3>3
    <3> QED BY <1>7, <3>2, <3>4
  <2>3. ASSUME NEW x \in Messages, NEW y \in Messages,
               x[1] = y[1], x[2] = y[2], pc'[x] # "unsent", pc'[y] # "unsent"
        PROVE  x = y
    BY <1>6, <1>7, <1>8, <2>3 DEF OneToken
  <2>4. \A h \in Gateways : \A c \in gw'[h].met : Done(h, c)'
    BY <1>2, <1>9 DEF OneToken
  <2> QED BY <2>1, <2>2, <2>3, <2>4 DEF OneToken
<1>11. \A n \in Messages : /\ Closing(n)' => Closing(n)
                           /\ pc'[n] \in {"close", "complete"} => pc[n] \in {"close", "complete"}
  BY <1>7 DEF Closing
<1>12. OneCloser'
  BY <1>2, <1>9, <1>11 DEF OneCloser
<1>13. ASSUME Recording PROVE Recording'
  <2>1. \A n \in Messages : /\ pc'[n] \in Past => pc[n] \in Past
                            /\ pc[n] # "unsent" => pc'[n] # "unsent"
                            /\ pc[n] \in {"close", "complete", "delete"} => pc'[n] = pc[n]
    BY <1>7 DEF Past
  <2>2. \A h \in Gateways : Exists(h)' <=> Exists(h)
    BY <1>2 DEF Exists
  <2>3. \A n \in Messages : pc'[n] \in Past => n[2] \in gw'[n[1]].met \/ ~Exists(n[1])'
    BY <1>2, <1>13, <2>1 DEF Recording, Exists
  <2>4. \A h \in Gateways : Exists(h)' /\ gw'[h].met = expected'[h] =>
          \E n \in Messages : n[1] = h /\ pc'[n] \in {"close", "complete", "delete"}
    BY <1>2, <1>13, <2>1, <2>2 DEF Recording
  <2>5. ASSUME NEW a \in arrived
        PROVE  \/ \E i \in 1 .. Len(activation') : activation'[i] = a
               \/ \E n \in Messages : pc'[n] # "unsent" /\ <<n[1], n[2]>> = a
    <3>1. ASSUME NEW i \in 1 .. Len(activation), activation[i] = a, i # 1
          PROVE  \E j \in 1 .. Len(activation') : activation'[j] = a
      <4>1. i - 1 \in 1 .. Len(activation') /\ activation'[i - 1] = activation[(i - 1) + 1]
        BY <1>3, <3>1
      <4>2. (i - 1) + 1 = i
        OBVIOUS
      <4> QED BY <3>1, <4>1, <4>2
    <3>2. CASE activation[1] = a
      BY <1>4, <1>6, <1>7, <3>2, Zenon
    <3>3. ASSUME NEW n \in Messages, pc[n] # "unsent", <<n[1], n[2]>> = a
          PROVE  \E x \in Messages : pc'[x] # "unsent" /\ <<x[1], x[2]>> = a
      BY <2>1, <3>3
    <3> QED BY <1>13, <3>1, <3>2, <3>3 DEF Recording
  <2> QED BY <1>2, <2>3, <2>4, <2>5 DEF Recording
<1> QED BY <1>10, <1>12, <1>13

\* traverse opens a gateway that no token has reached.
LEMMA DivergeKeepsOnce ==
  ASSUME TypeOK, Traced, Kept, OneToken, OneCloser, NEW g \in Gateways, Diverge(g)
  PROVE  OneToken' /\ OneCloser' /\ (Recording => Recording')
<1>1. PICK paths \in Choices[g] : expected' = [expected EXCEPT ![g] = paths]
  BY Zenon DEF Diverge
<1>2. /\ expected[g] = {} /\ gw' = [gw EXCEPT ![g] = NewGateway]
      /\ UNCHANGED <<arrived, activation, pc, published>>
  BY DEF Diverge
<1>3. paths # {}
  BY GatewayAssumption
<1>4. \A n \in Messages : pc[n] # "unsent" => n[1] \in Gateways \ {g}
  BY <1>2, Zenon DEF Traced, Messages
<1>5. /\ \A h \in Gateways \ {g} : expected'[h] = expected[h] /\ gw'[h] = gw[h]
      /\ gw'[g] = NewGateway /\ expected'[g] = paths /\ published[g] = <<>>
  BY <1>1, <1>2 DEF TypeOK, Kept
<1>6. NewGateway.met = {}
  BY DEF NewGateway
<1>7. /\ \A h, c : Done(h, c)' <=> Done(h, c)
      /\ \A n \in Messages : Closing(n)' <=> Closing(n)
  BY <1>2 DEF Done, Closing
<1>8. OneToken'
  BY <1>2, <1>5, <1>6, <1>7 DEF OneToken
<1>9. OneCloser'
  <2>1. \A n \in Messages : Closing(n) => expected'[n[1]] = expected[n[1]]
    BY <1>4, <1>5 DEF Closing
  <2>2. \A h \in Gateways : published[h] # <<>> => expected'[h] = expected[h]
    BY <1>5
  <2> QED BY <1>2, <1>7, <2>1, <2>2 DEF OneCloser
<1>10. ASSUME Recording PROVE Recording'
  <2>1. \A n \in Messages : pc[n] \in Past => gw'[n[1]] = gw[n[1]]
    BY <1>4, <1>5 DEF Past
  <2>2. \A n \in Messages : pc[n] \in Past => n[2] \in gw'[n[1]].met \/ ~Exists(n[1])'
    BY <1>10, <2>1 DEF Recording, Exists
  <2>3. \A h \in Gateways : Exists(h)' /\ gw'[h].met = expected'[h] =>
          \E n \in Messages : n[1] = h /\ pc[n] \in {"close", "complete", "delete"}
    BY <1>3, <1>5, <1>6, <1>10 DEF Recording, Exists
  <2> QED BY <1>2, <1>10, <2>2, <2>3 DEF Recording
<1> QED BY <1>8, <1>9, <1>10

\* A token reaches the join once.
LEMMA ArriveKeepsOnce ==
  ASSUME TypeOK, Traced, OneToken, OneCloser,
         NEW g \in Gateways, NEW b \in Branches, Arrive(g, b)
  PROVE  OneToken' /\ OneCloser' /\ (Recording => Recording')
<1>1. /\ activation' = Append(activation, <<g, b>>) /\ arrived' = arrived \cup {<<g, b>>}
      /\ <<g, b>> \notin arrived
      /\ UNCHANGED <<expected, gw, pc, published>>
  BY DEF Arrive
<1>2. activation \in Seq(arrived)
  BY DEF TypeOK
<1>3. /\ Len(activation) \in Nat
      /\ Len(activation') = Len(activation) + 1
      /\ \A i \in 1 .. Len(activation) : activation'[i] = activation[i] /\ activation[i] \in arrived
      /\ activation'[Len(activation) + 1] = <<g, b>>
  BY <1>1, <1>2
<1>4. \A i \in 1 .. Len(activation') : i \in 1 .. Len(activation) \/ i = Len(activation) + 1
  BY <1>3
<1>5. \A n \in Messages : <<n[1], n[2]>> = <<g, b>> => pc[n] = "unsent"
  BY <1>1 DEF Traced
<1>6. /\ \A h, c : Done(h, c)' <=> Done(h, c)
      /\ \A n \in Messages : Closing(n)' <=> Closing(n)
      /\ \A h \in Gateways : Exists(h)' <=> Exists(h)
  BY <1>1 DEF Done, Closing, Exists
<1>7. OneToken'
  <2>1. \A i, j \in 1 .. Len(activation') : activation'[i] = activation'[j] => i = j
    BY <1>1, <1>3, <1>4 DEF OneToken
  <2>2. \A i \in 1 .. Len(activation') : \A n \in Messages :
          activation'[i] = <<n[1], n[2]>> => pc[n] = "unsent"
    BY <1>3, <1>4, <1>5 DEF OneToken
  <2> QED BY <1>1, <1>6, <2>1, <2>2, Zenon DEF OneToken
<1>8. OneCloser'
  BY <1>1, <1>6 DEF OneCloser
<1>9. ASSUME Recording PROVE Recording'
  <2>1. ASSUME NEW a \in arrived'
        PROVE  \/ \E i \in 1 .. Len(activation') : activation'[i] = a
               \/ \E n \in Messages : pc[n] # "unsent" /\ <<n[1], n[2]>> = a
    <3>1. CASE a = <<g, b>>
      <4>1. Len(activation) + 1 \in 1 .. Len(activation')
        BY <1>3
      <4> QED BY <1>3, <3>1, <4>1
    <3>2. ASSUME NEW i \in 1 .. Len(activation), activation[i] = a
          PROVE  \E j \in 1 .. Len(activation') : activation'[j] = a
      <4>1. i \in 1 .. Len(activation')
        BY <1>3
      <4> QED BY <1>3, <3>2, <4>1
    <3> QED BY <1>1, <1>9, <3>1, <3>2 DEF Recording
  <2>2. \A n \in Messages : pc[n] \in Past => n[2] \in gw[n[1]].met \/ ~Exists(n[1])'
    BY <1>1, <1>9 DEF Recording, Exists
  <2> QED BY <1>1, <1>6, <1>9, <2>1, <2>2 DEF Recording
<1> QED BY <1>7, <1>8, <1>9

\* Every step keeps Once.
LEMMA OnceInvariant ==
  ASSUME ExclusiveConditions
  PROVE  Spec => []Once
<1>1. Init => Once
  <2> SUFFICES ASSUME Init PROVE OneToken /\ OneCloser /\ Recording
    BY DEF Once
  <2>1. /\ activation = <<>> /\ arrived = {}
        /\ \A m \in Messages : pc[m] = "unsent"
        /\ \A g \in Gateways : gw[g] = NoGateway /\ published[g] = <<>>
    BY DEF Init
  <2>2. NoGateway.met = {} /\ NoGateway.present = "no"
    BY DEF NoGateway
  <2>3. OneToken
    BY <2>1, <2>2 DEF OneToken
  <2>4. OneCloser
    BY <2>1 DEF OneCloser, Closing
  <2>5. Recording
    BY <2>1, <2>2 DEF Recording, Past, Exists
  <2> QED BY <2>3, <2>4, <2>5
<1>2. TypeOK /\ Traced /\ Awaited /\ Kept /\ Once /\ [Next]_vars => Once'
  <2> SUFFICES ASSUME TypeOK, Traced, Awaited, Kept, Once, [Next]_vars, NoRedelivery'
               PROVE  OneToken' /\ OneCloser' /\ (pi' = "live" => Recording')
    BY DEF Once
  <2>0. crashes \in Nat /\ republished \in Nat
    BY GatewayAssumption DEF TypeOK
  <2>1. NoRedelivery /\ \A m \in Messages : ~Interrupt(m)
    <3>1. crashes' = 0 /\ republished' = 0
      BY DEF NoRedelivery
    <3>2. \A m \in Messages : ~Interrupt(m)
      BY <2>0, <3>1 DEF Interrupt
    <3>3. crashes' = crashes /\ (republished' = republished \/ republished' = republished + 1)
      <4>1. ASSUME NEW m \in Messages, Handle(m) PROVE UNCHANGED <<crashes, republished>>
        BY <4>1 DEF Handle, Validate, Lookup, SaveBlank, UpdateInstance, CloseGateway,
           CompleteActivity, DeleteInstance, Ack
      <4>2. ASSUME NEW g \in Gateways, Diverge(g) PROVE UNCHANGED <<crashes, republished>>
        BY <4>2 DEF Diverge
      <4>3. ASSUME NEW g \in Gateways, NEW b \in Branches, Arrive(g, b)
            PROVE  UNCHANGED <<crashes, republished>>
        BY <4>3 DEF Arrive
      <4>4. CASE ActivationDropped \/ Cancel \/ UNCHANGED vars
        BY <4>4 DEF ActivationDropped, Cancel, vars
      <4>5. CASE ActivationForwarded
        BY <4>5 DEF ActivationForwarded
      <4> QED BY <3>2, <4>1, <4>2, <4>3, <4>4, <4>5
              DEF Next, Activate, ActivationRefused, Terminating
    <3>4. crashes = 0 /\ republished = 0
      BY <2>0, <3>1, <3>3
    <3> QED BY <3>2, <3>4 DEF NoRedelivery
  <2>2. OneToken /\ OneCloser /\ (pi = "live" => Recording)
    BY <2>1 DEF Once
  <2>3. ASSUME NEW g \in Gateways, Diverge(g)
        PROVE  OneToken' /\ OneCloser' /\ (pi' = "live" => Recording')
    <3>1. pi' = pi
      BY <2>3 DEF Diverge
    <3> QED BY <2>2, <2>3, <3>1, DivergeKeepsOnce
  <2>4. ASSUME NEW g \in Gateways, NEW b \in Branches, Arrive(g, b)
        PROVE  OneToken' /\ OneCloser' /\ (pi' = "live" => Recording')
    <3>1. pi' = pi
      BY <2>4 DEF Arrive
    <3> QED BY <2>2, <2>4, <3>1, ArriveKeepsOnce
  <2>5. CASE ActivationForwarded
    <3>1. pi' = pi
      BY <2>5 DEF ActivationForwarded
    <3> QED BY <2>2, <2>5, <3>1, ForwardKeepsOnce
  <2>6. CASE ActivationDropped
    <3>1. /\ activation # <<>> /\ activation' = Tail(activation) /\ pi' # "live"
          /\ UNCHANGED <<expected, gw, pc, published>>
      BY <2>6 DEF ActivationDropped
    <3>2. /\ Len(activation) \in Nat
          /\ Len(activation') = Len(activation) - 1
          /\ \A i \in 1 .. Len(activation') : activation'[i] = activation[i + 1]
      <4>1. activation \in Seq(arrived)
        BY DEF TypeOK
      <4> QED BY <3>1, <4>1
    <3>3. /\ \A h, c : Done(h, c)' <=> Done(h, c)
          /\ \A n \in Messages : Closing(n)' <=> Closing(n)
      BY <3>1 DEF Done, Closing
    <3>4. OneToken'
      <4>1. \A i \in 1 .. Len(activation') : i + 1 \in 1 .. Len(activation)
        BY <3>2
      <4>2. \A i, j \in 1 .. Len(activation') : i + 1 = j + 1 => i = j
        BY <3>2
      <4> QED BY <2>2, <3>1, <3>2, <3>3, <4>1, <4>2 DEF OneToken
    <3>5. OneCloser'
      BY <2>2, <3>1, <3>3 DEF OneCloser
    <3> QED BY <3>1, <3>4, <3>5
  <2>7. ASSUME NEW m \in Messages, Handle(m)
        PROVE  OneToken' /\ OneCloser' /\ (pi' = "live" => Recording')
    <3>1. pi' = "live" => pi = "live"
      BY <2>7, Zenon DEF Handle, Validate, Lookup, SaveBlank, UpdateInstance, CloseGateway,
         CompleteActivity, DeleteInstance, Ack
    <3>2. OneToken' /\ OneCloser'
      BY <2>2, <2>7, HandlerKeepsToken, HandlerKeepsCloser
    <3>3. pi' = "live" => Recording'
      BY <2>2, <2>7, <3>1, HandlerKeepsRecording
    <3> QED BY <3>2, <3>3
  <2>8. CASE Cancel \/ UNCHANGED vars
    <3>1. /\ UNCHANGED <<expected, gw, arrived, activation, pc, published>>
          /\ pi' = "live" => pi = "live"
      BY <2>8 DEF Cancel, vars
    <3>2. /\ \A h, c : Done(h, c)' <=> Done(h, c)
          /\ \A n \in Messages : Closing(n)' <=> Closing(n)
          /\ \A h : Exists(h)' <=> Exists(h)
      BY <3>1 DEF Done, Closing, Exists
    <3>3. OneToken'
      BY <2>2, <3>1, <3>2 DEF OneToken
    <3>4. OneCloser'
      BY <2>2, <3>1, <3>2 DEF OneCloser
    <3>5. Recording => Recording'
      BY <3>1, <3>2 DEF Recording
    <3> QED BY <2>2, <3>1, <3>3, <3>4, <3>5
  <2> QED BY <2>1, <2>3, <2>4, <2>5, <2>6, <2>7, <2>8
          DEF Next, Activate, ActivationRefused, Terminating
<1> QED BY <1>1, <1>2, TracedInvariant, AwaitedInvariant, KeptInvariant, PTL DEF Spec

\* Without redelivery exactly one of the handlers that race to record their branch
\* sees the full set, and no instance is left once every token of a live process has
\* been consumed, for any number of gateways and branches in any order
\* (gatewayExecProcessor and completeGateway, gateway.go:106-236), if the conditions
\* of exclusive gateways select one path.
THEOREM JoinsCloseOnce ==
  ASSUME ExclusiveConditions
  PROVE  Spec => []JoinsOnce
<1>1. TypeOK /\ Traced /\ Once => JoinsOnce
  <2> SUFFICES ASSUME TypeOK, Traced, Once, NoRedelivery, NEW g \in Gateways
               PROVE  Len(published[g]) <= 1 /\ (Quiet /\ pi = "live" => ~Exists(g))
    BY DEF JoinsOnce
  <2>1. Len(published[g]) <= 1
    BY DEF Once, OneCloser
  <2>2. ASSUME Quiet, pi = "live", Exists(g) PROVE FALSE
    <3>1. /\ activation = <<>> /\ \A b \in expected[g] : <<g, b>> \in arrived
          /\ \A m \in Messages : pc[m] \in {"unsent", "acked"}
      BY <2>2 DEF Quiet
    <3>2. Recording
      BY <2>2 DEF Once
    <3>3. ASSUME NEW b \in expected[g] PROVE b \in gw[g].met
      <4>0. <<g, b>> \in arrived /\ ~\E i \in 1 .. Len(activation) : activation[i] = <<g, b>>
        BY <3>1
      <4>1. PICK m \in Messages : pc[m] # "unsent" /\ <<m[1], m[2]>> = <<g, b>>
        BY <3>2, <4>0 DEF Recording
      <4>2. pc[m] \in Past
        BY <3>1, <4>1 DEF Past
      <4> QED BY <2>2, <3>2, <4>1, <4>2 DEF Recording
    <3>4. gw[g].met = expected[g]
      BY <3>3, Zenon DEF TypeOK
    <3> QED BY <2>2, <3>1, <3>2, <3>4 DEF Recording
  <2> QED BY <2>1, <2>2
<1> QED BY <1>1, TracedInvariant, OnceInvariant, PTL
=============================================================================
