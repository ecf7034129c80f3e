--------------------------- MODULE Gateway_proofs ---------------------------
(***************************************************************************)
(* Proofs about Gateway for any number of gateways and branches, and any   *)
(* number of interruptions, duplicates and cancellations.                  *)
(***************************************************************************)
EXTENDS Gateway, FiniteSetTheorems, SequenceTheorems, WellFoundedInduction, TLAPS

AllArrived(g) == \A b \in expected[g] : <<g, b>> \in arrived

\* What TypeOK needs to be inductive: only tokens of expected paths arrive,
\* and a message or a recorded branch stands for a token that has arrived.
Traced ==
  /\ \A a \in arrived : a[2] \in expected[a[1]]
  /\ \A m \in Messages : pc[m] # "unsent" => <<m[1], m[2]>> \in arrived
  /\ \A g \in Gateways : \A b \in gw[g].met : <<g, b>> \in arrived

\* An interrupted, refused or duplicated handler leaves the types as they are.
LEMMA HandlerKeepsTypes ==
  ASSUME TypeOK, Traced, NEW m \in Messages, Handle(m) \/ Interrupt(m)
  PROVE  TypeOK' /\ Traced'
<1> DEFINE g == m[1]
           b == m[2]
<1> USE DEF Messages, TypeOK, Instances, Steps, Goto, Traced
<1>0. g \in Gateways /\ b \in Branches
  OBVIOUS
<1>1. CASE Validate(m)
  BY <1>0, <1>1 DEF Validate
<1>2. CASE Lookup(m)
  BY <1>0, <1>2 DEF Lookup
<1>3. CASE SaveBlank(m)
  <2>1. BlankGateway \in Instances /\ BlankGateway.met = {}
    BY DEF BlankGateway
  <2> QED BY <1>0, <1>3, <2>1 DEF SaveBlank
<1>4. CASE UpdateInstance(m)
  <2> DEFINE inst == Visited(gw[g], b)
  <2>1. CASE Exists(g)
    <3>1. /\ gw' = [gw EXCEPT ![g] = inst]
          /\ local' = [local EXCEPT ![m] = inst]
          /\ pc[m] = "update"
          /\ \E s \in {"close", "acked"} : pc' = [pc EXCEPT ![m] = s]
          /\ UNCHANGED <<expected, pi, arrived, activation, crashes, republished>>
      BY <1>4, <2>1 DEF UpdateInstance
    <3>2. /\ inst \in Instances
          /\ inst.met = gw[g].met \cup {b}
      BY <1>0 DEF Visited
    <3>3. <<g, b>> \in arrived /\ b \in expected[g]
      BY <1>0, <3>1, Zenon
    <3>4. /\ pc' \in [Messages -> Steps]
          /\ \A n \in Messages : pc'[n] # "unsent" => pc[n] # "unsent"
      BY <3>1
    <3>5. /\ gw' \in [Gateways -> Instances]
          /\ \A h \in Gateways : gw'[h].met \subseteq expected[h]
          /\ \A h \in Gateways : \A c \in gw'[h].met : <<h, c>> \in arrived
      BY <1>0, <3>1, <3>2, <3>3
    <3>6. local' \in [Messages -> Instances]
      BY <3>1, <3>2
    <3>7. \A n \in Messages : pc'[n] \in {"close", "complete", "delete", "deleted"}
                               => n[2] \in local'[n].met
      BY <3>1, <3>2
    <3> QED BY <3>1, <3>4, <3>5, <3>6, <3>7, Zenon
  <2>2. CASE ~Exists(g)
    BY <1>0, <1>4, <2>2, Zenon DEF UpdateInstance
  <2> QED BY <2>1, <2>2, Zenon
<1>5. CASE CloseGateway(m)
  BY <1>0, <1>5 DEF CloseGateway
<1>6. CASE CompleteActivity(m)
  BY <1>0, <1>6 DEF CompleteActivity
<1>7. CASE DeleteInstance(m)
  <2>1. NoGateway \in Instances /\ NoGateway.met = {}
    BY DEF NoGateway
  <2> QED BY <1>0, <1>7, <2>1 DEF DeleteInstance
<1>8. CASE Ack(m)
  BY <1>0, <1>8 DEF Ack
<1>9. CASE Interrupt(m)
  BY <1>0, <1>9, GatewayAssumption DEF Interrupt
<1> QED BY <1>1, <1>2, <1>3, <1>4, <1>5, <1>6, <1>7, <1>8, <1>9, Zenon DEF Handle

\* For all constants only expected paths whose token has arrived are recorded
\* as met (gatewayExecProcessor, gateway.go:106-236).
LEMMA TracedInvariant == Spec => [](TypeOK /\ Traced)
<1>1. Init => TypeOK /\ Traced
  BY GatewayAssumption
  DEF Init, TypeOK, Traced, Instances, Steps, NoGateway, Messages, Copies
<1>2. TypeOK /\ Traced /\ [Next]_vars => TypeOK' /\ Traced'
  <2> SUFFICES ASSUME TypeOK, Traced, [Next]_vars PROVE TypeOK' /\ Traced'
    OBVIOUS
  <2> USE DEF TypeOK, Traced, Instances, Steps
  <2>1. ASSUME NEW g \in Gateways, Diverge(g) PROVE TypeOK' /\ Traced'
    <3>1. PICK paths \in Choices[g] : expected' = [expected EXCEPT ![g] = paths]
      BY <2>1, Zenon DEF Diverge
    <3>2. paths \subseteq Branches
      BY GatewayAssumption
    <3>3. NewGateway \in Instances /\ NewGateway.met = {}
      BY DEF NewGateway
    <3>4. \A a \in arrived : a[1] # g
      BY <2>1 DEF Diverge
    <3> QED BY <2>1, <3>1, <3>2, <3>3, <3>4 DEF Diverge
  <2>2. ASSUME NEW g \in Gateways, NEW b \in Branches, Arrive(g, b)
        PROVE  TypeOK' /\ Traced'
    <3>1. activation' \in Seq(arrived')
      <4>1. arrived' = arrived \cup {<<g, b>>} /\ activation' = Append(activation, <<g, b>>)
        BY <2>2 DEF Arrive
      <4>2. activation \in Seq(arrived')
        BY <4>1
      <4> QED BY <4>1, <4>2
    <3> QED BY <2>2, <3>1 DEF Arrive
  <2>3. CASE ActivationDropped
    BY <2>3 DEF ActivationDropped
  <2>4. CASE ActivationForwarded
    <3>1. /\ activation # <<>>
          /\ activation' = Tail(activation) \/ activation' = activation
          /\ republished' \in 0 .. MaxRepublish
          /\ UNCHANGED <<expected, gw, pi, arrived, local, crashes>>
      BY <2>4, GatewayAssumption DEF ActivationForwarded
    <3>2. Head(activation) \in arrived /\ activation' \in Seq(arrived)
      <4>1. activation \in Seq(arrived)
        OBVIOUS
      <4> HIDE DEF TypeOK, Traced
      <4>2. Head(activation) \in arrived /\ Tail(activation) \in Seq(arrived)
        BY <3>1, <4>1, HeadTailProperties
      <4> QED BY <3>1, <4>1, <4>2
    <3>3. PICK g \in Gateways, b \in Branches :
            <<g, b>> \in arrived /\ g = Head(activation)[1] /\ b = Head(activation)[2]
      <4>1. ASSUME NEW a \in arrived
            PROVE  a[1] \in Gateways /\ a[2] \in Branches /\ <<a[1], a[2]>> \in arrived
        <5>1. a \in Gateways \X Branches
          OBVIOUS
        <5>2. PICK x \in Gateways, y \in Branches : a = <<x, y>>
          BY <5>1
        <5> QED BY <5>2
      <4> QED BY <3>2, <4>1, Zenon
    <3>4. PICK k \in Copies : pc' = [pc EXCEPT ![<<g, b, k>>] = "queued"]
      <4> HIDE DEF TypeOK, Traced
      <4> QED BY <2>4, <3>3, Zenon DEF ActivationForwarded
    <3>5. \A m \in Messages : pc'[m] = pc[m] \/ (m = <<g, b, k>> /\ pc'[m] = "queued")
      BY <3>4
    <3>6. pc' \in [Messages -> Steps]
      BY <3>4, Zenon
    <3>7. \A m \in Messages : pc'[m] # "unsent" => <<m[1], m[2]>> \in arrived
      <4>1. \A m \in Messages : m = <<g, b, k>> => m[1] = g /\ m[2] = b
        OBVIOUS
      <4> QED BY <3>3, <3>5, <4>1, Zenon
    <3> QED BY <3>1, <3>2, <3>5, <3>6, <3>7, Zenon
  <2>5. ASSUME NEW m \in Messages, Handle(m) \/ Interrupt(m)
        PROVE  TypeOK' /\ Traced'
    BY <2>5, HandlerKeepsTypes, Zenon
  <2>6. CASE Cancel
    BY <2>6 DEF Cancel
  <2>7. CASE UNCHANGED vars
    BY <2>7 DEF vars
  <2> QED BY <2>1, <2>2, <2>3, <2>4, <2>5, <2>6, <2>7, Zenon
          DEF Next, Activate, ActivationRefused, Terminating
<1> QED BY <1>1, <1>2, PTL DEF Spec

\* Every state has its type, for all constants: the instance of a gateway never
\* records a path it does not expect, and a handler past its UpdateObj holds an
\* instance with its own branch (gateway.go:106-180).
THEOREM TypeCorrect == Spec => []TypeOK
BY TracedInvariant, PTL

---------------------------------------------------------------------------
\* The conditions of an exclusive gateway select one path.  The engine does not
\* enforce it, and the join of an exclusive gateway does not wait.
ExclusiveConditions ==
  \A g \in Gateways : GatewayType[g] = "exclusive" =>
    \A paths \in Choices[g] : \A b, c \in paths : b = c

\* What AwaitsAllExpected needs to be inductive: a handler on its way to
\* publish the completion has seen all tokens arrive, and no gateway diverges
\* after that.
Awaited ==
  /\ published = [g \in Gateways |-> published[g]]
  /\ \A g \in Gateways : expected[g] = {} \/ expected[g] \in Choices[g]
  /\ \A m \in Messages : pc[m] \in {"close", "complete"} => AllArrived(m[1])
  /\ \A g \in Gateways : published[g] # <<>> => expected[g] # {} /\ AllArrived(g)

\* The count of gatewayExecProcessor is right: an instance whose met paths are
\* as many as the expected ones has met them all.
LEMMA SatisfiedMeansAllMet ==
  ASSUME TypeOK, Traced, Awaited, ExclusiveConditions,
         NEW m \in Messages, pc[m] = "update",
         Satisfied(m[1], Visited(gw[m[1]], m[2]))
  PROVE  gw[m[1]].met \cup {m[2]} = expected[m[1]]
<1> DEFINE g == m[1]
           b == m[2]
           met == gw[g].met \cup {b}
<1>1. g \in Gateways /\ b \in Branches
  BY DEF Messages
<1>2. <<g, b>> \in arrived /\ b \in expected[g]
  BY DEF Traced
<1>3. met \subseteq expected[g]
  BY <1>1, <1>2 DEF TypeOK
<1>4. CASE GatewayType[g] = "exclusive"
  <2>1. expected[g] \in Choices[g]
    BY <1>1, <1>2 DEF Awaited
  <2>2. \A c \in expected[g] : c = b
    BY <1>1, <1>2, <1>4, <2>1 DEF ExclusiveConditions
  <2> QED BY <1>2, <1>3, <2>2
<1>5. CASE Cardinality(met) >= Cardinality(expected[g])
  <2>1. IsFiniteSet(expected[g])
    <3>1. expected[g] \in SUBSET Branches /\ IsFiniteSet(Branches)
      BY <1>1, GatewayAssumption DEF TypeOK
    <3> QED BY <3>1, FS_Subset
  <2>2. /\ Cardinality(met) <= Cardinality(expected[g])
        /\ Cardinality(met) = Cardinality(expected[g]) => met = expected[g]
    BY <1>3, <2>1, FS_Subset
  <2>3. Cardinality(met) \in Nat /\ Cardinality(expected[g]) \in Nat
    <3>1. IsFiniteSet(met)
      BY <1>3, <2>1, FS_Subset
    <3> QED BY <2>1, <3>1, FS_CardinalityType
  <2>4. met = expected[g]
    <3> HIDE DEF met
    <3> QED BY <1>5, <2>2, <2>3
  <2> QED BY <2>4
<1>6. GatewayType[g] = "exclusive" \/ Cardinality(met) >= Cardinality(expected[g])
  BY DEF Satisfied, Visited
<1> QED BY <1>4, <1>5, <1>6

\* So the tokens it waits for have arrived.
LEMMA SatisfiedMeansAllArrived ==
  ASSUME TypeOK, Traced, Awaited, ExclusiveConditions,
         NEW m \in Messages, pc[m] = "update",
         Satisfied(m[1], Visited(gw[m[1]], m[2]))
  PROVE  AllArrived(m[1])
<1>1. gw[m[1]].met \cup {m[2]} = expected[m[1]]
  BY SatisfiedMeansAllMet
<1>2. m[1] \in Gateways /\ <<m[1], m[2]>> \in arrived
  BY DEF Messages, Traced
<1> QED BY <1>1, <1>2 DEF Traced, AllArrived

\* A step of a handler of gatewayExecProcessor keeps Awaited.
LEMMA HandlerKeepsAwaited ==
  ASSUME TypeOK, Traced, Awaited, ExclusiveConditions,
         NEW m \in Messages, Handle(m) \/ Interrupt(m)
  PROVE  Awaited'
<1> USE DEF Goto, Awaited
<1>0. /\ m[1] \in Gateways /\ pc \in [Messages -> Steps]
      /\ UNCHANGED <<expected, arrived>>
  BY DEF Messages, TypeOK, Handle, Validate, Lookup, SaveBlank, UpdateInstance,
         CloseGateway, CompleteActivity, DeleteInstance, Ack, Interrupt
<1>1. CASE CompleteActivity(m)
  <2>1. PICK v : published' = [published EXCEPT ![m[1]] = Append(@, v)]
    BY <1>1, Zenon DEF CompleteActivity
  <2>2. pc[m] = "complete" /\ pc' = [pc EXCEPT ![m] = "delete"]
    BY <1>1 DEF CompleteActivity
  <2>3. expected[m[1]] # {} /\ AllArrived(m[1])
    BY <1>0, <2>2, Zenon DEF Traced
  <2>4. \A g \in Gateways : g # m[1] => published'[g] = published[g]
    BY <2>1
  <2>5. published' = [g \in Gateways |-> published'[g]]
    BY <2>1, Zenon
  <2> QED BY <1>0, <2>2, <2>3, <2>4, <2>5 DEF AllArrived
<1>2. CASE UpdateInstance(m)
  <2>1. UNCHANGED published /\ pc[m] = "update"
    BY <1>2 DEF UpdateInstance
  <2>2. pc' = [pc EXCEPT ![m] = "close"] => AllArrived(m[1])
    <3> SUFFICES ASSUME pc' = [pc EXCEPT ![m] = "close"] PROVE AllArrived(m[1])
      OBVIOUS
    <3>1. pc'[m] = "close"
      BY <1>0
    <3>2. Satisfied(m[1], Visited(gw[m[1]], m[2]))
      BY <1>0, <1>2, <3>1 DEF UpdateInstance
    <3> QED BY <2>1, <3>2, SatisfiedMeansAllArrived
  <2>3. \/ pc' = [pc EXCEPT ![m] = "close"]
        \/ pc' = [pc EXCEPT ![m] = "acked"]
        \/ pc' = [pc EXCEPT ![m] = "queued"]
    BY <1>2 DEF UpdateInstance
  <2> QED BY <1>0, <2>1, <2>2, <2>3 DEF AllArrived
<1>3. CASE \/ Validate(m) \/ Lookup(m) \/ SaveBlank(m) \/ CloseGateway(m)
           \/ DeleteInstance(m) \/ Ack(m) \/ Interrupt(m)
  <2>1. UNCHANGED published
    BY <1>3 DEF Validate, Lookup, SaveBlank, CloseGateway, DeleteInstance, Ack, Interrupt
  <2>2. \E s \in Steps : /\ pc' = [pc EXCEPT ![m] = s]
                         /\ s \in {"close", "complete"} => pc[m] = "close"
    BY <1>3 DEF Validate, Lookup, SaveBlank, CloseGateway, DeleteInstance, Ack,
                Interrupt, Steps
  <2> QED BY <1>0, <2>1, <2>2 DEF AllArrived
<1> QED BY <1>1, <1>2, <1>3 DEF Handle

\* Every step keeps Awaited.
LEMMA AwaitedInvariant ==
  ASSUME ExclusiveConditions
  PROVE  Spec => []Awaited
<1>1. Init => Awaited
  BY DEF Init, Awaited
<1>2. TypeOK /\ Traced /\ Awaited /\ [Next]_vars => Awaited'
  <2> SUFFICES ASSUME TypeOK, Traced, Awaited, [Next]_vars PROVE Awaited'
    OBVIOUS
  <2>1. ASSUME NEW g \in Gateways, Diverge(g) PROVE Awaited'
    <3>1. PICK paths \in Choices[g] : expected' = [expected EXCEPT ![g] = paths]
      BY <2>1, Zenon DEF Diverge
    <3>2. expected[g] = {} /\ UNCHANGED <<pc, published, arrived>>
      BY <2>1 DEF Diverge
    <3>3. expected \in [Gateways -> SUBSET Branches]
      BY DEF TypeOK
    <3>4. \A m \in Messages : pc[m] # "unsent" => m[1] \in Gateways \ {g}
      BY <3>2, Zenon DEF Traced, Messages
    <3> QED BY <3>1, <3>2, <3>3, <3>4 DEF Awaited, AllArrived
  <2>2. ASSUME NEW g \in Gateways, NEW b \in Branches, Arrive(g, b) PROVE Awaited'
    BY <2>2 DEF Arrive, Awaited, AllArrived
  <2>3. CASE ActivationForwarded
    <3>1. UNCHANGED <<expected, published, arrived>>
      BY <2>3 DEF ActivationForwarded
    <3>2. pc \in [Messages -> Steps]
      BY DEF TypeOK
    <3>3. \E n : pc' = [pc EXCEPT ![n] = "queued"]
      BY <2>3, Zenon DEF ActivationForwarded
    <3>4. \A m \in Messages : pc'[m] = pc[m] \/ pc'[m] = "queued"
      BY <3>2, <3>3
    <3> QED BY <3>1, <3>4 DEF Awaited, AllArrived
  <2>4. ASSUME NEW m \in Messages, Handle(m) \/ Interrupt(m) PROVE Awaited'
    BY <2>4, HandlerKeepsAwaited
  <2>5. CASE ActivationDropped \/ Cancel \/ UNCHANGED vars
    BY <2>5 DEF ActivationDropped, Cancel, vars, Awaited, AllArrived
  <2> QED BY <2>1, <2>2, <2>3, <2>4, <2>5
          DEF Next, Activate, ActivationRefused, Terminating
<1> QED BY <1>1, <1>2, TracedInvariant, PTL DEF Spec

\* No join completes before the last token it expects has arrived, for any
\* number of gateways, branches, interruptions, duplicated activations and
\* cancellations (gatewayExecProcessor, gateway.go:106-180), if the conditions of
\* exclusive gateways select one path.
THEOREM JoinsAwaitAll ==
  ASSUME ExclusiveConditions
  PROVE  Spec => []AwaitsAllExpected
<1>1. Awaited => AwaitsAllExpected
  BY DEF Awaited, AllArrived, AwaitsAllExpected
<1> QED BY <1>1, AwaitedInvariant, PTL

---------------------------------------------------------------------------
(* The merge.                                                              *)

\* A set of naturals has a least element, ...
LEMMA LeastOf ==
  ASSUME NEW T \in SUBSET Nat, T # {}
  PROVE  \E x \in T : \A y \in T : x <= y
<1> DEFINE R == OpToRel(<, Nat)
<1>1. IsWellFoundedOn(R, Nat)
  BY NatLessThanWellFounded, Zenon
<1>2. \A x, y \in Nat : y < x => <<y, x>> \in R
  BY DEF OpToRel
<1> HIDE DEF R
<1>3. PICK x \in T : \A y \in T : ~ (<<y, x>> \in R)
  BY <1>1, WFMin, Zenon
<1>4. ASSUME NEW y \in T PROVE x <= y
  <2>1. x \in Nat /\ y \in Nat
    OBVIOUS
  <2>2. ~(y < x)
    BY <1>2, <1>3, <2>1, Zenon
  <2> QED BY <2>1, <2>2
<1> QED BY <1>4

\* ... and one that is bounded a greatest.
LEMMA GreatestOf ==
  ASSUME NEW n \in Nat, NEW W \in SUBSET (1 .. n), W # {}
  PROVE  \E i \in W : \A j \in W : j <= i
<1> DEFINE T == {n - i : i \in W}
<1>1. T \in SUBSET Nat
  <2>1. \A i \in W : n - i \in Nat
    OBVIOUS
  <2> QED BY <2>1
<1>2. T # {}
  BY Zenon
<1>3. PICK x \in T : \A y \in T : x <= y
  <2> HIDE DEF T
  <2> QED BY <1>1, <1>2, LeastOf
<1>4. PICK i \in W : x = n - i
  OBVIOUS
<1>5. ASSUME NEW j \in W PROVE j <= i
  <2>1. n - j \in T
    OBVIOUS
  <2>2. n - i <= n - j
    BY <1>3, <1>4, <2>1
  <2>3. i \in 1 .. n /\ j \in 1 .. n
    OBVIOUS
  <2> HIDE DEF T
  <2> QED BY <2>2, <2>3
<1> QED BY <1>5

\* The Vars of an instance that was saved by the divergent gateway: the variables
\* there, then those of the branches E that it expects.
FromBase(E, s) == Len(s) >= 1 /\ s[1] = "base" /\ \A i \in 2 .. Len(s) : s[i] \in E

\* They have those of every branch in S.
Includes(s, S) == \A b \in S : \E i \in 2 .. Len(s) : s[i] = b

\* Branch b changed variable k.
ChangesVar(b, k) ==
  k \in DOMAIN BranchVars[b] /\ (k \in DOMAIN Base => BranchVars[b][k] # Base[k])
MergedKeys(E) == DOMAIN Base \cup UNION {DOMAIN BranchVars[b] : b \in E}

\* A result that loses no change of a branch and has no other.
Merged(E, result) ==
  /\ DOMAIN result = MergedKeys(E)
  /\ \A k \in MergedKeys(E) :
       /\ (\A b \in E : ~ChangesVar(b, k)) => result[k] = Base[k]
       /\ (\E b \in E : ChangesVar(b, k)) =>
            \E b \in E : ChangesVar(b, k) /\ result[k] = BranchVars[b][k]

\* What mergeGatewayVars (gateway.go:181-236) makes of the Vars of an instance that
\* every branch has visited.
LEMMA MergeKeepsChanges ==
  ASSUME NEW E \in SUBSET Branches,
         NEW s \in Seq(Branches \cup {"base"}), FromBase(E, s), Includes(s, E)
  PROVE  Merged(E, mergeGatewayVars(s))
<1> DEFINE Val(i) == VarsOf(s[i])
           Changed(i, k) == /\ k \in DOMAIN Val(i)
                            /\ \/ k \notin DOMAIN Val(1)
                               \/ Val(1)[k] # Val(i)[k]
           Writers(k) == {i \in 2 .. Len(s) : Changed(i, k)}
           Latest(k) == CHOOSE i \in Writers(k) : \A j \in Writers(k) : j <= i
           Keys == UNION {DOMAIN Val(i) : i \in 1 .. Len(s)}
           result == [k \in Keys |-> IF Writers(k) = {} THEN Val(1)[k] ELSE Val(Latest(k))[k]]
<1>1. mergeGatewayVars(s) = result
  BY DEF mergeGatewayVars
<1>2. Len(s) \in Nat /\ Len(s) >= 1 /\ Val(1) = Base
  BY DEF FromBase, VarsOf
<1>3. \A i \in 2 .. Len(s) : s[i] \in E /\ Val(i) = BranchVars[s[i]]
  BY GatewayAssumption DEF FromBase, VarsOf
<1>4. Keys = MergedKeys(E)
  <2>1. ASSUME NEW k \in Keys PROVE k \in MergedKeys(E)
    <3>1. PICK i \in 1 .. Len(s) : k \in DOMAIN Val(i)
      OBVIOUS
    <3>2. CASE i = 1
      BY <1>2, <3>1, <3>2 DEF MergedKeys
    <3>3. CASE i \in 2 .. Len(s)
      BY <1>3, <3>1, <3>3 DEF MergedKeys
    <3> QED BY <1>2, <3>2, <3>3
  <2>2. ASSUME NEW k \in MergedKeys(E) PROVE k \in Keys
    <3>1. CASE k \in DOMAIN Base
      <4>1. 1 \in 1 .. Len(s) /\ k \in DOMAIN Val(1)
        BY <1>2, <3>1
      <4> QED BY <4>1
    <3>2. CASE k \notin DOMAIN Base
      <4>1. PICK b \in E : k \in DOMAIN BranchVars[b]
        BY <2>2, <3>2 DEF MergedKeys
      <4>2. PICK i \in 2 .. Len(s) : s[i] = b
        BY DEF Includes
      <4>3. i \in 1 .. Len(s) /\ k \in DOMAIN Val(i)
        BY <1>2, <1>3, <4>1, <4>2
      <4> QED BY <4>3
    <3> QED BY <3>1, <3>2
  <2> QED BY <2>1, <2>2
<1>5. ASSUME NEW i \in 2 .. Len(s), NEW k PROVE Changed(i, k) <=> ChangesVar(s[i], k)
  BY <1>2, <1>3 DEF ChangesVar
<1>6. ASSUME NEW k \in Keys, \A b \in E : ~ChangesVar(b, k)
      PROVE  result[k] = Base[k]
  <2>1. Writers(k) = {}
    BY <1>3, <1>5, <1>6
  <2> QED BY <1>2, <2>1
<1>7. ASSUME NEW k \in Keys, NEW b \in E, ChangesVar(b, k)
      PROVE  \E c \in E : ChangesVar(c, k) /\ result[k] = BranchVars[c][k]
  <2>1. PICK i \in 2 .. Len(s) : s[i] = b
    BY DEF Includes
  <2>2. i \in Writers(k)
    BY <1>5, <1>7, <2>1
  <2>3. Writers(k) \in SUBSET (1 .. Len(s)) /\ Writers(k) # {}
    BY <1>2, <2>2
  <2>4. \E j \in Writers(k) : \A h \in Writers(k) : h <= j
    <3> HIDE DEF Writers
    <3> QED BY <1>2, <2>3, GreatestOf, Zenon
  <2>5. Latest(k) \in Writers(k)
    <3> HIDE DEF Writers
    <3> QED BY <2>4
  <2>6. result[k] = Val(Latest(k))[k]
    BY <2>3
  <2>7. Latest(k) \in 2 .. Len(s) /\ ChangesVar(s[Latest(k)], k)
    BY <1>5, <2>5, Zenon
  <2> QED BY <1>3, <2>6, <2>7, Zenon
<1> HIDE DEF result, Keys
<1>8. DOMAIN result = Keys
  BY DEF result
<1> QED BY <1>1, <1>4, <1>6, <1>7, <1>8 DEF Merged

\* What MergesEveryChange needs to be inductive.  Until the first completion the
\* instance is the one that the divergent gateway saved, every branch recorded in it
\* has left its variables there, and a handler on its way to complete has them all.
Results == {mergeGatewayVars(s) : s \in Seq(Branches \cup {"base"})}

Kept ==
  /\ published \in [Gateways -> Seq(Results)]
  /\ \A g \in Gateways : published[g] = <<>> /\ expected[g] # {} =>
       Exists(g) /\ FromBase(expected[g], gw[g].vars) /\ Includes(gw[g].vars, gw[g].met)
  /\ \A m \in Messages : pc[m] \in {"saveBlank", "delete"} => published[m[1]] # <<>>
  /\ \A m \in Messages : pc[m] \in {"close", "complete"} /\ published[m[1]] = <<>> =>
       FromBase(expected[m[1]], local[m].vars) /\ Includes(local[m].vars, expected[m[1]])
  /\ \A g \in Gateways : published[g] # <<>> =>
       expected[g] # {} /\ Merged(expected[g], published[g][1])

\* The Vars of an instance after the visit of a branch.
LEMMA VisitKeepsVars ==
  ASSUME NEW E \in SUBSET Branches, NEW b \in E,
         NEW s \in Seq(Branches \cup {"base"}), FromBase(E, s), NEW S, Includes(s, S)
  PROVE  FromBase(E, Append(s, b)) /\ Includes(Append(s, b), S \cup {b})
<1> DEFINE t == Append(s, b)
<1>1. /\ Len(s) \in Nat /\ Len(s) >= 1
      /\ t \in Seq(Branches \cup {"base"})
      /\ Len(t) = Len(s) + 1
      /\ \A i \in 1 .. Len(s) : t[i] = s[i]
      /\ t[Len(s) + 1] = b
  BY AppendProperties DEF FromBase
<1> HIDE DEF t
<1>2. FromBase(E, t)
  <2>1. t[1] = "base" /\ Len(t) >= 1
    BY <1>1 DEF FromBase
  <2>2. ASSUME NEW i \in 2 .. Len(t) PROVE t[i] \in E
    <3>1. i \in 2 .. Len(s) \/ i = Len(s) + 1
      BY <1>1
    <3> QED BY <1>1, <3>1 DEF FromBase
  <2> QED BY <2>1, <2>2 DEF FromBase
<1>3. ASSUME NEW c \in S \cup {b} PROVE \E i \in 2 .. Len(t) : t[i] = c
  <2>1. CASE c \in S
    <3>1. PICK i \in 2 .. Len(s) : s[i] = c
      BY <2>1 DEF Includes
    <3> QED BY <1>1, <3>1
  <2>2. CASE c = b
    <3>1. Len(s) + 1 \in 2 .. Len(t)
      BY <1>1
    <3> QED BY <1>1, <2>2, <3>1
  <2> QED BY <2>1, <2>2
<1> QED BY <1>2, <1>3 DEF Includes, t

\* A step that leaves the instances of gateways without a completion and what the
\* handlers hold, and brings no handler to its completion.
LEMMA KeptFrame ==
  ASSUME Kept, UNCHANGED <<expected, local, published>>,
         \A g \in Gateways : published[g] = <<>> => gw'[g] = gw[g],
         \A n \in Messages : pc'[n] \in {"saveBlank", "delete"} => published[n[1]] # <<>>,
         \A n \in Messages : pc'[n] \in {"close", "complete"} => pc[n] \in {"close", "complete"}
  PROVE  Kept'
<1>1. \A g \in Gateways : published[g] = <<>> => (Exists(g)' <=> Exists(g))
  BY DEF Exists
<1>2. (\A g \in Gateways : published[g] = <<>> /\ expected[g] # {} =>
         Exists(g) /\ FromBase(expected[g], gw[g].vars) /\ Includes(gw[g].vars, gw[g].met))'
  BY <1>1 DEF Kept
<1>3. (\A m \in Messages : pc[m] \in {"close", "complete"} /\ published[m[1]] = <<>> =>
         FromBase(expected[m[1]], local[m].vars) /\ Includes(local[m].vars, expected[m[1]]))'
  BY DEF Kept
<1> QED BY <1>2, <1>3 DEF Kept

\* A step of a handler of gatewayExecProcessor keeps Kept.
LEMMA HandlerKeepsKept ==
  ASSUME TypeOK, Traced, Awaited, Kept, ExclusiveConditions,
         NEW m \in Messages, Handle(m) \/ Interrupt(m)
  PROVE  Kept'
<1> DEFINE g == m[1]
           b == m[2]
<1> USE DEF Goto
<1>0. /\ g \in Gateways /\ b \in Branches
      /\ pc \in [Messages -> Steps] /\ local \in [Messages -> Instances]
      /\ gw \in [Gateways -> Instances]
      /\ UNCHANGED expected
      /\ \A n \in Messages : n[1] \in Gateways
  BY Zenon DEF Messages, TypeOK, Handle, Validate, Lookup, SaveBlank, UpdateInstance,
         CloseGateway, CompleteActivity, DeleteInstance, Ack, Interrupt
<1>1. /\ expected[g] \subseteq Branches
      /\ pc[m] # "unsent" => b \in expected[g]
  BY <1>0, Zenon DEF TypeOK, Traced
<1>2. CASE CompleteActivity(m)
  <2> DEFINE v == mergeGatewayVars(local[m].vars)
  <2>1. /\ pc[m] = "complete" /\ pc' = [pc EXCEPT ![m] = "delete"]
        /\ published' = [published EXCEPT ![g] = Append(@, v)]
        /\ UNCHANGED <<gw, local>>
    BY <1>2 DEF CompleteActivity
  <2>2. local[m].vars \in Seq(Branches \cup {"base"}) /\ v \in Results
    BY <1>0, Zenon DEF Instances, Results
  <2>3. published[g] \in Seq(Results) /\ expected[g] # {}
    BY <1>0, <1>1, <2>1 DEF Kept
  <2>4. published[g] = <<>> => Merged(expected[g], v)
    BY <1>0, <1>1, <2>1, <2>2, MergeKeepsChanges, Zenon DEF Kept
  <2> HIDE DEF v
  <2>5. /\ published'[g] \in Seq(Results) /\ published'[g] # <<>>
        /\ published[g] = <<>> => published'[g][1] = v
        /\ published[g] # <<>> => published'[g][1] = published[g][1]
    <3>1. published'[g] = Append(published[g], v)
      BY <1>0, <2>1 DEF Kept
    <3>2. Len(published[g]) \in Nat /\ (Len(published[g]) = 0 <=> published[g] = <<>>)
      BY <2>3
    <3> QED BY <2>2, <2>3, <3>1, <3>2, AppendProperties
  <2>6. published' \in [Gateways -> Seq(Results)]
    BY <1>0, <2>1, <2>5 DEF Kept
  <2>7. \A h \in Gateways : h # g => published'[h] = published[h]
    BY <2>1 DEF Kept
  <2>8. Merged(expected[g], published'[g][1])
    BY <1>0, <2>4, <2>5 DEF Kept
  <2>9. \A h \in Gateways : published'[h] # <<>> =>
          expected[h] # {} /\ Merged(expected[h], published'[h][1])
    BY <2>3, <2>7, <2>8 DEF Kept
  <2>10. (\A h \in Gateways : published[h] # <<>> =>
           expected[h] # {} /\ Merged(expected[h], published[h][1]))'
    BY <1>0, <2>9
  <2>11. \A n \in Messages : n # m => pc'[n] = pc[n]
    BY <1>0, <2>1
  <2>12. pc'[m] = "delete"
    BY <1>0, <2>1
  <2>13. \A n \in Messages : published'[n[1]] = <<>> => published[n[1]] = <<>>
    BY <1>0, <2>5, <2>7
  <2>14. \A h \in Gateways : published'[h] = <<>> => published[h] = <<>>
    BY <2>5, <2>7
  <2> QED BY <1>0, <2>1, <2>5, <2>6, <2>10, <2>11, <2>12, <2>13, <2>14, Zenon
          DEF Kept, Exists
<1>3. CASE UpdateInstance(m) /\ Exists(g)
  <2> DEFINE inst == Visited(gw[g], b)
  <2>1. /\ gw' = [gw EXCEPT ![g] = inst]
        /\ local' = [local EXCEPT ![m] = inst]
        /\ pc[m] = "update"
        /\ pc' = [pc EXCEPT ![m] = IF Satisfied(g, inst) THEN "close" ELSE "acked"]
        /\ UNCHANGED published
    BY <1>3 DEF UpdateInstance
  <2>2. /\ inst.present = gw[g].present
        /\ inst.met = gw[g].met \cup {b}
        /\ inst.vars = Append(gw[g].vars, b)
    BY DEF Visited
  <2>3. gw[g].vars \in Seq(Branches \cup {"base"})
    BY <1>0 DEF Instances
  <2>4. Satisfied(g, inst) => inst.met = expected[g]
    BY <2>1, <2>2, SatisfiedMeansAllMet
  <2> HIDE DEF inst
  <2>5. published[g] = <<>> => FromBase(expected[g], inst.vars) /\ Includes(inst.vars, inst.met)
    <3> SUFFICES ASSUME published[g] = <<>>
                 PROVE  FromBase(expected[g], inst.vars) /\ Includes(inst.vars, inst.met)
      OBVIOUS
    <3>1. b \in expected[g] /\ expected[g] \in SUBSET Branches
      BY <1>1, <2>1
    <3>2. FromBase(expected[g], gw[g].vars) /\ Includes(gw[g].vars, gw[g].met)
      BY <1>0, <3>1 DEF Kept
    <3>3. /\ FromBase(expected[g], Append(gw[g].vars, b))
          /\ Includes(Append(gw[g].vars, b), gw[g].met \cup {b})
      BY <2>3, <3>1, <3>2, VisitKeepsVars, Zenon
    <3> QED BY <2>2, <3>3
  <2>6. /\ gw'[g] = inst /\ \A h \in Gateways : h # g => gw'[h] = gw[h]
        /\ local'[m] = inst /\ \A n \in Messages : n # m => local'[n] = local[n] /\ pc'[n] = pc[n]
        /\ pc'[m] \in {"close", "acked"} /\ (pc'[m] = "close" => inst.met = expected[g])
    BY <1>0, <2>1, <2>4
  <2>7. \A h \in Gateways : published[h] = <<>> /\ expected[h] # {} =>
          Exists(h)' /\ FromBase(expected[h], gw'[h].vars) /\ Includes(gw'[h].vars, gw'[h].met)
    <3> SUFFICES ASSUME NEW h \in Gateways, published[h] = <<>>, expected[h] # {}
                 PROVE  /\ gw'[h].present = "yes"
                        /\ FromBase(expected[h], gw'[h].vars) /\ Includes(gw'[h].vars, gw'[h].met)
      BY DEF Exists
    <3>1. CASE h = g
      BY <1>3, <2>2, <2>5, <2>6, <3>1, Zenon DEF Exists
    <3>2. CASE h # g
      BY <2>6, <3>2 DEF Kept, Exists
    <3> QED BY <3>1, <3>2
  <2>8. \A n \in Messages : pc'[n] \in {"saveBlank", "delete"} => published[n[1]] # <<>>
    BY <2>6 DEF Kept
  <2>9. \A n \in Messages : pc'[n] \in {"close", "complete"} /\ published[n[1]] = <<>> =>
          FromBase(expected[n[1]], local'[n].vars) /\ Includes(local'[n].vars, expected[n[1]])
    BY <2>5, <2>6 DEF Kept
  <2> QED BY <1>0, <2>1, <2>7, <2>8, <2>9, Zenon DEF Kept
<1>4. CASE SaveBlank(m)
  <2>1. /\ pc[m] = "saveBlank" /\ pc' = [pc EXCEPT ![m] = "update"]
        /\ \A h \in Gateways : h # g => gw'[h] = gw[h]
        /\ UNCHANGED <<local, published>>
    BY <1>0, <1>4 DEF SaveBlank
  <2>2. published[g] # <<>>
    BY <2>1 DEF Kept
  <2>3. \A n \in Messages : pc'[n] # "update" => pc'[n] = pc[n]
    BY <1>0, <2>1
  <2>4. \A n \in Messages : pc'[n] \in {"saveBlank", "delete"} => published[n[1]] # <<>>
    BY <2>3 DEF Kept
  <2> QED BY <1>0, <2>1, <2>2, <2>3, <2>4, KeptFrame
<1>5. CASE DeleteInstance(m)
  <2>1. /\ pc[m] = "delete" /\ pc' = [pc EXCEPT ![m] = "deleted"]
        /\ \A h \in Gateways : h # g => gw'[h] = gw[h]
        /\ UNCHANGED <<local, published>>
    BY <1>0, <1>5 DEF DeleteInstance
  <2>2. published[g] # <<>>
    BY <2>1 DEF Kept
  <2>3. \A n \in Messages : pc'[n] # "deleted" => pc'[n] = pc[n]
    BY <1>0, <2>1
  <2>4. \A n \in Messages : pc'[n] \in {"saveBlank", "delete"} => published[n[1]] # <<>>
    BY <2>3 DEF Kept
  <2> QED BY <1>0, <2>1, <2>2, <2>3, <2>4, KeptFrame
<1>6. CASE Lookup(m)
  <2>1. /\ pc[m] = "lookup" /\ UNCHANGED <<gw, local, published>>
        /\ pc' = [pc EXCEPT ![m] = IF Exists(g) THEN "update" ELSE "saveBlank"]
    BY <1>6 DEF Lookup
  <2>2. published[g] = <<>> => Exists(g)
    BY <1>0, <1>1, <2>1 DEF Kept
  <2>3. /\ \A n \in Messages : n # m => pc'[n] = pc[n]
        /\ pc'[m] = "update" \/ (pc'[m] = "saveBlank" /\ published[g] # <<>>)
    BY <1>0, <2>1, <2>2
  <2>4. \A n \in Messages : pc'[n] \in {"saveBlank", "delete"} => published[n[1]] # <<>>
    BY <2>3 DEF Kept
  <2> QED BY <1>0, <2>1, <2>3, <2>4, KeptFrame
<1>7. CASE \/ Validate(m) \/ CloseGateway(m) \/ Ack(m) \/ Interrupt(m)
           \/ UpdateInstance(m) /\ ~Exists(g)
  <2>1. UNCHANGED <<gw, local, published>>
    BY <1>7 DEF Validate, CloseGateway, Ack, Interrupt, UpdateInstance
  <2>2. \E s \in Steps : /\ pc' = [pc EXCEPT ![m] = s]
                         /\ s \notin {"saveBlank", "delete"}
                         /\ s \in {"close", "complete"} => pc[m] = "close"
    BY <1>7 DEF Validate, CloseGateway, Ack, Interrupt, UpdateInstance, Steps
  <2>3. \A n \in Messages : /\ pc'[n] \in {"saveBlank", "delete"} => pc[n] = pc'[n]
                            /\ pc'[n] \in {"close", "complete"} => pc[n] \in {"close", "complete"}
    BY <1>0, <2>2
  <2>4. \A n \in Messages : pc'[n] \in {"saveBlank", "delete"} => published[n[1]] # <<>>
    BY <2>3 DEF Kept
  <2> QED BY <1>0, <2>1, <2>3, <2>4, KeptFrame
<1> QED BY <1>2, <1>3, <1>4, <1>5, <1>6, <1>7 DEF Handle

\* Every step keeps Kept.
LEMMA KeptInvariant ==
  ASSUME ExclusiveConditions
  PROVE  Spec => []Kept
<1>1. Init => Kept
  BY DEF Init, Kept
<1>2. TypeOK /\ Traced /\ Awaited /\ Kept /\ [Next]_vars => Kept'
  <2> SUFFICES ASSUME TypeOK, Traced, Awaited, Kept, [Next]_vars PROVE Kept'
    OBVIOUS
  <2>1. ASSUME NEW g \in Gateways, Diverge(g) PROVE Kept'
    <3>1. PICK paths \in Choices[g] : expected' = [expected EXCEPT ![g] = paths]
      BY <2>1, Zenon DEF Diverge
    <3>2. /\ expected[g] = {} /\ gw' = [gw EXCEPT ![g] = NewGateway]
          /\ UNCHANGED <<pc, local, published>>
      BY <2>1 DEF Diverge
    <3>3. \A n \in Messages : pc[n] # "unsent" => n[1] \in Gateways \ {g}
      BY <3>2, Zenon DEF Traced, Messages
    <3>4. /\ \A h \in Gateways \ {g} : expected'[h] = expected[h] /\ gw'[h] = gw[h]
          /\ gw'[g] = NewGateway /\ published[g] = <<>>
      BY <3>1, <3>2 DEF TypeOK, Kept
    <3>5. FromBase(expected'[g], NewGateway.vars) /\ Includes(NewGateway.vars, NewGateway.met)
      <4>1. NewGateway.vars = <<"base">> /\ NewGateway.met = {}
        BY DEF NewGateway
      <4>2. Len(<<"base">>) = 1 /\ <<"base">>[1] = "base"
        OBVIOUS
      <4> QED BY <4>1, <4>2 DEF FromBase, Includes
    <3>6. NewGateway.present = "yes"
      BY DEF NewGateway
    <3>7. (\A h \in Gateways : published[h] = <<>> /\ expected[h] # {} =>
            Exists(h) /\ FromBase(expected[h], gw[h].vars) /\ Includes(gw[h].vars, gw[h].met))'
      BY <3>2, <3>4, <3>5, <3>6 DEF Kept, Exists
    <3>8. (\A n \in Messages : pc[n] \in {"close", "complete"} /\ published[n[1]] = <<>> =>
            FromBase(expected[n[1]], local[n].vars) /\ Includes(local[n].vars, expected[n[1]]))'
      BY <3>2, <3>3, <3>4 DEF Kept
    <3>9. (\A h \in Gateways : published[h] # <<>> =>
           expected[h] # {} /\ Merged(expected[h], published[h][1]))'
      BY <3>2, <3>4 DEF Kept
    <3> QED BY <3>2, <3>7, <3>8, <3>9 DEF Kept
  <2>2. ASSUME NEW g \in Gateways, NEW b \in Branches, Arrive(g, b) PROVE Kept'
    <3>1. UNCHANGED <<expected, pc, published, gw, local>>
      BY <2>2 DEF Arrive
    <3>2. \A n \in Messages : pc'[n] \in {"saveBlank", "delete"} => published[n[1]] # <<>>
      BY <3>1 DEF Kept
    <3> QED BY <3>1, <3>2, KeptFrame
  <2>3. CASE ActivationForwarded
    <3>1. UNCHANGED <<expected, published, gw, local>>
      BY <2>3 DEF ActivationForwarded
    <3>2. pc \in [Messages -> Steps]
      BY DEF TypeOK
    <3>3. \E n : pc' = [pc EXCEPT ![n] = "queued"]
      BY <2>3, Zenon DEF ActivationForwarded
    <3>4. \A m \in Messages : pc'[m] = pc[m] \/ pc'[m] = "queued"
      BY <3>2, <3>3
    <3>5. \A n \in Messages : pc'[n] \in {"saveBlank", "delete"} => published[n[1]] # <<>>
      BY <3>4, Zenon DEF Kept
    <3> QED BY <3>1, <3>4, <3>5, KeptFrame
  <2>4. ASSUME NEW m \in Messages, Handle(m) \/ Interrupt(m) PROVE Kept'
    BY <2>4, HandlerKeepsKept
  <2>5. CASE ActivationDropped \/ Cancel \/ UNCHANGED vars
    <3>1. UNCHANGED <<expected, pc, published, gw, local>>
      BY <2>5 DEF ActivationDropped, Cancel, vars
    <3>2. \A n \in Messages : pc'[n] \in {"saveBlank", "delete"} => published[n[1]] # <<>>
      BY <3>1 DEF Kept
    <3> QED BY <3>1, <3>2, KeptFrame
  <2> QED BY <2>1, <2>2, <2>3, <2>4, <2>5
          DEF Next, Activate, ActivationRefused, Terminating
<1> QED BY <1>1, <1>2, TracedInvariant, AwaitedInvariant, PTL DEF Spec

\* The first completion of a join has every change that a branch made and no other,
\* for any number of branches, variables, interruptions, duplicates and cancellations
\* (mergeGatewayVars, gateway.go:181-236), if the conditions of exclusive gateways
\* select one path.
THEOREM FirstMergeIsRight ==
  ASSUME ExclusiveConditions
  PROVE  Spec => []MergesEveryChange
<1>1. Kept => MergesEveryChange
  <2> SUFFICES ASSUME Kept, NEW g \in Gateways, published[g] # <<>>
               PROVE  Merged(expected[g], published[g][1])
    BY DEF MergesEveryChange, Merged, MergedKeys, ChangesVar
  <2> QED BY DEF Kept
<1> QED BY <1>1, KeptInvariant, PTL
=============================================================================
