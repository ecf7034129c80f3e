------------------------------ MODULE Gateway ------------------------------
(***************************************************************************)
(* Convergent gateways: internal/server/workflow/gateway.go and the part   *)
(* of Engine.traverse that opens a gateway instance.                       *)
(*                                                                         *)
(* A divergent gateway with a reciprocal saves a gateway instance in the   *)
(* WfGateway bucket and sends one token down each path whose condition     *)
(* holds.  A token that reaches the convergent gateway is an activation    *)
(* message; the activation consumer has one message in flight at a time    *)
(* (max_ack_pending 1) and forwards it to the execute (or re-enter)        *)
(* consumers, which run gatewayExecProcessor concurrently: it records the  *)
(* branch in the instance, and the branch that completes the expected set  *)
(* merges the variables and completes the gateway.                         *)
(*                                                                         *)
(* Delivery is at least once.  A handler that stops half way (a crash, a   *)
(* lost acknowledgement, a failed call) leaves what it has done and its    *)
(* message is delivered again.                                             *)
(***************************************************************************)
EXTENDS Naturals, Sequences, FiniteSets

CONSTANTS Gateways,      \* gateway instances
          Branches,      \* sequence flows leaving a divergent gateway
          GatewayType,   \* exclusive, inclusive or parallel, for each gateway
          Choices,       \* sets of paths the conditions of a gateway may select
          Base,          \* variables at the divergent gateway
          BranchVars,    \* variables each branch carries to the join
          MaxCrashes,    \* bound: gateway handlers interrupted
          MaxRepublish,  \* bound: activations redelivered after publishing
          MayCancel      \* whether the process instance may be cancelled

ASSUME GatewayAssumption ==
  /\ IsFiniteSet(Branches)
  /\ GatewayType \in [Gateways -> {"exclusive", "inclusive", "parallel"}]
  /\ Choices \in [Gateways -> SUBSET ((SUBSET Branches) \ {{}})]
  /\ "base" \notin Branches
  /\ MaxCrashes \in Nat /\ MaxRepublish \in Nat
  /\ MayCancel \in BOOLEAN

VARIABLES
  expected,    \* ExpectedPaths of each gateway instance, empty until it diverges
  gw,          \* WfGateway bucket: MetExpectations and Vars of each instance
  pi,          \* the process instance record: live, gone, or a ghost of itself
  arrived,     \* tokens that have reached their convergent gateway
  activation,  \* GatewayTaskActivate messages, in order
  pc,          \* next step of each GatewayTaskExecute / ReEnter message
  local,       \* the instance as each handler left it in its UpdateObj
  published,   \* variables of each ActivityComplete sent for a gateway
  crashes, republished

vars == <<expected, gw, pi, arrived, activation, pc, local, published,
          crashes, republished>>

\* A GatewayTaskExecute message: the gateway, the branch, and which copy.
Copies == 1 .. MaxRepublish + 1
Messages == Gateways \X Branches \X Copies

NoGateway == [present |-> "no", met |-> {}, vars |-> <<>>]
BlankGateway == [present |-> "yes", met |-> {}, vars |-> <<>>]
NewGateway == [present |-> "yes", met |-> {}, vars |-> <<"base">>]

Exists(g) == gw[g].present = "yes"

Init ==
  /\ expected = [g \in Gateways |-> {}]
  /\ gw = [g \in Gateways |-> NoGateway]
  /\ pi = "live"
  /\ arrived = {}
  /\ activation = <<>>
  /\ pc = [m \in Messages |-> "unsent"]
  /\ local = [m \in Messages |-> NoGateway]
  /\ published = [g \in Gateways |-> <<>>]
  /\ crashes = 0
  /\ republished = 0

---------------------------------------------------------------------------
(* mergeGatewayVars.  The first element of Vars is the set of variables    *)
(* the branches started from; a branch overrides the variables it changed. *)
VarsOf(x) == IF x = "base" THEN Base ELSE BranchVars[x]

MutMergeAll(s) ==
  LET Val(i) == VarsOf(s[i])
      Has(i, k) == k \in DOMAIN Val(i)
      Last(k) == CHOOSE i \in 1 .. Len(s) :
                   Has(i, k) /\ \A j \in i + 1 .. Len(s) : ~Has(j, k)
  IN [k \in UNION {DOMAIN Val(i) : i \in 1 .. Len(s)} |-> Val(Last(k))[k]]

mergeGatewayVars(s) ==
  LET Val(i) == VarsOf(s[i])
      Changed(i, k) == /\ k \in DOMAIN Val(i)
                       /\ \/ k \notin DOMAIN Val(1)
                          \/ Val(1)[k] # Val(i)[k]
      Writers(k) == {i \in 2 .. Len(s) : Changed(i, k)}
      Last(k) == CHOOSE i \in Writers(k) : \A j \in Writers(k) : j <= i
  IN [k \in UNION {DOMAIN Val(i) : i \in 1 .. Len(s)} |->
        IF Writers(k) = {} THEN Val(1)[k] ELSE Val(Last(k))[k]]

\* The test that completes a join: enough of the expected paths are met.
MutJoinsEarly(g, inst) ==
  \/ GatewayType[g] = "exclusive"
  \/ Cardinality(inst.met) + 1 >= Cardinality(expected[g])

MutCountsVisits(g, inst) ==
  \/ GatewayType[g] = "exclusive"
  \/ Len(inst.vars) > Cardinality(expected[g])

Satisfied(g, inst) ==
  \/ GatewayType[g] = "exclusive"
  \/ Cardinality(inst.met) >= Cardinality(expected[g])

---------------------------------------------------------------------------
\* traverse from a divergent gateway: SaveObj of the new instance.  The
\* conditions pick the paths, whatever the type of the gateway.
Diverge(g) ==
  /\ pi = "live"
  /\ expected[g] = {}
  /\ \E paths \in Choices[g] : expected' = [expected EXCEPT ![g] = paths]
  /\ gw' = [gw EXCEPT ![g] = NewGateway]
  /\ UNCHANGED <<pi, arrived, activation, pc, local, published, crashes,
                 republished>>

\* A token reaches the convergent gateway: activityStartProcessor publishes
\* GatewayTaskActivate.  It does nothing for a process that is gone.
Arrive(g, b) ==
  /\ pi = "live"
  /\ b \in expected[g]
  /\ <<g, b>> \notin arrived
  /\ arrived' = arrived \cup {<<g, b>>}
  /\ activation' = Append(activation, <<g, b>>)
  /\ UNCHANGED <<expected, gw, pi, pc, local, published, crashes, republished>>

\* processGatewayActivation on the one message in flight.  It is dropped when
\* the process is gone, forwarded when the instance exists (and possibly
\* delivered again), and negatively acknowledged, to be delivered again at
\* once, when the instance is missing.
ActivationDropped ==
  /\ activation # <<>>
  /\ pi # "live"
  /\ activation' = Tail(activation)
  /\ UNCHANGED <<expected, gw, pi, arrived, pc, local, published, crashes,
                 republished>>

ActivationForwarded ==
  /\ activation # <<>>
  /\ pi = "live"
  /\ LET g == Head(activation)[1]
         b == Head(activation)[2]
     IN /\ Exists(g)
        /\ \E k \in Copies :
             /\ pc[<<g, b, k>>] = "unsent"
             /\ pc' = [pc EXCEPT ![<<g, b, k>>] = "queued"]
  /\ \/ /\ activation' = Tail(activation)
        /\ UNCHANGED republished
     \/ /\ republished < MaxRepublish
        /\ republished' = republished + 1
        /\ UNCHANGED activation
  /\ UNCHANGED <<expected, gw, pi, arrived, local, published, crashes>>

ActivationRefused ==
  /\ activation # <<>>
  /\ pi = "live"
  /\ ~Exists(Head(activation)[1])
  /\ UNCHANGED vars

Activate == ActivationDropped \/ ActivationForwarded \/ ActivationRefused

---------------------------------------------------------------------------
(* gatewayExecProcessor and completeGateway, one step per call that reads  *)
(* or changes shared state.                                                *)
Goto(m, step) == pc' = [pc EXCEPT ![m] = step]

\* hasValidProcess: without a process the message is acknowledged.
Validate(m) ==
  /\ pc[m] = "queued"
  /\ Goto(m, IF pi = "live" THEN "lookup" ELSE "acked")
  /\ UNCHANGED <<expected, gw, pi, arrived, activation, local, published,
                 crashes, republished>>

\* UpdateObj looks the instance up, and saves a blank one if there is none.
Lookup(m) ==
  /\ pc[m] = "lookup"
  /\ Goto(m, IF Exists(m[1]) THEN "update" ELSE "saveBlank")
  /\ UNCHANGED <<expected, gw, pi, arrived, activation, local, published,
                 crashes, republished>>

SaveBlank(m) ==
  /\ pc[m] = "saveBlank"
  /\ gw' = [gw EXCEPT ![m[1]] = BlankGateway]
  /\ Goto(m, "update")
  /\ UNCHANGED <<expected, pi, arrived, activation, local, published, crashes,
                 republished>>

\* The function given to UpdateObj: MetExpectations[route] is set and the
\* branch's variables are appended.
Visited(inst, b) ==
  [present |-> inst.present, met |-> inst.met \cup {b}, vars |-> Append(inst.vars, b)]

\* updateKV, atomic by its revision check, applies it.  The handler goes on
\* with its own version of the instance.  A missing instance is an error: the
\* message is delivered again.
MutUpdateLosesRoute(m) ==
  LET g == m[1]
      b == m[2]
      inst == [gw[g] EXCEPT !.met = {b}, !.vars = Append(@, b)]
  IN /\ pc[m] = "update"
     /\ Exists(g)
     /\ gw' = [gw EXCEPT ![g] = inst]
     /\ local' = [local EXCEPT ![m] = inst]
     /\ Goto(m, IF Satisfied(g, inst) THEN "close" ELSE "acked")
     /\ UNCHANGED <<expected, pi, arrived, activation, published, crashes,
                    republished>>

UpdateInstance(m) ==
  LET g == m[1]
      b == m[2]
      inst == Visited(gw[g], b)
  IN /\ pc[m] = "update"
     /\ \/ /\ Exists(g)
           /\ gw' = [gw EXCEPT ![g] = inst]
           /\ local' = [local EXCEPT ![m] = inst]
           /\ Goto(m, IF Satisfied(g, inst) THEN "close" ELSE "acked")
        \/ /\ ~Exists(g)
           /\ Goto(m, "queued")
           /\ UNCHANGED <<gw, local>>
     /\ UNCHANGED <<expected, pi, arrived, activation, published, crashes,
                    republished>>

\* completeGateway records the gateway in the process instance; UpdateObj
\* creates the record anew when it has been deleted.
CloseGateway(m) ==
  /\ pc[m] = "close"
  /\ pi' = IF pi = "live" THEN "live" ELSE "ghost"
  /\ Goto(m, "complete")
  /\ UNCHANGED <<expected, gw, arrived, activation, local, published, crashes,
                 republished>>

\* completeActivity: ActivityComplete with the merged variables.
CompleteActivity(m) ==
  /\ pc[m] = "complete"
  /\ published' = [published EXCEPT ![m[1]] =
                     Append(@, mergeGatewayVars(local[m].vars))]
  /\ Goto(m, "delete")
  /\ UNCHANGED <<expected, gw, pi, arrived, activation, local, crashes,
                 republished>>

DeleteInstance(m) ==
  /\ pc[m] = "delete"
  /\ gw' = [gw EXCEPT ![m[1]] = NoGateway]
  /\ Goto(m, "deleted")
  /\ UNCHANGED <<expected, pi, arrived, activation, local, published, crashes,
                 republished>>

Ack(m) ==
  /\ pc[m] = "deleted"
  /\ Goto(m, "acked")
  /\ UNCHANGED <<expected, gw, pi, arrived, activation, local, published,
                 crashes, republished>>

Handle(m) == \/ Validate(m) \/ Lookup(m) \/ SaveBlank(m) \/ UpdateInstance(m)
             \/ CloseGateway(m) \/ CompleteActivity(m) \/ DeleteInstance(m)
             \/ Ack(m)

\* The handler stops half way and its message is delivered again.
Interrupt(m) ==
  /\ crashes < MaxCrashes
  /\ pc[m] \notin {"unsent", "queued", "acked"}
  /\ crashes' = crashes + 1
  /\ Goto(m, "queued")
  /\ UNCHANGED <<expected, gw, pi, arrived, activation, local, published,
                 republished>>

\* The process instance is cancelled or completes by another end event.
Cancel ==
  /\ MayCancel
  /\ pi = "live"
  /\ pi' = "gone"
  /\ UNCHANGED <<expected, gw, arrived, activation, pc, local, published,
                 crashes, republished>>

Quiet == /\ pi = "live" =>
              \A g \in Gateways : /\ expected[g] # {}
                                 /\ \A b \in expected[g] : <<g, b>> \in arrived
         /\ activation = <<>>
         /\ \A m \in Messages : pc[m] \in {"unsent", "acked"}

Terminating == Quiet /\ UNCHANGED vars

Next == \/ \E g \in Gateways : Diverge(g)
        \/ \E g \in Gateways, b \in Branches : Arrive(g, b)
        \/ Activate
        \/ \E m \in Messages : Handle(m) \/ Interrupt(m)
        \/ Cancel
        \/ Terminating

\* Every branch eventually reaches the join, and messages keep being consumed.
Fairness == /\ \A g \in Gateways : WF_vars(Diverge(g))
            /\ \A g \in Gateways, b \in Branches : WF_vars(Arrive(g, b))
            /\ WF_vars(Activate)
            /\ \A m \in Messages : WF_vars(Handle(m))

Spec == Init /\ [][Next]_vars /\ Fairness

---------------------------------------------------------------------------
(* Properties.                                                             *)

Steps == {"unsent", "queued", "lookup", "saveBlank", "update", "close",
          "complete", "delete", "deleted", "acked"}
Instances == [present : {"yes", "no"}, met : SUBSET Branches,
              vars : Seq(Branches \cup {"base"})]

\* The bucket, the messages and the handlers keep their types, only expected
\* paths are ever recorded as met, and a handler past its UpdateObj holds an
\* instance with at least the variables of its own branch.
TypeOK ==
  /\ expected \in [Gateways -> SUBSET Branches]
  /\ gw \in [Gateways -> Instances]
  /\ \A g \in Gateways : gw[g].met \subseteq expected[g]
  /\ pi \in {"live", "gone", "ghost"}
  /\ arrived \subseteq Gateways \X Branches
  /\ activation \in Seq(arrived)
  /\ pc \in [Messages -> Steps]
  /\ local \in [Messages -> Instances]
  /\ crashes \in 0 .. MaxCrashes
  /\ republished \in 0 .. MaxRepublish
  /\ \A m \in Messages : pc[m] \in {"close", "complete", "delete", "deleted"}
                           => m[2] \in local[m].met

\* A join completes no earlier than the arrival of the last token it expects,
\* whatever is delivered twice, interrupted or cancelled: gatewayExecProcessor
\* compares the met expectations with the expected paths.
AwaitsAllExpected ==
  \A g \in Gateways : published[g] # <<>> =>
    \A b \in expected[g] : <<g, b>> \in arrived

NoRedelivery == crashes = 0 /\ republished = 0

\* Without redelivery, of all the handlers that race to record their branch
\* exactly one sees the full set, so the token leaves the join once; and once every
\* token of a live process has been consumed no gateway instance is left in the
\* bucket, as completeGateway deletes it.  (A process that is cancelled leaves its
\* instances, and a handler that runs again may leave a blank one.)
JoinsOnce ==
  NoRedelivery => \A g \in Gateways : /\ Len(published[g]) <= 1
                                      /\ Quiet /\ pi = "live" => ~Exists(g)

\* mergeGatewayVars loses no branch's change and invents none: in the first
\* completion of a gateway a variable some branch changed has the value one of
\* these branches gave it, and any other variable is as it was at the divergent
\* gateway.  (A handler that runs again after the instance was deleted starts
\* from a blank one, and what it completes a second time has lost the base.)
MergesEveryChange ==
  \A g \in Gateways : published[g] # <<>> =>
    LET result == published[g][1]
        Changes(b, k) == /\ k \in DOMAIN BranchVars[b]
                         /\ k \in DOMAIN Base => BranchVars[b][k] # Base[k]
        Keys == DOMAIN Base \cup UNION {DOMAIN BranchVars[b] : b \in expected[g]}
    IN /\ DOMAIN result = Keys
       /\ \A k \in Keys :
            LET writers == {b \in expected[g] : Changes(b, k)}
            IN IF writers = {} THEN result[k] = Base[k]
               ELSE result[k] \in {BranchVars[b][k] : b \in writers}

\* Every gateway that opens is eventually completed while its process lives,
\* although all gateways share one activation message in flight.
EveryJoinCompletes ==
  \A g \in Gateways :
    expected[g] # {} ~> (published[g] # <<>> \/ pi # "live")
=============================================================================
