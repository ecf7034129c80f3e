------------------------------- MODULE Parser -------------------------------
(***************************************************************************)
(* What Parse does with a process once its elements are read               *)
(* (client/parser/parser.go): it tags the gateways (tagger.go), lints the  *)
(* flow (common/linter), validates the model (validation.go) and gives the *)
(* joins the output transforms of their branches.                          *)
(*                                                                         *)
(* Each pass walks the graph recursively.  A walk that would not end       *)
(* overflows the stack of the program; here it runs out of fuel.           *)
(***************************************************************************)
EXTENDS Naturals, Sequences, FiniteSets, SequencesExt

CONSTANTS Processes,  \* type, gateway, out, inputs, outputs of each element, and
                      \* order: the elements in the order of the document
          Fuel        \* a walk of more steps than this does not end

VARIABLES process, stage, direction, reciprocal, transform

vars == <<process, stage, direction, reciprocal, transform>>

Elements(p) == DOMAIN p.type
IsGateway(p, e) == p.type[e] = "gateway"
Targets(p, e) == {p.out[e][i] : i \in DOMAIN p.out[e]}

Init ==
  /\ process \in Processes
  /\ stage = "tag"
  /\ direction = [e \in Elements(process) |-> "none"]
  /\ reciprocal = [e \in Elements(process) |-> "none"]
  /\ transform = [e \in Elements(process) |-> {}]

Failed == {"ambiguous", "linkError", "missingEnd", "missingOpening", "undefinedVariable"}
Crashed == {"overflow", "panic"}

---------------------------------------------------------------------------
(* Tagging.                                                                *)
getElementIdReferences(p, e) ==
  {<<x, i>> \in Elements(p) \X (1 .. 3) : i \in DOMAIN p.out[x] /\ p.out[x][i] = e}

Directions(p) ==
  [e \in Elements(p) |->
     LET numIn == Cardinality(getElementIdReferences(p, e))
         numOut == Len(p.out[e])
     IN  CASE ~IsGateway(p, e) -> "none"
           [] IsGateway(p, e) /\ numIn = 1 /\ numOut > 1 -> "divergent"
           [] IsGateway(p, e) /\ numIn > 1 /\ numOut = 1 -> "convergent"
           [] OTHER -> "ambiguous"]

\* The splits found on the way back from gw; "null" is a way that has none.
RECURSIVE recurseRecip(_, _, _, _, _, _)
recurseRecip(p, dir, gw, el, stack, fuel) ==
  LET same == gw # el /\ IsGateway(p, el) /\ p.gateway[gw] = p.gateway[el]
      opens == same /\ dir[el] = "divergent"
      depth == IF same /\ dir[el] = "convergent" THEN stack + 1
               ELSE IF opens THEN stack - 1 ELSE stack
      back == {r[1] : r \in getElementIdReferences(p, el)}
  IN  CASE fuel = 0 -> {"overflow"}
        [] fuel > 0 /\ opens /\ stack = 0 -> {el}
        [] fuel > 0 /\ ~(opens /\ stack = 0) /\ back = {} -> {"null"}
        [] OTHER -> UNION {recurseRecip(p, dir, gw, b, depth, fuel - 1) : b \in back}

Found(p, dir, gw) == recurseRecip(p, dir, gw, gw, 0, Fuel)

MutAnyOpening(p, dir, tags, gw) ==
  LET found == Found(p, dir, gw) \ {"null"}
  IN  IF dir[gw] # "convergent" \/ found = {} \/ "overflow" \in found THEN tags
      ELSE LET only == CHOOSE e \in found : TRUE
           IN  [tags EXCEPT ![gw] = only, ![only] = gw]

\* A join with one opening gateway, on every way back, is tagged with it.
tagReciprocal(p, dir, tags, gw) ==
  LET found == Found(p, dir, gw)
  IN  IF dir[gw] # "convergent" \/ Cardinality(found) > 1 \/ found \cap {"null", "overflow"} # {}
        THEN tags
        ELSE LET only == CHOOSE e \in found : TRUE
             IN  [tags EXCEPT ![gw] = only, ![only] = gw]

tagWorkflow ==
  /\ stage = "tag"
  /\ direction' = Directions(process)
  /\ LET dir == Directions(process)
         joins == {e \in Elements(process) : dir[e] = "convergent"}
     IN  IF \E e \in Elements(process) : dir[e] = "ambiguous"
           THEN stage' = "ambiguous" /\ UNCHANGED reciprocal
           ELSE /\ reciprocal' = FoldLeft(LAMBDA tags, e : tagReciprocal(process, dir, tags, e),
                                          reciprocal, process.order)
                /\ stage' = IF \E gw \in joins : "overflow" \in Found(process, dir, gw)
                              THEN "overflow" ELSE "lint"
  /\ UNCHANGED <<process, transform>>

---------------------------------------------------------------------------
(* Linting.                                                                *)
OfType(p, t) == {e \in Elements(p) : p.type[e] = t}

\* One catch for each link, one or more throws for each catch.
linkEventRules(p) == /\ Cardinality(OfType(p, "linkCatch")) <= 1
                     /\ (OfType(p, "linkThrow") = {}) = (OfType(p, "linkCatch") = {})

\* The scan goes from an element to its targets, but not past one that was met
\* before: those after it are not looked at.  A throw leads back to itself.
RECURSIVE directedColouredTraverse(_, _, _)
directedColouredTraverse(p, el, scan) ==
  LET targets == IF p.type[el] = "linkThrow" THEN <<el>> ELSE p.out[el]
      Go(s, t) == IF s.cut \/ s.bad THEN s
                  ELSE IF t \in s.visited THEN [s EXCEPT !.cut = TRUE]
                  ELSE [directedColouredTraverse(p, t, [s EXCEPT !.visited = @ \cup {t}])
                          EXCEPT !.cut = FALSE]
  IN  IF targets = <<>>
        THEN [scan EXCEPT !.bad = p.type[el] \notin {"end", "compensateEnd"}]
        ELSE FoldLeft(Go, [scan EXCEPT !.cut = FALSE], targets)

startDirectedScan(p) ==
  LET From(s, e) == IF s.bad \/ p.type[e] \notin {"start", "timedStart"} THEN s
                    ELSE directedColouredTraverse(p, e, [s EXCEPT !.visited = @ \cup {e}])
  IN  FoldLeft(From, [visited |-> {}, cut |-> FALSE, bad |-> FALSE], p.order)

Lint ==
  /\ stage = "lint"
  /\ stage' = IF startDirectedScan(process).bad THEN "missingEnd"
              ELSE IF ~linkEventRules(process) THEN "linkError" ELSE "valid"
  /\ UNCHANGED <<process, direction, reciprocal, transform>>

---------------------------------------------------------------------------
(* The output transforms of the branches between a split and its join.     *)
RECURSIVE findGatewayBranchOutputTransforms(_, _, _, _)
findGatewayBranchOutputTransforms(p, el, join, fuel) ==
  LET seen == {i \in DOMAIN p.out[el] : \A j \in 1 .. (i - 1) : p.out[el][j] # join}
      targets == {p.out[el][i] : i \in seen}
  IN  IF fuel = 0 THEN {"overflow"}
      ELSE IF p.out[el] = <<>> THEN {"panic"}
      ELSE UNION {p.outputs[t] : t \in targets}
           \cup UNION {findGatewayBranchOutputTransforms(p, t, join, fuel - 1) :
                         t \in targets \ {join}}

Joins == {e \in DOMAIN direction : direction[e] = "convergent"}
Transforms(join) == findGatewayBranchOutputTransforms(process, reciprocal[join], join, Fuel)

\* Each split is paired with one of the joins that have it as reciprocal.
Pairings == {f \in [{reciprocal[j] : j \in Joins} -> Joins] :
               \A d \in DOMAIN f : reciprocal[f[d]] = d}

---------------------------------------------------------------------------
(* Validation.                                                             *)
LinkTargets(p, e) == IF p.type[e] = "linkThrow" THEN OfType(p, "linkCatch") ELSE {}

MutOwnOutputs(p, el, defined, joined) == p.outputs[el]

\* What has a value when an element is done.  Its own outputs count, and so do, at
\* a parallel join, those of every branch of every pair of gateways.
Known(p, el, defined, joined) ==
  defined \cup p.outputs[el]
  \cup (IF el \in Joins /\ p.gateway[el] = "parallel" THEN joined ELSE {})

\* The variables an element refers to that no element on some way to it has
\* given a value.
RECURSIVE findElementsReferencingUndefinedVars(_, _, _, _, _)
findElementsReferencingUndefinedVars(p, el, defined, visited, joined) ==
  LET known == Known(p, el, defined, joined)
      next == (Targets(p, el) \cup LinkTargets(p, el)) \ (visited \cup {el})
  IN  IF p.type[el] = "end" THEN {}
      ELSE {<<el, v>> : v \in p.inputs[el] \ known}
           \cup UNION {findElementsReferencingUndefinedVars(p, t, known, visited \cup {el}, joined) :
                         t \in next}

checkVariables(p, joined) ==
  UNION {findElementsReferencingUndefinedVars(p, e, {}, {}, joined) : e \in OfType(p, "start")}

\* A parallel join that the walk comes to has the transforms collected.
Collects(p) == \E e \in Joins : p.gateway[e] = "parallel"

validModel ==
  /\ stage = "valid"
  /\ \E pairs \in Pairings :
       LET joined == UNION {Transforms(pairs[d]) : d \in DOMAIN pairs}
       IN  stage' = CASE \E e \in Joins : reciprocal[e] = "none" -> "missingOpening"
                      [] Collects(process) /\ "overflow" \in joined -> "overflow"
                      [] Collects(process) /\ "panic" \in joined -> "panic"
                      [] checkVariables(process, joined) # {} -> "undefinedVariable"
                      [] OTHER -> "transform"
  /\ UNCHANGED <<process, direction, reciprocal, transform>>

---------------------------------------------------------------------------
MutLastTarget ==
  /\ stage = "transform" /\ stage' = "accepted"
  /\ transform' = [e \in DOMAIN transform |->
                     IF e \in Joins THEN process.outputs[Last(process.out[reciprocal[e]])] ELSE {}]
  /\ UNCHANGED <<process, direction, reciprocal>>

findConvergentGatewayOutputTransforms ==
  /\ stage = "transform"
  /\ \E pairs \in Pairings :
       LET found == UNION {Transforms(pairs[d]) : d \in DOMAIN pairs}
           paired == {pairs[d] : d \in DOMAIN pairs}
       IN  IF found \cap Crashed # {}
             THEN stage' \in found \cap Crashed /\ UNCHANGED transform
             ELSE /\ stage' = "accepted"
                  /\ transform' = [e \in DOMAIN transform |->
                                     IF e \in paired THEN Transforms(e) ELSE {}]
  /\ UNCHANGED <<process, direction, reciprocal>>

Terminating == stage \in {"accepted"} \cup Failed \cup Crashed /\ UNCHANGED vars

Next == tagWorkflow \/ Lint \/ validModel \/ findConvergentGatewayOutputTransforms \/ Terminating
Spec == Init /\ [][Next]_vars

---------------------------------------------------------------------------
(* Graphs, for the properties.                                             *)

\* The elements that can be reached from S without going through avoided ones.
RECURSIVE Reach(_, _, _)
Reach(p, S, avoided) ==
  LET more == UNION {Targets(p, e) \cup LinkTargets(p, e) : e \in S} \ avoided
  IN  IF more \subseteq S THEN S ELSE Reach(p, S \cup more, avoided)

Starts(p) == OfType(p, "start")
Acyclic(p) == \A e \in Elements(p) : e \notin Reach(p, Targets(p, e), {})
DeadEnd(p, e) == p.out[e] = <<>> /\ LinkTargets(p, e) = {}

\* Whatever leaves an opening gateway comes to its join.
Structured ==
  /\ Acyclic(process)
  /\ \A j \in Joins : reciprocal[j] # "none" =>
       ~\E e \in Reach(process, {reciprocal[j]}, {j}) : DeadEnd(process, e)

Between(j) == Reach(process, Targets(process, reciprocal[j]) \ {j}, {j})

---------------------------------------------------------------------------
(* Properties.                                                             *)

\* Stages and tags keep their types.
TypeOK ==
  /\ stage \in {"tag", "lint", "valid", "transform", "accepted"} \cup Failed \cup Crashed
  /\ \A e \in Elements(process) : reciprocal[e] \in Elements(process) \cup {"none"}

\* In a process that is accepted, every way to a join goes through its opening
\* gateway, a gateway of the same type: the engine can tell there how many
\* branches the join has to wait for.
JoinsHaveAnOpening ==
  stage = "accepted" => \A j \in Joins :
    /\ process.gateway[reciprocal[j]] = process.gateway[j]
    /\ direction[reciprocal[j]] = "divergent"
    /\ j \notin Reach(process, Starts(process) \ {reciprocal[j]}, {reciprocal[j]})

\* An element that refers to v can be reached without v being given a value.
MayMiss(e, v) ==
  e \in Reach(process, {s \in Starts(process) : v \notin process.outputs[s]},
              {x \in Elements(process) : v \in process.outputs[x]} \cup OfType(process, "end"))
SomeUndefined == \E e \in Elements(process) : \E v \in process.inputs[e] : MayMiss(e, v)

\* checkVariables refuses exactly the processes in which some way to an element
\* leaves a variable of it without a value (parallel joins apart).
VariablesChecked ==
  (\A j \in Joins : process.gateway[j] # "parallel") =>
    /\ stage \in {"transform", "accepted"} => ~SomeUndefined
    /\ stage = "undefinedVariable" => SomeUndefined

\* Parsing a process without loops, in which what an opening gateway starts comes
\* to the join, neither panics nor overflows the stack.  The join of an accepted
\* process has the outputs of every element of its branches, unless the split
\* leads to the join directly.
JoinKeepsOutputs ==
  /\ Structured => stage \notin Crashed
  /\ stage = "accepted" => \A j \in Joins :
       j \notin Targets(process, reciprocal[j])
       /\ (\A k \in Joins \ {j} : k \notin Between(j)) =>
         \A e \in Between(j) : process.outputs[e] \subseteq transform[j]

\* In an accepted process every flow ends with an end event.  Checked in no run, as
\* it does not hold: the scan looks at nothing after an element it has met before.
AcceptedEnds ==
  stage = "accepted" =>
    \A e \in Reach(process, Starts(process), {}) :
      DeadEnd(process, e) => process.type[e] \in {"end", "compensateEnd"}
=============================================================================
