------------------------------ MODULE MCEngine ------------------------------
(* Small processes for Engine, each named after its start event.            *)
EXTENDS Engine

MCType ==
  \* testdata/simple-workflow.bpmn: start, a service task, end
  "simple" :> "start" @@ "task" :> "task" @@ "done" :> "end" @@
  \* a parallel gateway, a service task on each branch, and the join
  "parallel" :> "start" @@ "split" :> "divergent" @@ "a" :> "task" @@
  "b" :> "task" @@ "join" :> "convergent" @@ "joined" :> "end" @@
  \* two conditions that may both hold, a default flow, no join, two ends
  "choice" :> "start" @@ "choose" :> "divergent" @@ "x" :> "link" @@
  "y" :> "end" @@ "z" :> "end" @@
  \* a process that calls another
  "caller" :> "start" @@ "call" :> "call" @@ "back" :> "end" @@
  "called" :> "start" @@ "return" :> "end"

Flows == "simple" :> {"task"} @@ "task" :> {"done"} @@
  "parallel" :> {"split"} @@ "split" :> {"a", "b"} @@ "a" :> {"join"} @@
  "b" :> {"join"} @@ "join" :> {"joined"} @@
  "choice" :> {"choose"} @@ "choose" :> {"x", "y", "z"} @@ "x" :> {"z"} @@
  "caller" :> {"call"} @@ "call" :> {"back"} @@ "called" :> {"return"}

Otherwise(f) == [e \in DOMAIN MCType |-> IF e \in DOMAIN f THEN f[e] ELSE {}]
MCOutbound == Otherwise(Flows)
MCConditional == Otherwise("choose" :> {"x", "y"})
MCDefault == Otherwise("choose" :> {"z"})
MCReciprocal == "split" :> "join"
MCCalled == "call" :> "called"
=============================================================================
