----------------------------- MODULE UserTasks -----------------------------
(***************************************************************************)
(* User tasks: the identifiers of owners (OwnerID), the list of open tasks *)
(* of each owner (openUserTask, closeUserTask), and the completion of a    *)
(* task by the users that find it on a list, in operations.go, called from *)
(* server/api/functions.go and client/client.go.                           *)
(*                                                                         *)
(* One task is started while users look for work.  An operation on one     *)
(* bucket is a step; the module OptimisticUpdate shows this of UpdateObj.  *)
(***************************************************************************)
EXTENDS Naturals, Sequences, FiniteSets, Functions

CONSTANTS Scenarios,  \* [owners, users, known]: the names of the candidates
                      \* and groups, the names of the users that look for
                      \* work, and whether the names have identifiers already
          MaxTries    \* bound: completions attempted by a user

VARIABLES
  scenario,
  ownerID,    \* the bucket OwnerID: name -> identifier, 0 for none
  minted,     \* identifiers created so far
  lists,      \* the bucket WfUserTasks: how often the task is on a list
  start,      \* startJob: [pc, ids, opened], the identifiers evaluated so
              \* far, and how many of their lists have the task
  job,        \* the job record: "none", "open" or "deleted"
  user,       \* each user: [pc, id, tries, todo, ok]
  msgs,       \* completions published and not yet processed
  left        \* completions of the activity

vars == <<scenario, ownerID, minted, lists, start, job, user, msgs, left>>

Names == UNION {Range(s.owners) \cup s.users : s \in Scenarios}
Ids == 1 .. 2 * Cardinality(Names)

Init ==
  /\ scenario \in Scenarios
  /\ ownerID = IF scenario.known
                 THEN CHOOSE id \in Injection(Names, 1 .. Cardinality(Names)) : TRUE
                 ELSE [n \in Names |-> 0]
  /\ minted = IF scenario.known THEN Cardinality(Names) ELSE 0
  /\ lists = [i \in Ids |-> 0]
  /\ start = [pc |-> "get", ids |-> <<>>, opened |-> 0]
  /\ job = "none" /\ msgs = 0 /\ left = 0
  /\ user = [u \in scenario.users |->
               [pc |-> "get", id |-> 0, tries |-> 0, todo |-> <<>>, ok |-> FALSE]]

---------------------------------------------------------------------------
(* OwnerID(name): whether the bucket has an identifier for the name, and   *)
(* if not, a new one.  Put of the bucket takes the last writer's.          *)
OwnerIDGet(name) == ownerID[name] # 0
OwnerIDPut(name) == /\ minted' = minted + 1
                    /\ ownerID' = [ownerID EXCEPT ![name] = minted + 1]

(* startJob.                                                               *)
Evaluated(id) == [start EXCEPT !.ids = Append(@, id), !.pc = "get"]
NextOwner == scenario.owners[Len(start.ids) + 1]

\* evaluateOwners asks for the identifier of each owner in turn.
evaluateOwnersGet ==
  /\ start.pc = "get" /\ Len(start.ids) < Len(scenario.owners)
  /\ start' = IF OwnerIDGet(NextOwner) THEN Evaluated(ownerID[NextOwner])
              ELSE [start EXCEPT !.pc = "put"]
  /\ UNCHANGED <<scenario, ownerID, minted, lists, job, user, msgs, left>>

evaluateOwnersPut ==
  /\ start.pc = "put"
  /\ OwnerIDPut(NextOwner)
  /\ start' = Evaluated(minted + 1)
  /\ UNCHANGED <<scenario, lists, job, user, msgs, left>>

\* The job is created, with its owners, and published.
createJob ==
  /\ start.pc = "get" /\ Len(start.ids) = Len(scenario.owners)
  /\ job' = "open" /\ start' = [start EXCEPT !.pc = IF start.ids = <<>> THEN "done" ELSE "open"]
  /\ UNCHANGED <<scenario, ownerID, minted, lists, user, msgs, left>>

OpenAt(i) == [start EXCEPT !.opened = i, !.pc = IF i = Len(start.ids) THEN "done" ELSE @]

MutOpenOne ==
  /\ start.pc = "open"
  /\ lists' = [lists EXCEPT ![start.ids[1]] = @ + 1]
  /\ start' = OpenAt(Len(start.ids))
  /\ UNCHANGED <<scenario, ownerID, minted, job, user, msgs, left>>

\* PublishWorkflowState then puts it on the list of each owner.
openUserTask ==
  /\ start.pc = "open"
  /\ lists' = [lists EXCEPT ![start.ids[start.opened + 1]] = @ + 1]
  /\ start' = OpenAt(start.opened + 1)
  /\ UNCHANGED <<scenario, ownerID, minted, job, user, msgs, left>>

---------------------------------------------------------------------------
(* A user.                                                                 *)
Tries(u) == user[u].tries < MaxTries

\* listUserTaskIDs: the identifier ...
ListOwner(u) ==
  /\ user[u].pc = "get" /\ Tries(u)
  /\ user' = [user EXCEPT ![u] =
       IF OwnerIDGet(u) THEN [@ EXCEPT !.pc = "list", !.id = ownerID[u]]
       ELSE [@ EXCEPT !.pc = "put"]]
  /\ UNCHANGED <<scenario, ownerID, minted, lists, start, job, msgs, left>>

ListNewOwner(u) ==
  /\ user[u].pc = "put"
  /\ OwnerIDPut(u)
  /\ user' = [user EXCEPT ![u].pc = "list", ![u].id = minted + 1]
  /\ UNCHANGED <<scenario, lists, start, job, msgs, left>>

\* ... and its list.  With nothing on it the user asks again.
GetUserTaskIDs(u) ==
  /\ user[u].pc = "list"
  /\ user' = [user EXCEPT ![u].pc = IF lists[user[u].id] > 0 THEN "auth" ELSE "get"]
  /\ UNCHANGED <<scenario, ownerID, minted, lists, start, job, msgs, left>>

Return(u, ok) == [user EXCEPT ![u].pc = "get", ![u].tries = @ + 1, ![u].ok = ok]

\* completeUserTask: authFromJobID loads the job ...
authFromJobID(u) ==
  /\ user[u].pc = "auth"
  /\ user' = IF job = "open" THEN [user EXCEPT ![u].pc = "publish"] ELSE Return(u, FALSE)
  /\ UNCHANGED <<scenario, ownerID, minted, lists, start, job, msgs, left>>

\* ... for CompleteUserTask, which publishes the completion ...
CompleteUserTask(u) ==
  /\ user[u].pc = "publish"
  /\ msgs' = msgs + 1
  /\ user' = [user EXCEPT ![u].pc = "close"]
  /\ UNCHANGED <<scenario, ownerID, minted, lists, start, job, left>>

\* ... and closes the task: closeUserTask loads the job again, and fails when
\* the completion has been processed by then ...
closeUserTask(u) ==
  /\ user[u].pc = "close"
  /\ user' = IF job = "open" THEN [user EXCEPT ![u].pc = "remove", ![u].todo = start.ids]
                             ELSE Return(u, FALSE)
  /\ UNCHANGED <<scenario, ownerID, minted, lists, start, job, msgs, left>>

\* ... and takes it from each list, once.
RemoveFrom(u) ==
  /\ user[u].pc = "remove"
  /\ IF user[u].todo = <<>>
       THEN user' = Return(u, TRUE) /\ UNCHANGED lists
       ELSE /\ user' = [user EXCEPT ![u].todo = Tail(@)]
            /\ lists' = [lists EXCEPT ![Head(user[u].todo)] = IF @ > 0 THEN @ - 1 ELSE 0]
  /\ UNCHANGED <<scenario, ownerID, minted, start, job, msgs, left>>

UserStep(u) == \/ ListOwner(u) \/ ListNewOwner(u) \/ GetUserTaskIDs(u) \/ authFromJobID(u)
               \/ CompleteUserTask(u) \/ closeUserTask(u) \/ RemoveFrom(u)

\* completeJobProcessor completes the activity and deletes the job.  It goes by
\* the activity's history, not by the job.
completeJobProcessor ==
  /\ msgs > 0
  /\ msgs' = msgs - 1 /\ left' = left + 1 /\ job' = "deleted"
  /\ UNCHANGED <<scenario, ownerID, minted, lists, start, user>>

Idle == /\ start.pc = "done" /\ msgs = 0
        /\ \A u \in scenario.users : user[u].pc = "get" /\ ~Tries(u)
Terminating == Idle /\ UNCHANGED vars

StartStep == evaluateOwnersGet \/ evaluateOwnersPut \/ createJob \/ openUserTask
Step == StartStep \/ completeJobProcessor \/ \E u \in scenario.users : UserStep(u)

Next == Step \/ Terminating

Spec == Init /\ [][Next]_vars

---------------------------------------------------------------------------
(* Properties.                                                             *)

\* Identifiers and lists keep their types.
TypeOK ==
  /\ ownerID \in [Names -> 0 .. minted] /\ minted \in 0 .. Cardinality(Ids)
  /\ start.pc \in {"get", "put", "open", "done"} /\ job \in {"none", "open", "deleted"}
  /\ \A i \in Ids : lists[i] \in 0 .. Len(scenario.owners)
  /\ \A u \in scenario.users : user[u].tries <= MaxTries /\ user[u].id \in 0 .. minted

Untouched == left = 0 /\ msgs = 0 /\ \A u \in scenario.users : user[u].todo = <<>> /\ user[u].tries = 0

\* A started task that nobody has completed is on the list under which each of
\* its owners looks, provided the owners were known before.
OnOwnersLists ==
  scenario.known /\ start.pc = "done" /\ Untouched /\ job = "open" =>
    \A i \in DOMAIN scenario.owners : lists[ownerID[scenario.owners[i]]] > 0
=============================================================================
