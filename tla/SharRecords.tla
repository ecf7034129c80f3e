---------------------------- MODULE SharRecords ----------------------------
(* The parts of SHAR that are about records of what a process does: its     *)
(* history (History), and the lists of user tasks (UserTasks).              *)
EXTENDS Pool, Naturals, Sequences, FiniteSets

CONSTANTS Histories,      \* instances of History
          UserTaskCases,  \* instances of UserTasks
          MaxTries        \* completions attempted by a user

H == INSTANCE History WITH
       Scenarios <- Histories, scenario <- v1, written <- v2, store <- v3, markers <- v4,
       archive <- v5, deleter <- v6, reader <- v7, ended <- v8, active <- v9, interrupts <- v10

U == INSTANCE UserTasks WITH
       Scenarios <- UserTaskCases, scenario <- v1, ownerID <- v2, minted <- v3,
       lists <- v4, start <- v5, job <- v6, user <- v7, msgs <- v8, left <- v9

\* There are finitely many names, and owners are listed.
ASSUME UserTasksAssumption ==
  IsFiniteSet(U!Names) /\ \A s \in UserTaskCases : s.owners \in Seq(U!Names)

\* deleteProcessHistory deletes no entry that it has not published to the
\* archive, whenever it is interrupted, and leaves none if it is not.
ClearedAfterArchive == part = "history" => H!ClearedAfterArchive

\* GetActiveEntries reports what is active from its search to its end, and nothing
\* that had ended before the search, even while the history is deleted.
ActiveExact == part = "history" => H!ActiveExact

\* A started task that nobody has completed is on the list under which each of
\* its owners looks (openUserTask), provided the owners were known.
OnOwnersLists == part = "userTask" => U!OnOwnersLists
=============================================================================
