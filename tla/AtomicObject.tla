--------------------------- MODULE AtomicObject ---------------------------
(***************************************************************************)
(* What a caller of common.UpdateObj expects of it: while the key is there *)
(* each call applies its update function to the stored object once, in one *)
(* indivisible step.  The object is represented by the set of calls whose  *)
(* update it contains.                                                     *)
(***************************************************************************)
CONSTANT Updaters   \* concurrent calls of UpdateObj on the same key

VARIABLES val,      \* the calls whose update the stored object contains
          returned, \* the calls that have returned without an error
          intact    \* "yes" while the key has been there all along

vars == <<val, returned, intact>>

Init == /\ val = {}
        /\ returned = {}
        /\ intact \in {"yes", "no"}

Apply(u) == /\ intact = "yes"
            /\ u \notin returned
            /\ val' = val \cup {u}
            /\ returned' = returned \cup {u}
            /\ UNCHANGED intact

\* Nothing is promised about a key that is missing or has been deleted.
Unprotected == intact' = "no"

Next == (\E u \in Updaters : Apply(u)) \/ Unprotected

Spec == Init /\ [][Next]_vars /\ WF_vars(\E u \in Updaters : Apply(u))
===========================================================================
