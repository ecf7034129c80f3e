-------------------------------- MODULE Pool --------------------------------
(* The variables of a system of which one part moves: which part it is, and *)
(* the variables that the parts take turns in using.                        *)
VARIABLES part, v1, v2, v3, v4, v5, v6, v7, v8, v9, v10, v11, v12, v13, v14

pool == <<v1, v2, v3, v4, v5, v6, v7, v8, v9, v10, v11, v12, v13, v14>>
=============================================================================
