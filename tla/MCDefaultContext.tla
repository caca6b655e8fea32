--------------------------- MODULE MCDefaultContext ---------------------------
(* DefaultContext for TLC: all contexts but the first default are alike, and *)
(* so are all tasks but the main thread's main task.                         *)
EXTENDS DefaultContext, TLC

Symmetry ==
  Permutations(Contexts \ {FirstDefault}) \cup Permutations(Tasks \ {MainRoot})
=============================================================================
