---------------------------- MODULE MCCmtThread ----------------------------
(* TLC instances of CmtThread. *)
EXTENDS CmtThread

\* Local futures are interchangeable, and so are the contexts made at run time.
MCSymmetry == Permutations(LocalFutures) \cup Permutations(Contexts \ {Main})

\* All tasks at the default priority.
MCFlatPrio == [f \in Futures |-> 0]

\* One local task is more urgent than the others.
MCTwoPrios == [f \in Futures |-> IF f = CHOOSE g \in LocalFutures : TRUE THEN 1 ELSE 0]
=============================================================================
