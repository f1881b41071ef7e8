---------------------------- MODULE MCAsyncCalls ----------------------------
(* TLC instances of AsyncCalls. *)
EXTENDS AsyncCalls, TLC

CONSTANTS k1, k2

\* Two tasks; futures are shared between their calls of kind "io".
MCKinds == k1 :> {"io", "sync"} @@ k2 :> {"io", "code", "signal"}

\* Threads are alike.
MCSymmetry == Permutations(Threads)

\* One task that calls sync() again and again.
MCSyncOnly == k1 :> {"sync"}
=============================================================================
