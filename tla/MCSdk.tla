------------------------------- MODULE MCSdk -------------------------------
(***************************************************************************)
(* Instances of Sdk for TLC.                                               *)
(***************************************************************************)
EXTENDS Sdk, TLC

CONSTANTS h1, h2, t1, t2, k1, k2

\* One process with one application thread.
OneThread == t1 :> h1
\* One process with two application threads.
TwoThreads == t1 :> h1 @@ t2 :> h1
\* Two processes with one application thread each.
TwoProcesses == t1 :> h1 @@ t2 :> h2

\* The threads of one handle may trade places, and so may two keys.
SwapThreads == Permutations({t1, t2})
SwapKeys == Permutations({k1, k2})
=============================================================================
