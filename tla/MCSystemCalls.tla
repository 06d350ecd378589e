--------------------------- MODULE MCSystemCalls ---------------------------
(***************************************************************************)
(* System calls for TLC: two functions to spawn, which of them does not    *)
(* matter.                                                                 *)
(***************************************************************************)
EXTENDS SystemCalls, TLC

CONSTANTS f, g

TwoFunctions == {f, g}
AnyName == Permutations(TwoFunctions)

\* For a bad priority or name, and for too small a stack.
AnyRefusal == {-1, -2}
=============================================================================
