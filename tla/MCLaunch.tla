------------------------------- MODULE MCLaunch -------------------------------
(***************************************************************************)
(* Finite instances of Launch. The blocks differ in nothing but what they  *)
(* are at.                                                                 *)
(***************************************************************************)
EXTENDS Launch, TLC

Symmetry == Permutations(Blocks)

(* What the last launch does after its verdict nobody reads. *)
UpToVerdict == launches = MaxLaunches => pc # "run"

=============================================================================
