-------------------------- MODULE MCEventUploader --------------------------
(***************************************************************************)
(* Finite instances of EventUploader.                                      *)
(***************************************************************************)
EXTENDS EventUploader, TLC

\* Events differ only in how they are used, and no safety property names one.
EventSymmetry == Permutations(Events)

=============================================================================
