----------------------------- MODULE MCAuthState -----------------------------
(***************************************************************************)
(* Finite instances of AuthState.                                          *)
(***************************************************************************)
EXTENDS AuthState, TLC

\* Actions differ only in when they are passed in.
ActionSymmetry == Permutations(Actions)

=============================================================================
