----------------------------- MODULE MCSessions -----------------------------
(***************************************************************************)
(* Finite instances of Sessions.                                           *)
(***************************************************************************)
EXTENDS Sessions

CONSTANTS main, other

=============================================================================
