---------------------------- MODULE MCDeviceFlow ----------------------------
(***************************************************************************)
(* Finite instances of DeviceFlow.                                         *)
(***************************************************************************)
EXTENDS DeviceFlow

\* Less than zero, zero, less than a second, less than the default.
AnyIntervals == {-10, 0, 3, 20}

=============================================================================
