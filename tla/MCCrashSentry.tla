--------------------------- MODULE MCCrashSentry ---------------------------
(* All sentries; all but the one a debugger may be in the way of; signals. *)
EXTENDS CrashSentry

SomeConfigurations == {All, All \ {"mach"}, {"signal"}}
=============================================================================
