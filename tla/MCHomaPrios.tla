---------------------------- MODULE MCHomaPrios ----------------------------
(***************************************************************************)
(* HomaPrios instantiated for TLC with the constants of the code           *)
(* (HOMA_MAX_PRIORITIES 8, HOMA_MAX_MESSAGE_LENGTH 1000000, INT_MAX) and   *)
(* small sets of administrator inputs.                                     *)
(***************************************************************************)
EXTENDS HomaPrios

MCMaxPriorities == 8
MCMaxMessageLength == 1000000
MCIntMax == 2147483647

\* Valid inputs: one priority, some, and more than the array holds (clamped).
MCNumPrioInputs == {1, 3, 9}

\* Non-positive inputs, which the sysctl accepts as well.
MCNumPrioInputsZero == {0, 3}

\* A cutoff that disables a level, a small one, and one covering every length.
MCCutoffInputs == {0, 200, 1000000}

MCMaxReconfigs == 3
=============================================================================
