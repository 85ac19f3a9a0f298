---------------------------- MODULE MCResidency -----------------------------
(* Instances of Residency for TLC.                                         *)
EXTENDS Residency

CONSTANTS english, multilingual, typed, t1
KnownModels == <<english, multilingual, typed>>
TwoPreloaded == <<multilingual, english>>
=============================================================================
