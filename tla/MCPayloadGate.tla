---------------------------- MODULE MCPayloadGate ----------------------------
(* Instances of PayloadGate for TLC. *)
EXTENDS PayloadGate, TLC
==============================================================================
