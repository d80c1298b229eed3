---------------------------- MODULE MCEcsClient ----------------------------
(* Instances of EcsClient for TLC. *)
EXTENDS EcsClient
=============================================================================
