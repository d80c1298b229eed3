--------------------------- MODULE MCCollectCycle ---------------------------
(* Instances of CollectCycle for TLC. *)
EXTENDS CollectCycle

(* Two collectors for every cluster. *)
Two == [c \in Clusters |-> 2]
=============================================================================
