------------------------------ MODULE MCFanOut ------------------------------
(* FanOut for TLC: pools of two goroutines with fewer slots than items.    *)
EXTENDS FanOut
=============================================================================
