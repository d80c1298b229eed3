----------------------------- MODULE MCExporter -----------------------------
(* Instances of Exporter for TLC. *)
EXTENDS Exporter
=============================================================================
