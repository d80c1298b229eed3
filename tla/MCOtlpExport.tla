---------------------------- MODULE MCOtlpExport ----------------------------
(* OtlpExport for TLC: two names, the startup cycle and a reload's.        *)
EXTENDS OtlpExport
=============================================================================
