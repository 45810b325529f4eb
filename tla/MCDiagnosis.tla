---------------------------- MODULE MCDiagnosis ----------------------------
(* Diagnosis of an incident with up to two failure clusters: by two          *)
(* processes of one slot each, or by one process of one or two slots.        *)
EXTENDS Diagnosis
=============================================================================
