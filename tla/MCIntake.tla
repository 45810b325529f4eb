------------------------------ MODULE MCIntake ------------------------------
(* Intake of one run attempt: two delivery ids, two requests served at once, *)
(* two ingestion workers and one log, which a re-run may take away.         *)
EXTENDS Intake
=============================================================================
