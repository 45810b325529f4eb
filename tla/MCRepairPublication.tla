----------------------- MODULE MCRepairPublication -----------------------
(* RepairPublication with two workers, two different patches and two faults. *)
EXTENDS RepairPublication
==========================================================================
