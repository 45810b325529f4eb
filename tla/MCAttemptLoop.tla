---------------------------- MODULE MCAttemptLoop ----------------------------
(* AttemptLoop on a checkout of four files, one of them protected, where     *)
(* only two may change.                                                      *)
EXTENDS AttemptLoop

(* Writable files that are no tests are alike. *)
AlikeFiles == Permutations(Writable \ TestFiles)
=============================================================================
