---------------------------- MODULE MCLeaseQueue ----------------------------
(* LeaseQueue on two rows and three workers, each row claimed three times at *)
(* most: enough for an overtaken worker to meet its overtaker's successor.   *)
EXTENDS LeaseQueue
=============================================================================
