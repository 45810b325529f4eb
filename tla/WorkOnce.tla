------------------------------ MODULE WorkOnce ------------------------------
(* What the outbox promises to the rest of the program, without leases,      *)
(* tokens, workers or retries: a piece of work is requested at most once,    *)
(* and one outcome is committed for it, once and for good.                   *)
CONSTANTS Items, Outcomes

VARIABLE status

WorkInit == status = [i \in Items |-> "absent"]

(* One transaction may request several pieces. *)
Request(is) == /\ \A i \in is : status[i] = "absent"
               /\ status' = [i \in Items |-> IF i \in is THEN "open" ELSE status[i]]

Finish(i, o) == /\ status[i] = "open"
                /\ status' = [status EXCEPT ![i] = o]

WorkNext == \/ \E is \in SUBSET Items : Request(is)
            \/ \E i \in Items, o \in Outcomes : Finish(i, o)

WorkSpec == WorkInit /\ [][WorkNext]_status
=============================================================================
