-------------------------- MODULE OutboxRowProofs --------------------------
(* What the SQL statements on an outbox row do to its columns, for every     *)
(* row: the facts that the proofs about all the queues rest on.              *)
EXTENDS OutboxRow, TLAPS

(* The row operators stay inside the row type. *)
LEMMA RowOperatorsTyped ==
  ASSUME NEW r \in Row
  PROVE  /\ Absent \in Row
         /\ Inserted(r) \in Row
         /\ Claimed(r) \in Row
         /\ Completed(r) \in Row
         /\ Rescheduled(r) \in Row
         /\ LeaseRunsOut(r) \in Row
         /\ BackoffRunsOut(r) \in Row
<1> USE DEF Row, NoToken
<1>1. Absent \in Row
  BY DEF Absent
<1>2. Inserted(r) \in Row
  BY DEF Inserted
<1>3. Claimed(r) \in Row
  <2>1. r.attempts + 1 \in Nat
    OBVIOUS
  <2>2. \A n \in Nat : [r EXCEPT !.attempts = n, !.token = n, !.lapsed = FALSE] \in Row
    OBVIOUS
  <2> QED
    BY <2>1, <2>2 DEF Claimed
<1>4. Completed(r) \in Row
  BY DEF Completed
<1>5. Rescheduled(r) \in Row
  BY DEF Rescheduled
<1>6. LeaseRunsOut(r) \in Row /\ BackoffRunsOut(r) \in Row
  BY DEF LeaseRunsOut, BackoffRunsOut
<1> QED
  BY <1>1, <1>2, <1>3, <1>4, <1>5, <1>6

(* What each operator does to the fields that the invariants speak of. *)
LEMMA RowFields ==
  ASSUME NEW r \in Row
  PROVE  /\ /\ Inserted(r).token = r.token
            /\ Inserted(r).attempts = r.attempts
            /\ Inserted(r).done = r.done
            /\ Inserted(r).present
         /\ /\ Claimed(r).token = r.attempts + 1
            /\ Claimed(r).attempts = r.attempts + 1
            /\ Claimed(r).done = r.done
            /\ Claimed(r).present = r.present
         /\ /\ Completed(r).token = NoToken
            /\ Completed(r).attempts = r.attempts
            /\ Completed(r).done
            /\ Completed(r).present = r.present
         /\ /\ Rescheduled(r).token = NoToken
            /\ Rescheduled(r).attempts = r.attempts
            /\ Rescheduled(r).done = r.done
            /\ Rescheduled(r).present = r.present
         /\ /\ LeaseRunsOut(r).token = r.token
            /\ LeaseRunsOut(r).attempts = r.attempts
            /\ LeaseRunsOut(r).done = r.done
            /\ LeaseRunsOut(r).present = r.present
         /\ /\ BackoffRunsOut(r).token = r.token
            /\ BackoffRunsOut(r).attempts = r.attempts
            /\ BackoffRunsOut(r).done = r.done
            /\ BackoffRunsOut(r).present = r.present
<1> USE DEF Row
<1>1. /\ Inserted(r).token = r.token
      /\ Inserted(r).attempts = r.attempts
      /\ Inserted(r).done = r.done
      /\ Inserted(r).present
  BY DEF Inserted
<1>2. /\ Claimed(r).token = r.attempts + 1
      /\ Claimed(r).attempts = r.attempts + 1
      /\ Claimed(r).done = r.done
      /\ Claimed(r).present = r.present
  BY DEF Claimed
<1>3. /\ Completed(r).token = NoToken
      /\ Completed(r).attempts = r.attempts
      /\ Completed(r).done
      /\ Completed(r).present = r.present
  BY DEF Completed
<1>4. /\ Rescheduled(r).token = NoToken
      /\ Rescheduled(r).attempts = r.attempts
      /\ Rescheduled(r).done = r.done
      /\ Rescheduled(r).present = r.present
  BY DEF Rescheduled
<1>5. /\ LeaseRunsOut(r).token = r.token
      /\ LeaseRunsOut(r).attempts = r.attempts
      /\ LeaseRunsOut(r).done = r.done
      /\ LeaseRunsOut(r).present = r.present
  BY DEF LeaseRunsOut
<1>6. /\ BackoffRunsOut(r).token = r.token
      /\ BackoffRunsOut(r).attempts = r.attempts
      /\ BackoffRunsOut(r).done = r.done
      /\ BackoffRunsOut(r).present = r.present
  BY DEF BackoffRunsOut
<1> QED
  BY <1>1, <1>2, <1>3, <1>4, <1>5, <1>6

(* What it does to the lease's clock. *)
LEMMA RowClock ==
  ASSUME NEW r \in Row
  PROVE  /\ Inserted(r).lapsed = r.lapsed
         /\ ~Claimed(r).lapsed /\ ~Completed(r).lapsed /\ ~Rescheduled(r).lapsed
         /\ LeaseRunsOut(r).lapsed
         /\ BackoffRunsOut(r).lapsed = r.lapsed
BY DEF Row, Inserted, Claimed, Completed, Rescheduled, LeaseRunsOut, BackoffRunsOut
=============================================================================
