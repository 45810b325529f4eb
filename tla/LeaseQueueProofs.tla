-------------------------- MODULE LeaseQueueProofs --------------------------
(* The lease protocol is right for any number of rows and workers and any    *)
(* bound on the claims.  The argument: a claim mints a token larger than any *)
(* token about (TokensAreFresh), so the token check of complete and          *)
(* reschedule admits the latest claimant only, and completed_at closes the   *)
(* row for everyone.                                                         *)
EXTENDS LeaseQueue, OutboxRowProofs

(* Table and memories keep their types. *)
THEOREM TypeCorrect == Spec => []TypeOK
<1>1. Init => TypeOK
  BY DEF Init, TypeOK, Free, Row, Absent, NoToken, NoOutcome
<1>2. TypeOK /\ [Next]_vars => TypeOK'
  <2> SUFFICES ASSUME TypeOK, [Next]_vars PROVE TypeOK'
    OBVIOUS
  <2> USE DEF TypeOK
  <2>1. CASE UNCHANGED vars
    BY <2>1 DEF vars
  <2>2. ASSUME NEW is \in SUBSET Items, Enqueue(is) PROVE TypeOK'
    BY <2>2, RowOperatorsTyped DEF Enqueue
  <2>3. ASSUME NEW i \in Items, LeaseLapses(i) PROVE TypeOK'
    BY <2>3, RowOperatorsTyped DEF LeaseLapses
  <2>4. ASSUME NEW i \in Items, BackoffElapses(i) PROVE TypeOK'
    BY <2>4, RowOperatorsTyped DEF BackoffElapses
  <2>5. ASSUME NEW w \in Workers PROVE Forget(w) => lease' \in [Workers -> [Items -> Nat]]
    BY DEF Forget, Free, NoToken
  <2>6. ASSUME NEW i \in Items, NEW w \in Workers, Claim(w, i) PROVE TypeOK'
    <3>1. row' \in [Items -> Row]
      BY <2>6, RowOperatorsTyped DEF Claim
    <3>2. row'[i].token \in Nat
      BY <3>1 DEF Row
    <3> QED
      BY <2>6, <3>1, <3>2 DEF Claim
  <2>7. ASSUME NEW i \in Items, NEW w \in Workers, NEW o \in Outcomes, Settle(w, i, o)
        PROVE  TypeOK'
    BY <2>5, <2>7, RowOperatorsTyped DEF Settle
  <2>8. ASSUME NEW i \in Items, NEW w \in Workers, Reschedule(w, i) PROVE TypeOK'
    BY <2>5, <2>8, RowOperatorsTyped DEF Reschedule
  <2>9. ASSUME NEW i \in Items, NEW w \in Workers, LoseLease(w, i) PROVE TypeOK'
    BY <2>5, <2>9 DEF LoseLease
  <2>10. ASSUME NEW ws \in SUBSET Workers, Crash(ws) PROVE TypeOK'
    BY <2>10 DEF Crash, Free, NoToken
  <2> QED
    BY <2>1, <2>2, <2>3, <2>4, <2>6, <2>7, <2>8, <2>9, <2>10 DEF Next, WorkerStep
<1> QED
  BY <1>1, <1>2, PTL DEF Spec

-----------------------------------------------------------------------------
(* The inductive invariant: fresh tokens, and rows closed with an outcome. *)
LQInv == TypeOK /\ TokensAreFresh /\ OutcomeIffDone

(* Every step that gives the row of i an old token or none, counts no claim  *)
(* back and hands no worker a new token keeps the tokens fresh.              *)
LEMMA NoNewToken ==
  ASSUME TypeOK, TypeOK', TokensAreFresh,
         \A i \in Items : /\ row'[i].attempts = row[i].attempts
                          /\ row'[i].token \in {NoToken, row[i].token},
         \A w \in Workers, i \in Items : lease'[w][i] \in {NoToken, lease[w][i]}
  PROVE  TokensAreFresh'
<1> SUFFICES ASSUME NEW i \in Items
    PROVE /\ row'[i].token \in {NoToken, row'[i].attempts}
          /\ \A w \in Workers : lease'[w][i] <= row'[i].attempts
          /\ \A v, w \in Workers : lease'[v][i] = lease'[w][i] /\ v # w
                                     => lease'[v][i] = NoToken
  BY DEF TokensAreFresh
<1>1. row[i] \in Row /\ row[i].attempts \in Nat
  BY DEF TypeOK, Row
<1>2. row'[i].token \in {NoToken, row'[i].attempts}
  BY DEF TokensAreFresh
<1>3. \A w \in Workers : lease[w][i] \in Nat /\ lease[w][i] <= row[i].attempts
  BY DEF TypeOK, TokensAreFresh
<1>4. \A w \in Workers : lease'[w][i] <= row'[i].attempts
  BY <1>1, <1>3 DEF NoToken
<1>5. \A v, w \in Workers : lease'[v][i] = lease'[w][i] /\ v # w
                             => lease'[v][i] = NoToken
  BY DEF TokensAreFresh
<1> QED
  BY <1>2, <1>4, <1>5

(* Forgetting a lease leaves every memory with an old token or none. *)
LEMMA ForgetKeepsOldTokens ==
  ASSUME TypeOK, NEW w \in Workers, Forget(w) \/ UNCHANGED lease
  PROVE  \A v \in Workers, i \in Items : lease'[v][i] \in {NoToken, lease[v][i]}
BY DEF TypeOK, Forget, Free

(* The inductive invariant of the lease protocol: types, fresh tokens, and    *)
(* outcomes exactly on completed rows.                                       *)
THEOREM InvariantHolds == Spec => []LQInv
<1>1. Init => LQInv
  BY DEF Init, LQInv, TypeOK, TokensAreFresh, OutcomeIffDone, Open, Free, Row, Absent,
         NoToken, NoOutcome
<1>2. TypeOK' /\ LQInv /\ [Next]_vars => LQInv'
  <2> SUFFICES ASSUME TypeOK', LQInv, [Next]_vars PROVE TokensAreFresh' /\ OutcomeIffDone'
    BY DEF LQInv
  <2> USE DEF LQInv
  <2>t. \A i \in Items : /\ row[i] \in Row
                         /\ row[i].attempts \in Nat /\ row[i].token \in Nat
    BY DEF TypeOK, Row
  <2>n. \A o \in Outcomes : o # NoOutcome
    BY OutcomesAssumption
  <2>1. CASE UNCHANGED vars
    BY <2>1 DEF vars, TokensAreFresh, OutcomeIffDone, Open
  <2>2. ASSUME NEW is \in SUBSET Items, Enqueue(is)
        PROVE  TokensAreFresh' /\ OutcomeIffDone'
    <3>1. TokensAreFresh'
      BY <2>2, <2>t, RowFields, NoNewToken DEF Enqueue, TypeOK
    <3>2. OutcomeIffDone'
      BY <2>2, <2>t, RowFields DEF Enqueue, TypeOK, OutcomeIffDone, Open
    <3> QED BY <3>1, <3>2
  <2>3. ASSUME NEW i \in Items, LeaseLapses(i) PROVE TokensAreFresh' /\ OutcomeIffDone'
    <3>1. TokensAreFresh'
      BY <2>3, <2>t, RowFields, NoNewToken DEF LeaseLapses, TypeOK
    <3>2. OutcomeIffDone'
      BY <2>3, <2>t, RowFields DEF LeaseLapses, TypeOK, OutcomeIffDone, Open
    <3> QED BY <3>1, <3>2
  <2>4. ASSUME NEW i \in Items, BackoffElapses(i) PROVE TokensAreFresh' /\ OutcomeIffDone'
    <3>1. TokensAreFresh'
      BY <2>4, <2>t, RowFields, NoNewToken DEF BackoffElapses, TypeOK
    <3>2. OutcomeIffDone'
      BY <2>4, <2>t, RowFields DEF BackoffElapses, TypeOK, OutcomeIffDone, Open
    <3> QED BY <3>1, <3>2
  <2>5. ASSUME NEW i \in Items, NEW w \in Workers, Claim(w, i)
        PROVE  TokensAreFresh' /\ OutcomeIffDone'
    <3> DEFINE t == row[i].attempts + 1
    <3>1. row'[i] = Claimed(row[i]) /\ \A j \in Items \ {i} : row'[j] = row[j]
      BY <2>5 DEF Claim, TypeOK
    <3>2. row'[i].attempts = t /\ row'[i].token = t
      BY <2>t, <3>1, RowFields
    <3>3. /\ lease'[w][i] = t
          /\ \A v \in Workers, j \in Items : v # w \/ j # i => lease'[v][j] = lease[v][j]
      BY <2>5, <3>2 DEF Claim, TypeOK
    <3>4. \A v \in Workers : lease[v][i] \in Nat /\ lease[v][i] < t
      BY <2>t DEF TypeOK, TokensAreFresh
    <3>5. TokensAreFresh'
      <4> SUFFICES ASSUME NEW j \in Items
          PROVE /\ row'[j].token \in {NoToken, row'[j].attempts}
                /\ \A v \in Workers : lease'[v][j] <= row'[j].attempts
                /\ \A u, v \in Workers : lease'[u][j] = lease'[v][j] /\ u # v
                                           => lease'[u][j] = NoToken
        BY DEF TokensAreFresh
      <4>1. CASE j = i
        BY <2>t, <3>2, <3>3, <3>4, <4>1 DEF TokensAreFresh
      <4>2. CASE j # i
        BY <3>1, <3>3, <4>2 DEF TokensAreFresh
      <4> QED BY <4>1, <4>2
    <3>6. OutcomeIffDone'
      BY <2>5, <2>t, <3>1, RowFields DEF Claim, Claimable, Open, OutcomeIffDone
    <3> QED BY <3>5, <3>6
  <2>6. ASSUME NEW i \in Items, NEW w \in Workers, NEW o \in Outcomes, Settle(w, i, o)
        PROVE  TokensAreFresh' /\ OutcomeIffDone'
    <3>1. TokensAreFresh'
      BY <2>6, <2>t, RowFields, NoNewToken, ForgetKeepsOldTokens DEF Settle, TypeOK
    <3>2. row[i].present
      BY <2>6, <2>t DEF Settle, HeldUnder, OutcomeIffDone, Open
    <3>3. OutcomeIffDone'
      BY <2>6, <2>t, <2>n, <3>2, RowFields DEF Settle, TypeOK, OutcomeIffDone, Open
    <3> QED BY <3>1, <3>3
  <2>7. ASSUME NEW i \in Items, NEW w \in Workers, Reschedule(w, i)
        PROVE  TokensAreFresh' /\ OutcomeIffDone'
    <3>1. TokensAreFresh'
      BY <2>7, <2>t, RowFields, NoNewToken, ForgetKeepsOldTokens DEF Reschedule, TypeOK
    <3>2. OutcomeIffDone'
      BY <2>7, <2>t, RowFields DEF Reschedule, TypeOK, OutcomeIffDone, Open
    <3> QED BY <3>1, <3>2
  <2>8. ASSUME NEW w \in Workers, Forget(w), UNCHANGED <<row, outcome>>
        PROVE  TokensAreFresh' /\ OutcomeIffDone'
    <3>1. TokensAreFresh'
      BY <2>8, NoNewToken, ForgetKeepsOldTokens
    <3>2. OutcomeIffDone'
      BY <2>8 DEF OutcomeIffDone, Open
    <3> QED BY <3>1, <3>2
  <2>9. ASSUME NEW ws \in SUBSET Workers, Crash(ws)
        PROVE  TokensAreFresh' /\ OutcomeIffDone'
    <3>1. TokensAreFresh'
      BY <2>9, NoNewToken DEF Crash, Free, TypeOK
    <3>2. OutcomeIffDone'
      BY <2>9 DEF Crash, OutcomeIffDone, Open
    <3> QED BY <3>1, <3>2
  <2> QED
    BY <2>1, <2>2, <2>3, <2>4, <2>5, <2>6, <2>7, <2>8, <2>9
       DEF Next, WorkerStep, LoseLease
<1> QED
  BY <1>1, <1>2, TypeCorrect, PTL DEF Spec

-----------------------------------------------------------------------------
(* No token but those of claims already made is about, and no two workers    *)
(* remember the same one (the randomUUID of claimNext).                      *)
THEOREM TokensAreFreshHolds == Spec => []TokensAreFresh
<1>1. LQInv => TokensAreFresh
  BY DEF LQInv
<1> QED
  BY <1>1, InvariantHolds, PTL

(* At most one worker can commit for a row, however leases lapse and workers *)
(* stall or crash (the token check of complete and reschedule).              *)
THEOREM SoleHolderHolds == Spec => []SoleHolder
<1>1. LQInv => SoleHolder
  BY DEF LQInv, TokensAreFresh, SoleHolder, HeldUnder
<1> QED
  BY <1>1, InvariantHolds, PTL

(* The outbox CHECK never fires and every completed row has its outcome.     *)
THEOREM OutcomeIffDoneHolds == Spec => []OutcomeIffDone
<1>1. LQInv => OutcomeIffDone
  BY DEF LQInv
<1> QED
  BY <1>1, InvariantHolds, PTL

(* Only the latest claimant's outcome is ever committed.                     *)
THEOREM LatestClaimSettlesHolds == Spec => LatestClaimSettles
<1> DEFINE A == \A i \in Items : outcome'[i] # outcome[i] =>
                  \E w \in Workers : lease[w][i] = row[i].attempts
<1>1. LQInv /\ [Next]_vars => [A]_vars
  <2> SUFFICES ASSUME LQInv, Next PROVE A
    OBVIOUS
  <2>1. CASE UNCHANGED outcome
    BY <2>1
  <2>2. ASSUME NEW i \in Items, NEW w \in Workers, NEW o \in Outcomes, Settle(w, i, o)
        PROVE  A
    <3>1. lease[w][i] = row[i].attempts
      BY <2>2 DEF Settle, HeldUnder, LQInv, TokensAreFresh
    <3>2. \A j \in Items : outcome'[j] # outcome[j] => j = i
      BY <2>2 DEF Settle, LQInv, TypeOK
    <3> QED BY <3>1, <3>2
  <2> QED
    BY <2>1, <2>2 DEF Next, WorkerStep, Enqueue, Claim, Reschedule, LoseLease, Crash,
                      LeaseLapses, BackoffElapses
<1> QED
  BY <1>1, InvariantHolds, PTL DEF Spec, LatestClaimSettles

(* The lease protocol implements exactly-once work: what the rest of the     *)
(* program sees of a row is one request and one final outcome.               *)
THEOREM Refinement == Spec => ImplementsWorkOnce
<1> DEFINE view(r, o) == IF ~r.present THEN "absent" ELSE IF r.done THEN o ELSE "open"
           st == [i \in Items |-> view(row[i], outcome[i])]
<1>1. Init => Work!WorkInit
  BY DEF Init, Work!WorkInit, Absent
<1>2. LQInv /\ LQInv' /\ [Next]_vars => [Work!WorkNext]_st
  <2> SUFFICES ASSUME LQInv, LQInv', [Next]_vars
      PROVE Work!WorkNext \/ st' = st
    OBVIOUS
  <2>t. \A i \in Items : row[i] \in Row
    BY DEF LQInv, TypeOK
  <2>1. CASE \A i \in Items : view(row'[i], outcome'[i]) = view(row[i], outcome[i])
    BY <2>1
  <2>2. CASE UNCHANGED vars
    BY <2>1, <2>2 DEF vars
  <2>3. ASSUME NEW is \in SUBSET Items, Enqueue(is) PROVE Work!WorkNext
    <3>1. PICK fresh \in SUBSET Items : fresh = {i \in is : ~row[i].present}
      OBVIOUS
    <3>2. \A i \in Items : row'[i] = IF i \in is THEN Inserted(row[i]) ELSE row[i]
      BY <2>3 DEF Enqueue
    <3>3. \A i \in fresh : view(row'[i], outcome'[i]) = "open"
      BY <2>3, <2>t, <3>1, <3>2, RowFields DEF Enqueue, LQInv, OutcomeIffDone
    <3>4. \A i \in Items \ fresh : view(row'[i], outcome'[i]) = view(row[i], outcome[i])
      BY <2>3, <3>1, <3>2 DEF Enqueue, Inserted
    <3>5. st' = [i \in Items |-> IF i \in fresh THEN "open" ELSE st[i]]
      BY <3>3, <3>4
    <3>6. Work!Request(fresh)
      BY <3>1, <3>5 DEF Work!Request
    <3> QED BY <3>6 DEF Work!WorkNext
  <2>4. ASSUME NEW i \in Items, NEW w \in Workers, NEW o \in Outcomes, Settle(w, i, o)
        PROVE  Work!WorkNext
    <3>1. row[i].present /\ ~row[i].done
      BY <2>4, <2>t DEF Settle, HeldUnder, LQInv, OutcomeIffDone, Open
    <3>2. view(row'[i], outcome'[i]) = o
      BY <2>4, <2>t, <3>1, RowFields DEF Settle, LQInv, TypeOK
    <3>3. st' = [st EXCEPT ![i] = o]
      BY <2>4, <3>2 DEF Settle, LQInv, TypeOK
    <3>4. Work!Finish(i, o)
      BY <3>1, <3>3 DEF Work!Finish
    <3> QED BY <3>4 DEF Work!WorkNext
  <2>5. ASSUME NEW i \in Items, NEW w \in Workers, Claim(w, i) PROVE st' = st
    BY <2>1, <2>5, <2>t, RowFields DEF Claim, LQInv, TypeOK
  <2>6. ASSUME NEW i \in Items, NEW w \in Workers, Reschedule(w, i) PROVE st' = st
    BY <2>1, <2>6, <2>t, RowFields DEF Reschedule, LQInv, TypeOK
  <2>7. ASSUME NEW i \in Items, LeaseLapses(i) PROVE st' = st
    BY <2>1, <2>7, <2>t, RowFields DEF LeaseLapses, LQInv, TypeOK
  <2>8. ASSUME NEW i \in Items, BackoffElapses(i) PROVE st' = st
    BY <2>1, <2>8, <2>t, RowFields DEF BackoffElapses, LQInv, TypeOK
  <2>9. CASE UNCHANGED <<row, outcome>>
    BY <2>1, <2>9
  <2> QED
    BY <2>2, <2>3, <2>4, <2>5, <2>6, <2>7, <2>8, <2>9
       DEF Next, WorkerStep, LoseLease, Crash
<1> QED
  BY <1>1, <1>2, InvariantHolds, PTL DEF Spec, ImplementsWorkOnce, Work!WorkSpec
=============================================================================
