----------------------------- MODULE LeaseQueue -----------------------------
(* The lease protocol of the outbox, as the ingestion queue runs it          *)
(* (persistence/ingestion-queue.ts, workers/ingestion-worker.ts) and as the  *)
(* diagnosis and repair queues repeat it.  Workers share the table only:     *)
(* a worker claims a row under a fresh token, works with no transaction      *)
(* open, then settles or reschedules the row in one transaction that first   *)
(* checks the token.  A worker may crash or overrun its lease at any moment. *)
EXTENDS OutboxRow

CONSTANTS
  Items,      \* rows of one topic, named by their dedupe_key
  Workers,    \* worker processes, or slots of one process
  Outcomes,   \* what a settling transaction may commit
  MaxClaims   \* bound of the model: claims per row

NoOutcome == "none"

ASSUME MaxClaimsAssumption == MaxClaims \in Nat
ASSUME OutcomesAssumption == Outcomes \cap {NoOutcome, "absent", "open"} = {}

VARIABLES
  row,      \* row[i]: the outbox row of i
  lease,    \* lease[w][i]: the token w holds in memory for i, NoToken if none
  outcome   \* outcome[i]: what was committed together with completed_at

vars == <<row, lease, outcome>>

Free == [i \in Items |-> NoToken]

Init == /\ row = [i \in Items |-> Absent]
        /\ lease = [w \in Workers |-> Free]
        /\ outcome = [i \in Items |-> NoOutcome]

Idle(w) == lease[w] = Free

Forget(w) == lease' = [lease EXCEPT ![w] = Free]

(* A transaction requests some work; a repeated request changes nothing. *)
Enqueue(is) == /\ row' = [i \in Items |-> IF i \in is THEN Inserted(row[i]) ELSE row[i]]
               /\ UNCHANGED <<lease, outcome>>

(* claimNext: one transaction, the row locked by FOR UPDATE SKIP LOCKED. *)
Claim(w, i) == /\ Idle(w)
               /\ Claimable(row[i])
               /\ row[i].attempts < MaxClaims
               /\ row' = [row EXCEPT ![i] = Claimed(@)]
               /\ lease' = [lease EXCEPT ![w][i] = row'[i].token]
               /\ UNCHANGED outcome

(* complete: the lease check, the row and the outcome in one transaction.    *)
(* The reply to COMMIT may be lost: the worker then still believes in its    *)
(* lease, and finds it gone when it tries to reschedule.                     *)
Settle(w, i, o) == /\ HeldUnder(row[i], lease[w][i])
                   /\ row' = [row EXCEPT ![i] = Completed(@)]
                   /\ outcome' = [outcome EXCEPT ![i] = o]
                   /\ Forget(w) \/ UNCHANGED lease

(* reschedule *)
Reschedule(w, i) == /\ HeldUnder(row[i], lease[w][i])
                    /\ row' = [row EXCEPT ![i] = Rescheduled(@)]
                    /\ Forget(w)
                    /\ UNCHANGED outcome

(* complete found the token gone and threw; reschedule then found it gone    *)
(* too and returned: the worker goes back to its loop with nothing written.  *)
LoseLease(w, i) == /\ lease[w][i] # NoToken
                   /\ ~HeldUnder(row[i], lease[w][i])
                   /\ Forget(w)
                   /\ UNCHANGED <<row, outcome>>

(* A process dies, with all the workers it runs, and is started again. *)
Crash(ws) == /\ lease' = [w \in Workers |-> IF w \in ws THEN Free ELSE lease[w]]
             /\ UNCHANGED <<row, outcome>>

LeaseLapses(i) == /\ Open(row[i]) /\ row[i].token # NoToken
                  /\ row' = [row EXCEPT ![i] = LeaseRunsOut(@)]
                  /\ UNCHANGED <<lease, outcome>>

BackoffElapses(i) == /\ Open(row[i]) /\ ~row[i].due
                     /\ row' = [row EXCEPT ![i] = BackoffRunsOut(@)]
                     /\ UNCHANGED <<lease, outcome>>

WorkerStep(w, i) == \/ Claim(w, i)
                    \/ \E o \in Outcomes : Settle(w, i, o)
                    \/ Reschedule(w, i)
                    \/ LoseLease(w, i)

Next == \/ \E is \in SUBSET Items : Enqueue(is)
        \/ \E ws \in SUBSET Workers : Crash(ws)
        \/ \E i \in Items : \/ LeaseLapses(i)
                             \/ BackoffElapses(i)
                             \/ \E w \in Workers : WorkerStep(w, i)

Spec == Init /\ [][Next]_vars

-----------------------------------------------------------------------------
(* The types of the table and of the workers' memories. *)
TypeOK == /\ row \in [Items -> Row]
          /\ lease \in [Workers -> [Items -> Nat]]
          /\ outcome \in [Items -> Outcomes \cup {NoOutcome}]

(* The only tokens about are those of claims already made: the row carries   *)
(* the token of its latest claim or none, and two workers never remember the *)
(* same token.  This is what the fresh token of claimNext is for.            *)
TokensAreFresh ==
  \A i \in Items :
    /\ row[i].token \in {NoToken, row[i].attempts}
    /\ \A w \in Workers : lease[w][i] <= row[i].attempts
    /\ \A v, w \in Workers : lease[v][i] = lease[w][i] /\ v # w
                               => lease[v][i] = NoToken

(* However leases lapse and workers stall, at most one worker could commit   *)
(* an outcome for a row (the token check of complete and reschedule).        *)
SoleHolder ==
  \A i \in Items : \A v, w \in Workers :
    HeldUnder(row[i], lease[v][i]) /\ HeldUnder(row[i], lease[w][i]) => v = w

(* A row is completed exactly when an outcome was committed for it, and only *)
(* an open row carries a lease (the CHECK of the outbox table, which thus    *)
(* never aborts a transaction).                                              *)
OutcomeIffDone ==
  \A i \in Items : /\ row[i].done <=> outcome[i] # NoOutcome
                   /\ row[i].done => row[i].present
                   /\ row[i].token # NoToken => Open(row[i])

(* The outcome that is committed is that of the row's latest claim, never of *)
(* a worker that was overtaken after its lease ran out.                      *)
LatestClaimSettles ==
  [][\A i \in Items : outcome'[i] # outcome[i] =>
       \E w \in Workers : lease[w][i] = row[i].attempts]_vars

(* The queue implements exactly-once work. *)
Work == INSTANCE WorkOnce WITH
          status <- [i \in Items |-> IF ~row[i].present THEN "absent"
                                     ELSE IF row[i].done THEN outcome[i]
                                     ELSE "open"]

ImplementsWorkOnce == Work!WorkSpec
=============================================================================
