------------------------------ MODULE Incident ------------------------------
(* What the database says of one incident, from the webhook to the verdict:  *)
(* one action per transaction that the API and the three servers commit,     *)
(* without the outbox, the leases and the workers' memories behind them.     *)
(* Intake, Diagnosis and RepairPublication each implement their part of it;  *)
(* Console reads it.                                                         *)
EXTENDS FiniteSets

CONSTANT Clusters   \* failure clusters that the logs may contain

Actions == {"EXECUTE_REPAIR", "NEEDS_MORE_EVIDENCE", "ESCALATE_HUMAN"}
Stopped == {"NEEDS_REVIEW", "BUDGET_EXHAUSTED", "VALIDATION_FAILED"}
Terminal == Stopped \cup {"PR_OPENED"}

VARIABLES
  state,      \* incidents.state, "absent" before the INSERT
  cluster,    \* per cluster: "absent", "PENDING", the finding's next_action, or
              \* "NEEDS_REVIEW" for one that was escalated without a finding
  requested,  \* the outbox row of topic repair.work.requested exists
  run,        \* repair_runs: its state, and whether it names a pull request
  attempt,    \* repair_attempts.state of the last attempt
  events      \* types of incident_events

vars == <<state, cluster, requested, run, attempt, events>>

NoRun == [state |-> "absent", pull |-> FALSE]
NoAttempt == "none"

Nothing == /\ cluster = [c \in Clusters |-> "absent"]
           /\ requested = FALSE /\ run = NoRun /\ attempt = NoAttempt

Init == state = "absent" /\ Nothing /\ events = {}

(* What the diagnosis stage finds when clustering is requested, and what the *)
(* repair stage finds as long as the repair is not.                          *)
AwaitsClustering == /\ state = "CLUSTERING_FAILURES" /\ Nothing
                    /\ events = {"workflow.failure.detected", "evidence.ingested"}
AwaitsRepair == /\ state = "DIAGNOSING" /\ ~requested
                /\ run = NoRun /\ attempt = NoAttempt
                /\ events \subseteq {"workflow.failure.detected", "evidence.ingested",
                                     "failure.clustered", "diagnosis.proposed",
                                     "diagnosis.escalated"}

-----------------------------------------------------------------------------
(* Intake: recordFailedWorkflow, and complete of the ingestion queue *)

Detect == /\ state = "absent"
          /\ state' = "RECEIVED"
          /\ events' = events \cup {"workflow.failure.detected"}
          /\ UNCHANGED <<cluster, requested, run, attempt>>

Existing == state # "absent"                        \* mutant: seals again
Unsealed == state = "RECEIVED"

Seal == /\ Unsealed
        /\ state' = "CLUSTERING_FAILURES"
        /\ events' = events \cup {"evidence.ingested"}
        /\ UNCHANGED <<cluster, requested, run, attempt>>

-----------------------------------------------------------------------------
(* Diagnosis: saveClusters, failCluster, recordDiagnosis, failDiagnosis *)

SaveClusters(found) ==
  /\ state = "CLUSTERING_FAILURES"
  /\ state' = "DIAGNOSING"
  /\ cluster' = [c \in Clusters |-> IF c \in found THEN "PENDING" ELSE cluster[c]]
  /\ events' = IF found = {} THEN events ELSE events \cup {"failure.clustered"}
  /\ UNCHANGED <<requested, run, attempt>>

EscalateClustering ==
  /\ state = "CLUSTERING_FAILURES"
  /\ state' = "NEEDS_REVIEW"
  /\ events' = events \cup {"failure.clustering_escalated"}
  /\ UNCHANGED <<cluster, requested, run, attempt>>

(* A diagnosis that says EXECUTE_REPAIR and counts no other PENDING cluster  *)
(* requests the repair.  One that is recorded at the same time as another    *)
(* may count in vain (Diagnosis shows how): request need not be TRUE.        *)
LastToSettle(c) == \A d \in Clusters \ {c} : cluster[d] # "PENDING"

Diagnose(c, action, request) ==
  /\ cluster[c] = "PENDING"
  /\ request => action = "EXECUTE_REPAIR" /\ LastToSettle(c)
  /\ cluster' = [cluster EXCEPT ![c] = action]
  /\ requested' = (requested \/ request)
  /\ events' = events \cup {"diagnosis.proposed"}
  /\ UNCHANGED <<state, run, attempt>>

EscalateDiagnosis(c) ==
  /\ cluster[c] = "PENDING"
  /\ cluster' = [cluster EXCEPT ![c] = "NEEDS_REVIEW"]
  /\ events' = events \cup {"diagnosis.escalated"}
  /\ UNCHANGED <<state, requested, run, attempt>>

-----------------------------------------------------------------------------
(* Repair: claimNext, reschedule, decline and complete of the repair queue *)

Claim == /\ requested /\ run.state \in {"absent", "PENDING", "RUNNING"}
         /\ run' = [run EXCEPT !.state = "RUNNING"]
         /\ state' = IF state = "DIAGNOSING" THEN "PATCHING" ELSE state
         /\ UNCHANGED <<cluster, requested, attempt, events>>

Reschedule == /\ run.state = "RUNNING"
              /\ run' = [run EXCEPT !.state = "PENDING"]
              /\ events' = events \cup {"repair.retry_scheduled"}
              /\ UNCHANGED <<state, cluster, requested, attempt>>

(* decline, or reschedule on the third claim *)
Decline == /\ run.state = "RUNNING"
           /\ state' = "NEEDS_REVIEW"
           /\ run' = [run EXCEPT !.state = "NEEDS_REVIEW"]
           /\ events' = events \cup {"repair.declined"}
           /\ UNCHANGED <<cluster, requested, attempt>>

(* The job's diagnoses: the JOIN LATERAL keeps only clusters with a finding. *)
Diagnoses == {cluster[c] : c \in Clusters} \cap Actions
SomeActionable == "EXECUTE_REPAIR" \in Diagnoses    \* mutant: some for every
Actionable == Diagnoses = {"EXECUTE_REPAIR"}

AttemptsState(final) == IF final = "VALIDATED" THEN "PR_OPENED" ELSE final   \* mutant
Verdict(final) == IF final = "VALIDATED" THEN "PR_OPENED"
                  ELSE IF final = "BUDGET_EXHAUSTED" THEN final ELSE "NEEDS_REVIEW"

Complete(final) ==
  /\ run.state = "RUNNING" /\ Actionable
  /\ state' = Verdict(final)
  /\ run' = [state |-> Verdict(final), pull |-> final = "VALIDATED"]
  /\ attempt' = final
  /\ events' = events \cup {"repair.attempt.recorded"}
                 \cup (IF final = "VALIDATED" THEN {"pull_request.opened"} ELSE {})
  /\ UNCHANGED <<cluster, requested>>

-----------------------------------------------------------------------------
Next == \/ Detect \/ Seal
        \/ \E found \in SUBSET Clusters : SaveClusters(found)
        \/ EscalateClustering
        \/ \E c \in Clusters :
             \/ \E action \in Actions, request \in BOOLEAN : Diagnose(c, action, request)
             \/ EscalateDiagnosis(c)
        \/ Claim \/ Reschedule \/ Decline
        \/ \E final \in {"VALIDATED", "REJECTED", "BUDGET_EXHAUSTED"} : Complete(final)

Spec == Init /\ [][Next]_vars
=============================================================================
