------------------------------ MODULE Diagnosis ------------------------------
(* The diagnosis stage of one incident: workers/diagnosis-server.ts runs     *)
(* rounds of one ClusterWorker turn followed by Concurrency DiagnosisWorker  *)
(* slots in Promise.all; persistence/diagnosis-queue.ts is their database    *)
(* side.  Several such processes may share the database.  The long           *)
(* transaction of recordDiagnosis is split where PostgreSQL's READ COMMITTED *)
(* lets others in: its count sees what is committed then, and its own writes *)
(* become visible at COMMIT.  The others make all their writes under the row *)
(* lock of the outbox row and are one step each.                             *)
EXTENDS OutboxRow, FiniteSets

CONSTANTS
  Clusters,     \* failure clusters that the logs may contain (fingerprints)
  NoCluster,    \* what an idle slot works on
  Procs,        \* diagnosis server processes
  Concurrency,  \* diagnosisConfig.concurrency, slots per process
  MaxFaults     \* bound of the model: crashes and overrun leases together

ASSUME NoClusterAssumption == NoCluster \notin Clusters
ASSUME BoundsAssumption == Concurrency \in Nat \ {0} /\ MaxFaults \in Nat
ASSUME ProcsAssumption == IsFiniteSet(Procs)

Slots == Procs \X (1 .. Concurrency)
Proc(s) == s[1]

Actions == {"EXECUTE_REPAIR", "NEEDS_MORE_EVIDENCE", "ESCALATE_HUMAN"}
NoFinding == "none"
MaxRecorded == 3     \* CHECK (attempt BETWEEN 1 AND 3) of diagnosis_findings

VARIABLES
  incident,         \* incidents.state
  clusterRow,       \* outbox row, topic diagnosis.cluster.requested
  workRow,          \* per cluster: outbox row, topic diagnosis.work.requested
  clusterState,     \* failure_clusters.state, "absent" before the INSERT
  finding,          \* next_action of the row in diagnosis_findings
  repairRequested,  \* the row of topic repair.work.requested exists
  events,           \* types of incident_events, with the cluster they name
  turn,             \* per process: which half of its round it is in
  clusterToken,     \* per process: the token of its ClusterWorker's job
  slot,             \* per slot: what its DiagnosisWorker is doing
  overlapped,       \* history: two recordDiagnosis transactions were open at once
  faults            \* how much of MaxFaults is spent

tables == <<incident, clusterRow, workRow, clusterState, finding,
            repairRequested, events>>
vars == <<tables, turn, clusterToken, slot, overlapped, faults>>

Ready == [pc |-> "ready", cluster |-> NoCluster, token |-> NoToken,
          action |-> NoFinding, clear |-> FALSE]

Done == [Ready EXCEPT !.pc = "done"]

(* The state that the ingestion worker's complete leaves behind. *)
Init == /\ incident = "CLUSTERING_FAILURES"
        /\ clusterRow = Inserted(Absent)
        /\ workRow = [c \in Clusters |-> Absent]
        /\ clusterState = [c \in Clusters |-> "absent"]
        /\ finding = [c \in Clusters |-> NoFinding]
        /\ repairRequested = FALSE
        /\ events = {<<"evidence.ingested", NoCluster>>}
        /\ turn = [p \in Procs |-> "cluster"]
        /\ clusterToken = [p \in Procs |-> NoToken]
        /\ slot = [s \in Slots |-> Ready]
        /\ overlapped = FALSE
        /\ faults = 0

-----------------------------------------------------------------------------
(* ClusterWorker.runOnce, the first half of a round *)

ClaimClusterJob(p) ==
  /\ turn[p] = "cluster" /\ clusterToken[p] = NoToken
  /\ Claimable(clusterRow)
  /\ clusterRow' = Claimed(clusterRow)
  /\ clusterToken' = [clusterToken EXCEPT ![p] = clusterRow'.token]
  /\ UNCHANGED <<incident, workRow, clusterState, finding, repairRequested,
                 events, turn, slot, overlapped, faults>>

NoClusterJob(p) ==
  /\ turn[p] = "cluster" /\ clusterToken[p] = NoToken
  /\ ~Claimable(clusterRow)
  /\ turn' = [turn EXCEPT ![p] = "diagnose"]
  /\ UNCHANGED <<tables, clusterToken, slot, overlapped, faults>>

EndClusterTurn(p) ==
  /\ turn' = [turn EXCEPT ![p] = "diagnose"]
  /\ clusterToken' = [clusterToken EXCEPT ![p] = NoToken]
  /\ UNCHANGED <<slot, overlapped, faults>>

HoldsClusterJob(p) == HeldUnder(clusterRow, clusterToken[p])

SaveClusters(p, found) ==
  /\ HoldsClusterJob(p)
  /\ clusterRow' = Completed(clusterRow)
  /\ incident' = IF incident = "CLUSTERING_FAILURES" THEN "DIAGNOSING" ELSE incident
  /\ clusterState' = [c \in Clusters |-> IF c \in found THEN "PENDING"
                                         ELSE clusterState[c]]
  /\ workRow' = [c \in Clusters |-> IF c \in found THEN Inserted(workRow[c])
                                    ELSE workRow[c]]
  /\ events' = events \cup ({"failure.clustered"} \X found)
  /\ EndClusterTurn(p)
  /\ UNCHANGED <<finding, repairRequested>>

(* failCluster, after anything in the try block threw *)
EscalateClustering(p) ==
  /\ HoldsClusterJob(p) /\ clusterToken[p] >= 3
  /\ clusterRow' = Completed(clusterRow)
  /\ incident' = "NEEDS_REVIEW"
  /\ events' = events \cup {<<"failure.clustering_escalated", NoCluster>>}
  /\ EndClusterTurn(p)
  /\ UNCHANGED <<workRow, clusterState, finding, repairRequested>>

RescheduleClustering(p) ==
  /\ HoldsClusterJob(p) /\ clusterToken[p] < 3
  /\ clusterRow' = Rescheduled(clusterRow)
  /\ EndClusterTurn(p)
  /\ UNCHANGED <<incident, workRow, clusterState, finding, repairRequested, events>>

LoseClusterJob(p) ==
  /\ clusterToken[p] # NoToken /\ ~HoldsClusterJob(p)
  /\ EndClusterTurn(p)
  /\ UNCHANGED tables

-----------------------------------------------------------------------------
(* DiagnosisWorker.runOnce, once per slot in the second half of a round *)

InTransaction(s) == slot[s].pc \in {"recorded", "counted"}

(* FOR UPDATE SKIP LOCKED passes over the row an open transaction updated. *)
Locked(c) == \E s \in Slots : InTransaction(s) /\ slot[s].cluster = c

HoldsWorkById(s) == slot[s].cluster # NoCluster      \* mutant: token not checked
HoldsWork(s) == /\ slot[s].cluster # NoCluster
                /\ HeldUnder(workRow[slot[s].cluster], slot[s].token)

(* What claimDiagnosisJob would find when slot s asks. *)
OfferedUnlocked(c) == Claimable(workRow[c])          \* mutant: no row lock
Offered(c) == Claimable(workRow[c]) /\ ~Locked(c)

Asks(s) == turn[Proc(s)] = "diagnose" /\ slot[s].pc = "ready"

ClaimWork(s, c) ==
  /\ Asks(s) /\ Offered(c)
  /\ workRow' = [workRow EXCEPT ![c] = Claimed(@)]
  /\ slot' = [slot EXCEPT ![s].pc = "claimed", ![s].cluster = c,
                          ![s].token = workRow'[c].token]
  /\ UNCHANGED <<incident, clusterRow, clusterState, finding, repairRequested,
                 events, turn, clusterToken, overlapped, faults>>

FindNoWork(s) ==
  /\ Asks(s) /\ \A c \in Clusters : ~Offered(c)
  /\ slot' = [slot EXCEPT ![s] = Done]
  /\ UNCHANGED <<tables, turn, clusterToken, overlapped, faults>>

(* UPDATE failure_clusters SET state = 'DIAGNOSED' ... AND state = 'PENDING' *)
DiagnosedAs(state) ==                                \* mutant: wrong column
  IF state = "PENDING" THEN "EXECUTE_REPAIR" ELSE state
DiagnosedNowhere(state) == state                     \* mutant: UPDATE missing
Diagnosed(state) == IF state = "PENDING" THEN "DIAGNOSED" ELSE state

(* What the catch block of runOnce still knows: the job. *)
Failing(s) == [Ready EXCEPT !.pc = "failing", !.cluster = slot[s].cluster,
                            !.token = slot[s].token]

(* The second query of claimDiagnosisJob, outside the claim's transaction. *)
LoadCluster(s) ==
  /\ slot[s].pc = "claimed" /\ clusterState[slot[s].cluster] = "PENDING"
  /\ slot' = [slot EXCEPT ![s].pc = "working"]
  /\ UNCHANGED <<tables, turn, clusterToken, overlapped, faults>>

(* The model call, the evidence check or the lease check failed; beyond the  *)
(* third attempt so does the INSERT, on the CHECK of diagnosis_findings.     *)
DiagnoseFails(s) == /\ slot[s].pc = "working"
                    /\ slot' = [slot EXCEPT ![s] = Failing(s)]
                    /\ UNCHANGED <<tables, turn, clusterToken, overlapped, faults>>

(* recordDiagnosis up to the count: the outbox row is now locked, and only   *)
(* an EXECUTE_REPAIR goes on to count.                                       *)
BeginRecord(s, a) ==
  /\ slot[s].pc = "working" /\ HoldsWork(s)
  /\ slot[s].token <= MaxRecorded
  /\ slot' = [slot EXCEPT ![s].pc = IF a = "EXECUTE_REPAIR" THEN "recorded"
                                    ELSE "counted",
                          ![s].action = a]
  /\ overlapped' = (overlapped \/ \E t \in Slots : InTransaction(t))
  /\ UNCHANGED <<tables, turn, clusterToken, faults>>

(* How many clusters are PENDING: committed rows, and the slot's own. *)
NonePendingEarly(c) ==                               \* mutant: counts before UPDATE
  \A d \in Clusters : clusterState[d] # "PENDING"
OnePendingAtMost(c) ==                               \* mutant: off by one
  Cardinality({d \in Clusters \ {c} : clusterState[d] = "PENDING"}) <= 1
NonePending(c) == \A d \in Clusters \ {c} : clusterState[d] # "PENDING"

CountPending(s) ==
  /\ slot[s].pc = "recorded"
  /\ slot' = [slot EXCEPT ![s].pc = "counted",
                          ![s].clear = NonePending(slot[s].cluster)]
  /\ UNCHANGED <<tables, turn, clusterToken, overlapped, faults>>

(* COMMIT; the reply may be lost, which runOnce takes for a failure. *)
CommitRecord(s, acknowledged) ==
  LET c == slot[s].cluster IN
  /\ slot[s].pc = "counted"
  /\ workRow' = [workRow EXCEPT ![c] = Completed(@)]
  /\ finding' = [finding EXCEPT ![c] = slot[s].action]
  /\ clusterState' = [clusterState EXCEPT ![c] = Diagnosed(@)]
  /\ events' = events \cup {<<"diagnosis.proposed", c>>}
  /\ repairRequested' = (repairRequested \/ slot[s].clear)
  /\ slot' = [slot EXCEPT ![s] = IF acknowledged THEN Done ELSE Failing(s)]
  /\ UNCHANGED <<incident, clusterRow, turn, clusterToken, overlapped, faults>>

(* A statement timeout or a lost connection: ROLLBACK, then the catch. *)
AbortRecord(s) == /\ InTransaction(s)
                  /\ slot' = [slot EXCEPT ![s] = Failing(s)]
                  /\ UNCHANGED <<tables, turn, clusterToken, overlapped, faults>>

(* failDiagnosis; the incident is left as it is. *)
EscalateDiagnosis(s) ==
  LET c == slot[s].cluster IN
  /\ slot[s].pc = "failing" /\ HoldsWork(s) /\ slot[s].token >= 3
  /\ workRow' = [workRow EXCEPT ![c] = Completed(@)]
  /\ clusterState' = [clusterState EXCEPT ![c] = "NEEDS_REVIEW"]
  /\ events' = events \cup {<<"diagnosis.escalated", c>>}
  /\ slot' = [slot EXCEPT ![s] = Done]
  /\ UNCHANGED <<incident, clusterRow, finding, repairRequested, turn,
                 clusterToken, overlapped, faults>>

RescheduleDiagnosis(s) ==
  /\ slot[s].pc = "failing" /\ HoldsWork(s) /\ slot[s].token < 3
  /\ workRow' = [workRow EXCEPT ![slot[s].cluster] = Rescheduled(@)]
  /\ slot' = [slot EXCEPT ![s] = Done]
  /\ UNCHANGED <<incident, clusterRow, clusterState, finding, repairRequested,
                 events, turn, clusterToken, overlapped, faults>>

LoseDiagnosis(s) == /\ slot[s].pc = "failing" /\ ~HoldsWork(s)
                    /\ slot' = [slot EXCEPT ![s] = Done]
                    /\ UNCHANGED <<tables, turn, clusterToken, overlapped, faults>>

-----------------------------------------------------------------------------
(* Rounds, deaths and the clock *)

(* Promise.all resolves when every slot is done; the next round begins. *)
EndRound(p) ==
  /\ turn[p] = "diagnose" /\ \A s \in Slots : Proc(s) = p => slot[s].pc = "done"
  /\ turn' = [turn EXCEPT ![p] = "cluster"]
  /\ slot' = [s \in Slots |-> IF Proc(s) = p THEN Ready ELSE slot[s]]
  /\ UNCHANGED <<tables, clusterToken, overlapped, faults>>

Restarted(p) ==
  /\ turn' = [turn EXCEPT ![p] = "cluster"]
  /\ clusterToken' = [clusterToken EXCEPT ![p] = NoToken]
  /\ slot' = [s \in Slots |-> IF Proc(s) = p THEN Ready ELSE slot[s]]
  /\ UNCHANGED <<tables, overlapped>>

Crash(p) == /\ faults < MaxFaults
            /\ faults' = faults + 1
            /\ Restarted(p)

(* claimDiagnosisJob throws outside the try block of runOnce: Promise.all    *)
(* rejects, main() rejects, and the process with all its slots is gone.      *)
DieOnSettledCluster(s) ==
  /\ slot[s].pc = "claimed" /\ clusterState[slot[s].cluster] # "PENDING"
  /\ Restarted(Proc(s))
  /\ UNCHANGED faults

(* Two minutes pass.  Overrunning a lease is a fault of the worker that      *)
(* holds it; the lease of a dead worker runs out for certain.                *)
ClusterLeaseLapses ==
  /\ Open(clusterRow) /\ clusterRow.token # NoToken /\ ~clusterRow.lapsed
  /\ \/ /\ \A p \in Procs : ~HoldsClusterJob(p)
        /\ UNCHANGED faults
     \/ faults < MaxFaults /\ faults' = faults + 1
  /\ clusterRow' = LeaseRunsOut(clusterRow)
  /\ UNCHANGED <<incident, workRow, clusterState, finding, repairRequested,
                 events, turn, clusterToken, slot, overlapped>>

WorkLeaseLapses(c) ==
  /\ Open(workRow[c]) /\ workRow[c].token # NoToken /\ ~workRow[c].lapsed
  /\ \/ /\ \A s \in Slots : ~(slot[s].cluster = c /\ HoldsWork(s))
        /\ UNCHANGED faults
     \/ faults < MaxFaults /\ faults' = faults + 1
  /\ workRow' = [workRow EXCEPT ![c] = LeaseRunsOut(@)]
  /\ UNCHANGED <<incident, clusterRow, clusterState, finding, repairRequested,
                 events, turn, clusterToken, slot, overlapped>>

ClusterBackoffElapses ==
  /\ Open(clusterRow) /\ ~clusterRow.due
  /\ clusterRow' = BackoffRunsOut(clusterRow)
  /\ UNCHANGED <<incident, workRow, clusterState, finding, repairRequested,
                 events, turn, clusterToken, slot, overlapped, faults>>

WorkBackoffElapses(c) ==
  /\ Open(workRow[c]) /\ ~workRow[c].due
  /\ workRow' = [workRow EXCEPT ![c] = BackoffRunsOut(@)]
  /\ UNCHANGED <<incident, clusterRow, clusterState, finding, repairRequested,
                 events, turn, clusterToken, slot, overlapped, faults>>

-----------------------------------------------------------------------------
ClusterStep(p) == \/ ClaimClusterJob(p)
                  \/ NoClusterJob(p)
                  \/ \E found \in SUBSET Clusters : SaveClusters(p, found)
                  \/ EscalateClustering(p)
                  \/ RescheduleClustering(p)
                  \/ LoseClusterJob(p)

SlotStep(s) == \/ \E c \in Clusters : ClaimWork(s, c)
               \/ FindNoWork(s)
               \/ LoadCluster(s)
               \/ DieOnSettledCluster(s)
               \/ DiagnoseFails(s)
               \/ \E a \in Actions : BeginRecord(s, a)
               \/ CountPending(s)
               \/ \E acknowledged \in BOOLEAN : CommitRecord(s, acknowledged)
               \/ AbortRecord(s)
               \/ EscalateDiagnosis(s)
               \/ RescheduleDiagnosis(s)
               \/ LoseDiagnosis(s)

Clock == \/ ClusterLeaseLapses
         \/ ClusterBackoffElapses
         \/ \E c \in Clusters : WorkLeaseLapses(c) \/ WorkBackoffElapses(c)

Next == \/ \E p \in Procs : ClusterStep(p) \/ EndRound(p) \/ Crash(p)
        \/ \E s \in Slots : SlotStep(s)
        \/ Clock

Spec == Init /\ [][Next]_vars

(* The event loop runs every slot and every round on, and time passes. *)
Fairness == /\ \A p \in Procs : WF_vars(ClusterStep(p)) /\ WF_vars(EndRound(p))
            /\ \A s \in Slots : WF_vars(SlotStep(s))
            /\ WF_vars(ClusterLeaseLapses) /\ WF_vars(ClusterBackoffElapses)
            /\ \A c \in Clusters : /\ WF_vars(WorkLeaseLapses(c))
                                   /\ WF_vars(WorkBackoffElapses(c))

FairSpec == Spec /\ Fairness

-----------------------------------------------------------------------------
(* The types of the tables and of the processes' memories. *)
TypeOK ==
  /\ incident \in {"CLUSTERING_FAILURES", "DIAGNOSING", "NEEDS_REVIEW"}
  /\ clusterRow \in Row
  /\ workRow \in [Clusters -> Row]
  /\ clusterState \in [Clusters -> {"absent", "PENDING", "DIAGNOSED", "NEEDS_REVIEW"}]
  /\ finding \in [Clusters -> Actions \cup {NoFinding}]
  /\ repairRequested \in BOOLEAN
  /\ turn \in [Procs -> {"cluster", "diagnose"}]
  /\ clusterToken \in [Procs -> Nat]
  /\ slot \in [Slots ->
       [pc: {"ready", "claimed", "working", "recorded", "counted", "failing", "done"},
        cluster: Clusters \cup {NoCluster}, token: Nat,
        action: Actions \cup {NoFinding}, clear: BOOLEAN]]
  /\ overlapped \in BOOLEAN
  /\ faults \in 0 .. MaxFaults

(* The outbox and failure_clusters never disagree: a work item is open       *)
(* exactly while its cluster is PENDING, and a cluster is DIAGNOSED exactly  *)
(* when it has a finding.  claimDiagnosisJob relies on it: were an item open *)
(* for a settled cluster, every claim would kill the process.                *)
WorkMatchesClusters ==
  \A c \in Clusters :
    /\ Open(workRow[c]) <=> clusterState[c] = "PENDING"
    /\ workRow[c].present <=> clusterState[c] # "absent"
    /\ clusterState[c] = "DIAGNOSED" <=> finding[c] # NoFinding

(* No clock, claim or reschedule gets between the lease check of             *)
(* recordDiagnosis and its COMMIT (the row lock and SKIP LOCKED).            *)
TransactionKeepsLease == \A s \in Slots : InTransaction(s) => HoldsWork(s)

(* Repair is requested only once every cluster has settled, and on the word  *)
(* of a diagnosis that said so, although each transaction counts alone.      *)
RepairRequestIsSound ==
  repairRequested => /\ \A c \in Clusters : clusterState[c] # "PENDING"
                     /\ \E c \in Clusters : finding[c] = "EXECUTE_REPAIR"

(* A settled cluster and its finding stay as they are: late, overtaken or    *)
(* repeated workers of either process write nothing over them.               *)
DiagnosisIsFinal ==
  [][\A c \in Clusters : clusterState[c] \in {"DIAGNOSED", "NEEDS_REVIEW"}
       => clusterState'[c] = clusterState[c] /\ finding'[c] = finding[c]]_vars

(* The clusters that saveClusters stored. *)
Found == {c \in Clusters : clusterState[c] # "absent"}

AllActionable == /\ Found # {}
                 /\ \A c \in Found : finding[c] = "EXECUTE_REPAIR"

(* Unless two recordDiagnosis transactions overlapped, an incident whose     *)
(* every cluster was diagnosed EXECUTE_REPAIR has its repair requested.      *)
RepairedUnlessOverlapped == AllActionable /\ ~overlapped => repairRequested

(* README: "independent failure clusters can be diagnosed in parallel".  The *)
(* same without the exemption.                                               *)
ActionableIsRepaired == AllActionable => repairRequested

(* When the diagnosis stage has nothing left to do, somebody is told: repair *)
(* is requested, or the incident is handed to review.                        *)
StageSettled == clusterRow.done /\ \A c \in Clusters : ~Open(workRow[c])
StageHandsOver ==
  StageSettled /\ Found # {} => repairRequested \/ incident = "NEEDS_REVIEW"

(* Every job of the stage is settled in the end, for all the retries, lost   *)
(* leases and restarts, as long as faults stop.                              *)
StageSettles == <>[]StageSettled

(* The work items are a LeaseQueue whose workers are the slots. *)
WorkQueue == INSTANCE LeaseQueue WITH
  Items <- Clusters, Workers <- Slots, MaxClaims <- 3 + MaxFaults,
  Outcomes <- {"DIAGNOSED", "NEEDS_REVIEW"},
  row <- workRow,
  lease <- [s \in Slots |-> [c \in Clusters |->
              IF slot[s].cluster = c THEN slot[s].token ELSE NoToken]],
  outcome <- [c \in Clusters |->
                IF clusterState[c] \in {"DIAGNOSED", "NEEDS_REVIEW"}
                THEN clusterState[c] ELSE "none"]

ImplementsLeaseQueue == WorkQueue!Init /\ [][WorkQueue!Next]_WorkQueue!vars

(* The stage takes the incident over as the ingestion leaves it, and each of *)
(* its commits is a step of the incident's life: for all the retries, deaths *)
(* and overlapping transactions, repair is requested by the last cluster to  *)
(* settle or by none.                                                        *)
Life == INSTANCE Incident WITH
  state <- incident,
  cluster <- [c \in Clusters |-> IF clusterState[c] = "DIAGNOSED" THEN finding[c]
                                 ELSE clusterState[c]],
  requested <- repairRequested,
  run <- [state |-> "absent", pull |-> FALSE], attempt <- "none",
  events <- {"workflow.failure.detected"} \cup {e[1] : e \in events}

FollowsIncident == Life!AwaitsClustering /\ [][Life!Next]_Life!vars
=============================================================================
