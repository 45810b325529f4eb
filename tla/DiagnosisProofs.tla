--------------------------- MODULE DiagnosisProofs ---------------------------
(* The diagnosis stage is right for any number of clusters, processes and    *)
(* slots.  The argument: clustering commits once (OneClustering); the tokens *)
(* of a work item are those of its claims, each with one slot (LeasesFresh), *)
(* so one slot at most passes the token check, and it keeps passing it until *)
(* COMMIT (TransactionKeepsLease); what a transaction counted stays true     *)
(* until it commits, as clusters only ever settle (Memory); and as long as   *)
(* no two transactions overlapped, the last to count has counted right       *)
(* (OneByOne).                                                               *)
EXTENDS Diagnosis, OutboxRowProofs, FiniteSetTheorems

Memories == [pc: {"ready", "claimed", "working", "recorded", "counted", "failing", "done"},
             cluster: Clusters \cup {NoCluster}, token: Nat,
             action: Actions \cup {NoFinding}, clear: BOOLEAN]

Active(s) == slot[s].pc \notin {"ready", "done"}

(* What a slot remembers at each place of runOnce. *)
Memory ==
  \A s \in Slots :
    /\ ~Active(s) => slot[s].cluster = NoCluster /\ slot[s].token = NoToken
    /\ InTransaction(s) => slot[s].action \in Actions
    /\ slot[s].pc = "recorded" => slot[s].action = "EXECUTE_REPAIR"
    /\ slot[s].clear => /\ slot[s].pc = "counted" /\ slot[s].action = "EXECUTE_REPAIR"
                        /\ NonePending(slot[s].cluster)

(* A token is that of one claim of one slot. *)
LeasesFresh ==
  /\ \A c \in Clusters : /\ workRow[c].token \in {NoToken, workRow[c].attempts}
                         /\ workRow[c].token # NoToken => Open(workRow[c])
  /\ \A s \in Slots : Active(s) =>
       /\ slot[s].cluster \in Clusters /\ slot[s].token # NoToken
       /\ slot[s].token <= workRow[slot[s].cluster].attempts
  /\ \A s, t \in Slots :
       s # t /\ Active(s) /\ Active(t) /\ slot[s].cluster = slot[t].cluster
         => slot[s].token # slot[t].token

(* Nothing is there to diagnose before the one commit of the clustering. *)
OneClustering ==
  ~clusterRow.done => /\ incident = "CLUSTERING_FAILURES"
                      /\ \A c \in Clusters : workRow[c] = Absent

(* A transaction that was alone and counted a PENDING cluster will not be    *)
(* the last one.                                                             *)
SomeUnsettled(c) ==
  \E d \in Clusters \ {c} : clusterState[d] \in {"PENDING", "NEEDS_REVIEW"}

OneByOne ==
  ~overlapped =>
    /\ \A s, t \in Slots : InTransaction(s) /\ InTransaction(t) => s = t
    /\ \A s \in Slots :
         slot[s].pc = "counted" /\ slot[s].action = "EXECUTE_REPAIR" /\ ~slot[s].clear
           => SomeUnsettled(slot[s].cluster)
    /\ RepairedUnlessOverlapped

DiagnosisInv == /\ TypeOK /\ WorkMatchesClusters /\ TransactionKeepsLease
                /\ RepairRequestIsSound /\ Memory /\ LeasesFresh
                /\ OneClustering /\ OneByOne

-----------------------------------------------------------------------------
(* Where each step of a slot leaves that slot's memory. *)
Becomes(s, pc, cluster, token, action, clear) ==
  /\ slot' \in [Slots -> Memories]
  /\ slot'[s].pc = pc /\ slot'[s].cluster = cluster /\ slot'[s].token = token
  /\ slot'[s].action = action /\ (slot'[s].clear <=> clear)
  /\ \A t \in Slots \ {s} : slot'[t] = slot[t]

Keeping(s, pc, action, clear) ==
  Becomes(s, pc, slot[s].cluster, slot[s].token, action, clear)
BecomesDone(s) == Becomes(s, "done", NoCluster, NoToken, NoFinding, FALSE)
BecomesFailing(s) == Keeping(s, "failing", NoFinding, FALSE)

(* The types that the proofs start from. *)
LEMMA Unfolded ==
  ASSUME TypeOK
  PROVE  /\ slot \in [Slots -> Memories] /\ workRow \in [Clusters -> Row]
         /\ clusterRow \in Row
         /\ \A c \in Clusters : workRow[c] \in Row /\ workRow[c].attempts \in Nat
                                /\ workRow[c].token \in Nat
         /\ \A s \in Slots : slot[s] \in Memories /\ slot[s].token \in Nat
BY DEF TypeOK, Memories, Row

(* A slot at rest. *)
LEMMA RestTyped ==
  /\ Ready \in Memories /\ Done \in Memories
  /\ Ready.pc = "ready" /\ Ready.cluster = NoCluster /\ Ready.token = NoToken
  /\ Ready.action = NoFinding /\ Ready.clear = FALSE
  /\ Done.pc = "done" /\ Done.cluster = NoCluster /\ Done.token = NoToken
  /\ Done.action = NoFinding /\ Done.clear = FALSE
BY DEF Ready, Done, Memories, NoToken, NoFinding

(* A slot that is overwritten is what was written. *)
LEMMA SlotWritten ==
  ASSUME slot \in [Slots -> Memories], NEW s \in Slots, NEW m \in Memories,
         slot' = [slot EXCEPT ![s] = m]
  PROVE  Becomes(s, m.pc, m.cluster, m.token, m.action, m.clear)
<1>1. m.clear \in BOOLEAN
  BY DEF Memories
<1> QED
  BY <1>1 DEF Becomes

(* The catch block keeps the job only. *)
LEMMA FailingTyped ==
  ASSUME slot \in [Slots -> Memories], NEW s \in Slots
  PROVE  /\ Failing(s) \in Memories /\ Failing(s).pc = "failing"
         /\ Failing(s).cluster = slot[s].cluster /\ Failing(s).token = slot[s].token
         /\ Failing(s).action = NoFinding /\ Failing(s).clear = FALSE
BY DEF Failing, Ready, Memories, NoToken, NoFinding

(* Where each step of a slot takes its memory. *)
LEMMA Moves ==
  ASSUME slot \in [Slots -> Memories], workRow \in [Clusters -> Row], NEW s \in Slots
  PROVE  /\ \A c \in Clusters : ClaimWork(s, c) =>
              Becomes(s, "claimed", c, workRow'[c].token, slot[s].action, slot[s].clear)
         /\ LoadCluster(s) => Keeping(s, "working", slot[s].action, slot[s].clear)
         /\ \A a \in Actions : BeginRecord(s, a) =>
              Keeping(s, IF a = "EXECUTE_REPAIR" THEN "recorded" ELSE "counted", a, slot[s].clear)
         /\ CountPending(s) =>
              Keeping(s, "counted", slot[s].action, NonePending(slot[s].cluster))
         /\ DiagnoseFails(s) \/ AbortRecord(s) \/ CommitRecord(s, FALSE) => BecomesFailing(s)
         /\ FindNoWork(s) \/ CommitRecord(s, TRUE) \/ EscalateDiagnosis(s)
              \/ RescheduleDiagnosis(s) \/ LoseDiagnosis(s) => BecomesDone(s)
<1>1. ASSUME NEW c \in Clusters, ClaimWork(s, c)
      PROVE  Becomes(s, "claimed", c, workRow'[c].token, slot[s].action, slot[s].clear)
  <2> DEFINE m == [slot[s] EXCEPT !.pc = "claimed", !.cluster = c, !.token = workRow'[c].token]
  <2>1. workRow'[c].token \in Nat
    BY <1>1, RowOperatorsTyped DEF ClaimWork, Row
  <2>2. m \in Memories
    BY <2>1 DEF Memories
  <2>3. slot' = [slot EXCEPT ![s] = m]
    BY <1>1 DEF ClaimWork, Memories
  <2>4. /\ m.pc = "claimed" /\ m.cluster = c /\ m.token = workRow'[c].token
        /\ m.action = slot[s].action /\ m.clear = slot[s].clear
    BY DEF Memories
  <2> HIDE DEF m
  <2> QED
    BY <2>2, <2>3, <2>4, SlotWritten
<1>2. ASSUME LoadCluster(s) PROVE Keeping(s, "working", slot[s].action, slot[s].clear)
  <2> DEFINE m == [slot[s] EXCEPT !.pc = "working"]
  <2>1. m \in Memories /\ slot' = [slot EXCEPT ![s] = m]
    BY <1>2 DEF LoadCluster, Memories
  <2>2. /\ m.pc = "working" /\ m.cluster = slot[s].cluster /\ m.token = slot[s].token
        /\ m.action = slot[s].action /\ m.clear = slot[s].clear
    BY DEF Memories
  <2> HIDE DEF m
  <2> QED
    BY <2>1, <2>2, SlotWritten DEF Keeping
<1>3. ASSUME NEW a \in Actions, BeginRecord(s, a)
      PROVE  Keeping(s, IF a = "EXECUTE_REPAIR" THEN "recorded" ELSE "counted", a, slot[s].clear)
  <2> DEFINE place == IF a = "EXECUTE_REPAIR" THEN "recorded" ELSE "counted"
             m == [slot[s] EXCEPT !.pc = place, !.action = a]
  <2>1. m \in Memories /\ slot' = [slot EXCEPT ![s] = m]
    BY <1>3 DEF BeginRecord, Memories
  <2>2. /\ m.pc = place /\ m.cluster = slot[s].cluster /\ m.token = slot[s].token
        /\ m.action = a /\ m.clear = slot[s].clear
    BY DEF Memories
  <2> HIDE DEF m
  <2> QED
    BY <2>1, <2>2, SlotWritten DEF Keeping
<1>4. ASSUME CountPending(s)
      PROVE  Keeping(s, "counted", slot[s].action, NonePending(slot[s].cluster))
  <2> DEFINE m == [slot[s] EXCEPT !.pc = "counted", !.clear = NonePending(slot[s].cluster)]
  <2>1. NonePending(slot[s].cluster) \in BOOLEAN
    BY DEF NonePending
  <2>2. m \in Memories /\ slot' = [slot EXCEPT ![s] = m]
    BY <1>4, <2>1 DEF CountPending, Memories
  <2>3. /\ m.pc = "counted" /\ m.cluster = slot[s].cluster /\ m.token = slot[s].token
        /\ m.action = slot[s].action /\ m.clear = NonePending(slot[s].cluster)
    BY DEF Memories
  <2> HIDE DEF m
  <2> QED
    BY <2>2, <2>3, SlotWritten DEF Keeping
<1>5. ASSUME DiagnoseFails(s) \/ AbortRecord(s) \/ CommitRecord(s, FALSE)
      PROVE  BecomesFailing(s)
  <2>1. slot' = [slot EXCEPT ![s] = Failing(s)]
    BY <1>5 DEF DiagnoseFails, AbortRecord, CommitRecord
  <2> QED
    BY <2>1, FailingTyped, SlotWritten DEF BecomesFailing, Keeping
<1>6. ASSUME FindNoWork(s) \/ CommitRecord(s, TRUE) \/ EscalateDiagnosis(s)
             \/ RescheduleDiagnosis(s) \/ LoseDiagnosis(s)
      PROVE  BecomesDone(s)
  <2>1. slot' = [slot EXCEPT ![s] = Done]
    BY <1>6 DEF FindNoWork, CommitRecord, EscalateDiagnosis, RescheduleDiagnosis, LoseDiagnosis
  <2> QED
    BY <2>1, RestTyped, SlotWritten DEF BecomesDone
<1> QED
  BY <1>1, <1>2, <1>3, <1>4, <1>5, <1>6

-----------------------------------------------------------------------------
(* The steps by what they write. *)

(* The cluster worker, but for the commit of its clusters, and its job's     *)
(* clock: nothing that a slot works with changes.                            *)
ClusterSide ==
  \/ \E p \in Procs : \/ ClaimClusterJob(p) \/ NoClusterJob(p) \/ EscalateClustering(p)
                      \/ RescheduleClustering(p) \/ LoseClusterJob(p)
  \/ ClusterLeaseLapses \/ ClusterBackoffElapses

(* The slots of a process begin anew. *)
Reset == \/ \E p \in Procs : EndRound(p) \/ Crash(p)
         \/ \E s \in Slots : DieOnSettledCluster(s)

(* Every step is of one of these kinds. *)
LEMMA StepKinds ==
  ASSUME [Next]_vars
  PROVE  \/ UNCHANGED vars \/ ClusterSide \/ Reset
         \/ \E p \in Procs, found \in SUBSET Clusters : SaveClusters(p, found)
         \/ \E s \in Slots :
              \/ \E c \in Clusters : ClaimWork(s, c)
              \/ FindNoWork(s) \/ LoadCluster(s) \/ DiagnoseFails(s)
              \/ \E a \in Actions : BeginRecord(s, a)
              \/ CountPending(s) \/ CommitRecord(s, TRUE) \/ CommitRecord(s, FALSE)
              \/ AbortRecord(s) \/ EscalateDiagnosis(s) \/ RescheduleDiagnosis(s)
              \/ LoseDiagnosis(s)
         \/ \E c \in Clusters : WorkLeaseLapses(c) \/ WorkBackoffElapses(c)
<1>1. ASSUME NEW p \in Procs, ClusterStep(p) \/ EndRound(p) \/ Crash(p)
      PROVE  \/ ClusterSide \/ Reset
             \/ \E found \in SUBSET Clusters : SaveClusters(p, found)
  BY <1>1 DEF ClusterStep, ClusterSide, Reset
<1>2. ASSUME NEW s \in Slots, SlotStep(s)
      PROVE  \/ Reset
             \/ \E c \in Clusters : ClaimWork(s, c)
             \/ FindNoWork(s) \/ LoadCluster(s) \/ DiagnoseFails(s)
             \/ \E a \in Actions : BeginRecord(s, a)
             \/ CountPending(s) \/ CommitRecord(s, TRUE) \/ CommitRecord(s, FALSE)
             \/ AbortRecord(s) \/ EscalateDiagnosis(s) \/ RescheduleDiagnosis(s)
             \/ LoseDiagnosis(s)
  <2>1. BOOLEAN = {TRUE, FALSE}
    OBVIOUS
  <2> QED
    BY <1>2, <2>1 DEF SlotStep, Reset
<1>3. ASSUME Clock
      PROVE  ClusterSide \/ \E c \in Clusters : WorkLeaseLapses(c) \/ WorkBackoffElapses(c)
  BY <1>3 DEF Clock, ClusterSide
<1> QED
  BY <1>1, <1>2, <1>3 DEF Next

(* What the cluster worker leaves alone, and what it may say of the job. *)
LEMMA ClusterSideFrame ==
  ASSUME TypeOK, ClusterSide
  PROVE  /\ UNCHANGED <<workRow, clusterState, finding, repairRequested, slot, overlapped>>
         /\ ~clusterRow'.done => ~clusterRow.done /\ incident' = incident
         /\ faults' \in {faults, faults + 1}
<1>1. UNCHANGED <<workRow, clusterState, finding, repairRequested, slot, overlapped>>
  BY DEF ClusterSide, ClaimClusterJob, NoClusterJob, EscalateClustering, RescheduleClustering,
         LoseClusterJob, ClusterLeaseLapses, ClusterBackoffElapses, EndClusterTurn, tables
<1>2. ASSUME ~clusterRow'.done PROVE ~clusterRow.done /\ incident' = incident
  BY <1>2, Unfolded, RowFields
     DEF ClusterSide, ClaimClusterJob, NoClusterJob, EscalateClustering, RescheduleClustering,
         LoseClusterJob, ClusterLeaseLapses, ClusterBackoffElapses, tables, HoldsClusterJob,
         HeldUnder, Open
<1>3. faults' \in {faults, faults + 1}
  BY DEF ClusterSide, ClaimClusterJob, NoClusterJob, EscalateClustering, RescheduleClustering,
         LoseClusterJob, ClusterLeaseLapses, ClusterBackoffElapses, EndClusterTurn
<1> QED
  BY <1>1, <1>2, <1>3

(* A reset leaves the tables alone, and each slot as it was or at rest. *)
LEMMA ResetFrame ==
  ASSUME TypeOK, Reset
  PROVE  /\ UNCHANGED <<tables, overlapped>>
         /\ slot' \in [Slots -> Memories]
         /\ \A t \in Slots : slot'[t] = slot[t] \/ slot'[t] = Ready
<1>1. UNCHANGED <<tables, overlapped>>
  BY DEF Reset, EndRound, Crash, DieOnSettledCluster, Restarted
<1> DEFINE Anew(q) == [t \in Slots |-> IF Proc(t) = q THEN Ready ELSE slot[t]]
<1>2. \E q : slot' = Anew(q)
  <2>1. ASSUME NEW p \in Procs, EndRound(p) \/ Crash(p) PROVE slot' = Anew(p)
    BY <2>1 DEF EndRound, Crash, Restarted
  <2>2. ASSUME NEW s \in Slots, DieOnSettledCluster(s) PROVE slot' = Anew(Proc(s))
    BY <2>2 DEF DieOnSettledCluster, Restarted
  <2> HIDE DEF Anew
  <2> QED
    BY <2>1, <2>2 DEF Reset
<1>3. ASSUME NEW q, slot' = Anew(q)
      PROVE  /\ slot' \in [Slots -> Memories]
             /\ \A t \in Slots : slot'[t] = slot[t] \/ slot'[t] = Ready
  BY <1>3, Unfolded, RestTyped
<1> QED
  BY <1>1, <1>2, <1>3

(* A slot that is in the middle of a job has one. *)
LEMMA ActiveHasCluster ==
  ASSUME DiagnosisInv, NEW s \in Slots
  PROVE  /\ InTransaction(s) => Active(s) /\ HoldsWork(s)
         /\ slot[s].pc = "failing" => Active(s)
         /\ HoldsWork(s) \/ Active(s) => slot[s].cluster \in Clusters
         /\ HoldsWork(s) => /\ Active(s) /\ Open(workRow[slot[s].cluster])
                            /\ clusterState[slot[s].cluster] = "PENDING"
                            /\ slot[s].token # NoToken
                            /\ workRow[slot[s].cluster].token = slot[s].token
<1>1. InTransaction(s) \/ slot[s].pc = "failing" => Active(s)
  BY DEF InTransaction, Active
<1>2. InTransaction(s) => HoldsWork(s)
  BY DEF DiagnosisInv, TransactionKeepsLease
<1>3. HoldsWork(s) => Active(s)
  BY DEF DiagnosisInv, Memory, HoldsWork, HeldUnder
<1>4. Active(s) => slot[s].cluster \in Clusters
  BY DEF DiagnosisInv, LeasesFresh
<1>5. ASSUME HoldsWork(s)
      PROVE  /\ Open(workRow[slot[s].cluster]) /\ clusterState[slot[s].cluster] = "PENDING"
             /\ slot[s].token # NoToken /\ workRow[slot[s].cluster].token = slot[s].token
  BY <1>3, <1>4, <1>5 DEF DiagnosisInv, LeasesFresh, WorkMatchesClusters, HoldsWork, HeldUnder
<1> QED
  BY <1>1, <1>2, <1>3, <1>4, <1>5

(* The types of what the cluster worker and the clock write. *)
LEMMA ClusterSideTyped ==
  ASSUME TypeOK, ClusterSide \/ Reset
  PROVE  /\ incident' \in {"CLUSTERING_FAILURES", "DIAGNOSING", "NEEDS_REVIEW"}
         /\ clusterRow' \in Row
         /\ turn' \in [Procs -> {"cluster", "diagnose"}]
         /\ clusterToken' \in [Procs -> Nat]
         /\ faults' \in 0 .. MaxFaults
<1> USE RowOperatorsTyped DEF TypeOK
<1>1. incident' \in {"CLUSTERING_FAILURES", "DIAGNOSING", "NEEDS_REVIEW"}
  BY DEF ClusterSide, Reset, ClaimClusterJob, NoClusterJob, EscalateClustering,
         RescheduleClustering, LoseClusterJob, ClusterLeaseLapses, ClusterBackoffElapses,
         EndRound, Crash, DieOnSettledCluster, Restarted, tables
<1>2. clusterRow' \in Row
  BY DEF ClusterSide, Reset, ClaimClusterJob, NoClusterJob, EscalateClustering,
         RescheduleClustering, LoseClusterJob, ClusterLeaseLapses, ClusterBackoffElapses,
         EndRound, Crash, DieOnSettledCluster, Restarted, tables
<1>3. turn' \in [Procs -> {"cluster", "diagnose"}]
  BY DEF ClusterSide, Reset, ClaimClusterJob, NoClusterJob, EscalateClustering, EndClusterTurn,
         RescheduleClustering, LoseClusterJob, ClusterLeaseLapses, ClusterBackoffElapses,
         EndRound, Crash, DieOnSettledCluster, Restarted
<1>4. clusterToken' \in [Procs -> Nat]
  <2>1. clusterRow'.token \in Nat /\ NoToken \in Nat
    BY <1>2 DEF Row, NoToken
  <2> QED
    BY <2>1 DEF ClusterSide, Reset, ClaimClusterJob, NoClusterJob, EscalateClustering,
         EndClusterTurn, RescheduleClustering, LoseClusterJob, ClusterLeaseLapses,
         ClusterBackoffElapses, EndRound, Crash, DieOnSettledCluster, Restarted
<1>5. faults' \in 0 .. MaxFaults
  <2>1. faults' = faults \/ (faults < MaxFaults /\ faults' = faults + 1)
    BY DEF ClusterSide, Reset, ClaimClusterJob, NoClusterJob, EscalateClustering, EndClusterTurn,
         RescheduleClustering, LoseClusterJob, ClusterLeaseLapses, ClusterBackoffElapses,
         EndRound, Crash, DieOnSettledCluster
  <2> QED
    BY <2>1, BoundsAssumption
<1> QED
  BY <1>1, <1>2, <1>3, <1>4, <1>5

-----------------------------------------------------------------------------
(* Steps that write no work item and no cluster. *)

(* Whatever happens to the clustering job or the rounds, slots that stay as  *)
(* they are or come to rest keep the invariant.                              *)
LEMMA RestFrame ==
  ASSUME DiagnosisInv, slot' \in [Slots -> Memories],
         UNCHANGED <<workRow, clusterState, finding, repairRequested, overlapped>>,
         ~clusterRow'.done => ~clusterRow.done /\ incident' = incident,
         /\ incident' \in {"CLUSTERING_FAILURES", "DIAGNOSING", "NEEDS_REVIEW"}
         /\ clusterRow' \in Row
         /\ turn' \in [Procs -> {"cluster", "diagnose"}]
         /\ clusterToken' \in [Procs -> Nat]
         /\ faults' \in 0 .. MaxFaults,
         \A s \in Slots : slot'[s] = slot[s] \/ slot'[s] = Ready \/ slot'[s] = Done
  PROVE  DiagnosisInv'
<1>r. \A s \in Slots :
        slot'[s] = slot[s] \/ /\ slot'[s].pc \in {"ready", "done"}
                              /\ slot'[s].cluster = NoCluster /\ slot'[s].token = NoToken
                              /\ slot'[s].clear = FALSE
  BY RestTyped
<1>1. TypeOK'
  BY DEF DiagnosisInv, TypeOK, Memories
<1>2. WorkMatchesClusters' /\ RepairRequestIsSound'
  BY DEF DiagnosisInv, WorkMatchesClusters, RepairRequestIsSound
<1>3. TransactionKeepsLease'
  BY <1>r DEF DiagnosisInv, TransactionKeepsLease, InTransaction, HoldsWork
<1>4. Memory'
  <2> SUFFICES ASSUME NEW s \in Slots
      PROVE  /\ ~Active(s)' => slot'[s].cluster = NoCluster /\ slot'[s].token = NoToken
             /\ InTransaction(s)' => slot'[s].action \in Actions
             /\ slot'[s].pc = "recorded" => slot'[s].action = "EXECUTE_REPAIR"
             /\ slot'[s].clear => /\ slot'[s].pc = "counted"
                                  /\ slot'[s].action = "EXECUTE_REPAIR"
                                  /\ NonePending(slot[s].cluster)'
    BY DEF Memory
  <2>1. CASE slot'[s] = slot[s]
    BY <2>1 DEF DiagnosisInv, Memory, Active, InTransaction, NonePending
  <2>2. CASE slot'[s] # slot[s]
    BY <1>r, <2>2 DEF Active, InTransaction
  <2> QED
    BY <2>1, <2>2
<1>5. LeasesFresh'
  BY <1>r DEF DiagnosisInv, LeasesFresh, Active
<1>6. OneClustering'
  BY DEF DiagnosisInv, OneClustering
<1>7. OneByOne'
  <2>1. RepairedUnlessOverlapped' <=> RepairedUnlessOverlapped
    BY DEF RepairedUnlessOverlapped, AllActionable, Found
  <2>2. \A c : SomeUnsettled(c)' <=> SomeUnsettled(c)
    BY DEF SomeUnsettled
  <2> QED
    BY <1>r, <2>1, <2>2 DEF DiagnosisInv, OneByOne, InTransaction
<1> QED
  BY <1>1, <1>2, <1>3, <1>4, <1>5, <1>6, <1>7 DEF DiagnosisInv

(* A slot in the middle of its job goes on with it, reading the tables only. *)
LEMMA KeepingFrame ==
  ASSUME DiagnosisInv, NEW s \in Slots, NEW pc \in {"working", "recorded", "counted", "failing"},
         NEW a \in Actions \cup {NoFinding}, NEW clear \in BOOLEAN,
         Active(s), Keeping(s, pc, a, clear),
         UNCHANGED <<tables, turn, clusterToken, faults>>, overlapped' \in BOOLEAN,
         pc \in {"recorded", "counted"} => HoldsWork(s) /\ a \in Actions,
         pc = "recorded" => a = "EXECUTE_REPAIR",
         clear => /\ pc = "counted" /\ a = "EXECUTE_REPAIR"
                  /\ NonePending(slot[s].cluster),
         ~overlapped' =>
           /\ ~overlapped
           /\ pc \in {"recorded", "counted"} => \A t \in Slots \ {s} : ~InTransaction(t)
           /\ pc = "counted" /\ a = "EXECUTE_REPAIR" /\ ~clear => SomeUnsettled(slot[s].cluster)
  PROVE  DiagnosisInv'
<1>r. /\ slot' \in [Slots -> Memories]
      /\ slot'[s].pc = pc /\ slot'[s].cluster = slot[s].cluster
      /\ slot'[s].token = slot[s].token /\ slot'[s].action = a /\ (slot'[s].clear <=> clear)
      /\ \A t \in Slots \ {s} : slot'[t] = slot[t]
  BY DEF Keeping, Becomes
<1>1. TypeOK'
  BY <1>r DEF DiagnosisInv, TypeOK, Memories, tables
<1>2. WorkMatchesClusters' /\ RepairRequestIsSound' /\ OneClustering'
  BY DEF DiagnosisInv, WorkMatchesClusters, RepairRequestIsSound, OneClustering, tables
<1>3. TransactionKeepsLease'
  BY <1>r DEF DiagnosisInv, TransactionKeepsLease, InTransaction, HoldsWork, tables
<1>4. Memory'
  <2> SUFFICES ASSUME NEW t \in Slots
      PROVE  /\ ~Active(t)' => slot'[t].cluster = NoCluster /\ slot'[t].token = NoToken
             /\ InTransaction(t)' => slot'[t].action \in Actions
             /\ slot'[t].pc = "recorded" => slot'[t].action = "EXECUTE_REPAIR"
             /\ slot'[t].clear => /\ slot'[t].pc = "counted"
                                  /\ slot'[t].action = "EXECUTE_REPAIR"
                                  /\ NonePending(slot[t].cluster)'
    BY DEF Memory
  <2>1. CASE t # s
    BY <1>r, <2>1 DEF DiagnosisInv, Memory, Active, InTransaction, NonePending, tables
  <2>2. CASE t = s
    BY <1>r, <2>2 DEF Active, InTransaction, NonePending, tables
  <2> QED
    BY <2>1, <2>2
<1>5. LeasesFresh'
  <2>1. \A t \in Slots : /\ slot'[t].cluster = slot[t].cluster /\ slot'[t].token = slot[t].token
                         /\ Active(t)' <=> Active(t)
    BY <1>r DEF Active
  <2> QED
    BY <2>1 DEF DiagnosisInv, LeasesFresh, tables
<1>6. OneByOne'
  <2>1. RepairedUnlessOverlapped /\ ~overlapped => RepairedUnlessOverlapped'
    BY DEF RepairedUnlessOverlapped, AllActionable, Found, tables
  <2>2. \A c : SomeUnsettled(c)' <=> SomeUnsettled(c)
    BY DEF SomeUnsettled, tables
  <2> SUFFICES ASSUME ~overlapped', NEW t \in Slots, NEW u \in Slots
      PROVE  /\ InTransaction(t)' /\ InTransaction(u)' => t = u
             /\ slot'[t].pc = "counted" /\ slot'[t].action = "EXECUTE_REPAIR" /\ ~slot'[t].clear
                  => SomeUnsettled(slot[t].cluster)'
    BY <2>1 DEF OneByOne, DiagnosisInv
  <2>3. slot'[t].pc = "counted" /\ slot'[t].action = "EXECUTE_REPAIR" /\ ~slot'[t].clear
          => SomeUnsettled(slot'[t].cluster)
    BY <1>r DEF DiagnosisInv, OneByOne
  <2>4. InTransaction(t)' /\ InTransaction(u)' => t = u
    BY <1>r DEF DiagnosisInv, OneByOne, InTransaction
  <2> QED
    BY <2>2, <2>3, <2>4
<1> QED
  BY <1>1, <1>2, <1>3, <1>4, <1>5, <1>6 DEF DiagnosisInv

(* Each step of this kind. *)
LEMMA ReadingStep ==
  ASSUME DiagnosisInv, NEW s \in Slots,
         \/ LoadCluster(s) \/ DiagnoseFails(s) \/ CountPending(s) \/ AbortRecord(s)
         \/ \E a \in Actions : BeginRecord(s, a)
  PROVE  DiagnosisInv'
<1>t. /\ slot \in [Slots -> Memories] /\ workRow \in [Clusters -> Row] /\ slot[s] \in Memories
      /\ overlapped \in BOOLEAN
  BY Unfolded DEF DiagnosisInv, TypeOK
<1>c. /\ slot[s].action \in Actions \cup {NoFinding} /\ slot[s].clear \in BOOLEAN
      /\ slot[s].clear => slot[s].pc = "counted"
  BY <1>t DEF Memories, DiagnosisInv, Memory
<1>1. CASE LoadCluster(s)
  <2>1. /\ Keeping(s, "working", slot[s].action, slot[s].clear) /\ Active(s) /\ ~slot[s].clear
        /\ UNCHANGED <<tables, turn, clusterToken, overlapped, faults>>
    BY <1>t, <1>c, <1>1, Moves DEF LoadCluster, Active
  <2> QED
    BY <1>t, <1>c, <2>1, KeepingFrame
<1>2. CASE DiagnoseFails(s) \/ AbortRecord(s)
  <2>1. /\ Keeping(s, "failing", NoFinding, FALSE) /\ Active(s)
        /\ UNCHANGED <<tables, turn, clusterToken, overlapped, faults>>
    BY <1>t, <1>2, Moves DEF DiagnoseFails, AbortRecord, Active, InTransaction, BecomesFailing
  <2> QED
    BY <1>t, <2>1, KeepingFrame
<1>3. CASE CountPending(s)
  <2>1. /\ Keeping(s, "counted", slot[s].action, NonePending(slot[s].cluster))
        /\ InTransaction(s) /\ slot[s].pc = "recorded"
        /\ UNCHANGED <<tables, turn, clusterToken, overlapped, faults>>
    BY <1>t, <1>3, Moves DEF CountPending, InTransaction
  <2>2. Active(s) /\ HoldsWork(s) /\ slot[s].action = "EXECUTE_REPAIR"
    BY <2>1, ActiveHasCluster DEF DiagnosisInv, Memory
  <2>3. ~overlapped => \A t \in Slots \ {s} : ~InTransaction(t)
    BY <2>1 DEF DiagnosisInv, OneByOne
  <2>4. ~NonePending(slot[s].cluster) => SomeUnsettled(slot[s].cluster)
    BY DEF NonePending, SomeUnsettled
  <2>5. NonePending(slot[s].cluster) \in BOOLEAN /\ "EXECUTE_REPAIR" \in Actions
    BY DEF NonePending, Actions
  <2> QED
    BY <1>t, <1>c, <2>1, <2>2, <2>3, <2>4, <2>5, KeepingFrame
<1>4. ASSUME NEW a \in Actions, BeginRecord(s, a) PROVE DiagnosisInv'
  <2> DEFINE pc == IF a = "EXECUTE_REPAIR" THEN "recorded" ELSE "counted"
  <2>1. /\ Keeping(s, pc, a, slot[s].clear) /\ HoldsWork(s) /\ Active(s) /\ ~slot[s].clear
        /\ UNCHANGED <<tables, turn, clusterToken, faults>>
        /\ overlapped' = (overlapped \/ \E t \in Slots : InTransaction(t))
    BY <1>t, <1>c, <1>4, Moves DEF BeginRecord, Active
  <2>2. pc \in {"recorded", "counted"}
        /\ (pc = "recorded" => a = "EXECUTE_REPAIR") /\ (pc = "counted" => a # "EXECUTE_REPAIR")
    OBVIOUS
  <2>3. overlapped' \in BOOLEAN
        /\ (~overlapped' => ~overlapped /\ \A t \in Slots \ {s} : ~InTransaction(t))
    BY <1>t, <2>1
  <2> HIDE DEF pc
  <2> QED
    BY <1>t, <1>c, <2>1, <2>2, <2>3, KeepingFrame
<1> QED
  BY <1>1, <1>2, <1>3, <1>4

-----------------------------------------------------------------------------
(* Steps that write the work items. *)

(* Tokens that are kept or erased, in rows and in memories, stay apart. *)
LEMMA LeaseFrame ==
  ASSUME LeasesFresh, workRow \in [Clusters -> Row],
         \A c \in Clusters : /\ workRow'[c].attempts = workRow[c].attempts
                             /\ \/ workRow'[c].token = NoToken
                                \/ workRow'[c].token = workRow[c].token /\ Open(workRow'[c]),
         \A s \in Slots : \/ ~Active(s)'
                          \/ /\ Active(s) /\ slot'[s].cluster = slot[s].cluster
                             /\ slot'[s].token = slot[s].token
  PROVE  LeasesFresh'
<1>1. ASSUME NEW c \in Clusters
      PROVE  /\ workRow'[c].token \in {NoToken, workRow'[c].attempts}
             /\ workRow'[c].token # NoToken => Open(workRow'[c])
  BY DEF LeasesFresh
<1>2. ASSUME NEW s \in Slots, Active(s)'
      PROVE  /\ slot'[s].cluster \in Clusters /\ slot'[s].token # NoToken
             /\ slot'[s].token <= workRow'[slot'[s].cluster].attempts
  BY <1>2 DEF LeasesFresh
<1>3. \A s, t \in Slots :
        s # t /\ Active(s)' /\ Active(t)' /\ slot'[s].cluster = slot'[t].cluster
          => slot'[s].token # slot'[t].token
  BY DEF LeasesFresh
<1> QED
  BY <1>1, <1>2, <1>3 DEF LeasesFresh

(* Before the clustering commits there is no work for a slot. *)
LEMMA NobodyActive ==
  ASSUME DiagnosisInv, ~clusterRow.done
  PROVE  \A s \in Slots : ~Active(s) /\ ~InTransaction(s)
<1>1. ASSUME NEW s \in Slots, Active(s) PROVE FALSE
  <2>1. slot[s].cluster \in Clusters /\ slot[s].token # NoToken
        /\ slot[s].token <= workRow[slot[s].cluster].attempts /\ slot[s].token \in Nat
    BY <1>1, Unfolded DEF DiagnosisInv, LeasesFresh
  <2>2. workRow[slot[s].cluster].attempts = 0
    BY <2>1 DEF DiagnosisInv, OneClustering, Absent
  <2> QED
    BY <2>1, <2>2 DEF NoToken
<1> QED
  BY <1>1, ActiveHasCluster

(* saveClusters commits once, when there is nothing yet. *)
LEMMA SaveStep ==
  ASSUME DiagnosisInv, NEW p \in Procs, NEW found \in SUBSET Clusters, SaveClusters(p, found)
  PROVE  DiagnosisInv'
<1>t. /\ slot \in [Slots -> Memories] /\ workRow \in [Clusters -> Row] /\ clusterRow \in Row
      /\ finding \in [Clusters -> Actions \cup {NoFinding}]
      /\ clusterState \in [Clusters -> {"absent", "PENDING", "DIAGNOSED", "NEEDS_REVIEW"}]
  BY Unfolded DEF DiagnosisInv, TypeOK
<1>1. /\ ~clusterRow.done /\ clusterRow' = Completed(clusterRow)
      /\ UNCHANGED <<finding, repairRequested, slot, overlapped, faults>>
      /\ incident' \in {incident, "DIAGNOSING"}
      /\ turn' = [turn EXCEPT ![p] = "diagnose"]
      /\ clusterToken' = [clusterToken EXCEPT ![p] = NoToken]
  BY DEF SaveClusters, HoldsClusterJob, HeldUnder, EndClusterTurn
<1>2. ASSUME NEW c \in Clusters
      PROVE  /\ workRow[c] = Absent /\ clusterState[c] = "absent" /\ finding[c] = NoFinding
             /\ workRow'[c] = IF c \in found THEN Inserted(Absent) ELSE Absent
             /\ clusterState'[c] = IF c \in found THEN "PENDING" ELSE "absent"
  <2>1. workRow[c] = Absent
    BY <1>1 DEF DiagnosisInv, OneClustering
  <2>2. clusterState[c] = "absent" /\ finding[c] = NoFinding
    BY <2>1 DEF DiagnosisInv, WorkMatchesClusters, Absent
  <2> QED
    BY <2>1, <2>2 DEF SaveClusters
<1>3. /\ Absent \in Row /\ Inserted(Absent) \in Row /\ ~Absent.present /\ ~Absent.done
      /\ Absent.token = NoToken /\ Absent.attempts = 0
      /\ Inserted(Absent).present /\ ~Inserted(Absent).done
      /\ Inserted(Absent).token = NoToken /\ Inserted(Absent).attempts = 0
  <2>1. Absent \in Row /\ ~Absent.present /\ ~Absent.done /\ Absent.token = NoToken
        /\ Absent.attempts = 0
    BY DEF Absent, Row, NoToken
  <2> QED
    BY <2>1, RowOperatorsTyped, RowFields
<1>4. \A s \in Slots : ~Active(s) /\ ~InTransaction(s)
  BY <1>1, NobodyActive
<1>5. TypeOK'
  <2>1. /\ workRow' \in [Clusters -> Row]
        /\ clusterState' \in [Clusters -> {"absent", "PENDING", "DIAGNOSED", "NEEDS_REVIEW"}]
    <3>1. DOMAIN workRow' = Clusters /\ DOMAIN clusterState' = Clusters
          /\ workRow' = [c \in Clusters |-> workRow'[c]]
          /\ clusterState' = [c \in Clusters |-> clusterState'[c]]
      BY DEF SaveClusters
    <3>2. \A c \in Clusters : workRow'[c] \in Row /\ clusterState'[c] \in {"absent", "PENDING"}
      BY <1>2, <1>3
    <3> QED
      BY <3>1, <3>2
  <2>2. clusterRow' \in Row
    BY <1>t, <1>1, RowOperatorsTyped
  <2>3. incident' \in {"CLUSTERING_FAILURES", "DIAGNOSING", "NEEDS_REVIEW"}
        /\ turn' \in [Procs -> {"cluster", "diagnose"}] /\ clusterToken' \in [Procs -> Nat]
    BY <1>1 DEF DiagnosisInv, TypeOK, NoToken
  <2> QED
    BY <1>1, <2>1, <2>2, <2>3 DEF DiagnosisInv, TypeOK
<1>6. WorkMatchesClusters'
  <2> SUFFICES ASSUME NEW c \in Clusters
      PROVE  /\ Open(workRow'[c]) <=> clusterState'[c] = "PENDING"
             /\ workRow'[c].present <=> clusterState'[c] # "absent"
             /\ clusterState'[c] = "DIAGNOSED" <=> finding'[c] # NoFinding
    BY DEF WorkMatchesClusters
  <2> QED
    BY <1>1, <1>2, <1>3 DEF Open
<1>7. ~repairRequested' /\ ~AllActionable' /\ (\A c \in Clusters : finding'[c] = NoFinding)
  <2>1. \A c \in Clusters : finding'[c] = NoFinding
    BY <1>1, <1>2
  <2> QED
    BY <1>1, <1>2, <2>1 DEF DiagnosisInv, RepairRequestIsSound, AllActionable, Found, NoFinding
<1>8. TransactionKeepsLease' /\ RepairRequestIsSound' /\ OneByOne'
  <2>1. \A s \in Slots : InTransaction(s)' <=> InTransaction(s)
    BY <1>1 DEF InTransaction
  <2>2. \A s \in Slots : slot'[s].pc # "counted"
    BY <1>1, <1>4 DEF InTransaction
  <2> QED
    BY <1>4, <1>7, <2>1, <2>2
       DEF TransactionKeepsLease, RepairRequestIsSound, OneByOne, RepairedUnlessOverlapped
<1>9. Memory'
  BY <1>1, <1>4 DEF DiagnosisInv, Memory, Active, InTransaction
<1>10. LeasesFresh'
  <2>1. \A s \in Slots : ~Active(s)'
    BY <1>1, <1>4 DEF Active
  <2>2. \A c \in Clusters : workRow'[c].token = NoToken /\ workRow'[c].attempts = 0
    BY <1>2, <1>3
  <2> QED
    BY <2>1, <2>2 DEF LeasesFresh
<1>11. OneClustering'
  BY <1>t, <1>1, RowFields DEF OneClustering
<1> QED
  BY <1>5, <1>6, <1>8, <1>9, <1>10, <1>11 DEF DiagnosisInv

(* A claim mints a token that no slot has. *)
LEMMA ClaimStep ==
  ASSUME DiagnosisInv, NEW s \in Slots, NEW c \in Clusters, ClaimWork(s, c)
  PROVE  DiagnosisInv'
<1>t. /\ slot \in [Slots -> Memories] /\ workRow \in [Clusters -> Row] /\ workRow[c] \in Row
      /\ workRow[c].attempts \in Nat
      /\ \A t \in Slots : slot[t].token \in Nat
  BY Unfolded DEF DiagnosisInv
<1>1. /\ slot[s].pc = "ready" /\ Open(workRow[c]) /\ ~Locked(c)
      /\ workRow' = [workRow EXCEPT ![c] = Claimed(workRow[c])]
      /\ UNCHANGED <<incident, clusterRow, clusterState, finding, repairRequested,
                     turn, clusterToken, overlapped, faults>>
  BY DEF ClaimWork, Asks, Offered, Claimable
<1> DEFINE n == workRow[c].attempts + 1
<1>2. /\ workRow' \in [Clusters -> Row]
      /\ workRow'[c].token = n /\ workRow'[c].attempts = n /\ Open(workRow'[c])
      /\ workRow'[c].present = workRow[c].present
      /\ \A d \in Clusters \ {c} : workRow'[d] = workRow[d]
  <2>1. Claimed(workRow[c]) \in Row /\ workRow'[c] = Claimed(workRow[c])
    BY <1>t, <1>1, RowOperatorsTyped
  <2> QED
    BY <1>t, <1>1, <2>1, RowFields DEF Open
<1>3. n \in Nat /\ n # NoToken /\ n > workRow[c].attempts
  BY <1>t DEF NoToken
<1> HIDE DEF n
<1>4. /\ slot' \in [Slots -> Memories]
      /\ slot'[s].pc = "claimed" /\ slot'[s].cluster = c /\ slot'[s].token = n
      /\ (slot'[s].clear <=> slot[s].clear)
      /\ \A t \in Slots \ {s} : slot'[t] = slot[t]
  BY <1>t, <1>2, Moves DEF Becomes
<1>5. ~slot[s].clear
  BY <1>1 DEF DiagnosisInv, Memory
<1>6. TypeOK'
  BY <1>1, <1>2, <1>4 DEF DiagnosisInv, TypeOK, Memories
<1>7. WorkMatchesClusters'
  <2> SUFFICES ASSUME NEW d \in Clusters
      PROVE  /\ Open(workRow'[d]) <=> clusterState'[d] = "PENDING"
             /\ workRow'[d].present <=> clusterState'[d] # "absent"
             /\ clusterState'[d] = "DIAGNOSED" <=> finding'[d] # NoFinding
    BY DEF WorkMatchesClusters
  <2> QED
    BY <1>1, <1>2 DEF DiagnosisInv, WorkMatchesClusters
<1>8. TransactionKeepsLease'
  <2> SUFFICES ASSUME NEW t \in Slots, InTransaction(t)' PROVE HoldsWork(t)'
    BY DEF TransactionKeepsLease
  <2>1. t # s /\ slot'[t] = slot[t] /\ InTransaction(t)
    BY <1>4 DEF InTransaction
  <2>2. HoldsWork(t) /\ slot[t].cluster \in Clusters /\ slot[t].cluster # c
    BY <1>1, <2>1, ActiveHasCluster DEF Locked
  <2> QED
    BY <1>2, <2>1, <2>2 DEF HoldsWork
<1>9. RepairRequestIsSound' /\ OneClustering'
  <2>1. ~clusterRow.done => ~Open(workRow[c])
    BY DEF DiagnosisInv, OneClustering, Open, Absent
  <2> QED
    BY <1>1, <2>1 DEF DiagnosisInv, RepairRequestIsSound, OneClustering
<1>10. Memory'
  <2> SUFFICES ASSUME NEW t \in Slots
      PROVE  /\ ~Active(t)' => slot'[t].cluster = NoCluster /\ slot'[t].token = NoToken
             /\ InTransaction(t)' => slot'[t].action \in Actions
             /\ slot'[t].pc = "recorded" => slot'[t].action = "EXECUTE_REPAIR"
             /\ slot'[t].clear => /\ slot'[t].pc = "counted"
                                  /\ slot'[t].action = "EXECUTE_REPAIR"
                                  /\ NonePending(slot[t].cluster)'
    BY DEF Memory
  <2>1. CASE t # s
    BY <1>1, <1>4, <2>1 DEF DiagnosisInv, Memory, Active, InTransaction, NonePending
  <2>2. CASE t = s
    BY <1>4, <1>5, <2>2 DEF Active, InTransaction
  <2> QED
    BY <2>1, <2>2
<1>11. LeasesFresh'
  <2>1. ASSUME NEW d \in Clusters
        PROVE  /\ workRow'[d].token \in {NoToken, workRow'[d].attempts}
               /\ workRow'[d].token # NoToken => Open(workRow'[d])
    BY <1>2, <2>1 DEF DiagnosisInv, LeasesFresh
  <2>2. ASSUME NEW t \in Slots, t # s, Active(t)
        PROVE  /\ slot[t].cluster \in Clusters /\ slot[t].token # NoToken
               /\ slot[t].token <= workRow'[slot[t].cluster].attempts
               /\ slot[t].cluster = c => slot[t].token # n
    <3>1. slot[t].cluster \in Clusters /\ slot[t].token # NoToken
          /\ slot[t].token <= workRow[slot[t].cluster].attempts /\ slot[t].token \in Nat
      BY <1>t, <2>2 DEF DiagnosisInv, LeasesFresh
    <3>2. CASE slot[t].cluster = c
      BY <1>t, <1>2, <1>3, <3>1, <3>2
    <3>3. CASE slot[t].cluster # c
      BY <1>2, <3>1, <3>3
    <3> QED
      BY <3>2, <3>3
  <2>3. ASSUME NEW t \in Slots, Active(t)'
        PROVE  /\ slot'[t].cluster \in Clusters /\ slot'[t].token # NoToken
               /\ slot'[t].token <= workRow'[slot'[t].cluster].attempts
    <3>1. CASE t = s
      BY <1>2, <1>3, <1>4, <3>1
    <3>2. CASE t # s
      BY <1>4, <2>2, <2>3, <3>2 DEF Active
    <3> QED
      BY <3>1, <3>2
  <2>4. ASSUME NEW t \in Slots, NEW u \in Slots, t # u, Active(t)', Active(u)',
               slot'[t].cluster = slot'[u].cluster
        PROVE  slot'[t].token # slot'[u].token
    <3>1. CASE t = s
      BY <1>4, <2>2, <2>4, <3>1 DEF Active
    <3>2. CASE u = s
      BY <1>4, <2>2, <2>4, <3>2 DEF Active
    <3>3. CASE t # s /\ u # s
      BY <1>4, <2>4, <3>3 DEF DiagnosisInv, LeasesFresh, Active
    <3> QED
      BY <3>1, <3>2, <3>3
  <2> QED
    BY <2>1, <2>3, <2>4 DEF LeasesFresh
<1>12. OneByOne'
  <2>1. RepairedUnlessOverlapped' <=> RepairedUnlessOverlapped
    BY <1>1 DEF RepairedUnlessOverlapped, AllActionable, Found
  <2>2. \A d : SomeUnsettled(d)' <=> SomeUnsettled(d)
    BY <1>1 DEF SomeUnsettled
  <2>3. \A t \in Slots : \/ slot'[t] = slot[t]
                         \/ ~InTransaction(t)' /\ slot'[t].pc # "counted"
    BY <1>4 DEF InTransaction
  <2> QED
    BY <1>1, <2>1, <2>2, <2>3 DEF DiagnosisInv, OneByOne, InTransaction
<1> QED
  BY <1>6, <1>7, <1>8, <1>9, <1>10, <1>11, <1>12 DEF DiagnosisInv

(* Two slots never pass the token check for one work item. *)
LEMMA OneHolder ==
  ASSUME DiagnosisInv, NEW s \in Slots, NEW t \in Slots, HoldsWork(s), HoldsWork(t),
         slot[s].cluster = slot[t].cluster
  PROVE  s = t
<1>1. Active(s) /\ Active(t) /\ slot[s].token = slot[t].token
  BY ActiveHasCluster
<1> QED
  BY <1>1 DEF DiagnosisInv, LeasesFresh

(* The holder of a work item completes or reschedules it and is done with    *)
(* it: what the other slots rely on stays.                                   *)
LEMMA ReleaseFrame ==
  ASSUME DiagnosisInv, NEW s \in Slots, HoldsWork(s), NEW r \in Row,
         workRow' = [workRow EXCEPT ![slot[s].cluster] = r],
         r.token = NoToken, r.attempts = workRow[slot[s].cluster].attempts,
         BecomesDone(s) \/ BecomesFailing(s)
  PROVE  TransactionKeepsLease' /\ LeasesFresh'
<1> DEFINE c == slot[s].cluster
<1>t. /\ slot \in [Slots -> Memories] /\ workRow \in [Clusters -> Row]
      /\ c \in Clusters /\ Active(s)
  BY Unfolded, ActiveHasCluster DEF DiagnosisInv
<1>1. workRow'[c] = r /\ \A d \in Clusters \ {c} : workRow'[d] = workRow[d]
  BY <1>t
<1>2. /\ slot'[s].pc \in {"done", "failing"}
      /\ slot'[s].pc = "failing" =>
           slot'[s].cluster = slot[s].cluster /\ slot'[s].token = slot[s].token
      /\ \A t \in Slots \ {s} : slot'[t] = slot[t]
  BY DEF BecomesDone, BecomesFailing, Keeping, Becomes
<1>3. TransactionKeepsLease'
  <2> SUFFICES ASSUME NEW t \in Slots, InTransaction(t)' PROVE HoldsWork(t)'
    BY DEF TransactionKeepsLease
  <2>1. t # s /\ slot'[t] = slot[t] /\ InTransaction(t)
    BY <1>2 DEF InTransaction
  <2>2. HoldsWork(t) /\ slot[t].cluster \in Clusters /\ slot[t].cluster # c
    BY <2>1, ActiveHasCluster, OneHolder
  <2> QED
    BY <1>1, <2>1, <2>2 DEF HoldsWork
<1>4. LeasesFresh'
  <2>1. \A d \in Clusters : /\ workRow'[d].attempts = workRow[d].attempts
                            /\ \/ workRow'[d].token = NoToken
                               \/ workRow'[d].token = workRow[d].token /\ Open(workRow'[d])
    BY <1>1 DEF DiagnosisInv, LeasesFresh
  <2>2. \A t \in Slots : \/ ~Active(t)'
                         \/ /\ Active(t) /\ slot'[t].cluster = slot[t].cluster
                            /\ slot'[t].token = slot[t].token
    BY <1>t, <1>2 DEF Active
  <2> QED
    BY <1>t, <2>1, <2>2, LeaseFrame DEF DiagnosisInv
<1> QED
  BY <1>3, <1>4

(* A cluster settles together with its work item. *)
LEMMA SettleFrame ==
  ASSUME DiagnosisInv, NEW s \in Slots, HoldsWork(s),
         NEW outcome \in {"DIAGNOSED", "NEEDS_REVIEW"},
         workRow' = [workRow EXCEPT ![slot[s].cluster] = Completed(workRow[slot[s].cluster])],
         clusterState' = [clusterState EXCEPT ![slot[s].cluster] = outcome],
         finding' \in [Clusters -> Actions \cup {NoFinding}],
         finding'[slot[s].cluster] # NoFinding <=> outcome = "DIAGNOSED",
         \A d \in Clusters \ {slot[s].cluster} : finding'[d] = finding[d],
         BecomesDone(s) \/ BecomesFailing(s),
         outcome = "DIAGNOSED" => InTransaction(s),
         UNCHANGED <<incident, clusterRow, turn, clusterToken, overlapped, faults>>,
         repairRequested' \in BOOLEAN, RepairRequestIsSound',
         ~overlapped => RepairedUnlessOverlapped'
  PROVE  DiagnosisInv'
<1> DEFINE c == slot[s].cluster
<1>t. /\ slot \in [Slots -> Memories] /\ workRow \in [Clusters -> Row]
      /\ clusterState \in [Clusters -> {"absent", "PENDING", "DIAGNOSED", "NEEDS_REVIEW"}]
      /\ c \in Clusters /\ Active(s) /\ clusterState[c] = "PENDING" /\ workRow[c] \in Row
      /\ Open(workRow[c])
  BY Unfolded, ActiveHasCluster DEF DiagnosisInv, TypeOK
<1>r. /\ Completed(workRow[c]) \in Row /\ Completed(workRow[c]).token = NoToken
      /\ Completed(workRow[c]).attempts = workRow[c].attempts
      /\ Completed(workRow[c]).done /\ Completed(workRow[c]).present = workRow[c].present
  BY <1>t, RowOperatorsTyped, RowFields
<1>1. /\ workRow' \in [Clusters -> Row] /\ workRow'[c] = Completed(workRow[c])
      /\ \A d \in Clusters \ {c} : workRow'[d] = workRow[d]
      /\ clusterState' \in [Clusters -> {"absent", "PENDING", "DIAGNOSED", "NEEDS_REVIEW"}]
      /\ clusterState'[c] = outcome
      /\ \A d \in Clusters \ {c} : clusterState'[d] = clusterState[d]
  BY <1>t, <1>r
<1>2. /\ slot' \in [Slots -> Memories]
      /\ slot'[s].pc \in {"done", "failing"} /\ slot'[s].clear = FALSE
      /\ slot'[s].pc = "done" => slot'[s].cluster = NoCluster /\ slot'[s].token = NoToken
      /\ \A t \in Slots \ {s} : slot'[t] = slot[t]
  <2>1. slot' \in [Slots -> Memories] => slot'[s].clear \in BOOLEAN
    BY DEF Memories
  <2> QED
    BY <2>1 DEF BecomesDone, BecomesFailing, Keeping, Becomes
<1>3. TransactionKeepsLease' /\ LeasesFresh'
  BY <1>r, ReleaseFrame
<1>4. TypeOK'
  BY <1>1, <1>2 DEF DiagnosisInv, TypeOK, Memories
<1>5. WorkMatchesClusters'
  <2> SUFFICES ASSUME NEW d \in Clusters
      PROVE  /\ Open(workRow'[d]) <=> clusterState'[d] = "PENDING"
             /\ workRow'[d].present <=> clusterState'[d] # "absent"
             /\ clusterState'[d] = "DIAGNOSED" <=> finding'[d] # NoFinding
    BY DEF WorkMatchesClusters
  <2>1. CASE d = c
    BY <1>t, <1>r, <1>1, <2>1 DEF Open
  <2>2. CASE d # c
    BY <1>1, <2>2 DEF DiagnosisInv, WorkMatchesClusters
  <2> QED
    BY <2>1, <2>2
<1>6. OneClustering'
  <2>1. clusterRow.done
    BY <1>t DEF DiagnosisInv, OneClustering, Open, Absent
  <2> QED
    BY <2>1 DEF OneClustering
<1>7. Memory'
  <2> SUFFICES ASSUME NEW t \in Slots
      PROVE  /\ ~Active(t)' => slot'[t].cluster = NoCluster /\ slot'[t].token = NoToken
             /\ InTransaction(t)' => slot'[t].action \in Actions
             /\ slot'[t].pc = "recorded" => slot'[t].action = "EXECUTE_REPAIR"
             /\ slot'[t].clear => /\ slot'[t].pc = "counted"
                                  /\ slot'[t].action = "EXECUTE_REPAIR"
                                  /\ NonePending(slot[t].cluster)'
    BY DEF Memory
  <2>1. CASE t # s
    <3>1. slot'[t] = slot[t]
      BY <1>2, <2>1
    <3>2. NonePending(slot[t].cluster) => NonePending(slot[t].cluster)'
      BY <1>1, <3>1 DEF NonePending
    <3> QED
      BY <3>1, <3>2 DEF DiagnosisInv, Memory, Active, InTransaction
  <2>2. CASE t = s
    BY <1>2, <2>2 DEF Active, InTransaction
  <2> QED
    BY <2>1, <2>2
<1>8. OneByOne'
  <2> SUFFICES ASSUME ~overlapped, NEW t \in Slots, NEW u \in Slots
      PROVE  /\ InTransaction(t)' /\ InTransaction(u)' => t = u
             /\ slot'[t].pc = "counted" /\ slot'[t].action = "EXECUTE_REPAIR" /\ ~slot'[t].clear
                  => SomeUnsettled(slot[t].cluster)'
    BY DEF OneByOne
  <2>1. InTransaction(t)' /\ InTransaction(u)' => t = u
    BY <1>2 DEF DiagnosisInv, OneByOne, InTransaction
  <2>2. ASSUME slot'[t].pc = "counted", slot'[t].action = "EXECUTE_REPAIR", ~slot'[t].clear
        PROVE  SomeUnsettled(slot[t].cluster)'
    <3>1. t # s /\ slot'[t] = slot[t] /\ InTransaction(t)
      BY <1>2, <2>2 DEF InTransaction
    <3>2. outcome = "NEEDS_REVIEW"
      BY <3>1 DEF DiagnosisInv, OneByOne
    <3>3. SomeUnsettled(slot[t].cluster)
      BY <2>2, <3>1 DEF DiagnosisInv, OneByOne
    <3> QED
      BY <1>1, <3>1, <3>2, <3>3 DEF SomeUnsettled
  <2> QED
    BY <2>1, <2>2
<1> QED
  BY <1>3, <1>4, <1>5, <1>6, <1>7, <1>8 DEF DiagnosisInv

(* The COMMIT of recordDiagnosis, acknowledged or not. *)
LEMMA CommitStep ==
  ASSUME DiagnosisInv, NEW s \in Slots, NEW acknowledged \in {TRUE, FALSE},
         CommitRecord(s, acknowledged)
  PROVE  DiagnosisInv'
<1> DEFINE c == slot[s].cluster
<1>t. /\ slot \in [Slots -> Memories] /\ workRow \in [Clusters -> Row]
      /\ finding \in [Clusters -> Actions \cup {NoFinding}]
      /\ clusterState \in [Clusters -> {"absent", "PENDING", "DIAGNOSED", "NEEDS_REVIEW"}]
      /\ repairRequested \in BOOLEAN
  BY Unfolded DEF DiagnosisInv, TypeOK
<1>1. /\ slot[s].pc = "counted" /\ InTransaction(s) /\ slot[s].action \in Actions
      /\ HoldsWork(s) /\ c \in Clusters /\ clusterState[c] = "PENDING"
      /\ NoFinding \notin Actions
  BY ActiveHasCluster DEF CommitRecord, InTransaction, DiagnosisInv, Memory, NoFinding, Actions
<1>2. /\ workRow' = [workRow EXCEPT ![c] = Completed(workRow[c])]
      /\ finding' = [finding EXCEPT ![c] = slot[s].action]
      /\ clusterState' = [clusterState EXCEPT ![c] = "DIAGNOSED"]
      /\ repairRequested' = (repairRequested \/ slot[s].clear)
      /\ UNCHANGED <<incident, clusterRow, turn, clusterToken, overlapped, faults>>
  <2>1. Diagnosed(clusterState[c]) = "DIAGNOSED"
    BY <1>1 DEF Diagnosed
  <2> QED
    BY <1>1, <1>t, <2>1 DEF CommitRecord
<1>3. BecomesDone(s) \/ BecomesFailing(s)
  BY <1>t, Moves
<1>4. /\ finding' \in [Clusters -> Actions \cup {NoFinding}] /\ finding'[c] = slot[s].action
      /\ \A d \in Clusters \ {c} : finding'[d] = finding[d]
      /\ clusterState'[c] = "DIAGNOSED"
      /\ \A d \in Clusters \ {c} : clusterState'[d] = clusterState[d]
      /\ repairRequested' \in BOOLEAN
  BY <1>t, <1>1, <1>2
<1> HIDE DEF c
<1>5. RepairRequestIsSound'
  <2> SUFFICES ASSUME repairRequested'
      PROVE  /\ \A d \in Clusters : clusterState'[d] # "PENDING"
             /\ \E d \in Clusters : finding'[d] = "EXECUTE_REPAIR"
    BY DEF RepairRequestIsSound
  <2>1. ~repairRequested
    BY <1>1 DEF DiagnosisInv, RepairRequestIsSound
  <2>2. /\ slot[s].action = "EXECUTE_REPAIR" /\ NonePending(c)
    BY <1>2, <2>1 DEF DiagnosisInv, Memory, c
  <2> QED
    BY <1>1, <1>4, <2>2 DEF NonePending
<1>6. ~overlapped => RepairedUnlessOverlapped'
  <2> SUFFICES ASSUME ~overlapped, AllActionable' PROVE repairRequested'
    BY DEF RepairedUnlessOverlapped
  <2>1. slot[s].action = "EXECUTE_REPAIR"
    BY <1>1, <1>4 DEF AllActionable, Found
  <2>2. ASSUME ~slot[s].clear PROVE FALSE
    <3>1. SomeUnsettled(c)
      BY <1>1, <2>1, <2>2 DEF DiagnosisInv, OneByOne, c
    <3>2. PICK d \in Clusters \ {c} : clusterState[d] \in {"PENDING", "NEEDS_REVIEW"}
      BY <3>1 DEF SomeUnsettled
    <3>3. finding'[d] = NoFinding /\ clusterState'[d] # "absent"
      BY <1>4, <3>2 DEF DiagnosisInv, WorkMatchesClusters
    <3> QED
      BY <3>2, <3>3 DEF AllActionable, Found, NoFinding
  <2> QED
    BY <1>2, <2>2
<1>7. finding'[c] # NoFinding
  BY <1>1, <1>4
<1> QED
  BY <1>1, <1>2, <1>3, <1>4, <1>5, <1>6, <1>7, SettleFrame DEF c

(* failDiagnosis hands the cluster over, or its work item back. *)
LEMMA FailStep ==
  ASSUME DiagnosisInv, NEW s \in Slots, EscalateDiagnosis(s) \/ RescheduleDiagnosis(s)
  PROVE  DiagnosisInv'
<1> DEFINE c == slot[s].cluster
<1>t. /\ slot \in [Slots -> Memories] /\ workRow \in [Clusters -> Row]
      /\ finding \in [Clusters -> Actions \cup {NoFinding}]
      /\ clusterState \in [Clusters -> {"absent", "PENDING", "DIAGNOSED", "NEEDS_REVIEW"}]
      /\ repairRequested \in BOOLEAN
  BY Unfolded DEF DiagnosisInv, TypeOK
<1>1. /\ HoldsWork(s) /\ c \in Clusters /\ clusterState[c] = "PENDING" /\ BecomesDone(s)
      /\ workRow[c] \in Row
  <2>1. HoldsWork(s)
    BY DEF EscalateDiagnosis, RescheduleDiagnosis
  <2> QED
    BY <1>t, <2>1, ActiveHasCluster, Moves
<1>2. finding[c] = NoFinding
  BY <1>1 DEF DiagnosisInv, WorkMatchesClusters
<1>3. CASE EscalateDiagnosis(s)
  <2>1. /\ workRow' = [workRow EXCEPT ![c] = Completed(workRow[c])]
        /\ clusterState' = [clusterState EXCEPT ![c] = "NEEDS_REVIEW"]
        /\ UNCHANGED <<incident, clusterRow, finding, repairRequested, turn, clusterToken,
                       overlapped, faults>>
    BY <1>3 DEF EscalateDiagnosis
  <2>2. clusterState'[c] = "NEEDS_REVIEW"
        /\ \A d \in Clusters \ {c} : clusterState'[d] = clusterState[d]
    BY <1>t, <1>1, <2>1
  <2>3. RepairRequestIsSound'
    BY <2>1, <2>2 DEF DiagnosisInv, RepairRequestIsSound
  <2>4. RepairedUnlessOverlapped'
    BY <1>1, <1>2, <2>1, <2>2 DEF RepairedUnlessOverlapped, AllActionable, Found, NoFinding
  <2> QED
    BY <1>t, <1>1, <1>2, <2>1, <2>3, <2>4, SettleFrame
<1>4. CASE RescheduleDiagnosis(s)
  <2>1. /\ workRow' = [workRow EXCEPT ![c] = Rescheduled(workRow[c])]
        /\ UNCHANGED <<incident, clusterRow, clusterState, finding, repairRequested, turn,
                       clusterToken, overlapped, faults>>
    BY <1>4 DEF RescheduleDiagnosis
  <2> DEFINE r == Rescheduled(workRow[c])
  <2>2. /\ r \in Row /\ r.token = NoToken /\ r.attempts = workRow[c].attempts
        /\ r.present = workRow[c].present /\ r.done = workRow[c].done
    BY <1>1, RowOperatorsTyped, RowFields
  <2> HIDE DEF r
  <2>3. TransactionKeepsLease' /\ LeasesFresh'
    BY <1>1, <2>1, <2>2, ReleaseFrame DEF r
  <2>4. /\ workRow' \in [Clusters -> Row] /\ workRow'[c] = r
        /\ \A d \in Clusters \ {c} : workRow'[d] = workRow[d]
    BY <1>t, <1>1, <2>1, <2>2 DEF r
  <2>5. /\ slot' \in [Slots -> Memories]
        /\ slot'[s].pc = "done" /\ slot'[s].cluster = NoCluster /\ slot'[s].token = NoToken
        /\ ~slot'[s].clear
        /\ \A t \in Slots \ {s} : slot'[t] = slot[t]
    BY <1>1 DEF BecomesDone, Becomes
  <2>6. TypeOK'
    BY <2>1, <2>4, <2>5 DEF DiagnosisInv, TypeOK, Memories
  <2>7. WorkMatchesClusters'
    <3>1. \A d \in Clusters : /\ workRow'[d].present = workRow[d].present
                              /\ workRow'[d].done = workRow[d].done
      BY <2>2, <2>4
    <3> QED
      BY <2>1, <3>1 DEF DiagnosisInv, WorkMatchesClusters, Open
  <2>8. RepairRequestIsSound' /\ OneClustering'
    <3>1. Open(workRow[c])
      BY <1>1 DEF DiagnosisInv, WorkMatchesClusters
    <3>2. clusterRow.done
      BY <1>1, <3>1 DEF DiagnosisInv, OneClustering, Open, Absent
    <3> QED
      BY <2>1, <3>2 DEF DiagnosisInv, RepairRequestIsSound, OneClustering
  <2>9. Memory'
    BY <2>1, <2>5 DEF DiagnosisInv, Memory, Active, InTransaction, NonePending
  <2>10. OneByOne'
    <3>1. RepairedUnlessOverlapped' <=> RepairedUnlessOverlapped
      BY <2>1 DEF RepairedUnlessOverlapped, AllActionable, Found
    <3>2. \A d : SomeUnsettled(d)' <=> SomeUnsettled(d)
      BY <2>1 DEF SomeUnsettled
    <3>3. \A t \in Slots : \/ slot'[t] = slot[t]
                           \/ ~InTransaction(t)' /\ slot'[t].pc # "counted"
      BY <2>5 DEF InTransaction
    <3> QED
      BY <2>1, <3>1, <3>2, <3>3 DEF DiagnosisInv, OneByOne, InTransaction
  <2> QED
    BY <2>3, <2>6, <2>7, <2>8, <2>9, <2>10 DEF DiagnosisInv
<1> QED
  BY <1>3, <1>4

(* The clock touches neither tokens nor attempts. *)
LEMMA WorkClockStep ==
  ASSUME DiagnosisInv, NEW c \in Clusters, WorkLeaseLapses(c) \/ WorkBackoffElapses(c)
  PROVE  DiagnosisInv'
<1>t. /\ workRow \in [Clusters -> Row] /\ workRow[c] \in Row
  BY Unfolded DEF DiagnosisInv
<1>1. /\ Open(workRow[c])
      /\ UNCHANGED <<incident, clusterRow, clusterState, finding, repairRequested,
                     turn, clusterToken, slot, overlapped>>
      /\ \/ workRow' = [workRow EXCEPT ![c] = LeaseRunsOut(workRow[c])]
         \/ workRow' = [workRow EXCEPT ![c] = BackoffRunsOut(workRow[c])]
  BY DEF WorkLeaseLapses, WorkBackoffElapses
<1>2. /\ workRow' \in [Clusters -> Row]
      /\ \A d \in Clusters : /\ workRow'[d].token = workRow[d].token
                             /\ workRow'[d].attempts = workRow[d].attempts
                             /\ workRow'[d].done = workRow[d].done
                             /\ workRow'[d].present = workRow[d].present
      /\ \A d \in Clusters \ {c} : workRow'[d] = workRow[d]
  <2>1. /\ LeaseRunsOut(workRow[c]) \in Row /\ BackoffRunsOut(workRow[c]) \in Row
        /\ workRow'[c] \in {LeaseRunsOut(workRow[c]), BackoffRunsOut(workRow[c])}
        /\ \A d \in Clusters \ {c} : workRow'[d] = workRow[d]
    BY <1>t, <1>1, RowOperatorsTyped
  <2>2. /\ workRow'[c].token = workRow[c].token /\ workRow'[c].attempts = workRow[c].attempts
        /\ workRow'[c].done = workRow[c].done /\ workRow'[c].present = workRow[c].present
    BY <1>t, <2>1, RowFields
  <2> QED
    BY <1>t, <1>1, <2>1, <2>2
<1>3. faults' \in 0 .. MaxFaults
  <2>1. faults' = faults \/ (faults < MaxFaults /\ faults' = faults + 1)
    BY DEF WorkLeaseLapses, WorkBackoffElapses
  <2>2. faults \in 0 .. MaxFaults
    BY DEF DiagnosisInv, TypeOK
  <2> QED
    BY <2>1, <2>2, BoundsAssumption
<1>4. TypeOK'
  BY <1>1, <1>2, <1>3 DEF DiagnosisInv, TypeOK
<1>5. WorkMatchesClusters' /\ RepairRequestIsSound'
  BY <1>1, <1>2 DEF DiagnosisInv, WorkMatchesClusters, RepairRequestIsSound, Open
<1>6. OneClustering'
  BY <1>1, <1>2 DEF DiagnosisInv, OneClustering, Open, Absent
<1>7. LeasesFresh'
  BY <1>t, <1>1, <1>2, LeaseFrame DEF DiagnosisInv, LeasesFresh, Open, Active
<1>8. TransactionKeepsLease'
  <2> SUFFICES ASSUME NEW s \in Slots, InTransaction(s)' PROVE HoldsWork(s)'
    BY DEF TransactionKeepsLease
  <2>1. InTransaction(s) /\ HoldsWork(s) /\ slot[s].cluster \in Clusters
    BY <1>1, ActiveHasCluster DEF InTransaction
  <2> QED
    BY <1>1, <1>2, <2>1 DEF HoldsWork, HeldUnder
<1>9. Memory'
  BY <1>1 DEF DiagnosisInv, Memory, Active, InTransaction, NonePending
<1>10. OneByOne'
  BY <1>1 DEF DiagnosisInv, OneByOne, InTransaction, SomeUnsettled, RepairedUnlessOverlapped,
              AllActionable, Found
<1> QED
  BY <1>4, <1>5, <1>6, <1>7, <1>8, <1>9, <1>10 DEF DiagnosisInv

-----------------------------------------------------------------------------
(* Every step keeps the invariant. *)
LEMMA InvStep ==
  ASSUME DiagnosisInv, [Next]_vars
  PROVE  DiagnosisInv'
<1>t. TypeOK /\ slot \in [Slots -> Memories] /\ workRow \in [Clusters -> Row]
  BY Unfolded DEF DiagnosisInv
<1>1. CASE UNCHANGED vars
  <2>1. /\ UNCHANGED <<tables, turn, clusterToken, slot, overlapped, faults>>
    BY <1>1 DEF vars
  <2> QED
    BY <1>t, <2>1, RestFrame DEF tables, TypeOK
<1>2. CASE ClusterSide
  BY <1>t, <1>2, ClusterSideFrame, ClusterSideTyped, RestFrame
<1>3. CASE Reset
  <2>1. /\ UNCHANGED <<workRow, clusterState, finding, repairRequested, overlapped>>
        /\ UNCHANGED <<clusterRow, incident>>
        /\ slot' \in [Slots -> Memories]
        /\ \A t \in Slots : slot'[t] = slot[t] \/ slot'[t] = Ready
    BY <1>t, <1>3, ResetFrame DEF tables
  <2> QED
    BY <1>t, <1>3, <2>1, ClusterSideTyped, RestFrame
<1>4. ASSUME NEW s \in Slots, FindNoWork(s) \/ LoseDiagnosis(s) PROVE DiagnosisInv'
  <2>1. /\ slot' = [slot EXCEPT ![s] = Done]
        /\ UNCHANGED <<tables, turn, clusterToken, overlapped, faults>>
    BY <1>4 DEF FindNoWork, LoseDiagnosis
  <2>2. /\ slot' \in [Slots -> Memories]
        /\ \A t \in Slots : slot'[t] = slot[t] \/ slot'[t] = Done
    BY <1>t, <2>1, RestTyped
  <2> QED
    BY <1>t, <2>1, <2>2, RestFrame DEF tables, TypeOK
<1> QED
  BY <1>1, <1>2, <1>3, <1>4, StepKinds, SaveStep, ClaimStep, ReadingStep, CommitStep, FailStep,
     WorkClockStep

(* The inductive invariant: types, one clustering, fresh tokens, memories    *)
(* that the tables back, and right counting as long as nothing overlapped.   *)
THEOREM InvariantHolds == Spec => []DiagnosisInv
<1>1. Init => DiagnosisInv
  <2> SUFFICES ASSUME Init PROVE DiagnosisInv
    OBVIOUS
  <2>i. /\ incident = "CLUSTERING_FAILURES" /\ clusterRow = Inserted(Absent)
        /\ workRow = [c \in Clusters |-> Absent]
        /\ clusterState = [c \in Clusters |-> "absent"]
        /\ finding = [c \in Clusters |-> NoFinding]
        /\ repairRequested = FALSE /\ overlapped = FALSE /\ faults = 0
        /\ turn = [p \in Procs |-> "cluster"] /\ clusterToken = [p \in Procs |-> NoToken]
        /\ slot = [s \in Slots |-> Ready]
    BY DEF Init
  <2>r. /\ Absent \in Row /\ Inserted(Absent) \in Row /\ ~Absent.present /\ ~Absent.done
        /\ Absent.token = NoToken /\ ~Inserted(Absent).done
    <3>1. Absent \in Row /\ ~Absent.present /\ ~Absent.done /\ Absent.token = NoToken
      BY DEF Absent, Row, NoToken
    <3> QED
      BY <3>1, RowOperatorsTyped, RowFields
  <2>1. TypeOK
    <3>1. 0 \in 0 .. MaxFaults /\ NoToken \in Nat
      BY BoundsAssumption DEF NoToken
    <3>2. slot \in [Slots -> Memories]
      BY <2>i, RestTyped
    <3> QED
      BY <2>i, <2>r, <3>1, <3>2 DEF TypeOK, Memories
  <2>2. WorkMatchesClusters /\ RepairRequestIsSound
    BY <2>i, <2>r DEF WorkMatchesClusters, RepairRequestIsSound, Open
  <2>3. \A s \in Slots : ~Active(s) /\ ~InTransaction(s) /\ slot[s] = Ready
    BY <2>i, RestTyped DEF Active, InTransaction
  <2>4. TransactionKeepsLease /\ Memory /\ OneClustering
    BY <2>i, <2>3, RestTyped DEF TransactionKeepsLease, Memory, OneClustering
  <2>5. LeasesFresh
    BY <2>i, <2>r, <2>3 DEF LeasesFresh
  <2>6. OneByOne
    <3>1. ~AllActionable
      BY <2>i DEF AllActionable, Found
    <3> QED
      BY <2>3, <3>1, RestTyped DEF OneByOne, RepairedUnlessOverlapped
  <2> QED
    BY <2>1, <2>2, <2>4, <2>5, <2>6 DEF DiagnosisInv
<1> QED
  BY <1>1, InvStep, PTL DEF Spec

(* Types, for any number of clusters, processes and slots. *)
THEOREM TypeCorrect == Spec => []TypeOK
<1>1. DiagnosisInv => TypeOK
  BY DEF DiagnosisInv
<1> QED
  BY <1>1, InvariantHolds, PTL

(* The outbox and failure_clusters never disagree: no claim finds a settled  *)
(* cluster by the tables' doing.                                             *)
THEOREM WorkMatchesClustersHolds == Spec => []WorkMatchesClusters
<1>1. DiagnosisInv => WorkMatchesClusters
  BY DEF DiagnosisInv
<1> QED
  BY <1>1, InvariantHolds, PTL

(* Between the lease check of recordDiagnosis and its COMMIT the lease is    *)
(* neither taken over nor given up.                                          *)
THEOREM TransactionKeepsLeaseHolds == Spec => []TransactionKeepsLease
<1>1. DiagnosisInv => TransactionKeepsLease
  BY DEF DiagnosisInv
<1> QED
  BY <1>1, InvariantHolds, PTL

(* Repair is requested after every cluster has settled, and on the word of a *)
(* diagnosis, for any overlap of transactions.                               *)
THEOREM RepairRequestIsSoundHolds == Spec => []RepairRequestIsSound
<1>1. DiagnosisInv => RepairRequestIsSound
  BY DEF DiagnosisInv
<1> QED
  BY <1>1, InvariantHolds, PTL

(* Overlap is all that can keep the repair of an actionable incident from    *)
(* being requested.                                                          *)
THEOREM RepairedUnlessOverlappedHolds == Spec => []RepairedUnlessOverlapped
<1>1. DiagnosisInv => RepairedUnlessOverlapped
  BY DEF DiagnosisInv, OneByOne, RepairedUnlessOverlapped
<1> QED
  BY <1>1, InvariantHolds, PTL

-----------------------------------------------------------------------------
(* The commits *)

(* Few steps write what the rest of the system sees of the stage. *)
LEMMA CommitKinds ==
  ASSUME TypeOK, [Next]_vars
  PROVE  \/ UNCHANGED <<incident, clusterState, finding, repairRequested, events>>
         \/ \E p \in Procs, found \in SUBSET Clusters : SaveClusters(p, found)
         \/ \E p \in Procs : EscalateClustering(p)
         \/ \E s \in Slots, a \in {TRUE, FALSE} : CommitRecord(s, a)
         \/ \E s \in Slots : EscalateDiagnosis(s)
<1> DEFINE Same == UNCHANGED <<incident, clusterState, finding, repairRequested, events>>
<1>1. UNCHANGED vars => Same
  BY DEF vars, tables
<1>2. Reset => Same
  BY ResetFrame DEF tables
<1>3. ClusterSide => Same \/ \E p \in Procs : EscalateClustering(p)
  BY DEF ClusterSide, ClaimClusterJob, NoClusterJob, RescheduleClustering, LoseClusterJob,
         ClusterLeaseLapses, ClusterBackoffElapses, EndClusterTurn, tables
<1>4. ASSUME NEW s \in Slots,
             \/ \E c \in Clusters : ClaimWork(s, c)
             \/ FindNoWork(s) \/ LoadCluster(s) \/ DiagnoseFails(s)
             \/ \E a \in Actions : BeginRecord(s, a)
             \/ CountPending(s) \/ AbortRecord(s) \/ RescheduleDiagnosis(s) \/ LoseDiagnosis(s)
      PROVE  Same
  BY <1>4 DEF ClaimWork, FindNoWork, LoadCluster, DiagnoseFails, BeginRecord, CountPending,
              AbortRecord, RescheduleDiagnosis, LoseDiagnosis, tables
<1>5. ASSUME NEW c \in Clusters, WorkLeaseLapses(c) \/ WorkBackoffElapses(c) PROVE Same
  BY <1>5 DEF WorkLeaseLapses, WorkBackoffElapses
<1> HIDE DEF Same
<1>6. \/ Same
      \/ \E p \in Procs, found \in SUBSET Clusters : SaveClusters(p, found)
      \/ \E p \in Procs : EscalateClustering(p)
      \/ \E s \in Slots, a \in {TRUE, FALSE} : CommitRecord(s, a)
      \/ \E s \in Slots : EscalateDiagnosis(s)
  BY <1>1, <1>2, <1>3, <1>4, <1>5, StepKinds
<1> QED
  BY <1>6 DEF Same

(* Whoever holds the clustering job finds nothing diagnosed yet. *)
LEMMA ClusteringFirst ==
  ASSUME DiagnosisInv, NEW p \in Procs, HoldsClusterJob(p)
  PROVE  /\ incident = "CLUSTERING_FAILURES" /\ ~repairRequested
         /\ \A c \in Clusters : clusterState[c] = "absent" /\ finding[c] = NoFinding
<1>1. incident = "CLUSTERING_FAILURES" /\ \A c \in Clusters : workRow[c] = Absent
  BY DEF HoldsClusterJob, HeldUnder, DiagnosisInv, OneClustering
<1>2. \A c \in Clusters : clusterState[c] = "absent" /\ finding[c] = NoFinding
  BY <1>1 DEF DiagnosisInv, WorkMatchesClusters, Absent
<1> QED
  BY <1>1, <1>2 DEF DiagnosisInv, RepairRequestIsSound, NoFinding

(* A settled cluster and its finding stay, whoever comes late. *)
THEOREM DiagnosisIsFinalHolds == Spec => DiagnosisIsFinal
<1> DEFINE Final == \A c \in Clusters : clusterState[c] \in {"DIAGNOSED", "NEEDS_REVIEW"}
                      => clusterState'[c] = clusterState[c] /\ finding'[c] = finding[c]
<1>1. DiagnosisInv /\ [Next]_vars => Final
  <2> SUFFICES ASSUME DiagnosisInv, [Next]_vars, NEW c \in Clusters,
                      clusterState[c] \in {"DIAGNOSED", "NEEDS_REVIEW"}
      PROVE  clusterState'[c] = clusterState[c] /\ finding'[c] = finding[c]
    OBVIOUS
  <2>1. ASSUME NEW p \in Procs, NEW found \in SUBSET Clusters, SaveClusters(p, found) PROVE FALSE
    BY <2>1, ClusteringFirst DEF SaveClusters
  <2>2. ASSUME NEW s \in Slots, EscalateDiagnosis(s) \/ \E a \in {TRUE, FALSE} : CommitRecord(s, a)
        PROVE  clusterState'[c] = clusterState[c] /\ finding'[c] = finding[c]
    <3>1. HoldsWork(s)
      BY <2>2, ActiveHasCluster DEF EscalateDiagnosis, CommitRecord, InTransaction
    <3>2. slot[s].cluster # c
      BY <3>1, ActiveHasCluster
    <3> QED
      BY <2>2, <3>2 DEF EscalateDiagnosis, CommitRecord, DiagnosisInv, TypeOK
  <2>3. ASSUME NEW p \in Procs, EscalateClustering(p)
        PROVE  clusterState'[c] = clusterState[c] /\ finding'[c] = finding[c]
    BY <2>3 DEF EscalateClustering
  <2> QED
    BY <2>1, <2>2, <2>3, CommitKinds DEF DiagnosisInv
<1> QED
  BY <1>1, InvariantHolds, PTL DEF Spec, DiagnosisIsFinal

(* The types of the events after some were added. *)
LEMMA EventTypes ==
  ASSUME NEW es, NEW type, NEW cs
  PROVE  {e[1] : e \in es \cup ({type} \X cs)}
           = IF cs = {} THEN {e[1] : e \in es} ELSE {e[1] : e \in es} \cup {type}
<1> DEFINE Before == {e[1] : e \in es}
           After == {e[1] : e \in es \cup ({type} \X cs)}
<1>1. CASE cs = {}
  <2>1. {type} \X cs = {}
    BY <1>1
  <2> QED
    BY <1>1, <2>1
<1>2. CASE cs # {}
  <2>1. PICK c \in cs : TRUE
    BY <1>2
  <2>2. <<type, c>> \in {type} \X cs /\ <<type, c>>[1] = type
    BY <2>1
  <2>3. \A e \in {type} \X cs : e[1] = type
    OBVIOUS
  <2> QED
    BY <1>2, <2>2, <2>3
<1> QED
  BY <1>1, <1>2

(* The stage is its part of the incident's life: each commit is the step of  *)
(* Incident that its name says, and everything else is invisible there.      *)
THEOREM DiagnosisFollowsIncident == Spec => FollowsIncident
<1> DEFINE clusters == [c \in Clusters |-> IF clusterState[c] = "DIAGNOSED" THEN finding[c]
                                           ELSE clusterState[c]]
           ledger == {"workflow.failure.detected"} \cup {e[1] : e \in events}
           repair == [state |-> "absent", pull |-> FALSE]
           view == <<incident, clusters, repairRequested, repair, "none", ledger>>
<1>1. Init => Life!AwaitsClustering
  <2> SUFFICES ASSUME Init PROVE Life!AwaitsClustering
    OBVIOUS
  <2>1. incident = "CLUSTERING_FAILURES" /\ repairRequested = FALSE
        /\ clusters = [c \in Clusters |-> "absent"]
    BY DEF Init
  <2>2. events = {<<"evidence.ingested", NoCluster>>}
    BY DEF Init
  <2>3. ledger = {"workflow.failure.detected", "evidence.ingested"}
    BY <2>2
  <2> QED
    BY <2>1, <2>3 DEF Life!AwaitsClustering, Life!Nothing, Life!NoRun, Life!NoAttempt
<1>2. DiagnosisInv /\ [Next]_vars => [Life!Next]_Life!vars
  <2> SUFFICES ASSUME DiagnosisInv, [Next]_vars PROVE Life!Next \/ UNCHANGED view
    BY DEF Life!vars
  <2>t. /\ TypeOK
        /\ finding \in [Clusters -> Actions \cup {NoFinding}]
        /\ clusterState \in [Clusters -> {"absent", "PENDING", "DIAGNOSED", "NEEDS_REVIEW"}]
    BY DEF DiagnosisInv, TypeOK
  <2>p. \A c \in Clusters : clusters[c] = "PENDING" <=> clusterState[c] = "PENDING"
    BY <2>t DEF Actions, NoFinding
  <2>1. CASE UNCHANGED <<incident, clusterState, finding, repairRequested, events>>
    BY <2>1
  <2>2. ASSUME NEW p \in Procs, NEW found \in SUBSET Clusters, SaveClusters(p, found)
        PROVE  Life!Next
    <3>1. /\ incident = "CLUSTERING_FAILURES" /\ incident' = "DIAGNOSING"
          /\ UNCHANGED <<finding, repairRequested>>
          /\ clusterState' = [c \in Clusters |-> IF c \in found THEN "PENDING" ELSE clusterState[c]]
          /\ events' = events \cup ({"failure.clustered"} \X found)
      BY <2>2, ClusteringFirst DEF SaveClusters
    <3>2. clusters' = [c \in Clusters |-> IF c \in found THEN "PENDING" ELSE clusters[c]]
      BY <3>1
    <3>3. ledger' = IF found = {} THEN ledger ELSE ledger \cup {"failure.clustered"}
      <4>1. {e[1] : e \in events'} = IF found = {} THEN {e[1] : e \in events}
                                     ELSE {e[1] : e \in events} \cup {"failure.clustered"}
        BY <3>1, EventTypes
      <4> QED
        BY <4>1
    <3> HIDE DEF clusters, ledger
    <3>4. Life!SaveClusters(found)
      BY <3>1, <3>2, <3>3 DEF Life!SaveClusters, clusters, ledger
    <3> QED
      BY <3>4 DEF Life!Next
  <2>3. ASSUME NEW p \in Procs, EscalateClustering(p) PROVE Life!Next
    <3>1. /\ incident = "CLUSTERING_FAILURES" /\ incident' = "NEEDS_REVIEW"
          /\ UNCHANGED <<clusterState, finding, repairRequested>>
          /\ events' = events \cup ({"failure.clustering_escalated"} \X {NoCluster})
      BY <2>3, ClusteringFirst DEF EscalateClustering
    <3>2. ledger' = ledger \cup {"failure.clustering_escalated"}
      <4>1. {e[1] : e \in events'} = {e[1] : e \in events} \cup {"failure.clustering_escalated"}
        BY <3>1, EventTypes
      <4> QED
        BY <4>1
    <3>3. Life!EscalateClustering
      BY <3>1, <3>2 DEF Life!EscalateClustering
    <3> QED
      BY <3>3 DEF Life!Next
  <2>4. ASSUME NEW s \in Slots, NEW a \in {TRUE, FALSE}, CommitRecord(s, a) PROVE Life!Next
    <3>1. /\ slot[s].cluster \in Clusters /\ clusterState[slot[s].cluster] = "PENDING"
          /\ slot[s].action \in Actions /\ slot[s] \in Memories
      BY <2>4, ActiveHasCluster, Unfolded
         DEF CommitRecord, InTransaction, DiagnosisInv, Memory
    <3>c. PICK c \in Clusters, action \in Actions, clear \in BOOLEAN :
            c = slot[s].cluster /\ action = slot[s].action /\ clear = slot[s].clear
      BY <3>1 DEF Memories
    <3>2. clusterState[c] = "PENDING" /\ (clear => action = "EXECUTE_REPAIR" /\ NonePending(c))
      BY <3>1, <3>c DEF DiagnosisInv, Memory
    <3>3. /\ finding' = [finding EXCEPT ![c] = action]
          /\ clusterState' = [clusterState EXCEPT ![c] = "DIAGNOSED"]
          /\ repairRequested' = (repairRequested \/ clear)
          /\ events' = events \cup ({"diagnosis.proposed"} \X {c})
          /\ incident' = incident
      <4>1. Diagnosed(clusterState[c]) = "DIAGNOSED"
        BY <3>2 DEF Diagnosed
      <4>2. {"diagnosis.proposed"} \X {c} = {<<"diagnosis.proposed", c>>}
        OBVIOUS
      <4> HIDE DEF clusters, ledger, view
      <4>3. clusterState' = [clusterState EXCEPT ![c] = "DIAGNOSED"]
        BY <2>4, <3>c, <4>1 DEF CommitRecord
      <4> QED
        BY <2>4, <3>c, <4>2, <4>3 DEF CommitRecord
    <3>4. clusters' = [clusters EXCEPT ![c] = action]
      BY <2>t, <3>1, <3>3
    <3>5. ledger' = ledger \cup {"diagnosis.proposed"}
      <4>1. {e[1] : e \in events'} = {e[1] : e \in events} \cup {"diagnosis.proposed"}
        BY <3>3, EventTypes
      <4> QED
        BY <4>1
    <3>6. clear => action = "EXECUTE_REPAIR" /\ \A d \in Clusters \ {c} : clusters[d] # "PENDING"
      BY <2>p, <3>2 DEF NonePending
    <3>7. clusters[c] = "PENDING"
      BY <2>p, <3>2
    <3> HIDE DEF clusters, ledger
    <3>8. Life!Diagnose(c, action, clear)
      BY <3>3, <3>4, <3>5, <3>6, <3>7 DEF Life!Diagnose, Life!LastToSettle, clusters, ledger
    <3> QED
      BY <3>8 DEF Life!Next, Life!Actions, Actions
  <2>5. ASSUME NEW s \in Slots, EscalateDiagnosis(s) PROVE Life!Next
    <3>1. PICK c \in Clusters : c = slot[s].cluster /\ clusterState[c] = "PENDING"
      BY <2>5, ActiveHasCluster DEF EscalateDiagnosis
    <3>2. /\ clusterState' = [clusterState EXCEPT ![c] = "NEEDS_REVIEW"]
          /\ events' = events \cup ({"diagnosis.escalated"} \X {c})
          /\ UNCHANGED <<incident, finding, repairRequested>>
      <4>1. {"diagnosis.escalated"} \X {c} = {<<"diagnosis.escalated", c>>}
        OBVIOUS
      <4> QED
        BY <2>5, <3>1, <4>1 DEF EscalateDiagnosis
    <3>3. clusters' = [clusters EXCEPT ![c] = "NEEDS_REVIEW"] /\ clusters[c] = "PENDING"
      BY <2>t, <2>p, <3>1, <3>2
    <3>4. ledger' = ledger \cup {"diagnosis.escalated"}
      <4>1. {e[1] : e \in events'} = {e[1] : e \in events} \cup {"diagnosis.escalated"}
        BY <3>2, EventTypes
      <4> QED
        BY <4>1
    <3> HIDE DEF clusters, ledger
    <3>5. Life!EscalateDiagnosis(c)
      BY <3>2, <3>3, <3>4 DEF Life!EscalateDiagnosis, clusters, ledger
    <3> QED
      BY <3>5 DEF Life!Next
  <2> QED
    BY <2>t, <2>1, <2>2, <2>3, <2>4, <2>5, CommitKinds
<1> QED
  BY <1>1, <1>2, InvariantHolds, PTL DEF Spec, FollowsIncident

-----------------------------------------------------------------------------
(* How often a work item is claimed.  The program gives up on the third      *)
(* claim, but a lease can also be lost: to the clock or a crash, each a      *)
(* fault, or because another slot of the process found its cluster settled   *)
(* and took the whole process with it.  Such a doomed slot is owed to a      *)
(* fault, too: it lost its own lease first.                                  *)
Doomed(s) == slot[s].pc = "claimed" /\ (HoldsWork(s) => workRow[slot[s].cluster].lapsed)
DoomedSlots == {s \in Slots : Doomed(s)}
Elsewhere(c) == {s \in Slots : Doomed(s) /\ slot[s].cluster # c}
Debt(c) == Cardinality(Elsewhere(c))

(* A live lease, whose holder is still at work. *)
Kept(c) == ~workRow[c].lapsed /\ \E s \in Slots : slot[s].cluster = c /\ HoldsWork(s)

ClaimsBoundedOf(c) ==
  /\ workRow[c].attempts + Debt(c) <= 3 + faults
  /\ ~workRow[c].done /\ ~Kept(c) => workRow[c].attempts + Debt(c) <= 2 + faults

ClaimsBounded == /\ Cardinality(DoomedSlots) <= faults
                 /\ \A c \in Clusters : ClaimsBoundedOf(c)

(* No row is claimed before it is inserted. *)
InsertedFirst == \A c \in Clusters : ~workRow[c].present => workRow[c].attempts = 0

(* What each step writes to the rows of the work items. *)
LEMMA RowsWritten ==
  ASSUME DiagnosisInv, [Next]_vars
  PROVE  \/ UNCHANGED workRow
         \/ \E found \in SUBSET Clusters : \A c \in Clusters :
              workRow'[c] = IF c \in found THEN Inserted(workRow[c]) ELSE workRow[c]
         \/ \E c \in Clusters :
              /\ Open(workRow[c])
              /\ \/ workRow' = [workRow EXCEPT ![c] = Claimed(workRow[c])]
                 \/ workRow' = [workRow EXCEPT ![c] = Completed(workRow[c])]
                 \/ workRow' = [workRow EXCEPT ![c] = Rescheduled(workRow[c])]
                 \/ workRow' = [workRow EXCEPT ![c] = LeaseRunsOut(workRow[c])]
                 \/ workRow' = [workRow EXCEPT ![c] = BackoffRunsOut(workRow[c])]
<1>t. TypeOK
  BY DEF DiagnosisInv
<1>1. CASE UNCHANGED vars
  BY <1>1 DEF vars, tables
<1>2. CASE ClusterSide
  BY <1>t, <1>2, ClusterSideFrame
<1>3. CASE Reset
  BY <1>t, <1>3, ResetFrame DEF tables
<1>4. ASSUME NEW p \in Procs, NEW found \in SUBSET Clusters, SaveClusters(p, found)
      PROVE  \A c \in Clusters :
               workRow'[c] = IF c \in found THEN Inserted(workRow[c]) ELSE workRow[c]
  BY <1>4 DEF SaveClusters
<1>5. ASSUME NEW s \in Slots, NEW c \in Clusters, ClaimWork(s, c)
      PROVE  Open(workRow[c]) /\ workRow' = [workRow EXCEPT ![c] = Claimed(workRow[c])]
  BY <1>5 DEF ClaimWork, Offered, Claimable
<1>6. ASSUME NEW s \in Slots,
             \/ FindNoWork(s) \/ LoadCluster(s) \/ DiagnoseFails(s)
             \/ \E a \in Actions : BeginRecord(s, a)
             \/ CountPending(s) \/ AbortRecord(s) \/ LoseDiagnosis(s)
      PROVE  UNCHANGED workRow
  BY <1>6 DEF FindNoWork, LoadCluster, DiagnoseFails, BeginRecord, CountPending, AbortRecord,
              LoseDiagnosis, tables
<1>7. ASSUME NEW s \in Slots,
             CommitRecord(s, TRUE) \/ CommitRecord(s, FALSE) \/ EscalateDiagnosis(s)
               \/ RescheduleDiagnosis(s)
      PROVE  \E c \in Clusters :
               /\ Open(workRow[c])
               /\ \/ workRow' = [workRow EXCEPT ![c] = Completed(workRow[c])]
                  \/ workRow' = [workRow EXCEPT ![c] = Rescheduled(workRow[c])]
  <2>1. HoldsWork(s)
    BY <1>7, ActiveHasCluster DEF CommitRecord, EscalateDiagnosis, RescheduleDiagnosis,
                                  InTransaction
  <2>2. slot[s].cluster \in Clusters /\ Open(workRow[slot[s].cluster])
    BY <2>1, ActiveHasCluster
  <2> QED
    BY <1>7, <2>2 DEF CommitRecord, EscalateDiagnosis, RescheduleDiagnosis
<1>8. ASSUME NEW c \in Clusters, WorkLeaseLapses(c) \/ WorkBackoffElapses(c)
      PROVE  /\ Open(workRow[c])
             /\ \/ workRow' = [workRow EXCEPT ![c] = LeaseRunsOut(workRow[c])]
                \/ workRow' = [workRow EXCEPT ![c] = BackoffRunsOut(workRow[c])]
  BY <1>8 DEF WorkLeaseLapses, WorkBackoffElapses
<1> QED
  BY <1>1, <1>2, <1>3, <1>4, <1>5, <1>6, <1>7, <1>8, StepKinds

(* Claims follow the INSERT. *)
LEMMA InsertedFirstHolds == Spec => []InsertedFirst
<1>1. Init => InsertedFirst
  BY DEF Init, InsertedFirst, Absent
<1>2. DiagnosisInv /\ InsertedFirst /\ [Next]_vars => InsertedFirst'
  <2> SUFFICES ASSUME DiagnosisInv, InsertedFirst, [Next]_vars, NEW d \in Clusters,
                      ~workRow'[d].present
               PROVE  workRow'[d].attempts = 0
    BY DEF InsertedFirst
  <2>t. workRow \in [Clusters -> Row] /\ workRow[d] \in Row
    BY Unfolded DEF DiagnosisInv
  <2>1. CASE UNCHANGED workRow
    BY <2>1 DEF InsertedFirst
  <2>2. ASSUME NEW found \in SUBSET Clusters,
               workRow'[d] = IF d \in found THEN Inserted(workRow[d]) ELSE workRow[d]
        PROVE  workRow'[d].attempts = 0
    BY <2>t, <2>2, RowFields DEF InsertedFirst
  <2>3. ASSUME NEW c \in Clusters, Open(workRow[c]),
               \/ workRow' = [workRow EXCEPT ![c] = Claimed(workRow[c])]
               \/ workRow' = [workRow EXCEPT ![c] = Completed(workRow[c])]
               \/ workRow' = [workRow EXCEPT ![c] = Rescheduled(workRow[c])]
               \/ workRow' = [workRow EXCEPT ![c] = LeaseRunsOut(workRow[c])]
               \/ workRow' = [workRow EXCEPT ![c] = BackoffRunsOut(workRow[c])]
        PROVE  workRow'[d].attempts = 0
    <3>1. CASE d # c
      BY <2>t, <2>3, <3>1 DEF InsertedFirst
    <3>2. CASE d = c
      <4>1. workRow'[d] \in {Claimed(workRow[d]), Completed(workRow[d]), Rescheduled(workRow[d]),
                             LeaseRunsOut(workRow[d]), BackoffRunsOut(workRow[d])}
        BY <2>t, <2>3, <3>2
      <4>2. workRow'[d].present = workRow[d].present
        BY <2>t, <4>1, RowFields
      <4> QED
        BY <2>3, <3>2, <4>2 DEF Open
    <3> QED
      BY <3>1, <3>2
  <2> QED
    BY <2>1, <2>2, <2>3, RowsWritten
<1> QED
  BY <1>1, <1>2, InvariantHolds, PTL DEF Spec

(* There are finitely many slots to count. *)
LEMMA SlotSets ==
  ASSUME NEW T \in SUBSET Slots, NEW S \in SUBSET T
  PROVE  /\ IsFiniteSet(T) /\ Cardinality(T) \in Nat /\ Cardinality(S) \in Nat
         /\ Cardinality(S) <= Cardinality(T)
<1>1. IsFiniteSet(1 .. Concurrency)
  <2>1. 1 \in Int /\ Concurrency \in Int
    BY BoundsAssumption
  <2> QED
    BY <2>1, FS_Interval
<1>2. IsFiniteSet(Slots)
  BY <1>1, ProcsAssumption, FS_Product DEF Slots
<1>3. IsFiniteSet(T) /\ IsFiniteSet(S) /\ Cardinality(S) <= Cardinality(T)
  BY <1>2, FS_Subset
<1> QED
  BY <1>3, FS_CardinalityType

(* The debt is a number, and no larger than the number of doomed slots. *)
LEMMA DebtTyped ==
  /\ Cardinality(DoomedSlots) \in Nat
  /\ \A c : Debt(c) \in Nat /\ Debt(c) <= Cardinality(DoomedSlots)
<1>1. DoomedSlots \in SUBSET Slots /\ \A c : Elsewhere(c) \in SUBSET DoomedSlots
  BY DEF DoomedSlots, Elsewhere
<1> QED
  BY <1>1, SlotSets DEF Debt

(* If no slot is doomed anew, no debt grows. *)
LEMMA DebtShrinks ==
  ASSUME \A s \in Slots : Doomed(s)' => Doomed(s) /\ slot'[s].cluster = slot[s].cluster
  PROVE  /\ Cardinality(DoomedSlots)' \in Nat
         /\ Cardinality(DoomedSlots)' <= Cardinality(DoomedSlots)
         /\ \A c \in Clusters : /\ Debt(c)' \in Nat /\ Debt(c)' <= Debt(c)
                                /\ Debt(c)' <= Cardinality(DoomedSlots)'
<1>1. DoomedSlots' \in SUBSET DoomedSlots /\ DoomedSlots \in SUBSET Slots
  BY DEF DoomedSlots
<1>2. Cardinality(DoomedSlots)' <= Cardinality(DoomedSlots) /\ Cardinality(DoomedSlots)' \in Nat
  BY <1>1, SlotSets
<1>3. ASSUME NEW c \in Clusters
      PROVE  /\ Debt(c)' \in Nat /\ Debt(c)' <= Debt(c)
             /\ Debt(c)' <= Cardinality(DoomedSlots)'
  <2>1. /\ Elsewhere(c)' \in SUBSET Elsewhere(c) /\ Elsewhere(c) \in SUBSET Slots
        /\ Elsewhere(c)' \in SUBSET DoomedSlots' /\ DoomedSlots' \in SUBSET Slots
    BY DEF DoomedSlots, Elsewhere
  <2> QED
    BY <2>1, SlotSets DEF Debt
<1> QED
  BY <1>2, <1>3

(* What a step may do to one row that it does not claim. *)
LEMMA BoundFrame ==
  ASSUME NEW c \in Clusters, ClaimsBoundedOf(c), workRow[c].attempts \in Nat, faults \in Nat,
         Debt(c) \in Nat, Debt(c)' \in Nat,
         workRow'[c].attempts = workRow[c].attempts,
         \/ faults' = faults + 1 /\ Debt(c)' <= Debt(c)
         \/ /\ faults' = faults + 1 /\ Debt(c)' <= Debt(c) + 1
            /\ workRow'[c].done = workRow[c].done /\ (Kept(c) => Kept(c)')
         \/ /\ faults' = faults /\ Debt(c)' <= Debt(c)
            /\ workRow'[c].done \/ (workRow'[c].done = workRow[c].done /\ (Kept(c) => Kept(c)'))
         \/ faults' = faults /\ Debt(c)' + 1 <= Debt(c)
         \/ faults' = faults /\ workRow[c].attempts + Debt(c)' <= 2 + faults
  PROVE  ClaimsBoundedOf(c)'
<1> DEFINE n == workRow[c].attempts
           d == Debt(c)
           e == Debt(c)'
<1>n. n \in Nat /\ d \in Nat /\ e \in Nat /\ faults \in Nat
  OBVIOUS
<1>b. /\ n + d <= 3 + faults
      /\ ~workRow[c].done /\ ~Kept(c) => n + d <= 2 + faults
  BY DEF ClaimsBoundedOf
<1>g. ASSUME n + e <= 3 + faults', ~workRow'[c].done /\ ~Kept(c)' => n + e <= 2 + faults'
      PROVE  ClaimsBoundedOf(c)'
  BY <1>g DEF ClaimsBoundedOf
<1> HIDE DEF n, d, e
<1>1. CASE faults' = faults + 1 /\ e <= d
  BY <1>n, <1>b, <1>g, <1>1
<1>2. CASE /\ faults' = faults + 1 /\ e <= d + 1
           /\ workRow'[c].done = workRow[c].done /\ (Kept(c) => Kept(c)')
  BY <1>n, <1>b, <1>g, <1>2
<1>3. CASE /\ faults' = faults /\ e <= d
           /\ workRow'[c].done \/ (workRow'[c].done = workRow[c].done /\ (Kept(c) => Kept(c)'))
  BY <1>n, <1>b, <1>g, <1>3
<1>4. CASE faults' = faults /\ e + 1 <= d
  BY <1>n, <1>b, <1>g, <1>4
<1>5. CASE faults' = faults /\ n + e <= 2 + faults
  BY <1>n, <1>b, <1>g, <1>5
<1> QED
  BY <1>1, <1>2, <1>3, <1>4, <1>5 DEF n, d, e

(* Steps that doom no slot. *)
LEMMA NoneDoomed ==
  ASSUME DiagnosisInv, ClaimsBounded, faults' \in {faults, faults + 1},
         \A s \in Slots : Doomed(s)' => Doomed(s) /\ slot'[s].cluster = slot[s].cluster,
         \A c \in Clusters :
           /\ workRow'[c].attempts = workRow[c].attempts
           /\ \/ faults' = faults + 1
              \/ workRow'[c].done
              \/ workRow'[c].done = workRow[c].done /\ (Kept(c) => Kept(c)')
              \/ workRow[c].attempts + Debt(c)' <= 2 + faults
  PROVE  ClaimsBounded'
<1>1. /\ faults \in Nat /\ Cardinality(DoomedSlots) \in Nat
      /\ \A c \in Clusters : workRow[c].attempts \in Nat /\ Debt(c) \in Nat
  BY Unfolded, DebtTyped, BoundsAssumption DEF DiagnosisInv, TypeOK
<1>2. /\ Cardinality(DoomedSlots)' \in Nat
      /\ Cardinality(DoomedSlots)' <= Cardinality(DoomedSlots)
      /\ \A c \in Clusters : Debt(c)' \in Nat /\ Debt(c)' <= Debt(c)
  BY DebtShrinks
<1>3. Cardinality(DoomedSlots)' <= faults'
  BY <1>1, <1>2 DEF ClaimsBounded
<1>4. ASSUME NEW c \in Clusters PROVE ClaimsBoundedOf(c)'
  BY <1>1, <1>2, BoundFrame DEF ClaimsBounded
<1> QED
  BY <1>3, <1>4 DEF ClaimsBounded

(* Who holds a work item, and who is doomed, is seen from a few columns. *)
LEMMA SameSlot ==
  ASSUME NEW s \in Slots, slot[s].cluster \in Clusters \cup {NoCluster},
         slot'[s].cluster = slot[s].cluster, slot'[s].token = slot[s].token,
         \A c \in Clusters : /\ workRow'[c].token = workRow[c].token
                             /\ workRow'[c].done = workRow[c].done
  PROVE  HoldsWork(s)' <=> HoldsWork(s)
BY DEF HoldsWork, HeldUnder

(* Work items and slots' jobs that stay keep their leases. *)
LEMMA SameRows ==
  ASSUME TypeOK, UNCHANGED workRow,
         \A s \in Slots : \/ /\ slot'[s].cluster = slot[s].cluster /\ slot'[s].token = slot[s].token
                             /\ slot'[s].pc = "claimed" => slot[s].pc = "claimed"
                          \/ ~HoldsWork(s) /\ slot'[s].pc # "claimed"
  PROVE  /\ \A s \in Slots : Doomed(s)' => Doomed(s) /\ slot'[s].cluster = slot[s].cluster
         /\ \A c \in Clusters : Kept(c) => Kept(c)'
<1>1. \A s \in Slots : slot[s].cluster \in Clusters \cup {NoCluster}
  BY Unfolded DEF Memories
<1>2. ASSUME NEW s \in Slots, slot'[s].cluster = slot[s].cluster, slot'[s].token = slot[s].token
      PROVE  HoldsWork(s)' <=> HoldsWork(s)
  BY <1>1, <1>2, SameSlot
<1>3. ASSUME NEW s \in Slots, Doomed(s)'
      PROVE  Doomed(s) /\ slot'[s].cluster = slot[s].cluster
  BY <1>2, <1>3 DEF Doomed
<1>4. ASSUME NEW c \in Clusters, Kept(c) PROVE Kept(c)'
  <2>1. PICK s \in Slots : slot[s].cluster = c /\ HoldsWork(s)
    BY <1>4 DEF Kept
  <2>2. slot'[s].cluster = slot[s].cluster /\ slot'[s].token = slot[s].token
    BY <2>1
  <2> QED
    BY <1>2, <1>4, <2>1, <2>2 DEF Kept
<1> QED
  BY <1>3, <1>4

(* Every step but three leaves the bound as it is. *)
LEMMA BoundQuiet ==
  ASSUME DiagnosisInv, ClaimsBounded,
         \/ UNCHANGED vars \/ ClusterSide
         \/ \E p \in Procs : EndRound(p) \/ Crash(p)
         \/ \E s \in Slots :
              \/ FindNoWork(s) \/ LoadCluster(s) \/ DiagnoseFails(s)
              \/ \E a \in Actions : BeginRecord(s, a)
              \/ CountPending(s) \/ AbortRecord(s) \/ LoseDiagnosis(s)
  PROVE  ClaimsBounded'
<1>t. /\ TypeOK /\ slot \in [Slots -> Memories] /\ workRow \in [Clusters -> Row]
  BY Unfolded DEF DiagnosisInv
<1>k. ASSUME UNCHANGED workRow, faults' \in {faults, faults + 1},
             \A s \in Slots : \/ /\ slot'[s].cluster = slot[s].cluster /\ slot'[s].token = slot[s].token
                                 /\ slot'[s].pc = "claimed" => slot[s].pc = "claimed"
                              \/ ~HoldsWork(s) /\ slot'[s].pc # "claimed"
      PROVE  ClaimsBounded'
  BY <1>k, <1>t, SameRows, NoneDoomed
<1>1. CASE UNCHANGED vars
  BY <1>k, <1>1 DEF vars, tables
<1>2. CASE ClusterSide
  BY <1>t, <1>k, <1>2, ClusterSideFrame
<1>3. ASSUME NEW p \in Procs, EndRound(p) PROVE ClaimsBounded'
  <2>1. /\ UNCHANGED <<workRow, faults>>
        /\ slot' = [s \in Slots |-> IF Proc(s) = p THEN Ready ELSE slot[s]]
        /\ \A s \in Slots : Proc(s) = p => slot[s].pc = "done"
    BY <1>3 DEF EndRound, tables
  <2>2. \A s \in Slots : Proc(s) = p => ~HoldsWork(s) /\ slot'[s].pc # "claimed"
    BY <2>1, ActiveHasCluster, RestTyped DEF Active
  <2> HIDE DEF Proc
  <2>3. \A s \in Slots : Proc(s) # p => slot'[s] = slot[s]
    BY <2>1
  <2> QED
    BY <1>k, <2>1, <2>2, <2>3
<1>4. ASSUME NEW p \in Procs, Crash(p) PROVE ClaimsBounded'
  <2>1. /\ UNCHANGED workRow /\ faults' = faults + 1
        /\ \A s \in Slots : slot'[s] = slot[s] \/ slot'[s].pc # "claimed"
    BY <1>t, <1>4, ResetFrame, RestTyped DEF Crash, Reset, tables
  <2>2. \A s \in Slots : Doomed(s)' => Doomed(s) /\ slot'[s].cluster = slot[s].cluster
    BY <2>1 DEF Doomed, HoldsWork
  <2> QED
    BY <2>1, <2>2, NoneDoomed
<1>5. ASSUME NEW s \in Slots, FindNoWork(s) \/ LoseDiagnosis(s) PROVE ClaimsBounded'
  <2>1. /\ UNCHANGED <<workRow, faults>> /\ slot' = [slot EXCEPT ![s] = Done]
    BY <1>5 DEF FindNoWork, LoseDiagnosis, tables
  <2>2. ~HoldsWork(s)
    BY <1>5, ActiveHasCluster DEF FindNoWork, LoseDiagnosis, Asks, Active
  <2>3. slot'[s] = Done /\ \A t \in Slots \ {s} : slot'[t] = slot[t]
    BY <1>t, <2>1
  <2> QED
    BY <1>k, <2>1, <2>2, <2>3, RestTyped
<1>6. ASSUME NEW s \in Slots,
             \/ LoadCluster(s) \/ DiagnoseFails(s) \/ CountPending(s) \/ AbortRecord(s)
             \/ \E a \in Actions : BeginRecord(s, a)
      PROVE  ClaimsBounded'
  <2>1. UNCHANGED <<workRow, faults>>
    BY <1>6 DEF LoadCluster, DiagnoseFails, CountPending, AbortRecord, BeginRecord, tables
  <2>2. /\ slot'[s].cluster = slot[s].cluster /\ slot'[s].token = slot[s].token
        /\ slot'[s].pc # "claimed"
        /\ \A t \in Slots \ {s} : slot'[t] = slot[t]
    BY <1>t, <1>6, Moves DEF Keeping, BecomesFailing, Becomes
  <2> QED
    BY <1>k, <2>1, <2>2
<1> QED
  BY <1>1, <1>2, <1>3, <1>4, <1>5, <1>6

(* A slot that dies on a settled cluster pays for what its death costs the   *)
(* other slots of its process.                                               *)
LEMMA BoundDeath ==
  ASSUME DiagnosisInv, InsertedFirst, ClaimsBounded, NEW s \in Slots, DieOnSettledCluster(s)
  PROVE  ClaimsBounded'
<1> DEFINE b == slot[s].cluster
<1>t. /\ TypeOK /\ faults \in Nat
      /\ \A c \in Clusters : workRow[c].attempts \in Nat /\ Debt(c) \in Nat
  BY Unfolded, DebtTyped, BoundsAssumption DEF DiagnosisInv, TypeOK
<1>1. /\ UNCHANGED <<workRow, faults>> /\ slot[s].pc = "claimed" /\ clusterState[b] # "PENDING"
      /\ slot'[s] = Ready
      /\ \A t \in Slots : slot'[t] = slot[t] \/ slot'[t].pc # "claimed"
  <2>1. \A t \in Slots : slot'[t] = slot[t] \/ slot'[t] = Ready
    BY <1>t, ResetFrame DEF Reset
  <2> QED
    BY <2>1, RestTyped DEF DieOnSettledCluster, Restarted, tables
<1>2. /\ b \in Clusters /\ ~HoldsWork(s) /\ Doomed(s) /\ ~Doomed(s)'
  BY <1>1, ActiveHasCluster, RestTyped DEF Doomed, Active
<1>3. \A t \in Slots : Doomed(t)' => Doomed(t) /\ slot'[t].cluster = slot[t].cluster
  BY <1>1 DEF Doomed, HoldsWork
<1>4. /\ Cardinality(DoomedSlots)' \in Nat
      /\ Cardinality(DoomedSlots)' <= Cardinality(DoomedSlots)
      /\ \A c \in Clusters : Debt(c)' \in Nat /\ Debt(c)' <= Debt(c)
  BY <1>3, DebtShrinks
<1>5. ASSUME NEW c \in Clusters, c # b PROVE Debt(c)' + 1 <= Debt(c)
  <2>1. /\ Elsewhere(c)' \in SUBSET (Elsewhere(c) \ {s}) /\ s \in Elsewhere(c)
        /\ Elsewhere(c) \in SUBSET Slots
    BY <1>2, <1>3, <1>5 DEF Elsewhere
  <2>2. IsFiniteSet(Elsewhere(c)) /\ Cardinality(Elsewhere(c)) \in Nat
    BY <2>1, SlotSets
  <2>3. Cardinality(Elsewhere(c) \ {s}) = Cardinality(Elsewhere(c)) - 1
    BY <2>1, <2>2, FS_RemoveElement
  <2>4. Elsewhere(c) \ {s} \in SUBSET Slots
    BY <2>1
  <2>5. Cardinality(Elsewhere(c)') <= Cardinality(Elsewhere(c) \ {s})
        /\ Cardinality(Elsewhere(c)') \in Nat
    BY <2>1, <2>4, SlotSets
  <2> QED
    BY <2>2, <2>3, <2>5 DEF Debt
<1>6. workRow[b].done
  <2>1. ~Open(workRow[b])
    BY <1>1, <1>2 DEF DiagnosisInv, WorkMatchesClusters
  <2>2. workRow[b].present
    <3>1. slot[s].token # NoToken /\ slot[s].token <= workRow[b].attempts /\ slot[s].token \in Nat
      BY <1>1, Unfolded, <1>t DEF DiagnosisInv, LeasesFresh, Active
    <3>2. workRow[b].attempts # 0
      BY <1>2, <1>t, <3>1 DEF NoToken
    <3> QED
      BY <1>2, <3>2 DEF InsertedFirst
  <2> QED
    BY <2>1, <2>2 DEF Open
<1>7. ASSUME NEW c \in Clusters PROVE ClaimsBoundedOf(c)'
  <2>1. /\ ClaimsBoundedOf(c) /\ workRow'[c].attempts = workRow[c].attempts
        /\ faults' = faults /\ Debt(c)' <= Debt(c)
        /\ workRow[c].attempts \in Nat /\ Debt(c) \in Nat /\ Debt(c)' \in Nat
    BY <1>t, <1>1, <1>4 DEF ClaimsBounded
  <2>2. CASE c # b
    BY <1>t, <1>5, <2>1, <2>2, BoundFrame
  <2>3. CASE c = b
    <3>1. workRow'[c].done
      BY <1>1, <1>6, <2>3
    <3> QED
      BY <1>t, <2>1, <3>1, BoundFrame
  <2> QED
    BY <2>2, <2>3
<1>8. Cardinality(DoomedSlots)' <= faults'
  <2>1. Cardinality(DoomedSlots) <= faults /\ Cardinality(DoomedSlots) \in Nat
    BY DebtTyped DEF ClaimsBounded
  <2> QED
    BY <1>t, <1>1, <1>4, <2>1
<1> QED
  BY <1>7, <1>8 DEF ClaimsBounded

(* The clustering commits before anything is claimed. *)
LEMMA BoundSave ==
  ASSUME DiagnosisInv, ClaimsBounded, NEW p \in Procs, NEW found \in SUBSET Clusters,
         SaveClusters(p, found)
  PROVE  ClaimsBounded'
<1>t. /\ TypeOK /\ faults \in Nat /\ workRow \in [Clusters -> Row]
  BY Unfolded, BoundsAssumption DEF DiagnosisInv, TypeOK
<1>1. /\ ~clusterRow.done /\ UNCHANGED <<slot, faults>>
      /\ \A c \in Clusters :
           workRow'[c] = IF c \in found THEN Inserted(workRow[c]) ELSE workRow[c]
  BY DEF SaveClusters, HoldsClusterJob, HeldUnder, EndClusterTurn
<1>2. \A s \in Slots : slot'[s].pc # "claimed"
  BY <1>1, NobodyActive DEF Active
<1>3. \A s \in Slots : Doomed(s)' => Doomed(s) /\ slot'[s].cluster = slot[s].cluster
  BY <1>2 DEF Doomed
<1>4. ASSUME NEW c \in Clusters
      PROVE  /\ workRow[c].attempts = 0 /\ workRow'[c].attempts = workRow[c].attempts
             /\ workRow[c].attempts + Debt(c)' <= 2 + faults
  <2>1. workRow[c] = Absent /\ workRow[c] \in Row
    BY <1>t, <1>1 DEF DiagnosisInv, OneClustering
  <2>2. workRow[c].attempts = 0 /\ workRow'[c].attempts = workRow[c].attempts
    BY <1>1, <2>1, RowFields DEF Absent
  <2>3. /\ Debt(c)' \in Nat /\ Cardinality(DoomedSlots)' \in Nat
        /\ Debt(c)' <= Cardinality(DoomedSlots)'
        /\ Cardinality(DoomedSlots)' <= Cardinality(DoomedSlots)
        /\ Cardinality(DoomedSlots) \in Nat /\ Cardinality(DoomedSlots) <= faults
    BY <1>3, DebtShrinks, DebtTyped DEF ClaimsBounded
  <2>4. 0 + Debt(c)' <= 2 + faults
    BY <1>t, <2>3
  <2> QED
    BY <2>2, <2>4
<1> QED
  BY <1>1, <1>3, <1>4, NoneDoomed

(* A claim finds nobody at work on the row, and makes its slot the holder. *)
LEMMA BoundClaim ==
  ASSUME DiagnosisInv, ClaimsBounded, NEW s \in Slots, NEW b \in Clusters, ClaimWork(s, b)
  PROVE  ClaimsBounded'
<1>t. /\ TypeOK /\ faults \in Nat /\ workRow \in [Clusters -> Row] /\ workRow[b] \in Row
      /\ slot \in [Slots -> Memories]
      /\ \A c \in Clusters : workRow[c].attempts \in Nat /\ Debt(c) \in Nat
  BY Unfolded, DebtTyped, BoundsAssumption DEF DiagnosisInv, TypeOK
<1>1. /\ Open(workRow[b]) /\ (workRow[b].token = NoToken \/ workRow[b].lapsed)
      /\ workRow' = [workRow EXCEPT ![b] = Claimed(workRow[b])]
      /\ faults' = faults /\ slot[s].pc = "ready"
  BY DEF ClaimWork, Offered, Claimable, Asks
<1>2. /\ slot'[s].cluster = b /\ slot'[s].token = workRow'[b].token
      /\ \A t \in Slots \ {s} : slot'[t] = slot[t]
  BY <1>t, Moves DEF Becomes
<1>3. /\ workRow'[b].token = workRow[b].attempts + 1
      /\ workRow'[b].attempts = workRow[b].attempts + 1
      /\ ~workRow'[b].done /\ ~workRow'[b].lapsed
      /\ \A c \in Clusters \ {b} : workRow'[c] = workRow[c]
  <2>1. workRow'[b] = Claimed(workRow[b]) /\ \A c \in Clusters \ {b} : workRow'[c] = workRow[c]
    BY <1>t, <1>1
  <2> QED
    BY <1>t, <1>1, <2>1, RowFields, RowClock DEF Open
<1>4. HoldsWork(s)' /\ ~Doomed(s)'
  <2>1. workRow'[b].token # NoToken
    BY <1>t, <1>3 DEF NoToken
  <2>2. b # NoCluster
    BY NoClusterAssumption
  <2>3. HoldsWork(s)'
    BY <1>2, <1>3, <2>1, <2>2 DEF HoldsWork, HeldUnder
  <2> QED
    BY <1>2, <1>3, <2>3 DEF Doomed
<1>5. ~HoldsWork(s)
  BY <1>1, ActiveHasCluster DEF Active
<1>6. \A t \in Slots : HoldsWork(t) /\ slot[t].cluster = b => workRow[b].lapsed
  BY <1>1, ActiveHasCluster
<1>7. ASSUME NEW t \in Slots, Doomed(t)'
      PROVE  Doomed(t) /\ slot'[t].cluster = slot[t].cluster
  <2>1. t # s /\ slot'[t] = slot[t] /\ slot[t].pc = "claimed"
    BY <1>2, <1>4, <1>7 DEF Doomed
  <2>2. slot[t].cluster \in Clusters
    BY <2>1, ActiveHasCluster DEF Active
  <2>3. CASE slot[t].cluster = b
    BY <1>6, <2>1, <2>3 DEF Doomed
  <2>4. CASE slot[t].cluster # b
    <3>1. workRow'[slot[t].cluster] = workRow[slot[t].cluster]
      BY <1>3, <2>2, <2>4
    <3>2. HoldsWork(t)' <=> HoldsWork(t)
      BY <2>1, <3>1 DEF HoldsWork
    <3> QED
      BY <1>7, <2>1, <3>1, <3>2 DEF Doomed
  <2> QED
    BY <2>1, <2>3, <2>4
<1>8. /\ Cardinality(DoomedSlots)' \in Nat
      /\ Cardinality(DoomedSlots)' <= Cardinality(DoomedSlots)
      /\ \A c \in Clusters : Debt(c)' \in Nat /\ Debt(c)' <= Debt(c)
  BY <1>7, DebtShrinks
<1>9. Cardinality(DoomedSlots)' <= faults'
  <2>1. Cardinality(DoomedSlots) <= faults /\ Cardinality(DoomedSlots) \in Nat
    BY DebtTyped DEF ClaimsBounded
  <2> QED
    BY <1>t, <1>1, <1>8, <2>1
<1>10. ClaimsBoundedOf(b)'
  <2>1. ~Kept(b) /\ ~workRow[b].done
    BY <1>1, <1>6, ActiveHasCluster DEF Kept, Open
  <2>2. workRow[b].attempts + Debt(b) <= 2 + faults
    BY <2>1 DEF ClaimsBounded, ClaimsBoundedOf
  <2>3. workRow'[b].attempts + Debt(b)' <= 3 + faults'
    <3>1. \A n, d, e \in Nat : n + d <= 2 + faults /\ e <= d => (n + 1) + e <= 3 + faults
      BY <1>t
    <3> QED
      BY <1>t, <1>1, <1>3, <1>8, <2>2, <3>1
  <2>4. Kept(b)'
    BY <1>2, <1>3, <1>4 DEF Kept
  <2> QED
    BY <2>3, <2>4 DEF ClaimsBoundedOf
<1>11. ASSUME NEW c \in Clusters, c # b PROVE ClaimsBoundedOf(c)'
  <2>1. workRow'[c] = workRow[c]
    BY <1>3, <1>11
  <2>2. ASSUME Kept(c) PROVE Kept(c)'
    <3>1. PICK t \in Slots : slot[t].cluster = c /\ HoldsWork(t)
      BY <2>2 DEF Kept
    <3>2. slot'[t] = slot[t]
      BY <1>2, <1>5, <3>1
    <3> QED
      BY <2>1, <2>2, <3>1, <3>2 DEF Kept, HoldsWork
  <2>3. ClaimsBoundedOf(c)
    BY DEF ClaimsBounded
  <2> QED
    BY <1>t, <1>1, <1>8, <2>1, <2>2, <2>3, BoundFrame
<1> QED
  BY <1>9, <1>10, <1>11 DEF ClaimsBounded

(* The holder of a work item lets go of it: it settles it, or reschedules it *)
(* while its attempts are not used up.                                       *)
LEMMA BoundRelease ==
  ASSUME DiagnosisInv, ClaimsBounded, NEW s \in Slots, HoldsWork(s), NEW r \in Row,
         workRow' = [workRow EXCEPT ![slot[s].cluster] = r], faults' = faults,
         r.attempts = workRow[slot[s].cluster].attempts, r.done \/ r.attempts <= 2,
         BecomesDone(s) \/ BecomesFailing(s)
  PROVE  ClaimsBounded'
<1>b. PICK b \in Clusters : b = slot[s].cluster
  BY ActiveHasCluster
<1>t. /\ faults \in Nat /\ workRow \in [Clusters -> Row]
      /\ \A c \in Clusters : workRow[c].attempts \in Nat
  BY Unfolded, BoundsAssumption DEF DiagnosisInv, TypeOK
<1>1. /\ workRow'[b] = r /\ \A c \in Clusters \ {b} : workRow'[c] = workRow[c]
      /\ slot'[s].pc # "claimed" /\ \A t \in Slots \ {s} : slot'[t] = slot[t]
  BY <1>b, <1>t DEF BecomesDone, BecomesFailing, Keeping, Becomes
<1>2. ASSUME NEW t \in Slots, Doomed(t)'
      PROVE  Doomed(t) /\ slot'[t].cluster = slot[t].cluster
  <2>1. t # s /\ slot'[t] = slot[t] /\ slot[t].pc = "claimed"
    BY <1>1, <1>2 DEF Doomed
  <2>2. slot[t].cluster \in Clusters
    BY <2>1, ActiveHasCluster DEF Active
  <2>3. CASE slot[t].cluster = b
    BY <1>b, <2>1, <2>3, OneHolder DEF Doomed
  <2>4. CASE slot[t].cluster # b
    <3>1. workRow'[slot[t].cluster] = workRow[slot[t].cluster]
      BY <1>1, <2>2, <2>4
    <3>2. HoldsWork(t)' <=> HoldsWork(t)
      BY <2>1, <3>1 DEF HoldsWork
    <3> QED
      BY <1>2, <2>1, <3>1, <3>2 DEF Doomed
  <2> QED
    BY <2>1, <2>3, <2>4
<1>3. /\ Debt(b)' \in Nat /\ Cardinality(DoomedSlots)' \in Nat
      /\ Debt(b)' <= Cardinality(DoomedSlots)'
      /\ Cardinality(DoomedSlots)' <= Cardinality(DoomedSlots)
      /\ Cardinality(DoomedSlots) \in Nat /\ Cardinality(DoomedSlots) <= faults
  BY <1>t, <1>2, DebtShrinks, DebtTyped DEF ClaimsBounded
<1>4. workRow'[b].done \/ workRow[b].attempts + Debt(b)' <= 2 + faults
  BY <1>b, <1>t, <1>1, <1>3
<1>5. ASSUME NEW c \in Clusters, c # b, Kept(c) PROVE Kept(c)'
  <2>1. PICK t \in Slots : slot[t].cluster = c /\ HoldsWork(t)
    BY <1>5 DEF Kept
  <2>2. slot'[t] = slot[t] /\ workRow'[c] = workRow[c]
    BY <1>b, <1>1, <1>5, <2>1
  <2> QED
    BY <1>5, <2>1, <2>2 DEF Kept, HoldsWork
<1>6. ASSUME NEW c \in Clusters
      PROVE  /\ workRow'[c].attempts = workRow[c].attempts
             /\ \/ workRow'[c].done
                \/ workRow'[c].done = workRow[c].done /\ (Kept(c) => Kept(c)')
                \/ workRow[c].attempts + Debt(c)' <= 2 + faults
  <2>1. CASE c = b
    BY <1>1, <1>4, <2>1
  <2>2. CASE c # b
    BY <1>1, <1>5, <2>2
  <2> QED
    BY <2>1, <2>2
<1> QED
  BY <1>2, <1>6, NoneDoomed

(* The end of a backoff changes nothing that the bound counts. *)
LEMMA BoundBackoff ==
  ASSUME DiagnosisInv, ClaimsBounded, NEW b \in Clusters, WorkBackoffElapses(b)
  PROVE  ClaimsBounded'
<1>t. /\ workRow \in [Clusters -> Row] /\ workRow[b] \in Row
      /\ \A s \in Slots : slot[s].cluster \in Clusters \cup {NoCluster}
  BY Unfolded DEF DiagnosisInv, Memories
<1>1. /\ workRow' = [workRow EXCEPT ![b] = BackoffRunsOut(workRow[b])]
      /\ UNCHANGED <<slot, faults>>
  BY DEF WorkBackoffElapses
<1>2. \A c \in Clusters : /\ workRow'[c].token = workRow[c].token
                          /\ workRow'[c].done = workRow[c].done
                          /\ workRow'[c].attempts = workRow[c].attempts
                          /\ workRow'[c].lapsed = workRow[c].lapsed
  <2>1. workRow'[b] = BackoffRunsOut(workRow[b]) /\ \A c \in Clusters \ {b} : workRow'[c] = workRow[c]
    BY <1>t, <1>1
  <2> QED
    BY <1>t, <2>1, RowFields, RowClock
<1>3. \A s \in Slots : HoldsWork(s)' <=> HoldsWork(s)
  BY <1>t, <1>1, <1>2, SameSlot
<1>4. ASSUME NEW s \in Slots, Doomed(s)' PROVE Doomed(s)
  <2>1. slot[s].cluster \in Clusters
    BY <1>1, <1>4, ActiveHasCluster DEF Doomed, Active
  <2> QED
    BY <1>1, <1>2, <1>3, <1>4, <2>1 DEF Doomed
<1>5. ASSUME NEW c \in Clusters, Kept(c) PROVE Kept(c)'
  BY <1>1, <1>2, <1>3, <1>5 DEF Kept
<1> QED
  BY <1>1, <1>2, <1>4, <1>5, NoneDoomed

(* A lease that runs out dooms its holder at most, and then it is a fault.   *)
LEMMA BoundLapse ==
  ASSUME DiagnosisInv, ClaimsBounded, NEW b \in Clusters, WorkLeaseLapses(b)
  PROVE  ClaimsBounded'
<1>t. /\ workRow \in [Clusters -> Row] /\ workRow[b] \in Row /\ faults \in Nat
      /\ \A s \in Slots : slot[s].cluster \in Clusters \cup {NoCluster}
      /\ \A c \in Clusters : workRow[c].attempts \in Nat /\ Debt(c) \in Nat
  BY Unfolded, DebtTyped, BoundsAssumption DEF DiagnosisInv, TypeOK, Memories
<1>1. /\ workRow' = [workRow EXCEPT ![b] = LeaseRunsOut(workRow[b])]
      /\ UNCHANGED slot
      /\ \/ /\ \A s \in Slots : ~(slot[s].cluster = b /\ HoldsWork(s))
            /\ faults' = faults
         \/ faults' = faults + 1
  BY DEF WorkLeaseLapses
<1>2. /\ \A c \in Clusters : /\ workRow'[c].token = workRow[c].token
                             /\ workRow'[c].done = workRow[c].done
                             /\ workRow'[c].attempts = workRow[c].attempts
      /\ \A c \in Clusters \ {b} : workRow'[c] = workRow[c]
  <2>1. workRow'[b] = LeaseRunsOut(workRow[b]) /\ \A c \in Clusters \ {b} : workRow'[c] = workRow[c]
    BY <1>t, <1>1
  <2> QED
    BY <1>t, <2>1, RowFields
<1>3. \A s \in Slots : HoldsWork(s)' <=> HoldsWork(s)
  BY <1>t, <1>1, <1>2, SameSlot
<1>4. ASSUME NEW s \in Slots, Doomed(s)', ~(slot[s].cluster = b /\ HoldsWork(s)) PROVE Doomed(s)
  <2>1. slot[s].cluster \in Clusters
    BY <1>1, <1>4, ActiveHasCluster DEF Doomed, Active
  <2>2. CASE slot[s].cluster # b
    BY <1>1, <1>2, <1>3, <1>4, <2>1, <2>2 DEF Doomed
  <2>3. CASE ~HoldsWork(s)
    BY <1>1, <1>4, <2>3 DEF Doomed
  <2> QED
    BY <1>4, <2>2, <2>3
<1>5. ASSUME NEW c \in Clusters, c # b, Kept(c) PROVE Kept(c)'
  BY <1>1, <1>2, <1>3, <1>5 DEF Kept
<1>6. CASE \A s \in Slots : ~(slot[s].cluster = b /\ HoldsWork(s))
  <2>1. \A s \in Slots : Doomed(s)' => Doomed(s) /\ slot'[s].cluster = slot[s].cluster
    BY <1>1, <1>4, <1>6
  <2>2. ~Kept(b)
    BY <1>6 DEF Kept
  <2>3. \A c \in Clusters : Kept(c) => Kept(c)'
    BY <1>5, <2>2
  <2>4. faults' \in {faults, faults + 1}
    BY <1>1
  <2> QED
    BY <1>2, <2>1, <2>3, <2>4, NoneDoomed
<1>7. ASSUME NEW u \in Slots, slot[u].cluster = b, HoldsWork(u), faults' = faults + 1
      PROVE  ClaimsBounded'
  <2>1. ASSUME NEW s \in Slots, Doomed(s)', s # u PROVE Doomed(s)
    BY <1>4, <1>7, <2>1, OneHolder
  <2>2. /\ DoomedSlots' \in SUBSET (DoomedSlots \cup {u}) /\ DoomedSlots \in SUBSET Slots
        /\ DoomedSlots \cup {u} \in SUBSET Slots
    BY <2>1 DEF DoomedSlots
  <2>3. ASSUME NEW S \in SUBSET Slots
        PROVE  /\ Cardinality(S \cup {u}) \in Nat /\ Cardinality(S) \in Nat
               /\ Cardinality(S \cup {u}) <= Cardinality(S) + 1
    <3>1. IsFiniteSet(S) /\ Cardinality(S) \in Nat
      BY SlotSets
    <3>2. Cardinality(S \cup {u}) = IF u \in S THEN Cardinality(S) ELSE Cardinality(S) + 1
      BY <3>1, FS_AddElement
    <3> QED
      BY <3>1, <3>2
  <2>4. Cardinality(DoomedSlots)' <= faults'
    <3>1. /\ Cardinality(DoomedSlots') \in Nat
          /\ Cardinality(DoomedSlots') <= Cardinality(DoomedSlots \cup {u})
      BY <2>2, SlotSets
    <3>2. /\ Cardinality(DoomedSlots \cup {u}) \in Nat /\ Cardinality(DoomedSlots) \in Nat
          /\ Cardinality(DoomedSlots \cup {u}) <= Cardinality(DoomedSlots) + 1
      BY <2>2, <2>3
    <3>3. Cardinality(DoomedSlots) <= faults
      BY DEF ClaimsBounded
    <3> QED
      BY <1>t, <1>7, <3>1, <3>2, <3>3
  <2>5. ASSUME NEW c \in Clusters PROVE ClaimsBoundedOf(c)'
    <3>1. /\ ClaimsBoundedOf(c) /\ Debt(c) \in Nat /\ workRow[c].attempts \in Nat
          /\ workRow'[c].attempts = workRow[c].attempts
      BY <1>t, <1>2 DEF ClaimsBounded
    <3>2. /\ Elsewhere(c) \in SUBSET Slots /\ Elsewhere(c)' \in SUBSET Slots
          /\ Elsewhere(c)' \in SUBSET (Elsewhere(c) \cup {u})
          /\ Elsewhere(c) \cup {u} \in SUBSET Slots
          /\ c = b => Elsewhere(c)' \in SUBSET Elsewhere(c)
      BY <1>1, <1>7, <2>1 DEF Elsewhere
    <3>3. CASE c = b
      <4>1. Debt(c)' \in Nat /\ Debt(c)' <= Debt(c)
        BY <3>2, <3>3, SlotSets DEF Debt
      <4> QED
        BY <1>t, <1>7, <3>1, <4>1, BoundFrame
    <3>4. CASE c # b
      <4>1. /\ Cardinality(Elsewhere(c)') \in Nat
            /\ Cardinality(Elsewhere(c)') <= Cardinality(Elsewhere(c) \cup {u})
        BY <3>2, SlotSets
      <4>2. /\ Cardinality(Elsewhere(c) \cup {u}) \in Nat /\ Cardinality(Elsewhere(c)) \in Nat
            /\ Cardinality(Elsewhere(c) \cup {u}) <= Cardinality(Elsewhere(c)) + 1
        BY <2>3, <3>2
      <4>3. Debt(c)' \in Nat /\ Debt(c)' <= Debt(c) + 1
        BY <4>1, <4>2 DEF Debt
      <4> QED
        BY <1>t, <1>2, <1>5, <1>7, <3>1, <3>4, <4>3, BoundFrame
    <3> QED
      BY <3>3, <3>4
  <2> QED
    BY <2>4, <2>5 DEF ClaimsBounded
<1> QED
  BY <1>1, <1>6, <1>7

(* A step adds no more claims, and no more debt, than it adds faults. *)
LEMMA BoundStep ==
  ASSUME DiagnosisInv, InsertedFirst, ClaimsBounded, [Next]_vars
  PROVE  ClaimsBounded'
<1>t. workRow \in [Clusters -> Row] /\ slot \in [Slots -> Memories]
  BY Unfolded DEF DiagnosisInv
<1>1. CASE Reset
  BY <1>1, BoundQuiet, BoundDeath DEF Reset
<1>2. ASSUME NEW s \in Slots,
             CommitRecord(s, TRUE) \/ CommitRecord(s, FALSE) \/ EscalateDiagnosis(s)
               \/ RescheduleDiagnosis(s)
      PROVE  ClaimsBounded'
  <2>1. HoldsWork(s) /\ faults' = faults
    BY <1>2, ActiveHasCluster DEF CommitRecord, EscalateDiagnosis, RescheduleDiagnosis,
                                  InTransaction
  <2>2. BecomesDone(s) \/ BecomesFailing(s)
    BY <1>t, <1>2, Moves
  <2>b. PICK b \in Clusters : b = slot[s].cluster
    BY <2>1, ActiveHasCluster
  <2>r. workRow[b] \in Row
    BY <1>t
  <2>3. CASE CommitRecord(s, TRUE) \/ CommitRecord(s, FALSE) \/ EscalateDiagnosis(s)
    <3>1. workRow' = [workRow EXCEPT ![slot[s].cluster] = Completed(workRow[b])]
      BY <2>b, <2>3 DEF CommitRecord, EscalateDiagnosis
    <3>2. /\ Completed(workRow[b]) \in Row /\ Completed(workRow[b]).done
          /\ Completed(workRow[b]).attempts = workRow[slot[s].cluster].attempts
      BY <2>b, <2>r, RowOperatorsTyped, RowFields
    <3> QED
      BY <2>1, <2>2, <3>1, <3>2, BoundRelease
  <2>4. CASE RescheduleDiagnosis(s)
    <3>1. /\ workRow' = [workRow EXCEPT ![slot[s].cluster] = Rescheduled(workRow[b])]
          /\ slot[s].token < 3
      BY <2>b, <2>4 DEF RescheduleDiagnosis
    <3>2. workRow[b].attempts = slot[s].token /\ workRow[b].attempts \in Nat
      BY <2>1, <2>b, <2>r, ActiveHasCluster DEF DiagnosisInv, LeasesFresh, Row
    <3>3. /\ Rescheduled(workRow[b]) \in Row
          /\ Rescheduled(workRow[b]).attempts = workRow[b].attempts
          /\ Rescheduled(workRow[b]).attempts = workRow[slot[s].cluster].attempts
      BY <2>b, <2>r, RowOperatorsTyped, RowFields
    <3>4. Rescheduled(workRow[b]).attempts <= 2
      BY <3>1, <3>2, <3>3
    <3> QED
      BY <2>1, <2>2, <3>1, <3>3, <3>4, BoundRelease
  <2> QED
    BY <1>2, <2>3, <2>4
<1> QED
  BY <1>1, <1>2, StepKinds, BoundQuiet, BoundSave, BoundClaim, BoundLapse, BoundBackoff

(* A work item is claimed three times at most, and once more for each fault. *)
THEOREM ClaimsBoundedHolds == Spec => []ClaimsBounded
<1>1. Init => ClaimsBounded
  <2> SUFFICES ASSUME Init PROVE ClaimsBounded
    OBVIOUS
  <2>1. /\ slot = [s \in Slots |-> Ready] /\ faults = 0
        /\ workRow = [c \in Clusters |-> Absent]
    BY DEF Init
  <2>2. DoomedSlots = {} /\ \A c \in Clusters : Elsewhere(c) = {}
    BY <2>1, RestTyped DEF DoomedSlots, Elsewhere, Doomed
  <2>3. Cardinality({}) = 0
    BY FS_EmptySet
  <2>4. \A c \in Clusters : workRow[c].attempts = 0
    BY <2>1 DEF Absent
  <2>5. Cardinality(DoomedSlots) = 0 /\ \A c \in Clusters : Debt(c) = 0
    BY <2>2, <2>3 DEF Debt
  <2> QED
    BY <2>1, <2>4, <2>5 DEF ClaimsBounded, ClaimsBoundedOf
<1> QED
  BY <1>1, BoundStep, InvariantHolds, InsertedFirstHolds, PTL DEF Spec

(* The work items are a lease queue whose workers are the slots, for any     *)
(* number of clusters, processes and slots.                                  *)
THEOREM WorkIsLeaseQueue == Spec => ImplementsLeaseQueue
<1> DEFINE leases == [s \in Slots |-> [c \in Clusters |->
                        IF slot[s].cluster = c THEN slot[s].token ELSE NoToken]]
           results == [c \in Clusters |->
                         IF clusterState[c] \in {"DIAGNOSED", "NEEDS_REVIEW"}
                         THEN clusterState[c] ELSE "none"]
<1> USE DEF NoToken, WorkQueue!NoToken
<1>1. Init => WorkQueue!Init
  BY RestTyped DEF Init, WorkQueue!Init, WorkQueue!Free, WorkQueue!NoOutcome, WorkQueue!Absent, Absent
<1>2. DiagnosisInv /\ DiagnosisInv' /\ ClaimsBounded' /\ [Next]_vars
        => [WorkQueue!Next]_WorkQueue!vars
  <2> SUFFICES ASSUME DiagnosisInv, ClaimsBounded', DiagnosisInv', [Next]_vars
      PROVE  WorkQueue!Next \/ UNCHANGED <<workRow, leases, results>>
    BY DEF WorkQueue!vars
  <2>t. /\ TypeOK /\ workRow \in [Clusters -> Row] /\ slot \in [Slots -> Memories]
        /\ clusterState \in [Clusters -> {"absent", "PENDING", "DIAGNOSED", "NEEDS_REVIEW"}]
        /\ \A s \in Slots : slot[s].token \in Nat
    BY Unfolded DEF DiagnosisInv, TypeOK
  <2>f. faults' \in Nat /\ faults' <= MaxFaults /\ MaxFaults \in Nat
    BY BoundsAssumption DEF DiagnosisInv, TypeOK
  <2>n. \A c \in Clusters : c # NoCluster
    BY NoClusterAssumption
  <2>k. ASSUME \A s \in Slots : /\ slot'[s].cluster = slot[s].cluster
                                /\ slot'[s].token = slot[s].token
        PROVE  UNCHANGED leases
    BY <2>k
  <2>g. ASSUME NEW s \in Slots, BecomesDone(s)
        PROVE  leases' = [leases EXCEPT ![s] = WorkQueue!Free]
    <3>1. slot'[s].token = NoToken /\ \A t \in Slots \ {s} : slot'[t] = slot[t]
      BY <2>g DEF BecomesDone, Becomes
    <3> QED
      BY <3>1 DEF WorkQueue!Free
  <2>j. ASSUME NEW s \in Slots, BecomesFailing(s) PROVE UNCHANGED leases
    <3>1. /\ slot'[s].cluster = slot[s].cluster /\ slot'[s].token = slot[s].token
          /\ \A t \in Slots \ {s} : slot'[t] = slot[t]
      BY <2>j DEF BecomesFailing, Keeping, Becomes
    <3> QED
      BY <2>k, <3>1
  <2>1. CASE UNCHANGED vars \/ ClusterSide
    <3>1. UNCHANGED <<workRow, slot, clusterState>>
      BY <2>t, <2>1, ClusterSideFrame DEF vars, tables
    <3> QED
      BY <3>1
  <2>2. CASE Reset
    <3>w. PICK ws \in SUBSET Slots : ws = {t \in Slots : slot'[t] # slot[t]}
      OBVIOUS
    <3>1. /\ UNCHANGED <<workRow, clusterState>>
          /\ \A t \in Slots : slot'[t] = slot[t] \/ slot'[t] = Ready
      BY <2>t, <2>2, ResetFrame DEF tables
    <3>2. \A t \in Slots : /\ t \in ws => slot'[t].token = NoToken
                           /\ t \notin ws => slot'[t] = slot[t]
      BY <3>w, <3>1, RestTyped
    <3>3. leases' = [w \in Slots |-> IF w \in ws THEN WorkQueue!Free ELSE leases[w]]
      BY <3>2 DEF WorkQueue!Free
    <3>4. WorkQueue!Crash(ws)
      BY <3>1, <3>3 DEF WorkQueue!Crash
    <3> QED
      BY <3>4 DEF WorkQueue!Next
  <2>3. ASSUME NEW p \in Procs, NEW found \in SUBSET Clusters, SaveClusters(p, found)
        PROVE  WorkQueue!Next
    <3>1. /\ UNCHANGED slot /\ ~clusterRow.done
          /\ workRow' = [c \in Clusters |-> IF c \in found THEN Inserted(workRow[c])
                                            ELSE workRow[c]]
          /\ clusterState' = [c \in Clusters |-> IF c \in found THEN "PENDING"
                                                 ELSE clusterState[c]]
      BY <2>3 DEF SaveClusters, EndClusterTurn, HoldsClusterJob, HeldUnder
    <3>2. \A c \in Clusters : clusterState[c] = "absent"
      BY <3>1 DEF DiagnosisInv, OneClustering, WorkMatchesClusters, Absent
    <3>3. UNCHANGED <<leases, results>>
      BY <3>1, <3>2
    <3>4. WorkQueue!Enqueue(found)
      BY <3>1, <3>3 DEF WorkQueue!Enqueue, WorkQueue!Inserted, Inserted
    <3> QED
      BY <3>4 DEF WorkQueue!Next
  <2>4. ASSUME NEW s \in Slots, NEW c \in Clusters, ClaimWork(s, c) PROVE WorkQueue!Next
    <3>1. /\ workRow' = [workRow EXCEPT ![c] = Claimed(workRow[c])] /\ Claimable(workRow[c])
          /\ clusterState' = clusterState /\ slot[s].pc = "ready"
      BY <2>4 DEF ClaimWork, Offered, Asks
    <3>2. /\ slot'[s].cluster = c /\ slot'[s].token = workRow'[c].token
          /\ \A t \in Slots \ {s} : slot'[t] = slot[t]
      BY <2>t, <2>4, Moves DEF Becomes
    <3>3. slot[s].token = NoToken
      BY <3>1 DEF DiagnosisInv, Memory, Active
    <3>4. leases' = [leases EXCEPT ![s][c] = workRow'[c].token]
      BY <3>2, <3>3
    <3>5. workRow[c].attempts < 3 + MaxFaults
      <4>1. workRow'[c] = Claimed(workRow[c]) /\ workRow[c] \in Row
        BY <2>t, <3>1
      <4>2. workRow'[c].attempts = workRow[c].attempts + 1 /\ workRow[c].attempts \in Nat
        BY <4>1, RowFields DEF Row
      <4>3. workRow'[c].attempts + Debt(c)' <= 3 + faults'
        BY DEF ClaimsBounded, ClaimsBoundedOf
      <4>4. Debt(c)' \in Nat
        <5>1. Elsewhere(c)' \in SUBSET Slots
          BY DEF Elsewhere
        <5> QED
          BY <5>1, SlotSets DEF Debt
      <4> QED
        BY <2>f, <4>2, <4>3, <4>4
    <3>6. WorkQueue!Idle(s)
      BY <3>3 DEF WorkQueue!Idle, WorkQueue!Free
    <3>7. WorkQueue!Claim(s, c)
      BY <3>1, <3>4, <3>5, <3>6
         DEF WorkQueue!Claim, WorkQueue!Claimable, Claimable, WorkQueue!Open, Open,
             WorkQueue!Claimed, Claimed
    <3> QED
      BY <3>7 DEF WorkQueue!Next, WorkQueue!WorkerStep
  <2>5. ASSUME NEW s \in Slots,
               \/ LoadCluster(s) \/ DiagnoseFails(s) \/ CountPending(s) \/ AbortRecord(s)
               \/ \E a \in Actions : BeginRecord(s, a)
        PROVE  UNCHANGED <<workRow, leases, results>>
    <3>1. UNCHANGED <<workRow, clusterState>>
      BY <2>5 DEF LoadCluster, DiagnoseFails, CountPending, AbortRecord, BeginRecord, tables
    <3>2. /\ slot'[s].cluster = slot[s].cluster /\ slot'[s].token = slot[s].token
          /\ \A t \in Slots \ {s} : slot'[t] = slot[t]
      BY <2>t, <2>5, Moves DEF Keeping, BecomesFailing, Becomes
    <3> QED
      BY <2>k, <3>1, <3>2
  <2>6. ASSUME NEW s \in Slots, FindNoWork(s) PROVE UNCHANGED <<workRow, leases, results>>
    <3>1. UNCHANGED <<workRow, clusterState>> /\ slot[s].pc = "ready" /\ BecomesDone(s)
      BY <2>t, <2>6, Moves DEF FindNoWork, Asks, tables
    <3>2. slot[s].token = NoToken
      BY <3>1 DEF DiagnosisInv, Memory, Active
    <3>3. slot'[s].token = NoToken /\ \A t \in Slots \ {s} : slot'[t] = slot[t]
      BY <3>1 DEF BecomesDone, Becomes
    <3>4. UNCHANGED leases
      BY <3>2, <3>3
    <3> QED
      BY <3>1, <3>4
  <2>7. ASSUME NEW s \in Slots,
               CommitRecord(s, TRUE) \/ CommitRecord(s, FALSE) \/ EscalateDiagnosis(s)
        PROVE  WorkQueue!Next
    <3>1. HoldsWork(s)
      BY <2>7, ActiveHasCluster DEF CommitRecord, EscalateDiagnosis, InTransaction
    <3>b. PICK c \in Clusters : c = slot[s].cluster
      BY <3>1, ActiveHasCluster
    <3>2. /\ HeldUnder(workRow[c], slot[s].token) /\ clusterState[c] = "PENDING"
          /\ workRow' = [workRow EXCEPT ![c] = Completed(workRow[c])]
      BY <2>7, <3>1, <3>b, ActiveHasCluster DEF HoldsWork, CommitRecord, EscalateDiagnosis
    <3>3. leases' = [leases EXCEPT ![s] = WorkQueue!Free] \/ UNCHANGED leases
      BY <2>t, <2>7, <2>g, <2>j, Moves
    <3>4. PICK o \in {"DIAGNOSED", "NEEDS_REVIEW"} : clusterState' = [clusterState EXCEPT ![c] = o]
      BY <2>7, <3>b, <3>2 DEF CommitRecord, EscalateDiagnosis, Diagnosed
    <3>5. results' = [results EXCEPT ![c] = o]
      BY <2>t, <3>4
    <3>6. WorkQueue!Settle(s, c, o)
      BY <3>b, <3>2, <3>3, <3>5
         DEF WorkQueue!Settle, WorkQueue!Forget, WorkQueue!HeldUnder, HeldUnder,
             WorkQueue!Completed, Completed
    <3> QED
      BY <3>6 DEF WorkQueue!Next, WorkQueue!WorkerStep
  <2>8. ASSUME NEW s \in Slots, RescheduleDiagnosis(s) PROVE WorkQueue!Next
    <3>1. HoldsWork(s) /\ BecomesDone(s) /\ clusterState' = clusterState
      BY <2>t, <2>8, Moves DEF RescheduleDiagnosis
    <3>b. PICK c \in Clusters : c = slot[s].cluster
      BY <3>1, ActiveHasCluster
    <3>2. /\ HeldUnder(workRow[c], slot[s].token)
          /\ workRow' = [workRow EXCEPT ![c] = Rescheduled(workRow[c])]
      BY <2>8, <3>1, <3>b DEF HoldsWork, RescheduleDiagnosis
    <3>3. WorkQueue!Reschedule(s, c)
      BY <2>g, <3>1, <3>b, <3>2
         DEF WorkQueue!Reschedule, WorkQueue!Forget, WorkQueue!HeldUnder, HeldUnder,
             WorkQueue!Rescheduled, Rescheduled
    <3> QED
      BY <3>3 DEF WorkQueue!Next, WorkQueue!WorkerStep
  <2>9. ASSUME NEW s \in Slots, LoseDiagnosis(s) PROVE WorkQueue!Next
    <3>1. /\ ~HoldsWork(s) /\ BecomesDone(s) /\ UNCHANGED <<workRow, clusterState>>
          /\ Active(s)
      BY <2>t, <2>9, Moves, ActiveHasCluster DEF LoseDiagnosis, tables
    <3>2. slot[s].cluster \in Clusters /\ slot[s].token # NoToken
      BY <3>1 DEF DiagnosisInv, LeasesFresh
    <3>b. PICK c \in Clusters : c = slot[s].cluster
      BY <3>2
    <3>3. ~HeldUnder(workRow[c], slot[s].token)
      BY <2>n, <3>1, <3>b DEF HoldsWork
    <3>4. WorkQueue!LoseLease(s, c)
      BY <2>g, <3>1, <3>2, <3>b, <3>3
         DEF WorkQueue!LoseLease, WorkQueue!Forget, WorkQueue!HeldUnder, HeldUnder
    <3> QED
      BY <3>4 DEF WorkQueue!Next, WorkQueue!WorkerStep
  <2>10. ASSUME NEW c \in Clusters, WorkLeaseLapses(c) PROVE WorkQueue!Next
    <3>1. WorkQueue!LeaseLapses(c)
      BY <2>10 DEF WorkLeaseLapses, WorkQueue!LeaseLapses, WorkQueue!Open, Open,
                   WorkQueue!LeaseRunsOut, LeaseRunsOut
    <3> QED
      BY <3>1 DEF WorkQueue!Next
  <2>11. ASSUME NEW c \in Clusters, WorkBackoffElapses(c) PROVE WorkQueue!Next
    <3>1. WorkQueue!BackoffElapses(c)
      BY <2>11 DEF WorkBackoffElapses, WorkQueue!BackoffElapses, WorkQueue!Open, Open,
                   WorkQueue!BackoffRunsOut, BackoffRunsOut
    <3> QED
      BY <3>1 DEF WorkQueue!Next
  <2> QED
    BY <2>1, <2>2, <2>3, <2>4, <2>5, <2>6, <2>7, <2>8, <2>9, <2>10, <2>11, StepKinds
<1> QED
  BY <1>1, <1>2, InvariantHolds, ClaimsBoundedHolds, PTL DEF Spec, ImplementsLeaseQueue

-----------------------------------------------------------------------------
(* What is proved of every lease queue, said of this stage's rows.           *)
Leases == INSTANCE LeaseQueueProofs WITH
  Items <- Clusters, Workers <- Slots, MaxClaims <- 3 + MaxFaults,
  Outcomes <- {"DIAGNOSED", "NEEDS_REVIEW"},
  row <- workRow,
  lease <- [s \in Slots |-> [c \in Clusters |->
              IF slot[s].cluster = c THEN slot[s].token ELSE NoToken]],
  outcome <- [c \in Clusters |->
                IF clusterState[c] \in {"DIAGNOSED", "NEEDS_REVIEW"}
                THEN clusterState[c] ELSE "none"]

(* WorkQueue and Leases are the same definitions. *)
LEMMA SameQueue == /\ WorkQueue!Init => Leases!Init
                   /\ [WorkQueue!Next]_(WorkQueue!vars) => [Leases!Next]_(Leases!vars)
  BY DEF WorkQueue!NoToken, Leases!NoToken, WorkQueue!Absent, Leases!Absent,
         WorkQueue!Inserted, Leases!Inserted, WorkQueue!Open, Leases!Open,
         WorkQueue!Claimable, Leases!Claimable, WorkQueue!Claimed, Leases!Claimed,
         WorkQueue!HeldUnder, Leases!HeldUnder, WorkQueue!Completed,
         Leases!Completed, WorkQueue!Rescheduled, Leases!Rescheduled,
         WorkQueue!LeaseRunsOut, Leases!LeaseRunsOut, WorkQueue!BackoffRunsOut,
         Leases!BackoffRunsOut, WorkQueue!NoOutcome, Leases!NoOutcome,
         WorkQueue!Free, Leases!Free, WorkQueue!Idle, Leases!Idle, WorkQueue!Forget,
         Leases!Forget, WorkQueue!Enqueue, Leases!Enqueue, WorkQueue!Claim,
         Leases!Claim, WorkQueue!Settle, Leases!Settle, WorkQueue!Reschedule,
         Leases!Reschedule, WorkQueue!LoseLease, Leases!LoseLease, WorkQueue!Crash,
         Leases!Crash, WorkQueue!LeaseLapses, Leases!LeaseLapses,
         WorkQueue!BackoffElapses, Leases!BackoffElapses, WorkQueue!WorkerStep,
         Leases!WorkerStep, WorkQueue!vars, Leases!vars, WorkQueue!Init,
         Leases!Init, WorkQueue!Next, Leases!Next

(* Each cluster is diagnosed or handed to review once, for any number of     *)
(* processes and slots: at most one slot could commit an outcome for it, and *)
(* the one that is committed is that of the latest claim, never of a slot    *)
(* that was overtaken (completeLease).                                       *)
THEOREM DiagnosedOnce ==
  Spec => Leases!ImplementsWorkOnce /\ []Leases!SoleHolder /\ Leases!LatestClaimSettles
<1>1. Leases!MaxClaimsAssumption /\ Leases!OutcomesAssumption
  BY BoundsAssumption
     DEF Leases!MaxClaimsAssumption, Leases!OutcomesAssumption, Leases!NoOutcome
<1>2. Leases!Spec => /\ Leases!ImplementsWorkOnce
                     /\ []Leases!SoleHolder /\ Leases!LatestClaimSettles
  BY <1>1, Leases!Refinement, Leases!SoleHolderHolds, Leases!LatestClaimSettlesHolds, PTL
<1> QED
  BY <1>2, SameQueue, WorkIsLeaseQueue, PTL DEF ImplementsLeaseQueue, Leases!Spec
=============================================================================
