-------------------------------- MODULE Intake --------------------------------
(* From GitHub's webhook to the sealed evidence: the POST /webhooks/github   *)
(* handler (app.ts) with persistence/incident-store.ts, and the ingestion    *)
(* worker (workers/ingestion-worker.ts) with persistence/ingestion-queue.ts  *)
(* and persistence/artifact-store.ts.  A delivery may be sent again while an *)
(* earlier one is being handled; a failed run may be re-run while its        *)
(* evidence is collected, or between two attempts to collect it.             *)
EXTENDS OutboxRow, FiniteSets

CONSTANTS
  Runs,          \* failed workflow run attempts of allowlisted repositories
  DeliveryNames, \* X-GitHub-Delivery ids, per run attempt
  Handlers,      \* requests the API serves at the same time
  Workers,       \* ingestion server processes
  Logs,          \* logs of failed jobs
  MaxFaults      \* bound of the model: failed attempts, crashes and overrun leases

ASSUME MaxFaultsIsNat == MaxFaults \in Nat

Deliveries == Runs \X DeliveryNames
RunOf(d) == d[1]

(* What collect brings: the list of failed jobs and their logs.  (The diff   *)
(* is one more artifact that is the same at every collect.)                  *)
Artifacts == [kind: {"workflow_jobs"}, of: SUBSET Logs] \cup [kind: {"job_log"}, of: Logs]
Evidence(failed) == {[kind |-> "workflow_jobs", of |-> failed]}
                      \cup [kind: {"job_log"}, of: failed]
NotSealed == {}

VARIABLES
  received,   \* webhook_deliveries, committed
  incident,   \* incidents.state, "absent" before the INSERT commits
  detected,   \* workflow.failure.detected events, per run
  row,        \* outbox row of topic incident.ingest.requested, per run
  artifacts,  \* the artifacts table, per run
  sealed,     \* the artifacts named by the evidence.ingested event
  handler,    \* per request: where recordFailedWorkflow is
  answered,   \* deliveries that were answered 202
  worker,     \* per process: where runOnce is
  failing,    \* GitHub: the logs that jobs?filter=latest leads to
  faults      \* how much of MaxFaults is spent

tables == <<received, incident, detected, row, artifacts, sealed>>
vars == <<tables, handler, answered, worker, failing, faults>>

NoRun == "none"
ASSUME RunsAssumption == NoRun \notin Runs
Free == [pc |-> "free", delivery |-> <<NoRun, NoRun>>, created |-> FALSE]
Idle == [pc |-> "idle", run |-> NoRun, token |-> NoToken, unsaved |-> {}, saved |-> {}]

Init == /\ received = {}
        /\ incident = [r \in Runs |-> "absent"]
        /\ detected = [r \in Runs |-> 0]
        /\ row = [r \in Runs |-> Absent]
        /\ artifacts = [r \in Runs |-> {}]
        /\ sealed = [r \in Runs |-> NotSealed]
        /\ handler = [h \in Handlers |-> Free]
        /\ answered = {}
        /\ worker = [w \in Workers |-> Idle]
        /\ failing = [r \in Runs |-> Logs]
        /\ faults = 0

-----------------------------------------------------------------------------
(* The webhook: one transaction per request, whose INSERTs wait for an open  *)
(* transaction that inserted the same key.                                   *)

Receive(h, d) ==
  /\ handler[h].pc = "free"
  /\ handler' = [handler EXCEPT ![h] = [Free EXCEPT !.pc = "deliver", !.delivery = d]]
  /\ UNCHANGED <<tables, answered, worker, failing, faults>>

DeliveryKeyFree(h) ==
  \A g \in Handlers \ {h} : handler[g].pc \in {"create", "commit"}
                              => handler[g].delivery # handler[h].delivery

(* mutant: no wait, as in a SELECT before the INSERT *)
RunKeyNotLocked(h) == TRUE
RunKeyFree(h) ==
  \A g \in Handlers \ {h} : handler[g].pc = "commit" /\ handler[g].created
                              => RunOf(handler[g].delivery) # RunOf(handler[h].delivery)

(* insertWebhookDelivery *)
AcceptDelivery(h) ==
  /\ handler[h].pc = "deliver" /\ DeliveryKeyFree(h)
  /\ handler[h].delivery \notin received
  /\ handler' = [handler EXCEPT ![h].pc = "create"]
  /\ UNCHANGED <<tables, answered, worker, failing, faults>>

RepeatedDelivery(h) ==
  /\ handler[h].pc = "deliver" /\ DeliveryKeyFree(h)
  /\ handler[h].delivery \in received
  /\ handler' = [handler EXCEPT ![h] = Free]
  /\ answered' = answered \cup {handler[h].delivery}
  /\ UNCHANGED <<tables, worker, failing, faults>>

(* createOrGetIncident *)
CreateIncident(h) ==
  /\ handler[h].pc = "create" /\ RunKeyFree(h)
  /\ handler' = [handler EXCEPT ![h].pc = "commit",
                                ![h].created = incident[RunOf(handler[h].delivery)] = "absent"]
  /\ UNCHANGED <<tables, answered, worker, failing, faults>>

RecordedNever(seen, d) == seen                       \* mutant: delivery not stored
Recorded(seen, d) == seen \cup {d}

(* COMMIT; when the reply to it is lost the answer is 503. *)
CommitWorkflow(h, acknowledged) ==
  LET d == handler[h].delivery
      r == RunOf(d)
  IN /\ handler[h].pc = "commit"
     /\ received' = Recorded(received, d)
     /\ IF handler[h].created
        THEN /\ incident' = [incident EXCEPT ![r] = "RECEIVED"]
             /\ detected' = [detected EXCEPT ![r] = @ + 1]
             /\ row' = [row EXCEPT ![r] = Inserted(@)]
        ELSE UNCHANGED <<incident, detected, row>>
     /\ handler' = [handler EXCEPT ![h] = Free]
     /\ answered' = IF acknowledged THEN answered \cup {d} ELSE answered
     /\ UNCHANGED <<artifacts, sealed, worker, failing, faults>>

(* A lock or statement timeout, or the death of the API: ROLLBACK. *)
AbortWorkflow(h) ==
  /\ handler[h].pc # "free"
  /\ handler' = [handler EXCEPT ![h] = Free]
  /\ UNCHANGED <<tables, answered, worker, failing, faults>>

-----------------------------------------------------------------------------
(* The ingestion worker *)

HoldsAnyway(w) == worker[w].run # NoRun              \* mutant: token not compared
Holds(w) == worker[w].run # NoRun /\ HeldUnder(row[worker[w].run], worker[w].token)

Claim(w, r) ==
  /\ worker[w].pc = "idle" /\ Claimable(row[r])
  /\ row' = [row EXCEPT ![r] = Claimed(@)]
  /\ worker' = [worker EXCEPT ![w] = [Idle EXCEPT !.pc = "collect", !.run = r,
                                                  !.token = row'[r].token]]
  /\ UNCHANGED <<received, incident, detected, artifacts, sealed, handler, answered, failing, faults>>

(* The job list is read once; a job's log stays readable by the job's id. *)
Collect(w) ==
  /\ worker[w].pc = "collect"
  /\ worker' = [worker EXCEPT ![w].pc = "save", ![w].unsaved = Evidence(failing[worker[w].run])]
  /\ UNCHANGED <<tables, handler, answered, failing, faults>>

(* INSERT INTO artifacts ... ON CONFLICT (incident_id, kind, sha256)         *)
StoredByKind(stored, a) ==                           \* mutant: sha256 not in the key
  IF \E b \in stored : b.kind = a.kind THEN stored ELSE stored \cup {a}
Stored(stored, a) == stored \cup {a}

(* put, in a statement of its own outside of any transaction *)
Save(w, a) ==
  /\ worker[w].pc = "save" /\ a \in worker[w].unsaved
  /\ artifacts' = [artifacts EXCEPT ![worker[w].run] = Stored(@, a)]
  /\ worker' = [worker EXCEPT ![w].unsaved = @ \ {a}, ![w].saved = @ \cup {a}]
  /\ UNCHANGED <<received, incident, detected, row, sealed, handler, answered, failing, faults>>

(* GitHub or the database fails, or refuses an artifact that is too large.   *)
(* Nothing limits the retries: a fault each, for the sake of the model.      *)
IngestFails(w) ==
  /\ worker[w].pc \in {"collect", "save"} /\ faults < MaxFaults
  /\ faults' = faults + 1
  /\ worker' = [worker EXCEPT ![w].pc = "failing"]
  /\ UNCHANGED <<tables, handler, answered, failing>>

(* complete, which also requests the clustering *)
ReadyEarly(w) == worker[w].saved # {}                \* mutant: put not awaited
ReadyToComplete(w) == worker[w].unsaved = {}

Complete(w, acknowledged) ==
  LET r == worker[w].run IN
  /\ worker[w].pc = "save" /\ ReadyToComplete(w) /\ Holds(w)
  /\ row' = [row EXCEPT ![r] = Completed(@)]
  /\ incident' = [incident EXCEPT ![r] = IF @ = "RECEIVED" THEN "CLUSTERING_FAILURES" ELSE @]
  /\ sealed' = [sealed EXCEPT ![r] = worker[w].saved]
  /\ worker' = [worker EXCEPT ![w] = IF acknowledged THEN Idle ELSE [@ EXCEPT !.pc = "failing"]]
  /\ UNCHANGED <<received, detected, artifacts, handler, answered, failing, faults>>

(* complete throws: the lease is another worker's by now. *)
CompleteLate(w) ==
  /\ worker[w].pc = "save" /\ ReadyToComplete(w) /\ ~Holds(w)
  /\ worker' = [worker EXCEPT ![w].pc = "failing"]
  /\ UNCHANGED <<tables, handler, answered, failing, faults>>

Reschedule(w) ==
  /\ worker[w].pc = "failing" /\ Holds(w)
  /\ row' = [row EXCEPT ![worker[w].run] = Rescheduled(@)]
  /\ worker' = [worker EXCEPT ![w] = Idle]
  /\ UNCHANGED <<received, incident, detected, artifacts, sealed, handler, answered, failing,
                 faults>>

LoseLease(w) == /\ worker[w].pc = "failing" /\ ~Holds(w)
                /\ worker' = [worker EXCEPT ![w] = Idle]
                /\ UNCHANGED <<tables, handler, answered, failing, faults>>

Crash(w) == /\ worker[w].pc # "idle" /\ faults < MaxFaults
            /\ faults' = faults + 1
            /\ worker' = [worker EXCEPT ![w] = Idle]
            /\ UNCHANGED <<tables, handler, answered, failing>>

(* Two minutes pass; overrunning the lease is the holder's fault. *)
LeaseLapses(r) ==
  /\ Open(row[r]) /\ row[r].token # NoToken /\ ~row[r].lapsed
  /\ \/ /\ \A w \in Workers : ~(worker[w].run = r /\ Holds(w))
        /\ UNCHANGED faults
     \/ faults < MaxFaults /\ faults' = faults + 1
  /\ row' = [row EXCEPT ![r] = LeaseRunsOut(@)]
  /\ UNCHANGED <<received, incident, detected, artifacts, sealed, handler, answered,
                 worker, failing>>

BackoffElapses(r) ==
  /\ Open(row[r]) /\ ~row[r].due
  /\ row' = [row EXCEPT ![r] = BackoffRunsOut(@)]
  /\ UNCHANGED <<received, incident, detected, artifacts, sealed, handler, answered,
                 worker, failing, faults>>

(* Somebody re-runs the workflow: other jobs are the latest now. *)
ReRun(r, logs) == /\ failing' = [failing EXCEPT ![r] = logs]
                  /\ UNCHANGED <<tables, handler, answered, worker, faults>>

HandlerStep(h) == \/ \E d \in Deliveries : Receive(h, d)
                  \/ AcceptDelivery(h) \/ RepeatedDelivery(h)
                  \/ CreateIncident(h)
                  \/ \E acknowledged \in BOOLEAN : CommitWorkflow(h, acknowledged)
                  \/ AbortWorkflow(h)

WorkerStep(w) == \/ \E r \in Runs : Claim(w, r)
                 \/ Collect(w)
                 \/ \E a \in Artifacts : Save(w, a)
                 \/ IngestFails(w)
                 \/ \E acknowledged \in BOOLEAN : Complete(w, acknowledged)
                 \/ CompleteLate(w)
                 \/ Reschedule(w) \/ LoseLease(w)

Next == \/ \E h \in Handlers : HandlerStep(h)
        \/ \E w \in Workers : WorkerStep(w) \/ Crash(w)
        \/ \E r \in Runs : \/ LeaseLapses(r) \/ BackoffElapses(r)
                           \/ \E logs \in SUBSET Logs : ReRun(r, logs)

Spec == Init /\ [][Next]_vars

(* The loop of ingest-server.ts goes on, each request has its timeout, and   *)
(* time passes.  Nothing obliges GitHub to send or to re-run anything.       *)
Fairness == /\ \A w \in Workers : WF_vars(WorkerStep(w))
            /\ \A r \in Runs : WF_vars(LeaseLapses(r)) /\ WF_vars(BackoffElapses(r))

FairSpec == Spec /\ Fairness

-----------------------------------------------------------------------------
(* The types of the tables, of the requests and of the workers' memories. *)
TypeOK ==
  /\ received \subseteq Deliveries /\ answered \subseteq Deliveries
  /\ incident \in [Runs -> {"absent", "RECEIVED", "CLUSTERING_FAILURES"}]
  /\ detected \in [Runs -> Nat]
  /\ row \in [Runs -> Row]
  /\ artifacts \in [Runs -> SUBSET Artifacts] /\ sealed \in [Runs -> SUBSET Artifacts]
  /\ \A h \in Handlers : handler[h].pc = "free" \/ handler[h].delivery \in Deliveries
  /\ \A w \in Workers : worker[w].pc = "idle" \/ worker[w].run \in Runs
  /\ failing \in [Runs -> SUBSET Logs]
  /\ faults \in 0 .. MaxFaults

(* However many deliveries of one run attempt are handled at once or again,  *)
(* one incident, one detection event and one ingestion come of them.         *)
OneIncidentPerRun ==
  \A r \in Runs : /\ incident[r] # "absent" <=> detected[r] = 1
                  /\ incident[r] # "absent" <=> row[r].present

(* A delivery that was answered 202 is on record and its run has an incident *)
(* whose ingestion is requested: also when the answer is "duplicate" while   *)
(* the first request of that delivery was still open.                        *)
AcceptedIsDurable ==
  \A d \in answered : d \in received /\ row[RunOf(d)].present

(* The evidence.ingested event names the outcome of one collect, no mixture  *)
(* of what several attempts or workers saw, and every artifact it names is   *)
(* stored although puts and event are not one transaction.                   *)
SealIsOneCollect ==
  \A r \in Runs : sealed[r] # NotSealed =>
    /\ \E failed \in SUBSET Logs : sealed[r] = Evidence(failed)
    /\ sealed[r] \subseteq artifacts[r]

(* The event is written once: no late worker seals other evidence.  It is    *)
(* there exactly when the row is done and the incident goes on to clustering. *)
SealIsFinal ==
  [][\A r \in Runs :
       /\ sealed[r] # NotSealed => sealed'[r] = sealed[r]
       /\ (sealed'[r] # NotSealed <=> row'[r].done)
       /\ (row'[r].done <=> incident'[r] = "CLUSTERING_FAILURES")]_vars

(* The ingestion rows are a LeaseQueue. *)
IngestQueue == INSTANCE LeaseQueue WITH
  Items <- Runs, MaxClaims <- 1 + MaxFaults, Outcomes <- {"evidence.ingested"},
  lease <- [w \in Workers |-> [r \in Runs |->
              IF worker[w].run = r THEN worker[w].token ELSE NoToken]],
  outcome <- [r \in Runs |-> IF sealed[r] = NotSealed THEN "none" ELSE "evidence.ingested"]

ImplementsLeaseQueue == IngestQueue!Init /\ [][IngestQueue!Next]_IngestQueue!vars

(* A requested ingestion ends in sealed evidence, whatever GitHub re-runs    *)
(* meanwhile and however often GitHub, a lease or a worker failed before,    *)
(* as long as the faults stop.  (Ingestion never gives up: with GitHub out   *)
(* of reach for good there would be no end.)                                 *)
EvidenceSettles == \A r \in Runs : row[r].present ~> sealed[r] # NotSealed

(* Each commit of intake and ingestion is a step of the incident's life: it  *)
(* is detected once and sealed once, in this order, and what the stage       *)
(* leaves is what the clustering expects to find (AwaitsClustering).         *)
Life(r) == INSTANCE Incident WITH
  Clusters <- {"c"}, state <- incident[r], cluster <- [c \in {"c"} |-> "absent"],
  requested <- FALSE, run <- [state |-> "absent", pull |-> FALSE], attempt <- "none",
  events <- (IF detected[r] > 0 THEN {"workflow.failure.detected"} ELSE {})
              \cup (IF sealed[r] # NotSealed THEN {"evidence.ingested"} ELSE {})

FollowsIncident ==
  /\ \A r \in Runs : Life(r)!Init
  /\ [][\A r \in Runs : [Life(r)!Next]_(Life(r)!vars)]_vars

(* App.tsx: "sealed into an immutable diagnostic bundle".  Once evidence is  *)
(* sealed, what the diagnosis reads (listForIncident) is what was sealed.    *)
SealedIsAllEvidence ==
  \A r \in Runs : sealed[r] # NotSealed => artifacts[r] = sealed[r]
===============================================================================
