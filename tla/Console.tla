------------------------------- MODULE Console -------------------------------
(* The console of one incident: the API's GET /v1/dashboard/incidents/latest *)
(* (app.ts, dashboard/incident-read-store.ts) and the browser's load() with  *)
(* the stages it draws (apps/dashboard/src/App.tsx), over the incident that  *)
(* the servers are working on meanwhile.  The SELECTs of byId that a stage   *)
(* or the delivery is drawn from are a step each, of whatever is committed   *)
(* then (the list of diagnoses is left out); load() is called every 2.5      *)
(* seconds, by every pushed event and by every click, without waiting for    *)
(* earlier calls, and answers may overtake each other.                       *)
EXTENDS Naturals, FiniteSets, Sequences

CONSTANTS
  Clusters,    \* failure clusters that the logs may contain
  Loads,       \* calls of load() that may be under way at the same time
  EventLimit,  \* how many events readEvents takes, the latest ones: 80 in the code
  MaxAttempts, \* policy.repairBudget
  MaxEvents,   \* bound of the model: events of the incident
  MaxCommits   \* bound of the model: transactions that commit between two moments
               \* at which a call returns and leaves no other under way

ASSUME ClustersAreFinite == IsFiniteSet(Clusters)
ASSUME EventLimitIsNat == EventLimit \in Nat /\ EventLimit >= 2
ASSUME BudgetAssumption == MaxAttempts \in 1 .. 3
ASSUME MaxEventsIsNat == MaxEvents \in Nat
ASSUME MaxCommitsIsNat == MaxCommits \in Nat

VARIABLES
  state, cluster, requested, run, attempt, events,   \* the database: Incident
  recorded,  \* how many incident_events there are
  newest,    \* per type that is drawn, the latest of them, 0 for none
  load,      \* per call of load(): where it is, and what byId has read for it
  shown,     \* what the console shows: the states incident and recordedProof
  commits    \* how much of MaxCommits is spent

tables == <<state, cluster, requested, run, attempt, events>>
database == <<tables, recorded, newest>>
vars == <<database, load, shown, commits>>

DB == INSTANCE Incident

EventTypes == << {"workflow.failure.detected"}, {"evidence.ingested", "failure.clustered"},
                 {"diagnosis.proposed"}, {"repair.attempt.recorded"},
                 {"pull_request.opened"} >>
Stages == DOMAIN EventTypes
Drawn == UNION {EventTypes[k] : k \in Stages}

(* ORDER BY sequence DESC LIMIT: the drawn types among the latest events. *)
LedgerShort ==                                       \* mutant: one short of the limit
  {t \in Drawn : newest[t] # 0 /\ newest[t] + EventLimit > recorded + 1}
Ledger == {t \in Drawn : newest[t] # 0 /\ newest[t] + EventLimit > recorded}

(* What the console needs of a LiveIncidentSummary, here of all that is      *)
(* committed now.                                                            *)
Summary == [state |-> state, run |-> run, attempt |-> attempt, events |-> Ledger]
Parts == {"run", "attempt", "events"}

NoSummary == [state |-> "absent", run |-> DB!NoRun, attempt |-> DB!NoAttempt, events |-> {}]

Idle == [pc |-> "idle", read |-> {}, view |-> NoSummary, overtaken |-> FALSE]

Init == /\ DB!Init
        /\ recorded = 0 /\ newest = [t \in Drawn |-> 0]
        /\ load = [l \in Loads |-> Idle]
        /\ shown = [kind |-> "nothing", view |-> NoSummary]
        /\ commits = 0

-----------------------------------------------------------------------------
(* Transactions of the intake and of the servers, with what they append to   *)
(* incident_events, numbered in the order of the commits.                    *)

Records(count, types) ==
  /\ recorded' = recorded + count
  /\ newest' = [t \in Drawn |-> IF t \in types THEN recorded + count ELSE newest[t]]

(* reschedule of the ingestion queue, as often as artifacts cannot be had. *)
IngestionRetry == state = "RECEIVED" /\ UNCHANGED tables /\ Records(1, {})

IntakeCommits == \/ DB!Detect /\ Records(1, {"workflow.failure.detected"})
                 \/ IngestionRetry
                 \/ DB!Seal /\ Records(1, {"evidence.ingested"})

DiagnosisCommits ==
  \/ \E found \in SUBSET Clusters :
       /\ DB!SaveClusters(found)
       /\ Records(Cardinality(found), IF found = {} THEN {} ELSE {"failure.clustered"})
  \/ DB!EscalateClustering /\ Records(1, {})
  \/ \E c \in Clusters :
       \/ \E action \in DB!Actions, request \in BOOLEAN :
            DB!Diagnose(c, action, request) /\ Records(1, {"diagnosis.proposed"})
       \/ DB!EscalateDiagnosis(c) /\ Records(1, {})

(* complete: an event per attempt of the run, then that of the pull request. *)
RecordsAttempts(n, pull) ==
  /\ recorded' = recorded + n + (IF pull THEN 1 ELSE 0)
  /\ newest' = [t \in Drawn |->
                  IF t = "repair.attempt.recorded" THEN recorded + n
                  ELSE IF t = "pull_request.opened" /\ pull THEN recorded + n + 1
                  ELSE newest[t]]

RepairCommits ==
  \/ DB!Claim /\ Records(0, {})
  \/ (DB!Reschedule \/ DB!Decline) /\ Records(1, {})
  \/ \E final \in {"VALIDATED", "REJECTED", "BUDGET_EXHAUSTED"}, n \in 1 .. MaxAttempts :
       DB!Complete(final) /\ RecordsAttempts(n, final = "VALIDATED")

UnderWay(l) == load[l].pc # "idle"

Commit == /\ IntakeCommits \/ DiagnosisCommits \/ RepairCommits
          /\ recorded' <= MaxEvents
          /\ commits < MaxCommits /\ commits' = commits + 1
          /\ UNCHANGED <<load, shown>>

-----------------------------------------------------------------------------
(* load(): the timer, the stream, a click or the mount.  overtaken is        *)
(* history: another call has set the display since this one started.         *)

Start(l) ==
  /\ ~UnderWay(l)
  /\ load' = [load EXCEPT ![l] = [Idle EXCEPT !.pc = "sent"]]
  /\ UNCHANGED <<database, shown, commits>>

-----------------------------------------------------------------------------
(* latest and byId *)

NoIncident(l) == /\ load[l].pc = "sent" /\ state = "absent"
                 /\ load' = [load EXCEPT ![l].pc = "404"]
                 /\ UNCHANGED <<database, shown, commits>>

ReadIncident(l) == /\ load[l].pc = "sent" /\ state # "absent"
                   /\ load' = [load EXCEPT ![l].pc = "reading", ![l].view.state = state]
                   /\ UNCHANGED <<database, shown, commits>>

Reads(l, parts) == /\ load[l].pc = "reading" /\ parts \cap load[l].read = {}
                   /\ UNCHANGED <<database, shown, commits>>

(* readRepair: without a run it does not ask for attempts. *)
ReadRun(l) ==
  /\ Reads(l, {"run"})
  /\ load' = [load EXCEPT ![l].view.run = run,
                          ![l].read = @ \cup {"run"}
                                        \cup (IF run.state = "absent" THEN {"attempt"} ELSE {})]

AttemptsAtOnce(l) == TRUE                            \* mutant: all in one Promise.all
AttemptsAfterRun(l) == "run" \in load[l].read

ReadAttempts(l) ==
  /\ Reads(l, {"attempt"}) /\ AttemptsAfterRun(l)
  /\ load' = [load EXCEPT ![l].read = @ \cup {"attempt"}, ![l].view.attempt = attempt]

ReadEvents(l) ==
  /\ Reads(l, {"events"})
  /\ load' = [load EXCEPT ![l].read = @ \cup {"events"}, ![l].view.events = Ledger]

(* The network, the rate limit, a query or the whole API fails. *)
RequestFails(l) ==
  /\ load[l].pc \in {"sent", "reading"}
  /\ load' = [load EXCEPT ![l].pc = "failed", ![l].read = {}, ![l].view = NoSummary]
  /\ UNCHANGED <<database, shown, commits>>

-----------------------------------------------------------------------------
(* The rest of load(), when the answer or the failure arrives *)

Returns(l) == /\ load' = [k \in Loads |-> IF k = l THEN Idle
                                           ELSE [load[k] EXCEPT !.overtaken = UnderWay(k)]]
              /\ commits' = IF \E k \in Loads \ {l} : UnderWay(k) THEN commits ELSE 0
              /\ UNCHANGED database

ProofStays(view) == [kind |-> IF shown.kind = "proof" THEN "proof" ELSE "live",
                     view |-> view]                  \* mutant: recordedProof not reset
Live(view) == [kind |-> "live", view |-> view]

Show(l) ==
  /\ load[l].read = Parts
  /\ shown' = Live(load[l].view)
  /\ Returns(l)

(* The catch block, whatever went wrong: a recorded proof of another         *)
(* incident takes the place of what was shown.                               *)
ShowProof(l) ==
  /\ load[l].pc \in {"404", "failed"}
  /\ shown' = [kind |-> "proof", view |-> NoSummary]
  /\ Returns(l)

LoadStep(l) == \/ Start(l)
               \/ NoIncident(l) \/ ReadIncident(l)
               \/ ReadRun(l) \/ ReadAttempts(l) \/ ReadEvents(l)
               \/ Show(l) \/ ShowProof(l)

Next == \/ Commit
        \/ \E l \in Loads : LoadStep(l) \/ RequestFails(l)

Spec == Init /\ [][Next]_vars

(* The interval keeps calling load() while the page is open, and a call ends *)
(* by an answer or a failure.  Nothing obliges the servers to go on.         *)
Fairness == \A l \in Loads : WF_vars(LoadStep(l))

FairSpec == Spec /\ Fairness

-----------------------------------------------------------------------------
(* What the console draws of a summary *)

HasEvents(view, k) == EventTypes[k] \cap view.events # {}

CurrentStage(view) ==
  LET begun == {k \in Stages : HasEvents(view, k)}
      highest == IF begun = {} THEN 0 ELSE CHOOSE k \in begun : \A j \in begun : j <= k
  IN IF view.state = "PATCHING" /\ highest < 4 THEN 4 ELSE highest

StageState(view, k) ==
  IF HasEvents(view, k) THEN "complete"
  ELSE IF view.state \in DB!Stopped /\ k >= CurrentStage(view) THEN "blocked"
  ELSE IF k = CurrentStage(view) THEN "active" ELSE "waiting"

-----------------------------------------------------------------------------
(* The types of the calls' memories and of the display; Incident's tables    *)
(* hold only what the schema's enumerations allow.                           *)
TypeOK ==
  /\ state \in {"absent", "RECEIVED", "CLUSTERING_FAILURES", "DIAGNOSING", "PATCHING"}
                 \cup DB!Terminal
  /\ cluster \in [Clusters -> {"absent", "PENDING", "NEEDS_REVIEW"} \cup DB!Actions]
  /\ requested \in BOOLEAN
  /\ run \in [state: {"absent", "PENDING", "RUNNING"} \cup DB!Terminal, pull: BOOLEAN]
  /\ attempt \in {"none", "VALIDATED", "REJECTED", "BUDGET_EXHAUSTED"}
  /\ recorded \in 0 .. MaxEvents /\ newest \in [Drawn -> 0 .. MaxEvents]
  /\ \A l \in Loads : /\ load[l].pc \in {"idle", "sent", "reading", "404", "failed"}
                      /\ load[l].read \subseteq Parts
  /\ shown.kind \in {"nothing", "proof", "live"}
  /\ commits \in 0 .. MaxCommits

(* What Diagnosis and RepairPublication take for granted about the incident  *)
(* they are handed: nothing of a later stage is there before its request.    *)
StagesHandOver ==
  /\ state = "CLUSTERING_FAILURES" => DB!AwaitsClustering
  /\ state = "DIAGNOSING" /\ ~requested => DB!AwaitsRepair

(* Incident, run and ledger agree on whether there is a pull request; it has *)
(* a validated attempt behind it, every cluster had settled, at least one    *)
(* diagnosis said EXECUTE_REPAIR and none said anything else.  What the code *)
(* allows is that some clusters have no diagnosis at all: those escalated    *)
(* without a finding drop out of the repair's JOIN LATERAL.                  *)
PullIsBacked ==
  /\ run.pull <=> state = "PR_OPENED"
  /\ run.pull <=> "pull_request.opened" \in events
  /\ run.pull => /\ attempt = "VALIDATED"
                 /\ \E c \in Clusters : cluster[c] = "EXECUTE_REPAIR"
                 /\ \A c \in Clusters :
                      cluster[c] \in {"absent", "EXECUTE_REPAIR", "NEEDS_REVIEW"}

(* A displayed summary may mix several moments and has lost the oldest       *)
(* events of a long ledger (readEvents takes the latest eighty), but it does *)
(* not contradict itself.  An incident displayed as PR_OPENED is displayed   *)
(* with its pull request, a validated attempt, and repair and delivery       *)
(* complete; a stopped one without a pull request, with the delivery blocked *)
(* and nothing active; a pull request comes with its validated attempt; and  *)
(* there is no gap between two complete stages, nor, as long as the ledger   *)
(* has no more events than are read, before one.  It rests on the order of   *)
(* the SELECTs, and on the order in which the stages record their events.    *)
ViewIsCausal ==
  LET view == shown.view
      Complete(k) == StageState(view, k) = "complete"
  IN shown.kind = "live" =>
       /\ view.state = "PR_OPENED" => /\ view.run.pull /\ view.attempt = "VALIDATED"
                                      /\ Complete(4) /\ Complete(5)
       /\ view.state \in DB!Stopped => /\ ~view.run.pull
                                       /\ StageState(view, 5) = "blocked"
                                       /\ \A k \in Stages : StageState(view, k) # "active"
       /\ view.run.pull => view.attempt = "VALIDATED"
       /\ \A j, k \in Stages : j < k /\ Complete(k) /\ ~Complete(j)
                               => /\ recorded > EventLimit
                                  /\ \A i \in Stages : i < j => ~Complete(i)

(* Whatever a call of load() brings, if no other call has set the display    *)
(* since it started and its request did not fail: live data stays live, a    *)
(* pull request stays displayed, an incident displayed as ended stays        *)
(* exactly as it is displayed, and no event vanishes before the ledger has   *)
(* more of them than are read.  (An overtaken call may put an older answer,  *)
(* or an older 404, in the place of a newer one, until the next poll.)       *)
DisplayAdvances ==
  [][\A l \in Loads :
       /\ shown.kind = "live" /\ UnderWay(l) /\ ~load[l].overtaken /\ load[l].pc # "failed"
       /\ ~UnderWay(l)'
       => /\ shown'.kind = "live"
          /\ shown.view.run.pull => shown'.view.run.pull
          /\ shown.view.state \in DB!Terminal => shown'.view = shown.view
          /\ recorded <= EventLimit => shown.view.events \subseteq shown'.view.events]_vars

(* Once the incident has ended, the console shows that end in the long run   *)
(* and for good, whatever late answers and failures come in between, as long *)
(* as requests do not fail for ever.                                         *)
DisplayConverges ==
  <>[](\A l \in Loads : load[l].pc # "failed") =>
  (state \in DB!Terminal ~> [](shown = [kind |-> "live", view |-> Summary]))
=============================================================================
