---------------------------- MODULE ConsoleProofs ----------------------------
(* The incident and its console are right for every set of clusters, any     *)
(* number of calls of load() and every limit of readEvents from two on.  The *)
(* argument: the tables of an incident agree with the stage it is in, and a  *)
(* verdict is final (DatabaseInv); its stages record their events one after  *)
(* the other, so the latest ones are those of the last stages (LedgerInv);   *)
(* so what a call has read stays true of every later moment (Behind), and a  *)
(* later part of a summary can only be ahead of an earlier one (Partial);    *)
(* a call that has not been overtaken is ahead of what is shown (Fresh).     *)
EXTENDS Console, FiniteSetTheorems, TLAPS

States == {"absent", "RECEIVED", "CLUSTERING_FAILURES", "DIAGNOSING", "PATCHING"}
            \cup DB!Terminal
Runs == [state: {"absent", "PENDING", "RUNNING"} \cup DB!Terminal, pull: BOOLEAN]
Attempts == {"none", "VALIDATED", "REJECTED", "BUDGET_EXHAUSTED"}
Early == {"absent", "RECEIVED", "CLUSTERING_FAILURES"}

DatabaseTyped ==
  /\ state \in States
  /\ cluster \in [Clusters -> {"absent", "PENDING", "NEEDS_REVIEW"} \cup DB!Actions]
  /\ requested \in BOOLEAN
  /\ run \in Runs
  /\ attempt \in Attempts

(* What is there before the diagnosis begins, and stays in the ledger. *)
Begun ==
  /\ state = "absent" => DB!Nothing /\ events = {}
  /\ state = "RECEIVED" => DB!Nothing /\ events = {"workflow.failure.detected"}
  /\ state = "CLUSTERING_FAILURES" => DB!AwaitsClustering
  /\ state \notin Early => {"workflow.failure.detected", "evidence.ingested"} \subseteq events

(* Clusters wait for their finding only while DIAGNOSING, and none does once *)
(* the repair is requested.                                                  *)
Settling ==
  /\ (\E c \in Clusters : cluster[c] = "PENDING") => state = "DIAGNOSING" /\ ~requested
  /\ state = "DIAGNOSING" /\ ~requested => DB!AwaitsRepair
  /\ requested => /\ state \notin Early
                  /\ "diagnosis.proposed" \in events
                  /\ \E c \in Clusters : cluster[c] = "EXECUTE_REPAIR"

(* The run, its attempt and the incident tell the same. *)
RunAgrees ==
  /\ run.state = "absent" => /\ run = DB!NoRun
                             /\ state \in Early \cup {"DIAGNOSING", "NEEDS_REVIEW"}
                             /\ state = "NEEDS_REVIEW" => ~requested
  /\ run.state # "absent" => requested
  /\ run.state \in {"PENDING", "RUNNING"} => state = "PATCHING"
  /\ run.state \in DB!Terminal => state = run.state
  /\ run.state \notin DB!Terminal => attempt = "none"

(* The attempt and the ledger tell the same as the run. *)
AttemptAgrees ==
  /\ run.pull <=> state = "PR_OPENED"
  /\ run.pull <=> attempt = "VALIDATED"
  /\ run.pull <=> "pull_request.opened" \in events
  /\ attempt # "none" <=> "repair.attempt.recorded" \in events
  /\ run.pull => \A c \in Clusters : cluster[c] \in {"absent", "EXECUTE_REPAIR", "NEEDS_REVIEW"}

DatabaseInv == DatabaseTyped /\ Begun /\ Settling /\ RunAgrees /\ AttemptAgrees

(* The ranks of the events: those of a stage come before those of the next,  *)
(* and the last two of an incident with a pull request are its attempt's and *)
(* its own.                                                                  *)
LedgerInOrder ==
  \A j, k \in Stages : j < k => \A t \in EventTypes[j], u \in EventTypes[k] :
                                   newest[u] # 0 => newest[t] < newest[u]

LedgerInv ==
  /\ recorded \in Nat /\ newest \in [Drawn -> Nat]
  /\ \A t \in Drawn : (newest[t] # 0 <=> t \in events) /\ newest[t] <= recorded
  /\ LedgerInOrder
  /\ "pull_request.opened" \in events => /\ newest["pull_request.opened"] = recorded
                                         /\ newest["repair.attempt.recorded"] + 1 = recorded

-----------------------------------------------------------------------------
View == [state: States, run: Runs, attempt: Attempts, events: SUBSET Drawn]
Call == [pc: {"idle", "sent", "reading", "404", "failed"}, read: SUBSET Parts,
         view: View, overtaken: BOOLEAN]

Typed ==
  /\ DatabaseTyped /\ recorded \in 0 .. MaxEvents
  /\ load \in [Loads -> Call]
  /\ shown \in [kind: {"nothing", "proof", "live"}, view: View]
  /\ commits \in 0 .. MaxCommits

(* Nothing is missing between two stages that have begun, and before one     *)
(* only what a long ledger has pushed out.                                   *)
Begins(evs, k) == EventTypes[k] \cap evs # {}

Windowed(evs) ==
  \A j, k \in Stages : j < k /\ Begins(evs, k) /\ ~Begins(evs, j)
                        => recorded > EventLimit /\ \A i \in Stages : i < j => ~Begins(evs, i)

(* The events of a summary fit the state of the incident read before them. *)
EventsFit(s, evs) ==
  /\ Windowed(evs)
  /\ s = "PR_OPENED" => Begins(evs, 4) /\ Begins(evs, 5)
  /\ s \in DB!Stopped => ~Begins(evs, 5)

(* So does the run. *)
RunFits(s, r) == /\ s = "PR_OPENED" => r.pull
                 /\ s \in DB!Stopped => ~r.pull

(* What has been read of a summary is still so, or has come further, and of  *)
(* an incident that had ended it is still all there is.                      *)
Behind(view, read) ==
  /\ state # "absent"
  /\ view.events \subseteq events
  /\ view.run.pull => run.pull
  /\ view.state \in DB!Terminal => /\ state = view.state
                                   /\ "run" \in read => view.run = run
                                   /\ "attempt" \in read => view.attempt = attempt
                                   /\ "events" \in read => view.events = Ledger

(* What byId has read so far. *)
Partial(view, read) ==
  /\ "run" \in read => RunFits(view.state, view.run)
  /\ "attempt" \in read => "run" \in read /\ (view.run.pull => view.attempt = "VALIDATED")
  /\ "attempt" \notin read => view.attempt = DB!NoAttempt
  /\ "events" \in read => EventsFit(view.state, view.events)

Reading ==
  \A l \in Loads :
    /\ load[l].pc # "reading" => load[l].read = {} /\ load[l].view = NoSummary
    /\ load[l].pc = "reading" => /\ Behind(load[l].view, load[l].read)
                                 /\ Partial(load[l].view, load[l].read)

ShownIsCausal ==
  shown.kind = "live" => Behind(shown.view, Parts) /\ Partial(shown.view, Parts)

(* Of two summaries, the second is not the older one, as far as it is read. *)
Ahead(old, new, read) ==
  /\ old.state \in DB!Terminal => new.state = old.state
  /\ "run" \in read => (old.run.pull => new.run.pull)
  /\ "events" \in read /\ recorded <= EventLimit => old.events \subseteq new.events

Fresh ==
  \A l \in Loads :
    UnderWay(l) /\ ~load[l].overtaken /\ shown.kind = "live" =>
      /\ load[l].pc # "404"
      /\ load[l].pc = "reading" => Ahead(shown.view, load[l].view, load[l].read)

ConsoleInv == Typed /\ DatabaseInv /\ LedgerInv /\ Reading /\ ShownIsCausal /\ Fresh

-----------------------------------------------------------------------------
(* What no transaction on the tables takes back. *)
TablesForward ==
  /\ state # "absent" => state' # "absent"
  /\ events \subseteq events'
  /\ run.pull => run'.pull

Forward ==
  /\ TablesForward
  /\ recorded \in Nat /\ recorded' \in Nat /\ recorded <= recorded'
  /\ state \in DB!Terminal => UNCHANGED database

(* A step of the console leaves the tables alone. *)
LEMMA TablesUnchanged ==
  ASSUME DatabaseInv, UNCHANGED tables
  PROVE  DatabaseInv' /\ TablesForward
BY DEF tables, DatabaseInv, DatabaseTyped, Begun, Settling, RunAgrees, AttemptAgrees, TablesForward,
       DB!AwaitsClustering, DB!AwaitsRepair, DB!Nothing

(* The webhook's transaction, and the ingestion server's.                    *)
LEMMA IntakeStep ==
  ASSUME DatabaseInv, DB!Detect \/ DB!Seal
  PROVE  DatabaseInv' /\ TablesForward
<1> USE DEF DatabaseInv, DatabaseTyped, Begun, Settling, RunAgrees, AttemptAgrees,
            TablesForward, States,
            Early, DB!Terminal, DB!Stopped, DB!AwaitsClustering, DB!AwaitsRepair, DB!Nothing,
            DB!NoRun, DB!NoAttempt
<1>1. CASE DB!Detect
  BY <1>1 DEF DB!Detect
<1>2. CASE DB!Seal
  BY <1>2 DEF DB!Seal, DB!Unsealed
<1> QED
  BY <1>1, <1>2

(* The clustering worker's transactions. *)
LEMMA ClusteringStep ==
  ASSUME DatabaseInv, (\E found \in SUBSET Clusters : DB!SaveClusters(found)) \/ DB!EscalateClustering
  PROVE  DatabaseInv' /\ TablesForward
<1> USE DEF DatabaseInv, DatabaseTyped, Begun, Settling, RunAgrees, AttemptAgrees,
            TablesForward, States,
            Early, DB!Terminal, DB!Stopped, DB!AwaitsClustering, DB!AwaitsRepair, DB!Nothing,
            DB!NoRun, DB!NoAttempt
<1>1. ASSUME NEW found \in SUBSET Clusters, DB!SaveClusters(found)
      PROVE  DatabaseInv' /\ TablesForward
  BY <1>1 DEF DB!SaveClusters
<1>2. CASE DB!EscalateClustering
  BY <1>2 DEF DB!EscalateClustering
<1> QED
  BY <1>1, <1>2

(* The diagnosis worker's. *)
LEMMA DiagnosisStep ==
  ASSUME DatabaseInv, NEW c \in Clusters,
         \/ \E action \in DB!Actions, request \in BOOLEAN : DB!Diagnose(c, action, request)
         \/ DB!EscalateDiagnosis(c)
  PROVE  DatabaseInv' /\ TablesForward
<1> USE DEF DatabaseInv, DatabaseTyped, Begun, Settling, RunAgrees, AttemptAgrees,
            TablesForward, States,
            Early, DB!Terminal, DB!Stopped, DB!AwaitsClustering, DB!AwaitsRepair, DB!Nothing,
            DB!NoRun, DB!NoAttempt, DB!Actions
<1>1. ASSUME NEW action \in DB!Actions, NEW request \in BOOLEAN, DB!Diagnose(c, action, request)
      PROVE  DatabaseInv' /\ TablesForward
  BY <1>1 DEF DB!Diagnose, DB!LastToSettle
<1>2. CASE DB!EscalateDiagnosis(c)
  BY <1>2 DEF DB!EscalateDiagnosis
<1> QED
  BY <1>1, <1>2

(* The repair worker's, while the run goes on. *)
LEMMA RunStep ==
  ASSUME DatabaseInv, DB!Claim \/ DB!Reschedule \/ DB!Decline
  PROVE  DatabaseInv' /\ TablesForward
<1> USE DEF DatabaseInv, DatabaseTyped, Begun, Settling, RunAgrees, AttemptAgrees,
            TablesForward, States,
            Runs, Early, DB!Terminal, DB!Stopped, DB!AwaitsClustering, DB!AwaitsRepair, DB!Nothing,
            DB!NoRun, DB!NoAttempt
<1>1. CASE DB!Claim
  BY <1>1 DEF DB!Claim
<1>2. CASE DB!Reschedule
  BY <1>2 DEF DB!Reschedule
<1>3. CASE DB!Decline
  BY <1>3 DEF DB!Decline
<1> QED
  BY <1>1, <1>2, <1>3

(* The transaction with which it ends. *)
LEMMA CompleteStep ==
  ASSUME DatabaseInv, NEW final \in {"VALIDATED", "REJECTED", "BUDGET_EXHAUSTED"}, DB!Complete(final)
  PROVE  DatabaseInv' /\ TablesForward
<1> USE DEF DatabaseInv, DatabaseTyped, Begun, Settling, RunAgrees, AttemptAgrees,
            TablesForward, States,
            Runs, Attempts, Early, DB!Terminal, DB!Stopped, DB!AwaitsClustering, DB!AwaitsRepair,
            DB!Nothing, DB!NoRun, DB!NoAttempt, DB!Actions
<1> QED
  BY DEF DB!Complete, DB!Actionable, DB!Diagnoses, DB!Verdict

(* Every transaction keeps the tables in agreement. *)
LEMMA DatabaseStep ==
  ASSUME DatabaseInv, DB!Next
  PROVE  DatabaseInv' /\ TablesForward
BY IntakeStep, ClusteringStep, DiagnosisStep, RunStep, CompleteStep DEF DB!Next

-----------------------------------------------------------------------------
(* The five stages, and the types of their events.                           *)
LEMMA StageNumbers ==
  /\ Stages = {1, 2, 3, 4, 5}
  /\ EventTypes[1] = {"workflow.failure.detected"}
  /\ EventTypes[2] = {"evidence.ingested", "failure.clustered"}
  /\ EventTypes[3] = {"diagnosis.proposed"}
  /\ EventTypes[4] = {"repair.attempt.recorded"}
  /\ EventTypes[5] = {"pull_request.opened"}
BY DEF Stages, EventTypes

(* The types that a stage is drawn from are those of the five stages.        *)
LEMMA DrawnTypes ==
  Drawn = {"workflow.failure.detected", "evidence.ingested", "failure.clustered",
           "diagnosis.proposed", "repair.attempt.recorded", "pull_request.opened"}
<1>1. \A t : t \in Drawn <=> \E k \in {1, 2, 3, 4, 5} : t \in EventTypes[k]
  BY StageNumbers DEF Drawn
<1> QED
  BY <1>1, StageNumbers

(* A transaction that appends events of one stage, none of a later one being *)
(* there, or none that are drawn, leaves the ledger in order.                *)
LEMMA RecordsInOrder ==
  ASSUME LedgerInv, NEW count \in Nat, NEW k \in 1 .. 4, NEW types \in SUBSET EventTypes[k],
         Records(count, types), types # {} => count >= 1,
         \A j \in Stages : j > k => EventTypes[j] \cap events = {},
         events' \cap Drawn = (events \cap Drawn) \cup types
  PROVE  LedgerInv' /\ recorded <= recorded'
<1>1. /\ k \in Stages /\ 5 \in Stages /\ 5 > k /\ "pull_request.opened" \in EventTypes[5]
      /\ \A j \in Stages : EventTypes[j] \subseteq Drawn
  BY StageNumbers, DrawnTypes
<1>2. /\ recorded \in Nat /\ recorded' = recorded + count /\ recorded' \in Nat
      /\ \A t \in Drawn : newest'[t] = IF t \in types THEN recorded + count ELSE newest[t]
      /\ newest' \in [Drawn -> Nat] /\ \A t \in Drawn : newest[t] \in Nat
  BY DEF LedgerInv, Records
<1>3. ASSUME NEW t \in Drawn PROVE (newest'[t] # 0 <=> t \in events') /\ newest'[t] <= recorded'
  <2>1. /\ newest[t] # 0 <=> t \in events
        /\ newest[t] <= recorded /\ (t \in events' <=> t \in events \/ t \in types)
    BY DEF LedgerInv
  <2>2. CASE t \in types
    BY <1>2, <2>1, <2>2
  <2>3. CASE t \notin types
    BY <1>2, <2>1, <2>3
  <2> QED
    BY <2>2, <2>3
<1>4. ASSUME NEW i \in Stages, NEW j \in Stages, i < j, NEW t \in EventTypes[i],
             NEW u \in EventTypes[j], newest'[u] # 0
      PROVE  newest'[t] < newest'[u]
  <2>1. /\ t \in Drawn /\ u \in Drawn /\ (newest[u] # 0 => newest[t] < newest[u])
        /\ newest[t] \in Nat /\ newest[u] \in Nat /\ newest[t] <= recorded
    BY <1>1, <1>2, <1>4 DEF LedgerInv, LedgerInOrder
  <2>2. u \in types => j = k
    BY <1>4, StageNumbers
  <2>3. t \in types => i = k
    BY <1>4, StageNumbers
  <2>4. CASE u \in types
    <3>1. t \notin types /\ count >= 1
      BY <1>4, <2>2, <2>3, <2>4
    <3> QED
      BY <1>2, <2>1, <2>4, <3>1
  <2>5. CASE u \notin types
    <3>1. newest[u] # 0 /\ newest'[u] = newest[u]
      BY <1>2, <1>4, <2>1, <2>5
    <3>2. u \in events
      BY <2>1, <3>1 DEF LedgerInv
    <3>3. t \notin types
      BY <1>4, <2>3, <3>2
    <3> QED
      BY <1>2, <2>1, <3>1, <3>3
  <2> QED
    BY <2>4, <2>5
<1>5. "pull_request.opened" \notin events'
  <2>1. "pull_request.opened" \notin events /\ "pull_request.opened" \notin types
    BY <1>1, StageNumbers
  <2> QED
    BY <1>1, <2>1
<1>6. LedgerInOrder'
  BY <1>4 DEF LedgerInOrder
<1>7. recorded <= recorded'
  BY <1>2
<1> QED
  BY <1>2, <1>3, <1>5, <1>6, <1>7 DEF LedgerInv

(* The transaction that ends the repair appends the last events of all.      *)
LEMMA AttemptsInOrder ==
  ASSUME LedgerInv, NEW n \in 1 .. 3, NEW pull \in BOOLEAN, RecordsAttempts(n, pull),
         (EventTypes[4] \cup EventTypes[5]) \cap events = {},
         events' = events \cup EventTypes[4] \cup (IF pull THEN EventTypes[5] ELSE {})
  PROVE  LedgerInv' /\ recorded <= recorded'
<1> DEFINE a == "repair.attempt.recorded"
           p == "pull_request.opened"
<1>1. /\ a \in Drawn /\ p \in Drawn /\ a # p /\ EventTypes[4] = {a} /\ EventTypes[5] = {p}
      /\ \A j \in Stages : EventTypes[j] \subseteq Drawn
      /\ \A j \in Stages : \A t \in EventTypes[j] : (t = a <=> j = 4) /\ (t = p <=> j = 5)
  BY StageNumbers, DrawnTypes
<1>2. /\ recorded \in Nat /\ newest \in [Drawn -> Nat]
      /\ recorded' = recorded + n + (IF pull THEN 1 ELSE 0)
      /\ newest' = [t \in Drawn |-> IF t = a THEN recorded + n
                                     ELSE IF t = p /\ pull THEN recorded + n + 1 ELSE newest[t]]
  BY DEF LedgerInv, RecordsAttempts
<1> HIDE DEF a, p
<1>3. recorded' \in Nat /\ recorded <= recorded' /\ newest' \in [Drawn -> Nat]
  BY <1>2
<1>4. newest[a] = 0 /\ newest[p] = 0
  BY <1>1 DEF LedgerInv
<1>5. /\ newest'[a] = recorded + n
      /\ newest'[p] = IF pull THEN recorded + n + 1 ELSE 0
      /\ \A t \in Drawn : t # a /\ t # p => newest'[t] = newest[t]
  BY <1>1, <1>2, <1>4
<1>6. ASSUME NEW t \in Drawn PROVE (newest'[t] # 0 <=> t \in events') /\ newest'[t] <= recorded'
  <2>1. /\ newest[t] # 0 <=> t \in events
        /\ newest[t] <= recorded /\ newest[t] \in Nat
    BY <1>2 DEF LedgerInv
  <2>2. CASE t = a
    BY <1>1, <1>2, <1>5, <2>2
  <2>3. CASE t = p
    BY <1>1, <1>2, <1>5, <2>3
  <2>4. CASE t # a /\ t # p
    <3>1. t \in events' <=> t \in events
      BY <1>1, <2>4
    <3> QED
      BY <1>2, <1>3, <1>5, <2>1, <2>4, <3>1
  <2> QED
    BY <2>2, <2>3, <2>4
<1>7. ASSUME NEW i \in Stages, NEW j \in Stages, i < j, NEW t \in EventTypes[i],
             NEW u \in EventTypes[j], newest'[u] # 0
      PROVE  newest'[t] < newest'[u]
  <2>1. /\ t \in Drawn /\ u \in Drawn /\ (newest[u] # 0 => newest[t] < newest[u])
        /\ newest[t] \in Nat /\ newest[u] \in Nat /\ newest[t] <= recorded
        /\ (t = a <=> i = 4) /\ (t = p <=> i = 5) /\ (u = a <=> j = 4) /\ (u = p <=> j = 5)
    BY <1>1, <1>2, <1>7 DEF LedgerInv, LedgerInOrder
  <2>2. i \in 1 .. 5 /\ j \in 1 .. 5
    BY StageNumbers
  <2>3. CASE j \in 1 .. 3
    BY <1>5, <1>7, <2>1, <2>2, <2>3
  <2>4. CASE j = 4
    BY <1>2, <1>5, <1>7, <2>1, <2>2, <2>4
  <2>5. CASE j = 5
    <3>1. pull /\ newest'[u] = recorded + n + 1
      BY <1>5, <1>7, <2>1, <2>5
    <3>2. CASE i = 4
      BY <1>2, <1>5, <2>1, <3>1, <3>2
    <3>3. CASE i # 4
      BY <1>2, <1>5, <1>7, <2>1, <2>2, <2>5, <3>1, <3>3
    <3> QED
      BY <3>2, <3>3
  <2> QED
    BY <2>2, <2>3, <2>4, <2>5
<1>8. p \in events' => newest'[p] = recorded' /\ newest'[a] + 1 = recorded'
  <2>1. p \in events' => pull
    BY <1>1
  <2> QED
    BY <1>2, <1>5, <2>1
<1>9. LedgerInOrder'
  BY <1>7 DEF LedgerInOrder
<1> QED
  BY <1>3, <1>6, <1>8, <1>9 DEF LedgerInv, a, p

(* Only an incident that goes on has transactions, and they append to its    *)
(* ledger in the order of its stages.                                        *)
Appends == /\ LedgerInv' /\ recorded <= recorded'
           /\ state \notin DB!Terminal

(* The intake's transactions do. *)
LEMMA IntakeAppends ==
  ASSUME DatabaseInv, LedgerInv, IntakeCommits
  PROVE  Appends
<1>1. CASE DB!Detect /\ Records(1, {"workflow.failure.detected"})
  <2>1. /\ state = "absent" /\ events = {} /\ events' = {"workflow.failure.detected"}
        /\ state \notin DB!Terminal
    BY <1>1 DEF DB!Detect, DatabaseInv, Begun, DB!Terminal, DB!Stopped
  <2>2. {"workflow.failure.detected"} \in SUBSET EventTypes[1] /\ 1 \in 1 .. 4 /\ 1 \in Nat
    BY StageNumbers
  <2>3. events' \cap Drawn = (events \cap Drawn) \cup {"workflow.failure.detected"}
    BY <2>1, DrawnTypes
  <2>4. \A j \in Stages : j > 1 => EventTypes[j] \cap events = {}
    BY <2>1
  <2> QED
    BY <1>1, <2>1, <2>2, <2>3, <2>4, RecordsInOrder DEF Appends
<1>2. CASE IngestionRetry
  <2>1. /\ state = "RECEIVED" /\ events = {"workflow.failure.detected"} /\ events' = events
        /\ state \notin DB!Terminal
    BY <1>2 DEF IngestionRetry, tables, DatabaseInv, Begun, DB!Terminal, DB!Stopped
  <2>2. {} \in SUBSET EventTypes[4] /\ 4 \in 1 .. 4 /\ 1 \in Nat
    OBVIOUS
  <2>3. \A j \in Stages : j > 4 => EventTypes[j] \cap events = {}
    BY <2>1, StageNumbers
  <2> QED
    BY <1>2, <2>1, <2>2, <2>3, RecordsInOrder DEF Appends, IngestionRetry
<1>3. CASE DB!Seal /\ Records(1, {"evidence.ingested"})
  <2>1. /\ state = "RECEIVED" /\ events = {"workflow.failure.detected"}
        /\ events' = events \cup {"evidence.ingested"} /\ state \notin DB!Terminal
    BY <1>3 DEF DB!Seal, DB!Unsealed, DatabaseInv, Begun, DB!Terminal, DB!Stopped
  <2>2. {"evidence.ingested"} \in SUBSET EventTypes[2] /\ 2 \in 1 .. 4 /\ 1 \in Nat
    BY StageNumbers
  <2>3. events' \cap Drawn = (events \cap Drawn) \cup {"evidence.ingested"}
    BY <2>1, DrawnTypes
  <2>4. \A j \in Stages : j > 2 => EventTypes[j] \cap events = {}
    BY <2>1, StageNumbers
  <2> QED
    BY <1>3, <2>1, <2>2, <2>3, <2>4, RecordsInOrder DEF Appends
<1> QED
  BY <1>1, <1>2, <1>3 DEF IntakeCommits

(* An event that no stage is drawn from leaves the stages' in their order.   *)
LEMMA OtherAppends ==
  ASSUME LedgerInv, NEW count \in Nat, Records(count, {}), NEW t, t \notin Drawn,
         "pull_request.opened" \notin events, events' = events \/ events' = events \cup {t},
         state \notin DB!Terminal
  PROVE  Appends
<1>1. {} \in SUBSET EventTypes[4] /\ 4 \in 1 .. 4
  OBVIOUS
<1>2. \A j \in Stages : j > 4 => EventTypes[j] \cap events = {}
  BY StageNumbers
<1>3. events' \cap Drawn = (events \cap Drawn) \cup {}
  OBVIOUS
<1> QED
  BY <1>1, <1>2, <1>3, RecordsInOrder DEF Appends

(* So do the diagnosis stage's. *)
LEMMA DiagnosisAppends ==
  ASSUME DatabaseInv, LedgerInv, DiagnosisCommits
  PROVE  Appends
<1>1. ASSUME NEW found \in SUBSET Clusters, DB!SaveClusters(found),
             Records(Cardinality(found), IF found = {} THEN {} ELSE {"failure.clustered"})
      PROVE  Appends
  <2> DEFINE types == IF found = {} THEN {} ELSE {"failure.clustered"}
  <2>1. /\ events = {"workflow.failure.detected", "evidence.ingested"}
        /\ events' = events \cup types /\ state \notin DB!Terminal
    BY <1>1 DEF DB!SaveClusters, DatabaseInv, Begun, DB!AwaitsClustering, DB!Terminal, DB!Stopped
  <2>2. Cardinality(found) \in Nat /\ (found # {} => Cardinality(found) >= 1)
    <3>1. IsFiniteSet(found)
      BY ClustersAreFinite, FS_Subset
    <3>2. Cardinality(found) \in Nat /\ (Cardinality(found) = 0 <=> found = {})
      BY <3>1, FS_CardinalityType, FS_EmptySet
    <3> QED
      BY <3>2
  <2>3. types \in SUBSET EventTypes[2] /\ 2 \in 1 .. 4 /\ (types # {} => found # {})
    BY StageNumbers
  <2>4. events' \cap Drawn = (events \cap Drawn) \cup types
    BY <2>1, DrawnTypes
  <2>5. \A j \in Stages : j > 2 => EventTypes[j] \cap events = {}
    BY <2>1, StageNumbers
  <2>6. Records(Cardinality(found), types)
    BY <1>1
  <2> HIDE DEF types
  <2> QED
    BY <2>1, <2>2, <2>3, <2>4, <2>5, <2>6, RecordsInOrder DEF Appends
<1>2. CASE DB!EscalateClustering /\ Records(1, {})
  <2>1. /\ events = {"workflow.failure.detected", "evidence.ingested"}
        /\ events' = events \cup {"failure.clustering_escalated"} /\ state \notin DB!Terminal
    BY <1>2 DEF DB!EscalateClustering, DatabaseInv, Begun, DB!AwaitsClustering, DB!Terminal,
                DB!Stopped
  <2> QED
    BY <1>2, <2>1, OtherAppends, DrawnTypes
<1>3. ASSUME NEW c \in Clusters, cluster[c] = "PENDING"
      PROVE  /\ events \subseteq {"workflow.failure.detected", "evidence.ingested",
                                  "failure.clustered", "diagnosis.proposed", "diagnosis.escalated"}
             /\ state \notin DB!Terminal
  BY <1>3 DEF DatabaseInv, Settling, DB!AwaitsRepair, DB!Terminal, DB!Stopped
<1>4. ASSUME NEW c \in Clusters, NEW action \in DB!Actions, NEW request \in BOOLEAN,
             DB!Diagnose(c, action, request), Records(1, {"diagnosis.proposed"})
      PROVE  Appends
  <2>1. cluster[c] = "PENDING" /\ events' = events \cup {"diagnosis.proposed"}
    BY <1>4 DEF DB!Diagnose
  <2>2. {"diagnosis.proposed"} \in SUBSET EventTypes[3] /\ 3 \in 1 .. 4 /\ 1 \in Nat
    BY StageNumbers
  <2>3. events' \cap Drawn = (events \cap Drawn) \cup {"diagnosis.proposed"}
    BY <2>1, DrawnTypes
  <2>4. \A j \in Stages : j > 3 => EventTypes[j] \cap events = {}
    BY <1>3, <2>1, StageNumbers
  <2> QED
    BY <1>3, <1>4, <2>1, <2>2, <2>3, <2>4, RecordsInOrder DEF Appends
<1>5. ASSUME NEW c \in Clusters, DB!EscalateDiagnosis(c), Records(1, {})
      PROVE  Appends
  <2>1. cluster[c] = "PENDING" /\ events' = events \cup {"diagnosis.escalated"}
    BY <1>5 DEF DB!EscalateDiagnosis
  <2>2. "pull_request.opened" \notin events
    BY <1>3, <2>1
  <2> QED
    BY <1>3, <1>5, <2>1, <2>2, OtherAppends, DrawnTypes
<1> QED
  BY <1>1, <1>2, <1>4, <1>5 DEF DiagnosisCommits

(* And the repair stage's. *)
LEMMA RepairAppends ==
  ASSUME DatabaseInv, LedgerInv, RepairCommits
  PROVE  Appends
<1>r. run.state \in {"absent", "PENDING", "RUNNING"} /\ requested
        => state \notin DB!Terminal /\ "pull_request.opened" \notin events
           /\ "repair.attempt.recorded" \notin events
  BY DEF DatabaseInv, Settling, RunAgrees, AttemptAgrees, Early, DB!Terminal, DB!Stopped
<1>s. run.state = "RUNNING" => requested
  BY DEF DatabaseInv, RunAgrees
<1>1. CASE DB!Claim /\ Records(0, {})
  <2>1. requested /\ run.state \in {"absent", "PENDING", "RUNNING"} /\ events' = events
    BY <1>1 DEF DB!Claim
  <2>2. "none" \notin Drawn /\ 0 \in Nat
    BY DrawnTypes
  <2> QED
    BY <1>1, <1>r, <2>1, <2>2, OtherAppends
<1>2. CASE (DB!Reschedule \/ DB!Decline) /\ Records(1, {})
  <2>1. /\ run.state = "RUNNING"
        /\ \/ events' = events \cup {"repair.retry_scheduled"}
           \/ events' = events \cup {"repair.declined"}
    BY <1>2 DEF DB!Reschedule, DB!Decline
  <2> QED
    BY <1>2, <1>r, <1>s, <2>1, OtherAppends, DrawnTypes
<1>3. ASSUME NEW final \in {"VALIDATED", "REJECTED", "BUDGET_EXHAUSTED"},
             NEW n \in 1 .. MaxAttempts,
             DB!Complete(final), RecordsAttempts(n, final = "VALIDATED")
      PROVE  Appends
  <2> DEFINE pull == final = "VALIDATED"
  <2>1. /\ run.state = "RUNNING"
        /\ events' = events \cup {"repair.attempt.recorded"}
                       \cup (IF pull THEN {"pull_request.opened"} ELSE {})
    BY <1>3 DEF DB!Complete
  <2>2. (EventTypes[4] \cup EventTypes[5]) \cap events = {}
    BY <1>r, <1>s, <2>1, StageNumbers
  <2>3. events' = events \cup EventTypes[4] \cup (IF pull THEN EventTypes[5] ELSE {})
    BY <2>1, StageNumbers
  <2>4. pull \in BOOLEAN /\ RecordsAttempts(n, pull) /\ n \in 1 .. 3
    BY <1>3, BudgetAssumption
  <2> HIDE DEF pull
  <2>5. LedgerInv' /\ recorded <= recorded'
    BY <2>2, <2>3, <2>4, AttemptsInOrder
  <2> QED
    BY <1>r, <1>s, <2>1, <2>5 DEF Appends
<1> QED
  BY <1>1, <1>2, <1>3 DEF RepairCommits

(* Every transaction is one of Incident, or a retry of the ingestion. *)
LEMMA DatabaseCommits ==
  ASSUME DatabaseInv, LedgerInv, Commit
  PROVE  DatabaseInv' /\ LedgerInv' /\ Forward
<1>1. DatabaseInv' /\ TablesForward
  <2>1. IngestionRetry \/ DB!Next
    BY DEF Commit, IntakeCommits, DiagnosisCommits, RepairCommits, DB!Next
  <2>2. CASE IngestionRetry
    BY <2>2, TablesUnchanged DEF IngestionRetry
  <2>3. CASE DB!Next
    BY <2>3, DatabaseStep
  <2> QED
    BY <2>1, <2>2, <2>3
<1>2. Appends
  BY IntakeAppends, DiagnosisAppends, RepairAppends DEF Commit
<1> QED
  BY <1>1, <1>2 DEF Appends, Forward, LedgerInv

-----------------------------------------------------------------------------
(* Of the events that are drawn, the ledger as it is read holds all that are *)
(* not too old, and all of them while there are no more than are read.       *)
LEMMA LedgerRead ==
  ASSUME LedgerInv
  PROVE  /\ Ledger \in SUBSET Drawn /\ Ledger \subseteq events
         /\ recorded <= EventLimit => Ledger = events \cap Drawn
<1>1. \A t \in Drawn : newest[t] \in Nat /\ (newest[t] # 0 <=> t \in events)
  BY DEF LedgerInv
<1>2. recorded \in Nat /\ EventLimit \in Nat
  BY EventLimitIsNat DEF LedgerInv
<1>3. ASSUME recorded <= EventLimit, NEW t \in events \cap Drawn PROVE t \in Ledger
  BY <1>1, <1>2, <1>3 DEF Ledger
<1>4. \A t \in Ledger : t \in Drawn /\ t \in events
  BY <1>1 DEF Ledger
<1> QED
  BY <1>3, <1>4

(* The events of the ledger fit every state the incident may be shown in. *)
LEMMA LedgerFits ==
  ASSUME DatabaseInv, LedgerInv, NEW s \in States, s \in DB!Terminal => state = s
  PROVE  EventsFit(s, Ledger)
<1>1. /\ "diagnosis.proposed" \in events => "evidence.ingested" \in events
      /\ "evidence.ingested" \in events \/ "failure.clustered" \in events
           => "workflow.failure.detected" \in events
      /\ "repair.attempt.recorded" \in events => "diagnosis.proposed" \in events
      /\ "pull_request.opened" \in events => "repair.attempt.recorded" \in events
  BY DEF DatabaseInv, DatabaseTyped, Begun, Settling, RunAgrees, AttemptAgrees, States, Runs, Early,
         DB!Terminal, DB!Stopped, DB!AwaitsClustering, DB!Nothing, DB!NoRun, DB!NoAttempt
<1>2. \A j, k \in Stages : j < k /\ EventTypes[k] \cap events # {} => EventTypes[j] \cap events # {}
  BY <1>1, StageNumbers
<1>3. /\ recorded \in Nat /\ EventLimit \in Nat /\ EventLimit >= 2
      /\ \A t \in Drawn : /\ newest[t] \in Nat /\ (newest[t] # 0 <=> t \in events)
                          /\ t \in Ledger <=> newest[t] # 0 /\ newest[t] + EventLimit > recorded
  BY EventLimitIsNat DEF LedgerInv, Ledger
<1>4. \A k \in Stages : EventTypes[k] \subseteq Drawn
  BY DEF Drawn
<1>5. ASSUME NEW j \in Stages, NEW k \in Stages, j < k, Begins(Ledger, k), ~Begins(Ledger, j)
      PROVE  recorded > EventLimit /\ \A i \in Stages : i < j => ~Begins(Ledger, i)
  <2>1. PICK t \in EventTypes[k] : t \in Ledger
    BY <1>5 DEF Begins
  <2>2. EventTypes[k] \cap events # {}
    BY <1>3, <1>4, <2>1
  <2>3. PICK u \in EventTypes[j] : u \in events
    BY <1>2, <1>5, <2>2
  <2>4. u \in Drawn /\ u \notin Ledger
    BY <1>4, <1>5 DEF Begins
  <2>5. newest[u] # 0 /\ newest[u] \in Nat /\ newest[u] + EventLimit <= recorded
    BY <1>3, <2>3, <2>4
  <2>6. recorded > EventLimit
    BY <1>3, <2>5
  <2>7. ASSUME NEW i \in Stages, i < j, NEW w \in EventTypes[i], w \in Ledger PROVE FALSE
    <3>1. newest[w] < newest[u]
      BY <2>5, <2>7 DEF LedgerInv, LedgerInOrder
    <3>2. newest[w] + EventLimit > recorded /\ newest[w] \in Nat
      BY <1>3, <1>4, <2>7
    <3> QED
      BY <1>3, <2>5, <3>1, <3>2
  <2>8. \A i \in Stages : i < j => ~Begins(Ledger, i)
    BY <2>7 DEF Begins
  <2> QED
    BY <2>6, <2>8
<1>6. Windowed(Ledger)
  BY <1>5 DEF Windowed
<1>7. ASSUME s = "PR_OPENED" PROVE Begins(Ledger, 4) /\ Begins(Ledger, 5)
  <2>1. "pull_request.opened" \in events
    BY <1>7 DEF DatabaseInv, AttemptAgrees, DB!Terminal
  <2>2. /\ newest["pull_request.opened"] = recorded
        /\ newest["repair.attempt.recorded"] + 1 = recorded
        /\ "repair.attempt.recorded" \in events
    BY <1>1, <2>1 DEF LedgerInv
  <2>3. "pull_request.opened" \in Ledger /\ "repair.attempt.recorded" \in Ledger
    BY <1>3, <2>1, <2>2, DrawnTypes
  <2> QED
    BY <2>3, StageNumbers DEF Begins
<1>8. ASSUME s \in DB!Stopped PROVE ~Begins(Ledger, 5)
  <2>1. "pull_request.opened" \notin events
    BY <1>8 DEF DatabaseInv, AttemptAgrees, DB!Terminal, DB!Stopped
  <2> QED
    BY <2>1, LedgerRead, StageNumbers DEF Begins
<1> QED
  BY <1>6, <1>7, <1>8 DEF EventsFit

(* So does its run. *)
LEMMA RunFitsNow ==
  ASSUME DatabaseInv, NEW s \in States, s \in DB!Terminal => state = s
  PROVE  RunFits(s, run)
BY DEF RunFits, DatabaseInv, AttemptAgrees, DB!Terminal, DB!Stopped

(* Nor does a step of the console change the ledger. *)
LEMMA DatabaseUnchanged ==
  ASSUME DatabaseInv, LedgerInv, UNCHANGED database
  PROVE  DatabaseInv' /\ LedgerInv' /\ Forward
<1>1. UNCHANGED tables /\ UNCHANGED <<recorded, newest>> /\ UNCHANGED events
  BY DEF database, tables
<1>2. DatabaseInv' /\ TablesForward
  BY <1>1, TablesUnchanged
<1>3. LedgerInv'
  BY <1>1 DEF LedgerInv, LedgerInOrder
<1> QED
  BY <1>1, <1>2, <1>3 DEF Forward, LedgerInv

(* What has been read of a summary stays behind the database.                *)
LEMMA StaysBehind ==
  ASSUME Forward
  PROVE  /\ \A view, read : Behind(view, read) => Behind(view, read)'
         /\ \A view, read : Partial(view, read) => Partial(view, read)'
         /\ \A old, new, read : Ahead(old, new, read) => Ahead(old, new, read)'
<1>1. state \in DB!Terminal => /\ state' = state /\ run' = run /\ attempt' = attempt
                               /\ Ledger' = Ledger
  BY DEF Forward, database, tables, Ledger
<1>2. \A view, read : Behind(view, read) => Behind(view, read)'
  BY <1>1 DEF Behind, Forward, TablesForward
<1>3. recorded > EventLimit => recorded' > EventLimit
  BY EventLimitIsNat DEF Forward
<1>4. recorded' <= EventLimit => recorded <= EventLimit
  BY EventLimitIsNat DEF Forward
<1>5. \A view, read : Partial(view, read) => Partial(view, read)'
  BY <1>3 DEF Partial, EventsFit, Windowed
<1>6. \A old, new, read : Ahead(old, new, read) => Ahead(old, new, read)'
  BY <1>4 DEF Ahead
<1> QED
  BY <1>2, <1>5, <1>6

(* A transaction of a server changes nothing in the browser. *)
LEMMA CommitStep ==
  ASSUME ConsoleInv, DatabaseInv', LedgerInv', Forward, UNCHANGED <<load, shown>>,
         recorded' \in 0 .. MaxEvents, commits' \in 0 .. MaxCommits
  PROVE  ConsoleInv'
<1>1. Typed'
  BY DEF ConsoleInv, Typed, DatabaseInv
<1>2. Reading'
  <2>1. ASSUME NEW l \in Loads
        PROVE  /\ load'[l].pc # "reading" => load'[l].read = {} /\ load'[l].view = NoSummary
               /\ load'[l].pc = "reading" => /\ Behind(load[l].view, load[l].read)'
                                             /\ Partial(load[l].view, load[l].read)'
    <3>1. load' = load
      OBVIOUS
    <3> QED
      BY <3>1, StaysBehind DEF ConsoleInv, Reading
  <2> QED
    BY <2>1 DEF Reading
<1>3. ShownIsCausal'
  BY StaysBehind DEF ConsoleInv, ShownIsCausal
<1>4. Fresh'
  BY StaysBehind DEF ConsoleInv, Fresh, UnderWay
<1> QED
  BY <1>1, <1>2, <1>3, <1>4 DEF ConsoleInv

(* The summary of a call that has read nothing. *)
LEMMA EmptyView == NoSummary \in View
BY DEF NoSummary, View, States, Runs, Attempts, DB!NoRun, DB!NoAttempt

(* One call of load() goes on to slot m, nothing else changes. *)
LEMMA CallMoves ==
  ASSUME ConsoleInv, NEW l \in Loads, NEW m \in Call,
         load' = [load EXCEPT ![l] = m], UNCHANGED <<database, shown, commits>>,
         m.pc # "reading" => m.read = {} /\ m.view = NoSummary,
         m.pc = "reading" => Behind(m.view, m.read) /\ Partial(m.view, m.read),
         m.pc # "idle" /\ ~m.overtaken /\ shown.kind = "live" =>
           /\ m.pc # "404"
           /\ m.pc = "reading" => Ahead(shown.view, m.view, m.read)
  PROVE  ConsoleInv'
<1>1. /\ load \in [Loads -> Call] /\ load' \in [Loads -> Call]
      /\ load'[l] = m /\ \A k \in Loads \ {l} : load'[k] = load[k]
  BY DEF ConsoleInv, Typed
<1>2. DatabaseInv' /\ LedgerInv' /\ recorded' = recorded /\ Ledger' = Ledger
  BY DatabaseUnchanged DEF ConsoleInv, database, Ledger
<1>3. Typed'
  BY <1>1, <1>2 DEF ConsoleInv, Typed, DatabaseInv
<1>4. Reading'
  <2>1. ASSUME NEW k \in Loads
        PROVE  /\ load'[k].pc # "reading" => load'[k].read = {} /\ load'[k].view = NoSummary
               /\ load'[k].pc = "reading" => /\ Behind(load'[k].view, load'[k].read)
                                             /\ Partial(load'[k].view, load'[k].read)
    BY <1>1 DEF ConsoleInv, Reading
  <2> QED
    BY <1>2, <2>1 DEF Reading, Behind, Partial, EventsFit, Windowed, database, tables
<1>5. ShownIsCausal'
  BY <1>2 DEF ConsoleInv, ShownIsCausal, Behind, Partial, EventsFit, Windowed, database, tables
<1>6. Fresh'
  <2>1. ASSUME NEW k \in Loads, load'[k].pc # "idle", ~load'[k].overtaken, shown.kind = "live"
        PROVE  /\ load'[k].pc # "404"
               /\ load'[k].pc = "reading" => Ahead(shown.view, load'[k].view, load'[k].read)
    BY <1>1, <2>1 DEF ConsoleInv, Fresh, UnderWay
  <2> QED
    BY <1>2, <2>1 DEF Fresh, Ahead, UnderWay
<1> QED
  BY <1>2, <1>3, <1>4, <1>5, <1>6 DEF ConsoleInv

(* What every step of one call starts from. *)
LEMMA CallTyped ==
  ASSUME ConsoleInv, NEW l \in Loads
  PROVE  /\ load[l] \in Call /\ load \in [Loads -> Call]
         /\ load[l] = [pc |-> load[l].pc, read |-> load[l].read, view |-> load[l].view,
                       overtaken |-> load[l].overtaken]
         /\ load[l].read \in SUBSET Parts /\ load[l].view \in View /\ load[l].overtaken \in BOOLEAN
         /\ load[l].view = [state |-> load[l].view.state, run |-> load[l].view.run,
                            attempt |-> load[l].view.attempt, events |-> load[l].view.events]
         /\ load[l].view.state \in States /\ load[l].view.run \in Runs
         /\ load[l].view.attempt \in Attempts /\ load[l].view.events \in SUBSET Drawn
         /\ commits \in 0 .. MaxCommits
         /\ state \in States /\ run \in Runs /\ attempt \in Attempts
<1>1. load \in [Loads -> Call] /\ load[l] \in Call
  BY DEF ConsoleInv, Typed
<1>2. load[l].view \in View
  BY <1>1 DEF Call
<1> QED
  BY <1>1, <1>2 DEF ConsoleInv, Typed, DatabaseTyped, Call, View

(* latest and byId *)
LEMMA AnswerBegins ==
  ASSUME ConsoleInv, NEW l \in Loads, NoIncident(l) \/ ReadIncident(l)
  PROVE  ConsoleInv'
<1>t. load[l] \in Call /\ load \in [Loads -> Call] /\ load[l].pc = "sent" /\ UnderWay(l)
      /\ load[l].read = {} /\ load[l].view = NoSummary
      /\ state \in States
  BY CallTyped DEF NoIncident, ReadIncident, UnderWay, ConsoleInv, Reading
<1>1. CASE NoIncident(l)
  <2> DEFINE m == [load[l] EXCEPT !.pc = "404"]
  <2>1. /\ m \in Call /\ m.pc = "404" /\ m.read = {} /\ m.view = NoSummary
        /\ m.overtaken = load[l].overtaken
    BY <1>t DEF Call
  <2>2. load' = [load EXCEPT ![l] = m] /\ UNCHANGED <<database, shown, commits>>
    BY <1>t, <1>1 DEF NoIncident
  <2>3. shown.kind # "live"
    BY <1>1 DEF NoIncident, ConsoleInv, ShownIsCausal, Behind
  <2> HIDE DEF m
  <2> QED
    BY <1>t, <2>1, <2>2, <2>3, CallMoves
<1>2. CASE ReadIncident(l)
  <2> DEFINE v == [load[l].view EXCEPT !.state = state]
             m == [load[l] EXCEPT !.pc = "reading", !.view = v]
  <2>1. /\ v \in View /\ v.state = state /\ v.events = {} /\ v.run.pull = FALSE
        /\ v.attempt = DB!NoAttempt
    <3>1. NoSummary.events = {} /\ NoSummary.run.pull = FALSE /\ NoSummary.attempt = DB!NoAttempt
      BY DEF NoSummary, DB!NoRun
    <3>2. v = [NoSummary EXCEPT !.state = state]
      BY <1>t
    <3> QED
      BY <1>t, <3>1, <3>2, EmptyView DEF View
  <2>2. load' = [load EXCEPT ![l] = m] /\ UNCHANGED <<database, shown, commits>>
    BY <1>t, <1>2 DEF ReadIncident, Call
  <2> HIDE DEF v
  <2>3. m \in Call /\ m.pc = "reading" /\ m.read = {} /\ m.view = v /\ m.overtaken = load[l].overtaken
    BY <1>t, <2>1 DEF Call
  <2> HIDE DEF m
  <2>4. Behind(v, {}) /\ Partial(v, {})
    BY <1>2, <2>1 DEF ReadIncident, Behind, Partial
  <2>5. shown.kind = "live" => Ahead(shown.view, v, {})
    BY <2>1 DEF ConsoleInv, ShownIsCausal, Behind, Ahead
  <2> QED
    BY <1>t, <2>2, <2>3, <2>4, <2>5, CallMoves
<1> QED
  BY <1>1, <1>2

(* One SELECT of byId. *)
LEMMA PartRead ==
  ASSUME ConsoleInv, NEW l \in Loads, ReadRun(l) \/ ReadAttempts(l) \/ ReadEvents(l)
  PROVE  ConsoleInv'
<1> DEFINE read == load[l].read
           view == load[l].view
<1>t. load[l] \in Call /\ load \in [Loads -> Call] /\ load[l].pc = "reading" /\ UnderWay(l)
      /\ read \in SUBSET Parts /\ view \in View
      /\ run \in Runs /\ attempt \in Attempts
      /\ UNCHANGED <<database, shown, commits>>
  BY CallTyped DEF ReadRun, ReadAttempts, ReadEvents, Reads, UnderWay
<1>b. Behind(view, read) /\ Partial(view, read) /\ view.state \in States
  BY <1>t, CallTyped DEF ConsoleInv, Reading
<1>a. ~load[l].overtaken /\ shown.kind = "live" => Ahead(shown.view, view, read)
  BY <1>t DEF ConsoleInv, Fresh
<1>s. shown.kind = "live" => Behind(shown.view, Parts)
  BY DEF ConsoleInv, ShownIsCausal
<1>m. ASSUME NEW v \in View, NEW r \in SUBSET Parts,
             load' = [load EXCEPT ![l] = [load[l] EXCEPT !.view = v, !.read = r]],
             Behind(v, r), Partial(v, r),
             ~load[l].overtaken /\ shown.kind = "live" => Ahead(shown.view, v, r)
      PROVE  ConsoleInv'
  <2> DEFINE m == [load[l] EXCEPT !.view = v, !.read = r]
  <2>1. m \in Call /\ m.pc = "reading" /\ m.read = r /\ m.view = v /\ m.overtaken = load[l].overtaken
    BY <1>t DEF Call
  <2>2. load' = [load EXCEPT ![l] = m]
    BY <1>m
  <2> HIDE DEF m
  <2> QED
    BY <1>t, <1>m, <2>1, <2>2, CallMoves
<1>1. CASE ReadRun(l)
  <2> DEFINE v == [view EXCEPT !.run = run]
             r == read \cup {"run"} \cup (IF run.state = "absent" THEN {"attempt"} ELSE {})
  <2>1. /\ v \in View /\ v.state = view.state /\ v.run = run /\ v.events = view.events
        /\ v.attempt = view.attempt
    BY <1>t DEF View
  <2>2. load' = [load EXCEPT ![l] = [load[l] EXCEPT !.view = v, !.read = r]]
    BY <1>t, <1>1 DEF ReadRun, Call
  <2>3. /\ r \in SUBSET Parts /\ "run" \in r /\ ("events" \in r <=> "events" \in read)
        /\ "attempt" \in r <=> run.state = "absent"
        /\ "attempt" \notin read
    BY <1>t, <1>b, <1>1 DEF Parts, ReadRun, Reads, Partial
  <2> HIDE DEF v, r
  <2>4. v.attempt = DB!NoAttempt /\ (run.state = "absent" => attempt = DB!NoAttempt)
    BY <1>b, <2>1, <2>3
       DEF Partial, ConsoleInv, DatabaseInv, RunAgrees, DB!Terminal, DB!Stopped, DB!NoAttempt
  <2>5. Behind(v, r)
    BY <1>b, <2>1, <2>3, <2>4 DEF Behind
  <2>6. RunFits(v.state, run)
    BY <1>b, <2>1, RunFitsNow DEF ConsoleInv, Behind
  <2>7. run.state = "absent" => ~run.pull
    BY DEF ConsoleInv, DatabaseInv, RunAgrees, DB!NoRun
  <2>8. Partial(v, r)
    BY <1>b, <2>1, <2>3, <2>4, <2>6, <2>7 DEF Partial
  <2>9. ~load[l].overtaken /\ shown.kind = "live" => Ahead(shown.view, v, r)
    BY <1>a, <1>s, <2>1, <2>3 DEF Ahead, Behind
  <2> QED
    BY <1>m, <2>1, <2>2, <2>3, <2>5, <2>8, <2>9
<1>2. CASE ReadAttempts(l)
  <2> DEFINE v == [view EXCEPT !.attempt = attempt]
             r == read \cup {"attempt"}
  <2>1. /\ v \in View /\ v.state = view.state /\ v.run = view.run /\ v.events = view.events
        /\ v.attempt = attempt
    BY <1>t DEF View
  <2>2. load' = [load EXCEPT ![l] = [load[l] EXCEPT !.view = v, !.read = r]]
    BY <1>t, <1>2 DEF ReadAttempts, Call
  <2>3. /\ r \in SUBSET Parts /\ "run" \in read /\ "run" \in r /\ "attempt" \in r
        /\ ("events" \in r <=> "events" \in read)
    BY <1>t, <1>2 DEF Parts, ReadAttempts, AttemptsAfterRun
  <2> HIDE DEF v, r
  <2>4. Behind(v, r)
    BY <1>b, <2>1, <2>3 DEF Behind
  <2>5. view.run.pull => attempt = "VALIDATED"
    BY <1>b DEF Behind, ConsoleInv, DatabaseInv, AttemptAgrees
  <2>6. Partial(v, r)
    BY <1>b, <2>1, <2>3, <2>5 DEF Partial
  <2>7. ~load[l].overtaken /\ shown.kind = "live" => Ahead(shown.view, v, r)
    BY <1>a, <2>1, <2>3 DEF Ahead
  <2> QED
    BY <1>m, <2>1, <2>2, <2>3, <2>4, <2>6, <2>7
<1>3. CASE ReadEvents(l)
  <2> DEFINE v == [view EXCEPT !.events = Ledger]
             r == read \cup {"events"}
  <2>1. /\ v \in View /\ v.state = view.state /\ v.run = view.run /\ v.attempt = view.attempt
        /\ v.events = Ledger
    BY <1>t, LedgerRead DEF View, ConsoleInv
  <2>2. load' = [load EXCEPT ![l] = [load[l] EXCEPT !.view = v, !.read = r]]
    BY <1>t, <1>3 DEF ReadEvents, Call
  <2>3. /\ r \in SUBSET Parts /\ ("run" \in r <=> "run" \in read)
        /\ ("attempt" \in r <=> "attempt" \in read)
    BY <1>t DEF Parts
  <2> HIDE DEF v, r
  <2>4. Behind(v, r)
    BY <1>b, <2>1, <2>3, LedgerRead DEF Behind, ConsoleInv
  <2>5. EventsFit(v.state, v.events)
    BY <1>b, <2>1, LedgerFits DEF ConsoleInv, Behind
  <2>6. Partial(v, r)
    BY <1>b, <2>1, <2>3, <2>5 DEF Partial
  <2>7. recorded <= EventLimit /\ shown.kind = "live" => shown.view.events \subseteq v.events
    <3>1. shown.kind = "live" => shown.view.events \subseteq Drawn
      BY DEF ConsoleInv, Typed, View
    <3> QED
      BY <1>s, <2>1, <3>1, LedgerRead DEF Behind, ConsoleInv
  <2>8. ~load[l].overtaken /\ shown.kind = "live" => Ahead(shown.view, v, r)
    BY <1>a, <2>1, <2>3, <2>7 DEF Ahead
  <2> QED
    BY <1>m, <2>1, <2>2, <2>3, <2>4, <2>6, <2>8
<1> QED
  BY <1>1, <1>2, <1>3

(* A request that fails. *)
LEMMA FailureStep ==
  ASSUME ConsoleInv, NEW l \in Loads, RequestFails(l)
  PROVE  ConsoleInv'
<1> DEFINE m == [load[l] EXCEPT !.pc = "failed", !.read = {}, !.view = NoSummary]
<1>t. load[l] \in Call /\ load \in [Loads -> Call]
  BY CallTyped
<1>1. m \in Call /\ m.pc = "failed" /\ m.read = {} /\ m.view = NoSummary
  BY <1>t, EmptyView DEF Call
<1>2. load' = [load EXCEPT ![l] = m] /\ UNCHANGED <<database, shown, commits>>
  BY <1>t, <1>1 DEF RequestFails, Call
<1> HIDE DEF m
<1> QED
  BY <1>1, <1>2, CallMoves

(* A call that starts has read nothing yet. *)
LEMMA StartStep ==
  ASSUME ConsoleInv, NEW l \in Loads, Start(l)
  PROVE  ConsoleInv'
<1> DEFINE m == [Idle EXCEPT !.pc = "sent"]
<1>1. m \in Call /\ m.pc = "sent" /\ m.read = {} /\ m.view = NoSummary
  BY EmptyView DEF Idle, Call
<1>2. load' = [load EXCEPT ![l] = m] /\ UNCHANGED <<database, shown, commits>>
  BY DEF Start
<1> HIDE DEF m
<1> QED
  BY <1>1, <1>2, CallMoves

(* The last step of a call.  Another call under way has been overtaken by it.*)
LEMMA ReturnStep ==
  ASSUME ConsoleInv, NEW l \in Loads, UnderWay(l), Returns(l),
         shown' \in [kind: {"nothing", "proof", "live"}, view: View],
         shown'.kind = "live" => Behind(shown'.view, Parts) /\ Partial(shown'.view, Parts)
  PROVE  ConsoleInv'
<1>1. /\ load \in [Loads -> Call] /\ Idle \in Call /\ Idle.pc = "idle" /\ Idle.read = {}
      /\ Idle.view = NoSummary /\ UNCHANGED database
  BY EmptyView, CallTyped DEF Idle, Call, Returns
<1>2. load'[l] = Idle
  BY DEF Returns
<1>3. ASSUME NEW k \in Loads \ {l}
      PROVE  /\ load'[k] \in Call /\ load'[k].pc = load[k].pc /\ load'[k].read = load[k].read
             /\ load'[k].view = load[k].view /\ (load'[k].overtaken <=> load[k].pc # "idle")
  <2>1. load[k] \in Call /\ UnderWay(k) \in BOOLEAN
    BY <1>1 DEF UnderWay
  <2>2. load'[k] = [load[k] EXCEPT !.overtaken = UnderWay(k)]
    BY DEF Returns
  <2> QED
    BY <2>1, <2>2 DEF Call, UnderWay
<1>4. load' \in [Loads -> Call]
  <2>1. \A k \in Loads : load'[k] \in Call
    BY <1>1, <1>2, <1>3
  <2> QED
    BY <2>1 DEF Returns
<1>5. DatabaseInv' /\ LedgerInv' /\ recorded' = recorded /\ Ledger' = Ledger
  BY <1>1, DatabaseUnchanged DEF ConsoleInv, database, Ledger
<1>6. commits' \in 0 .. MaxCommits
  <2>1. commits' = commits \/ commits' = 0
    BY DEF Returns
  <2>2. commits \in 0 .. MaxCommits /\ MaxCommits \in Nat
    BY CallTyped, MaxCommitsIsNat
  <2> QED
    BY <2>1, <2>2
<1>7. Typed'
  BY <1>4, <1>5, <1>6 DEF ConsoleInv, Typed, DatabaseInv
<1>8. Reading'
  <2>1. ASSUME NEW k \in Loads
        PROVE  /\ load'[k].pc # "reading" => load'[k].read = {} /\ load'[k].view = NoSummary
               /\ load'[k].pc = "reading" => /\ Behind(load'[k].view, load'[k].read)
                                             /\ Partial(load'[k].view, load'[k].read)
    BY <1>1, <1>2, <1>3 DEF ConsoleInv, Reading
  <2> QED
    BY <1>1, <1>5, <2>1 DEF Reading, Behind, Partial, EventsFit, Windowed, database, tables
<1>9. ShownIsCausal'
  BY <1>1, <1>5 DEF ShownIsCausal, Behind, Partial, EventsFit, Windowed, database, tables
<1>10. Fresh'
  <2>1. \A k \in Loads : load'[k].pc = "idle" \/ load'[k].overtaken
    BY <1>1, <1>2, <1>3
  <2> QED
    BY <2>1 DEF Fresh, UnderWay
<1> QED
  BY <1>5, <1>7, <1>8, <1>9, <1>10 DEF ConsoleInv

(* A call ends by its answer or by the recorded proof. *)
LEMMA DisplayStep ==
  ASSUME ConsoleInv, NEW l \in Loads, Show(l) \/ ShowProof(l)
  PROVE  ConsoleInv'
<1>1. CASE Show(l)
  <2>1. load[l].pc = "reading" /\ UnderWay(l)
    BY <1>1 DEF Show, ConsoleInv, Reading, Parts, UnderWay
  <2>2. Behind(load[l].view, Parts) /\ Partial(load[l].view, Parts) /\ load[l].view \in View
    BY <1>1, <2>1, CallTyped DEF Show, ConsoleInv, Reading
  <2>3. /\ shown' = [kind |-> "live", view |-> load[l].view] /\ Returns(l)
        /\ UNCHANGED database
    BY <1>1 DEF Show, Live, Returns
  <2>4. Behind(shown'.view, Parts) /\ Partial(shown'.view, Parts)
    BY <2>2, <2>3
  <2> QED
    BY <2>1, <2>2, <2>3, <2>4, ReturnStep
<1>2. CASE ShowProof(l)
  <2>1. UnderWay(l) /\ shown' = [kind |-> "proof", view |-> NoSummary] /\ Returns(l)
    BY <1>2 DEF ShowProof, UnderWay
  <2> QED
    BY <2>1, EmptyView, ReturnStep
<1> QED
  BY <1>1, <1>2

(* Every step of the servers and of the console keeps the invariant. *)
LEMMA ConsoleStep ==
  ASSUME ConsoleInv, [Next]_vars
  PROVE  ConsoleInv'
<1>t. /\ commits \in 0 .. MaxCommits /\ MaxCommits \in Nat
      /\ recorded \in 0 .. MaxEvents /\ MaxEvents \in Nat
  BY MaxCommitsIsNat, MaxEventsIsNat DEF ConsoleInv, Typed
<1>1. CASE UNCHANGED vars
  <2>1. /\ DatabaseInv' /\ LedgerInv' /\ Forward /\ UNCHANGED <<load, shown, commits>>
        /\ recorded' = recorded
    BY <1>1, DatabaseUnchanged DEF vars, database, ConsoleInv
  <2> QED
    BY <1>t, <2>1, CommitStep
<1>2. CASE Commit
  <2>1. DatabaseInv' /\ LedgerInv' /\ Forward
    BY <1>2, DatabaseCommits DEF ConsoleInv
  <2>2. UNCHANGED <<load, shown>> /\ commits' \in 0 .. MaxCommits
    BY <1>t, <1>2 DEF Commit
  <2>3. recorded' \in 0 .. MaxEvents
    BY <1>t, <1>2, <2>1 DEF Commit, LedgerInv
  <2> QED
    BY <2>1, <2>2, <2>3, CommitStep
<1>3. ASSUME NEW l \in Loads, LoadStep(l) \/ RequestFails(l) PROVE ConsoleInv'
  BY <1>3, StartStep, AnswerBegins, PartRead, DisplayStep, FailureStep DEF LoadStep
<1> QED
  BY <1>1, <1>2, <1>3 DEF Next

-----------------------------------------------------------------------------
(* The invariant holds of every run, however many calls overtake each other. *)
THEOREM InvariantHolds == Spec => []ConsoleInv
<1>1. Init => ConsoleInv
  <2> SUFFICES ASSUME Init PROVE ConsoleInv
    OBVIOUS
  <2>1. /\ state = "absent" /\ DB!Nothing /\ events = {}
        /\ load = [l \in Loads |-> Idle] /\ shown = [kind |-> "nothing", view |-> NoSummary]
        /\ commits = 0 /\ recorded = 0 /\ newest = [t \in Drawn |-> 0]
    BY DEF Init, DB!Init
  <2>2. DatabaseInv
    BY <2>1 DEF DatabaseInv, DatabaseTyped, Begun, Settling, RunAgrees, AttemptAgrees, States, Runs,
                Attempts, Early, DB!Nothing, DB!NoRun, DB!NoAttempt, DB!Terminal, DB!Stopped
  <2>3. Idle \in Call /\ Idle.pc = "idle" /\ Idle.read = {} /\ Idle.view = NoSummary
    BY EmptyView DEF Idle, Call
  <2>4. Typed
    <3>1. recorded \in 0 .. MaxEvents /\ commits \in 0 .. MaxCommits
      BY <2>1, MaxEventsIsNat, MaxCommitsIsNat
    <3> QED
      BY <2>1, <2>2, <2>3, <3>1, EmptyView DEF Typed, DatabaseInv
  <2>5. Reading /\ Fresh
    BY <2>1, <2>3 DEF Reading, Fresh, UnderWay
  <2>6. ShownIsCausal
    BY <2>1 DEF ShownIsCausal
  <2>7. LedgerInv
    <3>1. \A k \in Stages : EventTypes[k] \subseteq Drawn
      BY DEF Drawn
    <3> QED
      BY <2>1, <3>1 DEF LedgerInv, LedgerInOrder
  <2> QED
    BY <2>2, <2>4, <2>5, <2>6, <2>7 DEF ConsoleInv
<1>2. ConsoleInv /\ [Next]_vars => ConsoleInv'
  BY ConsoleStep
<1> QED
  BY <1>1, <1>2, PTL DEF Spec

(* The incident's tables hold only what the schema's enumerations allow, and *)
(* the calls and the display stay within their types.                        *)
THEOREM TypeCorrect == Spec => []TypeOK
<1>1. ASSUME ConsoleInv PROVE TypeOK
  <2>1. newest \in [Drawn -> 0 .. MaxEvents]
    <3>1. /\ newest \in [Drawn -> Nat] /\ recorded \in 0 .. MaxEvents
          /\ \A t \in Drawn : newest[t] \in Nat /\ newest[t] <= recorded
      BY <1>1 DEF ConsoleInv, LedgerInv, Typed
    <3>2. \A t \in Drawn : newest[t] \in 0 .. MaxEvents
      BY <3>1, MaxEventsIsNat
    <3> QED
      BY <3>1, <3>2
  <2> QED
    BY <1>1, <2>1 DEF ConsoleInv, Typed, DatabaseTyped, Call, States, Runs, Attempts, TypeOK
<1> QED
  BY <1>1, InvariantHolds, PTL

(* Each stage finds the incident as the next one takes for granted: nothing  *)
(* of a later stage is there before its request is.                          *)
THEOREM StagesHandOverHolds == Spec => []StagesHandOver
<1>1. ConsoleInv => StagesHandOver
  BY DEF ConsoleInv, DatabaseInv, Begun, Settling, StagesHandOver
<1> QED
  BY <1>1, InvariantHolds, PTL

(* A pull request has a validated attempt and an EXECUTE_REPAIR behind it,   *)
(* and no diagnosis that said anything else, however many clusters there are.*)
THEOREM PullIsBackedHolds == Spec => []PullIsBacked
<1>1. ASSUME ConsoleInv PROVE PullIsBacked
  <2>1. run.pull => requested
    BY <1>1 DEF ConsoleInv, DatabaseInv, RunAgrees, AttemptAgrees, Early
  <2> QED
    BY <1>1, <2>1 DEF ConsoleInv, DatabaseInv, Settling, AttemptAgrees, PullIsBacked
<1> QED
  BY <1>1, InvariantHolds, PTL

(* The stage that is drawn as the current one is one of the five, or none.   *)
LEMMA CurrentStageBounded ==
  ASSUME NEW view
  PROVE  CurrentStage(view) \in 0 .. 5
<1> DEFINE begun == {k \in Stages : HasEvents(view, k)}
           highest == IF begun = {} THEN 0 ELSE CHOOSE k \in begun : \A j \in begun : j <= k
<1>1. highest \in 0 .. 5
  <2>1. CASE begun = {}
    BY <2>1
  <2>2. CASE begun # {}
    <3>1. begun \subseteq {1, 2, 3, 4, 5}
      BY StageNumbers
    <3> HIDE DEF begun
    <3>2. \E k \in begun : \A j \in begun : j <= k
      <4>1. CASE 5 \in begun
        BY <3>1, <4>1
      <4>2. CASE 5 \notin begun /\ 4 \in begun
        BY <3>1, <4>2
      <4>3. CASE 5 \notin begun /\ 4 \notin begun /\ 3 \in begun
        BY <3>1, <4>3
      <4>4. CASE 5 \notin begun /\ 4 \notin begun /\ 3 \notin begun /\ 2 \in begun
        BY <3>1, <4>4
      <4>5. CASE 5 \notin begun /\ 4 \notin begun /\ 3 \notin begun /\ 2 \notin begun
        <5>1. begun = {1}
          BY <2>2, <3>1, <4>5
        <5> QED
          BY <5>1
      <4> QED
        BY <4>1, <4>2, <4>3, <4>4, <4>5
    <3>3. highest \in begun
      BY <2>2, <3>2
    <3> HIDE DEF highest
    <3>4. highest \in {1, 2, 3, 4, 5}
      BY <3>1, <3>3
    <3> QED
      BY <3>4
  <2> QED
    BY <2>1, <2>2
<1>2. CurrentStage(view) = IF view.state = "PATCHING" /\ highest < 4 THEN 4 ELSE highest
  BY DEF CurrentStage
<1> HIDE DEF highest
<1> QED
  BY <1>1, <1>2

(* A displayed summary does not contradict itself, for any number of calls   *)
(* and of transactions in between the SELECTs of one, and any length of the  *)
(* ledger: what is displayed as ended is displayed with its end, and what is *)
(* missing from the stages is what the limit of readEvents has pushed out.   *)
THEOREM ViewIsCausalHolds == Spec => []ViewIsCausal
<1>1. ASSUME ConsoleInv PROVE ViewIsCausal
  <2> DEFINE view == shown.view
             Complete(k) == StageState(view, k) = "complete"
  <2> SUFFICES ASSUME shown.kind = "live"
               PROVE  /\ view.state = "PR_OPENED" =>
                           /\ view.run.pull /\ view.attempt = "VALIDATED"
                           /\ Complete(4) /\ Complete(5)
                      /\ view.state \in DB!Stopped =>
                           /\ ~view.run.pull
                           /\ StageState(view, 5) = "blocked"
                           /\ \A k \in Stages : StageState(view, k) # "active"
                      /\ view.run.pull => view.attempt = "VALIDATED"
                      /\ \A j, k \in Stages :
                           j < k /\ Complete(k) /\ ~Complete(j)
                           => recorded > EventLimit /\ \A i \in Stages : i < j => ~Complete(i)
    BY DEF ViewIsCausal
  <2>1. /\ RunFits(view.state, view.run) /\ EventsFit(view.state, view.events)
        /\ view.run.pull => view.attempt = "VALIDATED"
    BY <1>1 DEF ConsoleInv, ShownIsCausal, Partial, Parts
  <2>2. \A k : Complete(k) <=> Begins(view.events, k)
    BY DEF StageState, HasEvents, Begins
  <2> HIDE DEF view
  <2>3. view.state = "PR_OPENED" => view.run.pull /\ Complete(4) /\ Complete(5)
    BY <2>1, <2>2 DEF RunFits, EventsFit
  <2> HIDE DEF Complete
  <2>4. \A j, k \in Stages : j < k /\ Complete(k) /\ ~Complete(j)
                             => recorded > EventLimit /\ \A i \in Stages : i < j => ~Complete(i)
    BY <2>1, <2>2 DEF EventsFit, Windowed
  <2>5. ASSUME view.state \in DB!Stopped
        PROVE  /\ ~view.run.pull
               /\ StageState(view, 5) = "blocked"
               /\ \A k \in Stages : StageState(view, k) # "active"
    <3>1. ~view.run.pull
      BY <2>1, <2>5 DEF RunFits
    <3>2. ~HasEvents(view, 5)
      BY <2>1, <2>5 DEF EventsFit, HasEvents, Begins
    <3>3. CurrentStage(view) \in 0 .. 5
      BY CurrentStageBounded
    <3>4. StageState(view, 5) = "blocked"
      BY <2>5, <3>2, <3>3 DEF StageState
    <3>5. \A k \in Stages : k = CurrentStage(view) => k >= CurrentStage(view)
      BY <3>3
    <3>6. \A k \in Stages : StageState(view, k) # "active"
      BY <2>5, <3>5 DEF StageState
    <3> QED
      BY <3>1, <3>4, <3>6
  <2> QED
    BY <2>1, <2>3, <2>4, <2>5
<1> QED
  BY <1>1, InvariantHolds, PTL

(* A call that has not been overtaken, and did not fail, never takes the     *)
(* display back: live data stays live, a pull request stays, an ended        *)
(* incident stays exactly as it is displayed, and no event vanishes before   *)
(* the ledger has more of them than are read.                                *)
THEOREM DisplayAdvancesHolds == Spec => DisplayAdvances
<1> DEFINE Advances(l) ==
             /\ shown.kind = "live" /\ UnderWay(l) /\ ~load[l].overtaken /\ load[l].pc # "failed"
             /\ ~UnderWay(l)'
             => /\ shown'.kind = "live"
                /\ shown.view.run.pull => shown'.view.run.pull
                /\ shown.view.state \in DB!Terminal => shown'.view = shown.view
                /\ recorded <= EventLimit => shown.view.events \subseteq shown'.view.events
<1>1. ASSUME ConsoleInv, [Next]_vars, NEW l \in Loads,
             shown.kind = "live", UnderWay(l), ~load[l].overtaken, load[l].pc # "failed",
             ~UnderWay(l)'
      PROVE  /\ shown'.kind = "live"
             /\ shown.view.run.pull => shown'.view.run.pull
             /\ shown.view.state \in DB!Terminal => shown'.view = shown.view
             /\ recorded <= EventLimit => shown.view.events \subseteq shown'.view.events
  <2>1. Show(l) \/ ShowProof(l)
    <3>1. /\ load'[l].pc = "idle" /\ load[l].pc # "idle"
          /\ load \in [Loads -> Call] /\ load[l] \in Call
      BY <1>1, CallTyped DEF UnderWay
    <3>2. ~UNCHANGED load
      BY <3>1
    <3>3. PICK k \in Loads : LoadStep(k) \/ RequestFails(k)
      BY <1>1, <3>2 DEF Next, Commit, vars
    <3>4. k = l
      <4>1. CASE (Show(k) \/ ShowProof(k)) /\ k # l
        <5>1. load'[l] = [load[l] EXCEPT !.overtaken = UnderWay(l)]
          BY <4>1 DEF Show, ShowProof, Returns
        <5>2. load'[l].pc = load[l].pc
          BY <3>1, <5>1 DEF Call
        <5> QED
          BY <3>1, <5>2
      <4>2. CASE ~(Show(k) \/ ShowProof(k)) /\ k # l
        <5>1. load'[l] = load[l]
          BY <3>1, <3>3, <4>2
             DEF LoadStep, Start, NoIncident, ReadIncident, ReadRun, ReadAttempts, ReadEvents,
                 RequestFails
        <5> QED
          BY <3>1, <5>1
      <4> QED
        BY <4>1, <4>2
    <3>5. ~Start(l)
      BY <1>1 DEF Start
    <3>6. ~NoIncident(l) /\ ~ReadIncident(l) /\ ~RequestFails(l)
      BY <3>1 DEF NoIncident, ReadIncident, RequestFails, Call
    <3>7. ~ReadRun(l) /\ ~ReadAttempts(l) /\ ~ReadEvents(l)
      BY <3>1 DEF ReadRun, ReadAttempts, ReadEvents, Reads, Call
    <3> QED
      BY <3>3, <3>4, <3>5, <3>6, <3>7 DEF LoadStep
  <2>2. CASE Show(l)
    <3>1. load[l].pc = "reading" /\ load[l].read = Parts
      BY <1>1, <2>2 DEF Show, ConsoleInv, Reading, Parts
    <3>2. Ahead(shown.view, load[l].view, Parts)
      BY <1>1, <3>1 DEF ConsoleInv, Fresh
    <3>3. shown' = [kind |-> "live", view |-> load[l].view]
      BY <2>2 DEF Show, Live
    <3>4. Behind(shown.view, Parts) /\ Behind(load[l].view, Parts)
      BY <1>1, <3>1 DEF ConsoleInv, Reading, ShownIsCausal
    <3>5. ASSUME shown.view.state \in DB!Terminal PROVE load[l].view = shown.view
      <4>1. /\ load[l].view.state = shown.view.state /\ load[l].view.run = shown.view.run
            /\ load[l].view.attempt = shown.view.attempt
            /\ load[l].view.events = shown.view.events
        BY <3>2, <3>4, <3>5 DEF Ahead, Behind, Parts
      <4>2. load[l].view \in View /\ shown.view \in View
        BY <1>1, CallTyped DEF ConsoleInv, Typed
      <4> QED
        BY <4>1, <4>2 DEF View
    <3> QED
      BY <3>2, <3>3, <3>5 DEF Ahead, Parts
  <2>3. CASE ShowProof(l)
    BY <1>1, <2>3 DEF ShowProof, ConsoleInv, Fresh
  <2> QED
    BY <2>1, <2>2, <2>3
<1>2. ConsoleInv /\ [Next]_vars => \A l \in Loads : Advances(l)
  BY <1>1
<1>3. ConsoleInv /\ [Next]_vars => [\A l \in Loads : Advances(l)]_vars
  BY <1>2
<1> QED
  BY <1>3, InvariantHolds, PTL DEF Spec, DisplayAdvances
=============================================================================
