----------------------------- MODULE IntakeProofs -----------------------------
(* Intake and ingestion are right for any number of runs, deliveries,        *)
(* requests and workers.  The argument: the two unique keys that the INSERTs *)
(* wait on let one request at a time create an incident (OneCreator); tokens *)
(* are never shared (LeasesFresh); a worker completes with just what one     *)
(* collect brought and it has stored (Collected).                            *)
EXTENDS Intake, OutboxRowProofs

Request == [pc: {"free", "deliver", "create", "commit"},
            delivery: Deliveries \cup {<<NoRun, NoRun>>}, created: BOOLEAN]
Slot == [pc: {"idle", "collect", "save", "failing"}, run: Runs \cup {NoRun}, token: Nat,
         unsaved: SUBSET Artifacts, saved: SUBSET Artifacts]
Incidents == {"absent", "RECEIVED", "CLUSTERING_FAILURES"}

Typed ==
  /\ received \subseteq Deliveries /\ answered \subseteq Deliveries
  /\ incident \in [Runs -> Incidents]
  /\ detected \in [Runs -> Nat]
  /\ row \in [Runs -> Row]
  /\ artifacts \in [Runs -> SUBSET Artifacts] /\ sealed \in [Runs -> SUBSET Artifacts]
  /\ handler \in [Handlers -> Request]
  /\ worker \in [Workers -> Slot]
  /\ failing \in [Runs -> SUBSET Logs]
  /\ faults \in 0 .. MaxFaults

Inserting(h) == handler[h].pc \in {"create", "commit"}
Creating(h) == handler[h].pc = "commit" /\ handler[h].created

(* What an open transaction has seen is still so when it commits. *)
OneCreator ==
  /\ \A h \in Handlers :
       /\ handler[h].pc # "free" => handler[h].delivery \in Deliveries
       /\ Inserting(h) => handler[h].delivery \notin received
       /\ handler[h].pc = "commit" =>
            (handler[h].created <=> incident[RunOf(handler[h].delivery)] = "absent")
  /\ \A g, h \in Handlers : g # h =>
       /\ ~(Inserting(g) /\ Inserting(h) /\ handler[g].delivery = handler[h].delivery)
       /\ ~(Creating(g) /\ Creating(h)
            /\ RunOf(handler[g].delivery) = RunOf(handler[h].delivery))

(* The tables of one run tell the same. *)
TablesAgree ==
  /\ \A r \in Runs :
       /\ detected[r] = IF incident[r] = "absent" THEN 0 ELSE 1
       /\ row[r].present <=> incident[r] # "absent"
       /\ row[r].done <=> incident[r] = "CLUSTERING_FAILURES"
       /\ row[r].done <=> sealed[r] # NotSealed
  /\ answered \subseteq received
  /\ \A d \in received : row[RunOf(d)].present

(* A token is that of one claim of one worker. *)
LeasesFresh ==
  /\ \A r \in Runs : /\ row[r].token \in {NoToken, row[r].attempts}
                     /\ row[r].token # NoToken => Open(row[r])
  /\ \A w \in Workers : worker[w].pc # "idle" =>
       /\ worker[w].run \in Runs /\ worker[w].token # NoToken
       /\ worker[w].token <= row[worker[w].run].attempts
  /\ \A v, w \in Workers :
       v # w /\ worker[v].pc # "idle" /\ worker[w].pc # "idle" /\ worker[v].run = worker[w].run
         => worker[v].token # worker[w].token

(* What a worker has put and is still to put is what one collect brought. *)
Collected ==
  /\ \A w \in Workers :
       /\ worker[w].pc \in {"idle", "collect"} => worker[w].unsaved = {} /\ worker[w].saved = {}
       /\ worker[w].pc = "idle" => worker[w] = Idle
       /\ worker[w].pc = "save" =>
            /\ \E failed \in SUBSET Logs :
                 worker[w].unsaved \cup worker[w].saved = Evidence(failed)
            /\ worker[w].saved \subseteq artifacts[worker[w].run]
  /\ SealIsOneCollect

IntakeInv == Typed /\ OneCreator /\ TablesAgree /\ LeasesFresh /\ Collected

(* Each claim of a run but the first is owed to a fault. *)
Holder(w, r) == worker[w].run = r /\ HeldUnder(row[r], worker[w].token)

ClaimsBoundedOf(r) ==
  /\ row[r].attempts <= 1 + faults
  /\ ~row[r].done /\ row[r].token = NoToken => row[r].attempts <= faults
  /\ row[r].token # NoToken /\ (row[r].lapsed \/ \A w \in Workers : ~Holder(w, r))
       => row[r].attempts <= faults
  /\ \A w \in Workers : Holder(w, r) /\ worker[w].pc = "failing" => row[r].attempts <= faults

ClaimsBounded == \A r \in Runs : ClaimsBoundedOf(r)

-----------------------------------------------------------------------------
(* The types that the proofs start from. *)
LEMMA EvidenceTyped ==
  ASSUME NEW failed \in SUBSET Logs
  PROVE  Evidence(failed) \in SUBSET Artifacts /\ Evidence(failed) # {}
<1>1. [kind |-> "workflow_jobs", of |-> failed] \in Artifacts
  BY DEF Artifacts
<1>2. [kind: {"job_log"}, of: failed] \subseteq Artifacts
  BY DEF Artifacts
<1> QED
  BY <1>1, <1>2 DEF Evidence

(* A worker at rest. *)
LEMMA IdleTyped == /\ Idle \in Slot /\ Idle.pc = "idle" /\ Idle.token = NoToken /\ Idle.run = NoRun
                   /\ Idle.unsaved = {} /\ Idle.saved = {}
BY DEF Idle, Slot, NoToken

(* A request that is not being handled. *)
LEMMA FreeTyped == Free \in Request /\ Free.pc = "free"
BY DEF Free, Request

(* Columns that no statement but the claim touches, and memories that are    *)
(* kept or forgotten, keep the tokens apart.                                 *)
LEMMA LeaseFrame ==
  ASSUME LeasesFresh, row \in [Runs -> Row],
         \A r \in Runs : /\ row'[r].attempts = row[r].attempts
                         /\ \/ row'[r].token = NoToken \/ row'[r] = row[r]
                            \/ row'[r].token = row[r].token /\ Open(row'[r]),
         \A w \in Workers : \/ worker'[w].pc = "idle"
                            \/ /\ worker[w].pc # "idle" /\ worker'[w].run = worker[w].run
                               /\ worker'[w].token = worker[w].token
  PROVE  LeasesFresh'
<1>1. ASSUME NEW r \in Runs
      PROVE  /\ row'[r].token \in {NoToken, row'[r].attempts}
             /\ row'[r].token # NoToken => Open(row'[r])
  BY <1>1 DEF LeasesFresh
<1>2. ASSUME NEW w \in Workers, worker'[w].pc # "idle"
      PROVE  /\ worker'[w].run \in Runs /\ worker'[w].token # NoToken
             /\ worker'[w].token <= row'[worker'[w].run].attempts
  BY <1>2 DEF LeasesFresh
<1>3. \A v, w \in Workers :
        v # w /\ worker'[v].pc # "idle" /\ worker'[w].pc # "idle" /\ worker'[v].run = worker'[w].run
          => worker'[v].token # worker'[w].token
  BY DEF LeasesFresh
<1> QED
  BY <1>1, <1>2, <1>3 DEF LeasesFresh

(* Artifacts are only added to, and what a worker put stays what it put. *)
LEMMA CollectedFrame ==
  ASSUME Collected, LeasesFresh, sealed' = sealed,
         \A r \in Runs : artifacts[r] \subseteq artifacts'[r],
         \A w \in Workers :
           \/ worker'[w] = Idle \/ worker'[w] = worker[w]
           \/ worker'[w].pc = "failing"
           \/ /\ worker'[w].pc = "collect" /\ worker'[w].unsaved = {} /\ worker'[w].saved = {}
           \/ /\ worker'[w].pc = "save"
              /\ \E failed \in SUBSET Logs :
                   worker'[w].unsaved \cup worker'[w].saved = Evidence(failed)
              /\ worker'[w].saved \subseteq artifacts'[worker'[w].run]
  PROVE  Collected'
<1>1. SealIsOneCollect'
  BY DEF Collected, SealIsOneCollect
<1>2. ASSUME NEW w \in Workers
      PROVE  /\ worker'[w].pc \in {"idle", "collect"} => worker'[w].unsaved = {} /\ worker'[w].saved = {}
             /\ worker'[w].pc = "idle" => worker'[w] = Idle
             /\ worker'[w].pc = "save" =>
                  /\ \E failed \in SUBSET Logs :
                       worker'[w].unsaved \cup worker'[w].saved = Evidence(failed)
                  /\ worker'[w].saved \subseteq artifacts'[worker'[w].run]
  <2>1. CASE worker'[w] = Idle
    BY <2>1, IdleTyped
  <2>2. CASE worker'[w] = worker[w]
    <3>1. worker[w].pc = "save" => worker[w].run \in Runs
      BY DEF LeasesFresh
    <3> QED
      BY <2>2, <3>1 DEF Collected
  <2> QED
    BY <2>1, <2>2
<1> QED
  BY <1>1, <1>2 DEF Collected

-----------------------------------------------------------------------------
(* The webhook's requests *)

(* A request goes on to slot m; only whether it is answered changes besides. *)
LEMMA RequestMoves ==
  ASSUME IntakeInv, NEW h \in Handlers, NEW m \in Request, handler' = [handler EXCEPT ![h] = m],
         UNCHANGED <<tables, worker, failing, faults>>,
         answered' \subseteq received, answered' \subseteq Deliveries,
         m.pc # "free" => m.delivery \in Deliveries,
         m.pc \in {"create", "commit"} =>
           /\ m.delivery \notin received
           /\ \A g \in Handlers \ {h} : ~(Inserting(g) /\ handler[g].delivery = m.delivery),
         m.pc = "commit" =>
           /\ m.created <=> incident[RunOf(m.delivery)] = "absent"
           /\ m.created => \A g \in Handlers \ {h} :
                             ~(Creating(g) /\ RunOf(handler[g].delivery) = RunOf(m.delivery))
  PROVE  IntakeInv'
<1>1. /\ handler \in [Handlers -> Request] /\ handler' \in [Handlers -> Request]
      /\ handler'[h] = m /\ \A g \in Handlers \ {h} : handler'[g] = handler[g]
  BY DEF IntakeInv, Typed
<1>2. Typed'
  BY <1>1 DEF IntakeInv, Typed, tables
<1>3. TablesAgree' /\ LeasesFresh' /\ Collected'
  BY DEF IntakeInv, TablesAgree, LeasesFresh, Collected, SealIsOneCollect, tables
<1>4. OneCreator'
  <2>1. ASSUME NEW g \in Handlers
        PROVE  /\ handler'[g].pc # "free" => handler'[g].delivery \in Deliveries
               /\ Inserting(g)' => handler'[g].delivery \notin received'
               /\ handler'[g].pc = "commit" =>
                    (handler'[g].created <=> incident'[RunOf(handler'[g].delivery)] = "absent")
    BY <1>1 DEF IntakeInv, OneCreator, Inserting, tables
  <2>2. ASSUME NEW f \in Handlers, NEW g \in Handlers, f # g
        PROVE  /\ ~(Inserting(f)' /\ Inserting(g)' /\ handler'[f].delivery = handler'[g].delivery)
               /\ ~(Creating(f)' /\ Creating(g)'
                    /\ RunOf(handler'[f].delivery) = RunOf(handler'[g].delivery))
    BY <1>1, <2>2 DEF IntakeInv, OneCreator, Inserting, Creating
  <2> QED
    BY <2>1, <2>2 DEF OneCreator
<1> QED
  BY <1>2, <1>3, <1>4 DEF IntakeInv

(* Each step of a request before its COMMIT, or instead of it. *)
LEMMA RequestStep ==
  ASSUME IntakeInv, NEW h \in Handlers,
         \/ \E d \in Deliveries : Receive(h, d)
         \/ AcceptDelivery(h) \/ RepeatedDelivery(h) \/ CreateIncident(h) \/ AbortWorkflow(h)
  PROVE  IntakeInv'
<1>t. /\ handler \in [Handlers -> Request] /\ handler[h] \in Request
      /\ answered \subseteq received /\ answered \subseteq Deliveries
      /\ received \subseteq Deliveries
      /\ handler[h].pc # "free" => handler[h].delivery \in Deliveries
  BY DEF IntakeInv, Typed, TablesAgree, OneCreator
<1>1. ASSUME NEW d \in Deliveries, Receive(h, d) PROVE IntakeInv'
  <2> DEFINE m == [Free EXCEPT !.pc = "deliver", !.delivery = d]
  <2>1. m \in Request /\ m.pc = "deliver" /\ m.delivery = d
    BY FreeTyped DEF Request
  <2>2. /\ handler' = [handler EXCEPT ![h] = m]
        /\ UNCHANGED <<tables, answered, worker, failing, faults>>
    BY <1>1 DEF Receive
  <2> HIDE DEF m
  <2> QED
    BY <1>t, <2>1, <2>2, RequestMoves
<1>2. CASE AcceptDelivery(h)
  <2> DEFINE m == [handler[h] EXCEPT !.pc = "create"]
  <2>1. m \in Request /\ m.pc = "create" /\ m.delivery = handler[h].delivery
    BY <1>t DEF Request
  <2>2. /\ handler' = [handler EXCEPT ![h] = m] /\ handler[h].pc # "free"
        /\ UNCHANGED <<tables, answered, worker, failing, faults>>
    BY <1>t, <1>2, <2>1 DEF AcceptDelivery, Request
  <2> HIDE DEF m
  <2>3. /\ m.delivery \notin received
        /\ \A g \in Handlers \ {h} : ~(Inserting(g) /\ handler[g].delivery = m.delivery)
    BY <1>2, <2>1 DEF AcceptDelivery, DeliveryKeyFree, Inserting
  <2> QED
    BY <1>t, <2>1, <2>2, <2>3, RequestMoves
<1>3. CASE RepeatedDelivery(h)
  <2>1. /\ handler' = [handler EXCEPT ![h] = Free]
        /\ UNCHANGED <<tables, worker, failing, faults>>
        /\ answered' = answered \cup {handler[h].delivery} /\ handler[h].delivery \in received
    BY <1>3 DEF RepeatedDelivery
  <2> QED
    BY <1>t, <2>1, FreeTyped, RequestMoves
<1>4. CASE CreateIncident(h)
  <2> DEFINE m == [handler[h] EXCEPT !.pc = "commit",
                                     !.created = incident[RunOf(handler[h].delivery)] = "absent"]
  <2>1. /\ m \in Request /\ m.pc = "commit" /\ m.delivery = handler[h].delivery
        /\ m.created <=> incident[RunOf(m.delivery)] = "absent"
    BY <1>t DEF Request
  <2>2. /\ handler' = [handler EXCEPT ![h] = m] /\ handler[h].pc = "create"
        /\ UNCHANGED <<tables, answered, worker, failing, faults>>
    BY <1>t, <1>4, <2>1 DEF CreateIncident, Request
  <2> HIDE DEF m
  <2>3. /\ m.delivery \notin received
        /\ \A g \in Handlers \ {h} : ~(Inserting(g) /\ handler[g].delivery = m.delivery)
    BY <2>1, <2>2 DEF IntakeInv, OneCreator, Inserting
  <2>4. \A g \in Handlers \ {h} : ~(Creating(g) /\ RunOf(handler[g].delivery) = RunOf(m.delivery))
    BY <1>4, <2>1 DEF CreateIncident, RunKeyFree, Creating
  <2> QED
    BY <1>t, <2>1, <2>2, <2>3, <2>4, RequestMoves
<1>5. CASE AbortWorkflow(h)
  <2>1. /\ handler' = [handler EXCEPT ![h] = Free]
        /\ UNCHANGED <<tables, answered, worker, failing, faults>>
    BY <1>5 DEF AbortWorkflow
  <2> QED
    BY <1>t, <2>1, FreeTyped, RequestMoves
<1> QED
  BY <1>1, <1>2, <1>3, <1>4, <1>5

(* The COMMIT of recordFailedWorkflow: what it inserts was not there.        *)
LEMMA CommitStep ==
  ASSUME IntakeInv, NEW h \in Handlers, NEW acknowledged \in BOOLEAN, CommitWorkflow(h, acknowledged)
  PROVE  IntakeInv'
<1> DEFINE d == handler[h].delivery
           r == RunOf(d)
<1>t. /\ handler \in [Handlers -> Request] /\ handler[h].pc = "commit" /\ Inserting(h)
      /\ d \in Deliveries /\ r \in Runs /\ d \notin received
      /\ handler[h].created <=> incident[r] = "absent"
      /\ handler[h].created <=> Creating(h)
  BY DEF IntakeInv, Typed, OneCreator, CommitWorkflow, Inserting, Creating, Deliveries, RunOf
<1>a. /\ incident \in [Runs -> Incidents] /\ detected \in [Runs -> Nat] /\ row \in [Runs -> Row]
      /\ received \subseteq Deliveries /\ answered \subseteq received
  BY DEF IntakeInv, Typed, TablesAgree
<1>1. /\ received' = received \cup {d} /\ answered' \subseteq answered \cup {d}
      /\ handler' = [handler EXCEPT ![h] = Free]
      /\ UNCHANGED <<artifacts, sealed, worker, failing, faults>>
  BY DEF CommitWorkflow, Recorded
<1>2. /\ handler' \in [Handlers -> Request] /\ handler'[h] = Free
      /\ \A g \in Handlers \ {h} : handler'[g] = handler[g]
  BY <1>t, <1>1, FreeTyped
<1>3. /\ handler[h].created => /\ incident' = [incident EXCEPT ![r] = "RECEIVED"]
                              /\ detected' = [detected EXCEPT ![r] = @ + 1]
                              /\ row' = [row EXCEPT ![r] = Inserted(@)]
      /\ ~handler[h].created => UNCHANGED <<incident, detected, row>>
  BY DEF CommitWorkflow
<1> HIDE DEF d, r
<1>4. /\ \A q \in Runs \ {r} : incident'[q] = incident[q] /\ detected'[q] = detected[q]
                               /\ row'[q] = row[q]
      /\ incident[r] # "absent" => /\ incident'[r] = incident[r] /\ detected'[r] = detected[r]
                                   /\ row'[r] = row[r]
      /\ incident[r] = "absent" => /\ incident'[r] = "RECEIVED" /\ detected'[r] = detected[r] + 1
                                   /\ row'[r] = Inserted(row[r])
      /\ incident' \in [Runs -> Incidents] /\ detected' \in [Runs -> Nat] /\ row' \in [Runs -> Row]
  <2>1. \A q \in Runs : Inserted(row[q]) \in Row
    BY <1>a, RowOperatorsTyped
  <2>2. detected[r] + 1 \in Nat
    BY <1>a, <1>t
  <2>3. CASE incident[r] = "absent"
    BY <1>t, <1>a, <1>3, <2>1, <2>2, <2>3 DEF Incidents
  <2>4. CASE incident[r] # "absent"
    BY <1>t, <1>a, <1>3, <2>4
  <2> QED
    BY <2>3, <2>4
<1>5. row'[r].present /\ (incident[r] = "absent" => row'[r].token = row[r].token
                          /\ row'[r].attempts = row[r].attempts /\ row'[r].done = row[r].done)
  <2>1. row[r] \in Row
    BY <1>t, <1>a
  <2>2. incident[r] # "absent" => row[r].present
    BY <1>t DEF IntakeInv, TablesAgree
  <2> QED
    BY <1>4, <2>1, <2>2, RowFields
<1>6. Typed'
  BY <1>t, <1>a, <1>1, <1>2, <1>4 DEF IntakeInv, Typed
<1>7. TablesAgree'
  <2>1. ASSUME NEW q \in Runs
        PROVE  /\ detected'[q] = IF incident'[q] = "absent" THEN 0 ELSE 1
               /\ row'[q].present <=> incident'[q] # "absent"
               /\ row'[q].done <=> incident'[q] = "CLUSTERING_FAILURES"
               /\ row'[q].done <=> sealed'[q] # NotSealed
    <3>1. CASE q # r \/ incident[r] # "absent"
      BY <1>1, <1>4, <3>1 DEF IntakeInv, TablesAgree
    <3>2. CASE q = r /\ incident[r] = "absent"
      <4>1. detected[r] = 0 /\ ~row[r].done /\ sealed[r] = NotSealed
        BY <1>t, <3>2 DEF IntakeInv, TablesAgree
      <4>2. row'[r].done = row[r].done /\ row'[r].present
        BY <1>5, <3>2
      <4> QED
        BY <1>1, <1>4, <3>2, <4>1, <4>2
    <3> QED
      BY <3>1, <3>2
  <2>2. \A e \in received : row'[RunOf(e)].present
    <3>1. ASSUME NEW e \in received PROVE row'[RunOf(e)].present
      <4>1. RunOf(e) \in Runs /\ row[RunOf(e)].present
        BY <1>a DEF IntakeInv, TablesAgree, Deliveries, RunOf
      <4> QED
        BY <1>4, <1>5, <4>1
    <3> QED
      BY <3>1
  <2>3. row'[RunOf(d)].present
    BY <1>5 DEF r
  <2> QED
    BY <1>a, <1>1, <2>1, <2>2, <2>3 DEF TablesAgree
<1>8. LeasesFresh'
  <2>1. \A q \in Runs : /\ row'[q].attempts = row[q].attempts
                        /\ \/ row'[q].token = NoToken \/ row'[q] = row[q]
                           \/ row'[q].token = row[q].token /\ Open(row'[q])
    <3>1. incident[r] = "absent" => ~row[r].present /\ ~row[r].done
      BY <1>t DEF IntakeInv, TablesAgree
    <3> QED
      BY <1>4, <1>5, <3>1 DEF Open
  <2> QED
    BY <1>a, <1>1, <2>1, LeaseFrame DEF IntakeInv
<1>9. Collected'
  BY <1>1, CollectedFrame DEF IntakeInv
<1>10. OneCreator'
  <2>1. ASSUME NEW g \in Handlers
        PROVE  /\ handler'[g].pc # "free" => handler'[g].delivery \in Deliveries
               /\ Inserting(g)' => handler'[g].delivery \notin received'
               /\ handler'[g].pc = "commit" =>
                    (handler'[g].created <=> incident'[RunOf(handler'[g].delivery)] = "absent")
    <3>1. CASE g = h
      BY <1>2, <3>1, FreeTyped DEF Inserting
    <3>2. CASE g # h
      <4>1. handler'[g] = handler[g]
        BY <1>2, <3>2
      <4>2. Inserting(g) => handler[g].delivery \notin received /\ handler[g].delivery # d
        BY <1>t, <3>2 DEF IntakeInv, OneCreator, d
      <4>3. ASSUME handler[g].pc = "commit"
            PROVE  handler[g].created <=> incident'[RunOf(handler[g].delivery)] = "absent"
        <5>1. handler[g].created <=> incident[RunOf(handler[g].delivery)] = "absent"
          BY <4>3 DEF IntakeInv, OneCreator
        <5>2. RunOf(handler[g].delivery) \in Runs
          BY <4>3 DEF IntakeInv, OneCreator, Deliveries, RunOf
        <5>3. CASE RunOf(handler[g].delivery) = r /\ incident[r] = "absent"
          <6>1. Creating(g) /\ Creating(h)
            BY <1>t, <4>3, <5>1, <5>3 DEF Creating
          <6> QED
            BY <3>2, <5>3, <6>1 DEF IntakeInv, OneCreator, r, d
        <5>4. CASE ~(RunOf(handler[g].delivery) = r /\ incident[r] = "absent")
          BY <1>4, <5>1, <5>2, <5>4
        <5> QED
          BY <5>3, <5>4
      <4>4. handler[g].pc # "free" => handler[g].delivery \in Deliveries
        BY DEF IntakeInv, OneCreator
      <4> QED
        BY <1>1, <4>1, <4>2, <4>3, <4>4 DEF Inserting
    <3> QED
      BY <3>1, <3>2
  <2>2. ASSUME NEW f \in Handlers, NEW g \in Handlers, f # g
        PROVE  /\ ~(Inserting(f)' /\ Inserting(g)' /\ handler'[f].delivery = handler'[g].delivery)
               /\ ~(Creating(f)' /\ Creating(g)'
                    /\ RunOf(handler'[f].delivery) = RunOf(handler'[g].delivery))
    BY <1>2, <2>2, FreeTyped DEF IntakeInv, OneCreator, Inserting, Creating
  <2> QED
    BY <2>1, <2>2 DEF OneCreator
<1> QED
  BY <1>6, <1>7, <1>8, <1>9, <1>10 DEF IntakeInv

-----------------------------------------------------------------------------
(* The ingestion worker *)

(* A worker goes on to slot m; of the tables only artifacts may grow. *)
LEMMA WorkerMoves ==
  ASSUME IntakeInv, NEW w \in Workers, NEW m \in Slot, worker' = [worker EXCEPT ![w] = m],
         UNCHANGED <<received, incident, detected, row, sealed, handler, answered, failing>>,
         faults' \in 0 .. MaxFaults, artifacts' \in [Runs -> SUBSET Artifacts],
         \A r \in Runs : artifacts[r] \subseteq artifacts'[r],
         \/ m = Idle
         \/ /\ worker[w].pc # "idle" /\ m.run = worker[w].run /\ m.token = worker[w].token
            /\ \/ m.pc = "failing"
               \/ /\ m.pc = "save" /\ m.saved \subseteq artifacts'[m.run]
                  /\ \E failed \in SUBSET Logs : m.unsaved \cup m.saved = Evidence(failed)
  PROVE  IntakeInv'
<1>1. /\ worker \in [Workers -> Slot] /\ worker' \in [Workers -> Slot]
      /\ worker'[w] = m /\ \A v \in Workers \ {w} : worker'[v] = worker[v]
  BY DEF IntakeInv, Typed
<1>2. Typed'
  BY <1>1 DEF IntakeInv, Typed
<1>3. OneCreator' /\ TablesAgree'
  BY DEF IntakeInv, OneCreator, Inserting, Creating, TablesAgree
<1>4. LeasesFresh'
  <2>1. \A v \in Workers : \/ worker'[v].pc = "idle"
                           \/ /\ worker[v].pc # "idle" /\ worker'[v].run = worker[v].run
                              /\ worker'[v].token = worker[v].token
    BY <1>1, IdleTyped
  <2> QED
    BY <2>1, LeaseFrame DEF IntakeInv, Typed
<1>5. Collected'
  BY <1>1, CollectedFrame DEF IntakeInv
<1> QED
  BY <1>2, <1>3, <1>4, <1>5 DEF IntakeInv

(* Each step of a worker that leaves the row alone, and its death. *)
LEMMA WorkStep ==
  ASSUME IntakeInv, NEW w \in Workers,
         \/ Collect(w) \/ (\E a \in Artifacts : Save(w, a)) \/ IngestFails(w) \/ CompleteLate(w)
         \/ LoseLease(w) \/ Crash(w)
  PROVE  IntakeInv'
<1>t. /\ worker \in [Workers -> Slot] /\ worker[w] \in Slot
      /\ artifacts \in [Runs -> SUBSET Artifacts] /\ failing \in [Runs -> SUBSET Logs]
      /\ faults \in 0 .. MaxFaults /\ MaxFaults \in Nat
      /\ worker[w].pc # "idle" => worker[w].run \in Runs
  BY MaxFaultsIsNat DEF IntakeInv, Typed, LeasesFresh
<1>1. CASE Collect(w)
  <2> DEFINE unsaved == Evidence(failing[worker[w].run])
             m == [worker[w] EXCEPT !.pc = "save", !.unsaved = unsaved]
  <2>1. /\ worker[w].pc = "collect" /\ worker[w].saved = {} /\ worker[w].run \in Runs
        /\ UNCHANGED <<tables, handler, answered, failing, faults>>
    BY <1>t, <1>1 DEF Collect, IntakeInv, Collected
  <2>2. failing[worker[w].run] \in SUBSET Logs /\ unsaved \in SUBSET Artifacts
    BY <1>t, <2>1, EvidenceTyped
  <2>3. worker' = [worker EXCEPT ![w] = m]
    BY <1>t, <1>1 DEF Collect, Slot
  <2>6. \E failed \in SUBSET Logs : unsaved = Evidence(failed)
    BY <2>2
  <2> HIDE DEF unsaved
  <2>4. /\ m \in Slot /\ m.pc = "save" /\ m.unsaved = unsaved /\ m.saved = {}
        /\ m.run = worker[w].run /\ m.token = worker[w].token
    BY <1>t, <2>1, <2>2 DEF Slot
  <2> HIDE DEF m
  <2>5. \E failed \in SUBSET Logs : m.unsaved \cup m.saved = Evidence(failed)
    BY <2>4, <2>6
  <2> QED
    BY <1>t, <2>1, <2>3, <2>4, <2>5, WorkerMoves DEF tables
<1>2. ASSUME NEW a \in Artifacts, Save(w, a) PROVE IntakeInv'
  <2> DEFINE r == worker[w].run
             unsaved == worker[w].unsaved \ {a}
             saved == worker[w].saved \cup {a}
             m == [worker[w] EXCEPT !.unsaved = unsaved, !.saved = saved]
  <2>1. /\ worker[w].pc = "save" /\ r \in Runs /\ a \in worker[w].unsaved
        /\ worker[w].unsaved \in SUBSET Artifacts /\ worker[w].saved \in SUBSET Artifacts
        /\ UNCHANGED <<received, incident, detected, row, sealed, handler, answered, failing, faults>>
    BY <1>t, <1>2 DEF Save, Slot
  <2>2. artifacts' = [artifacts EXCEPT ![r] = artifacts[r] \cup {a}]
    BY <1>t, <1>2 DEF Save, Stored
  <2>3. worker' = [worker EXCEPT ![w] = m]
    BY <1>t, <1>2 DEF Save, Slot
  <2>4. /\ worker[w].saved \subseteq artifacts[r]
        /\ \E failed \in SUBSET Logs : worker[w].unsaved \cup worker[w].saved = Evidence(failed)
    BY <2>1 DEF IntakeInv, Collected
  <2>5. unsaved \cup saved = worker[w].unsaved \cup worker[w].saved
    BY <2>1
  <2>6. unsaved \in SUBSET Artifacts /\ saved \in SUBSET Artifacts
    BY <2>1
  <2>7. /\ artifacts' \in [Runs -> SUBSET Artifacts]
        /\ \A q \in Runs : artifacts[q] \subseteq artifacts'[q]
        /\ saved \subseteq artifacts'[r]
    BY <1>t, <2>1, <2>2, <2>4
  <2> HIDE DEF unsaved, saved
  <2>8. /\ m \in Slot /\ m.pc = "save" /\ m.unsaved = unsaved /\ m.saved = saved
        /\ m.run = r /\ m.token = worker[w].token
    BY <1>t, <2>1, <2>6 DEF Slot
  <2> HIDE DEF m
  <2>9. \E failed \in SUBSET Logs : m.unsaved \cup m.saved = Evidence(failed)
    BY <2>4, <2>5, <2>8
  <2> QED
    BY <1>t, <2>1, <2>3, <2>7, <2>8, <2>9, WorkerMoves
<1>3. CASE IngestFails(w) \/ CompleteLate(w)
  <2> DEFINE m == [worker[w] EXCEPT !.pc = "failing"]
  <2>1. /\ worker' = [worker EXCEPT ![w] = m] /\ worker[w].pc # "idle"
        /\ UNCHANGED <<tables, handler, answered, failing>>
    BY <1>3 DEF IngestFails, CompleteLate
  <2>2. m \in Slot /\ m.pc = "failing" /\ m.run = worker[w].run /\ m.token = worker[w].token
    BY <1>t DEF Slot
  <2>3. faults' \in 0 .. MaxFaults
    BY <1>t, <1>3 DEF IngestFails, CompleteLate
  <2> HIDE DEF m
  <2> QED
    BY <1>t, <2>1, <2>2, <2>3, WorkerMoves DEF tables
<1>4. CASE LoseLease(w) \/ Crash(w)
  <2>1. worker' = [worker EXCEPT ![w] = Idle] /\ UNCHANGED <<tables, handler, answered, failing>>
    BY <1>4 DEF LoseLease, Crash
  <2>2. faults' \in 0 .. MaxFaults
    BY <1>t, <1>4 DEF LoseLease, Crash
  <2> QED
    BY <1>t, <2>1, <2>2, IdleTyped, WorkerMoves DEF tables
<1> QED
  BY <1>1, <1>2, <1>3, <1>4

(* The row of r becomes x, with the columns that tell what was done kept;    *)
(* workers remember or forget.                                               *)
LEMMA RowMoves ==
  ASSUME IntakeInv, NEW r \in Runs, NEW x \in Row, row' = [row EXCEPT ![r] = x],
         x.attempts = row[r].attempts, x.present = row[r].present, x.done = row[r].done,
         x.token = NoToken \/ (x.token = row[r].token /\ Open(x)),
         UNCHANGED <<received, incident, detected, artifacts, sealed, handler, answered, failing>>,
         faults' \in 0 .. MaxFaults,
         worker' \in [Workers -> Slot],
         \A w \in Workers : worker'[w] = worker[w] \/ worker'[w] = Idle
  PROVE  IntakeInv'
<1>1. /\ row \in [Runs -> Row] /\ row' \in [Runs -> Row] /\ row'[r] = x
      /\ \A q \in Runs \ {r} : row'[q] = row[q]
      /\ \A q \in Runs : /\ row'[q].attempts = row[q].attempts /\ row'[q].present = row[q].present
                         /\ row'[q].done = row[q].done
  BY DEF IntakeInv, Typed
<1>2. Typed'
  BY <1>1 DEF IntakeInv, Typed
<1>3. TablesAgree'
  <2>1. \A d \in received : RunOf(d) \in Runs
    BY DEF IntakeInv, Typed, Deliveries, RunOf
  <2> QED
    BY <1>1, <2>1 DEF IntakeInv, TablesAgree
<1>4. OneCreator'
  BY DEF IntakeInv, OneCreator, Inserting, Creating
<1>5. LeasesFresh'
  <2>1. \A w \in Workers : \/ worker'[w].pc = "idle"
                           \/ /\ worker[w].pc # "idle" /\ worker'[w].run = worker[w].run
                              /\ worker'[w].token = worker[w].token
    BY IdleTyped
  <2>2. \A q \in Runs : /\ row'[q].attempts = row[q].attempts
                        /\ \/ row'[q].token = NoToken \/ row'[q] = row[q]
                           \/ row'[q].token = row[q].token /\ Open(row'[q])
    BY <1>1
  <2> QED
    BY <1>1, <2>1, <2>2, LeaseFrame DEF IntakeInv
<1>6. Collected'
  BY CollectedFrame DEF IntakeInv
<1> QED
  BY <1>2, <1>3, <1>4, <1>5, <1>6 DEF IntakeInv

(* The token check of a settled or rescheduled row. *)
LEMMA HeldRow ==
  ASSUME IntakeInv, NEW w \in Workers, Holds(w)
  PROVE  /\ worker[w].run \in Runs /\ worker[w].pc # "idle" /\ Open(row[worker[w].run])
         /\ row[worker[w].run].token = worker[w].token /\ worker[w].token # NoToken
         /\ incident[worker[w].run] = "RECEIVED" /\ sealed[worker[w].run] = NotSealed
<1>1. worker[w].pc # "idle"
  BY IdleTyped DEF Holds, IntakeInv, Collected
<1>2. worker[w].run \in Runs
  BY <1>1 DEF IntakeInv, LeasesFresh
<1>3. /\ row[worker[w].run].token = worker[w].token /\ worker[w].token # NoToken
      /\ ~row[worker[w].run].done
  BY DEF Holds, HeldUnder
<1>4. Open(row[worker[w].run])
  BY <1>2, <1>3 DEF IntakeInv, LeasesFresh
<1>5. incident[worker[w].run] \in Incidents
  BY <1>2 DEF IntakeInv, Typed
<1> QED
  BY <1>1, <1>2, <1>3, <1>4, <1>5 DEF IntakeInv, TablesAgree, Incidents, Open

(* Rescheduling, and the two moments that the clock brings. *)
LEMMA RowStep ==
  ASSUME IntakeInv,
         \/ \E w \in Workers : Reschedule(w)
         \/ \E r \in Runs : LeaseLapses(r) \/ BackoffElapses(r)
  PROVE  IntakeInv'
<1>t. /\ row \in [Runs -> Row] /\ worker \in [Workers -> Slot]
      /\ faults \in 0 .. MaxFaults /\ MaxFaults \in Nat
  BY MaxFaultsIsNat DEF IntakeInv, Typed
<1>1. ASSUME NEW w \in Workers, Reschedule(w) PROVE IntakeInv'
  <2> DEFINE r == worker[w].run
             x == Rescheduled(row[r])
  <2>1. Holds(w) /\ r \in Runs
    BY <1>1, HeldRow DEF Reschedule
  <2>2. /\ row' = [row EXCEPT ![r] = x] /\ worker' = [worker EXCEPT ![w] = Idle]
        /\ UNCHANGED <<received, incident, detected, artifacts, sealed, handler, answered, failing,
                       faults>>
    BY <1>1 DEF Reschedule
  <2>3. /\ x \in Row /\ x.attempts = row[r].attempts /\ x.present = row[r].present
        /\ x.done = row[r].done /\ x.token = NoToken
    <3>1. row[r] \in Row
      BY <1>t, <2>1
    <3> QED
      BY <3>1, RowOperatorsTyped, RowFields
  <2> HIDE DEF r, x
  <2>4. worker' \in [Workers -> Slot] /\ \A v \in Workers : worker'[v] = worker[v] \/ worker'[v] = Idle
    BY <1>t, <2>2, IdleTyped
  <2> QED
    BY <1>t, <2>1, <2>2, <2>3, <2>4, RowMoves
<1>2. ASSUME NEW r \in Runs, LeaseLapses(r) PROVE IntakeInv'
  <2> DEFINE x == LeaseRunsOut(row[r])
  <2>1. /\ row' = [row EXCEPT ![r] = x] /\ Open(row[r])
        /\ UNCHANGED <<received, incident, detected, artifacts, sealed, handler, answered, worker,
                       failing>>
    BY <1>2 DEF LeaseLapses
  <2>2. /\ x \in Row /\ x.attempts = row[r].attempts /\ x.present = row[r].present
        /\ x.done = row[r].done /\ x.token = row[r].token
    <3>1. row[r] \in Row
      BY <1>t
    <3> QED
      BY <3>1, RowOperatorsTyped, RowFields
  <2>3. Open(x)
    BY <2>1, <2>2 DEF Open
  <2>4. faults' \in 0 .. MaxFaults
    BY <1>t, <1>2 DEF LeaseLapses
  <2> HIDE DEF x
  <2> QED
    BY <1>t, <2>1, <2>2, <2>3, <2>4, RowMoves
<1>3. ASSUME NEW r \in Runs, BackoffElapses(r) PROVE IntakeInv'
  <2> DEFINE x == BackoffRunsOut(row[r])
  <2>1. /\ row' = [row EXCEPT ![r] = x] /\ Open(row[r])
        /\ UNCHANGED <<received, incident, detected, artifacts, sealed, handler, answered, worker,
                       failing, faults>>
    BY <1>3 DEF BackoffElapses
  <2>2. /\ x \in Row /\ x.attempts = row[r].attempts /\ x.present = row[r].present
        /\ x.done = row[r].done /\ x.token = row[r].token
    <3>1. row[r] \in Row
      BY <1>t
    <3> QED
      BY <3>1, RowOperatorsTyped, RowFields
  <2>3. Open(x)
    BY <2>1, <2>2 DEF Open
  <2> HIDE DEF x
  <2> QED
    BY <1>t, <2>1, <2>2, <2>3, RowMoves
<1> QED
  BY <1>1, <1>2, <1>3

(* A claim takes a token that nobody has. *)
LEMMA ClaimStep ==
  ASSUME IntakeInv, NEW w \in Workers, NEW r \in Runs, Claim(w, r)
  PROVE  IntakeInv'
<1> DEFINE x == Claimed(row[r])
           n == row[r].attempts + 1
           m == [Idle EXCEPT !.pc = "collect", !.run = r, !.token = row'[r].token]
<1>t. /\ row \in [Runs -> Row] /\ row[r] \in Row /\ worker \in [Workers -> Slot]
      /\ row[r].attempts \in Nat /\ Open(row[r]) /\ worker[w].pc = "idle"
  BY DEF IntakeInv, Typed, Row, Claim, Claimable
<1>1. /\ row' = [row EXCEPT ![r] = x] /\ worker' = [worker EXCEPT ![w] = m]
      /\ UNCHANGED <<received, incident, detected, artifacts, sealed, handler, answered, failing, faults>>
  BY DEF Claim
<1>2. /\ x \in Row /\ x.attempts = n /\ x.present = row[r].present /\ x.done = row[r].done
      /\ x.token = n /\ n \in Nat /\ n # NoToken
  <2>1. x \in Row /\ x.attempts = n /\ x.present = row[r].present /\ x.done = row[r].done
        /\ x.token = n
    BY <1>t, RowOperatorsTyped, RowFields
  <2>2. n \in Nat /\ n # 0
    BY <1>t
  <2> QED
    BY <2>1, <2>2 DEF NoToken
<1>3. /\ row' \in [Runs -> Row] /\ row'[r] = x
      /\ \A q \in Runs \ {r} : row'[q] = row[q]
  BY <1>t, <1>1, <1>2
<1>4. /\ m \in Slot /\ m.pc = "collect" /\ m.run = r /\ m.token = n
      /\ m.unsaved = {} /\ m.saved = {}
  BY <1>2, <1>3, IdleTyped DEF Slot
<1> HIDE DEF x, m
<1>5. /\ worker' \in [Workers -> Slot] /\ worker'[w] = m
      /\ \A v \in Workers \ {w} : worker'[v] = worker[v]
  BY <1>t, <1>1, <1>4
<1>6. Typed'
  BY <1>1, <1>3, <1>5 DEF IntakeInv, Typed
<1>7. TablesAgree'
  <2>1. \A d \in received : RunOf(d) \in Runs
    BY DEF IntakeInv, Typed, Deliveries, RunOf
  <2> QED
    BY <1>1, <1>2, <1>3, <2>1 DEF IntakeInv, TablesAgree
<1>8. OneCreator'
  BY <1>1 DEF IntakeInv, OneCreator, Inserting, Creating
<1>9. LeasesFresh'
  <2>1. ASSUME NEW q \in Runs
        PROVE  /\ row'[q].token \in {NoToken, row'[q].attempts}
               /\ row'[q].token # NoToken => Open(row'[q])
    BY <1>t, <1>2, <1>3 DEF IntakeInv, LeasesFresh, Open
  <2>2. ASSUME NEW v \in Workers \ {w}, worker[v].pc # "idle"
        PROVE  /\ worker[v].run \in Runs /\ worker[v].token # NoToken
               /\ worker[v].token \in Nat /\ row[worker[v].run].attempts \in Nat
               /\ worker[v].token <= row[worker[v].run].attempts
    BY <1>t, <2>2 DEF IntakeInv, LeasesFresh, Slot, Row
  <2>3. ASSUME NEW v \in Workers \ {w}, worker[v].pc # "idle", worker[v].run = r
        PROVE  worker[v].token <= n /\ worker[v].token # n
    BY <1>t, <2>2, <2>3
  <2>4. ASSUME NEW v \in Workers, worker'[v].pc # "idle"
        PROVE  /\ worker'[v].run \in Runs /\ worker'[v].token # NoToken
               /\ worker'[v].token <= row'[worker'[v].run].attempts
    <3>1. CASE v = w
      BY <1>2, <1>3, <1>4, <1>5, <3>1
    <3>2. CASE v # w /\ worker[v].run = r
      BY <1>2, <1>3, <1>5, <2>2, <2>3, <2>4, <3>2
    <3>3. CASE v # w /\ worker[v].run # r
      BY <1>3, <1>5, <2>2, <2>4, <3>3
    <3> QED
      BY <3>1, <3>2, <3>3
  <2>5. ASSUME NEW u \in Workers, NEW v \in Workers, u # v, worker'[u].pc # "idle",
               worker'[v].pc # "idle", worker'[u].run = worker'[v].run
        PROVE  worker'[u].token # worker'[v].token
    <3>1. CASE u # w /\ v # w
      BY <1>5, <2>5, <3>1 DEF IntakeInv, LeasesFresh
    <3>2. CASE u = w \/ v = w
      BY <1>4, <1>5, <2>3, <2>5, <3>2
    <3> QED
      BY <3>1, <3>2
  <2> QED
    BY <2>1, <2>4, <2>5 DEF LeasesFresh
<1>10. Collected'
  <2>1. \A v \in Workers :
          \/ worker'[v] = worker[v]
          \/ worker'[v].pc = "collect" /\ worker'[v].unsaved = {} /\ worker'[v].saved = {}
    BY <1>4, <1>5
  <2> QED
    BY <1>1, <2>1, CollectedFrame DEF IntakeInv
<1> QED
  BY <1>6, <1>7, <1>8, <1>9, <1>10 DEF IntakeInv

(* complete: what is sealed is all that the collect brought, and stored. *)
LEMMA CompleteStep ==
  ASSUME IntakeInv, NEW w \in Workers, NEW acknowledged \in BOOLEAN, Complete(w, acknowledged)
  PROVE  IntakeInv'
<1> DEFINE r == worker[w].run
           x == Completed(row[r])
           m == IF acknowledged THEN Idle ELSE [worker[w] EXCEPT !.pc = "failing"]
<1>t. /\ row \in [Runs -> Row] /\ worker \in [Workers -> Slot] /\ worker[w] \in Slot
      /\ incident \in [Runs -> Incidents] /\ sealed \in [Runs -> SUBSET Artifacts]
      /\ artifacts \in [Runs -> SUBSET Artifacts]
      /\ r \in Runs /\ Open(row[r]) /\ incident[r] = "RECEIVED" /\ sealed[r] = NotSealed
      /\ worker[w].pc = "save" /\ worker[w].unsaved = {} /\ worker[w].saved \in SUBSET Artifacts
  BY HeldRow DEF IntakeInv, Typed, Complete, ReadyToComplete, Slot
<1>s. /\ \E failed \in SUBSET Logs : worker[w].saved = Evidence(failed)
      /\ worker[w].saved \subseteq artifacts[r] /\ worker[w].saved # NotSealed
  <2>1. PICK failed \in SUBSET Logs : worker[w].unsaved \cup worker[w].saved = Evidence(failed)
    BY <1>t DEF IntakeInv, Collected
  <2>2. worker[w].saved = Evidence(failed) /\ Evidence(failed) # {}
    BY <1>t, <2>1, EvidenceTyped
  <2> QED
    BY <1>t, <2>2 DEF IntakeInv, Collected, NotSealed
<1>1. /\ row' = [row EXCEPT ![r] = x]
      /\ incident' = [incident EXCEPT ![r] = "CLUSTERING_FAILURES"]
      /\ sealed' = [sealed EXCEPT ![r] = worker[w].saved]
      /\ worker' = [worker EXCEPT ![w] = m]
      /\ UNCHANGED <<received, detected, artifacts, handler, answered, failing, faults>>
  BY <1>t DEF Complete
<1>2. /\ x \in Row /\ x.attempts = row[r].attempts /\ x.present /\ x.done /\ x.token = NoToken
  <2>1. row[r] \in Row /\ row[r].present
    BY <1>t DEF Open
  <2> QED
    BY <2>1, RowOperatorsTyped, RowFields
<1>3. /\ m \in Slot
      /\ m = Idle \/ (m.pc = "failing" /\ m.run = r /\ m.token = worker[w].token)
  <2>1. CASE acknowledged
    BY <2>1, IdleTyped
  <2>2. CASE ~acknowledged
    BY <1>t, <2>2 DEF Slot
  <2> QED
    BY <2>1, <2>2
<1> HIDE DEF r, x, m
<1>4. /\ row' \in [Runs -> Row] /\ row'[r] = x /\ \A q \in Runs \ {r} : row'[q] = row[q]
      /\ incident' \in [Runs -> Incidents] /\ incident'[r] = "CLUSTERING_FAILURES"
      /\ \A q \in Runs \ {r} : incident'[q] = incident[q]
      /\ sealed' \in [Runs -> SUBSET Artifacts] /\ sealed'[r] = worker[w].saved
      /\ \A q \in Runs \ {r} : sealed'[q] = sealed[q]
  BY <1>t, <1>1, <1>2 DEF Incidents
<1>5. /\ worker' \in [Workers -> Slot] /\ worker'[w] = m
      /\ \A v \in Workers \ {w} : worker'[v] = worker[v]
  BY <1>t, <1>1, <1>3
<1>6. Typed'
  BY <1>1, <1>4, <1>5 DEF IntakeInv, Typed
<1>7. TablesAgree'
  <2>1. ASSUME NEW q \in Runs
        PROVE  /\ detected'[q] = IF incident'[q] = "absent" THEN 0 ELSE 1
               /\ row'[q].present <=> incident'[q] # "absent"
               /\ row'[q].done <=> incident'[q] = "CLUSTERING_FAILURES"
               /\ row'[q].done <=> sealed'[q] # NotSealed
    <3>1. CASE q # r
      BY <1>1, <1>4, <3>1 DEF IntakeInv, TablesAgree
    <3>2. CASE q = r
      <4>1. detected[r] = 1
        BY <1>t DEF IntakeInv, TablesAgree
      <4> QED
        BY <1>1, <1>2, <1>4, <1>s, <3>2, <4>1
    <3> QED
      BY <3>1, <3>2
  <2>2. \A d \in received : RunOf(d) \in Runs /\ row[RunOf(d)].present
    BY DEF IntakeInv, Typed, TablesAgree, Deliveries, RunOf
  <2>3. \A d \in received : row'[RunOf(d)].present
    BY <1>2, <1>4, <2>2
  <2>4. answered' \subseteq received' /\ received' = received
    BY <1>1 DEF IntakeInv, TablesAgree
  <2> QED
    BY <2>1, <2>3, <2>4 DEF TablesAgree
<1>8. OneCreator'
  <2>1. \A h \in Handlers : handler[h].pc = "commit" => RunOf(handler[h].delivery) \in Runs
    BY DEF IntakeInv, OneCreator, Deliveries, RunOf
  <2>2. \A q \in Runs : incident'[q] = "absent" <=> incident[q] = "absent"
    BY <1>t, <1>4
  <2> QED
    BY <1>1, <2>1, <2>2 DEF IntakeInv, OneCreator, Inserting, Creating
<1>9. LeasesFresh'
  <2>1. \A v \in Workers : \/ worker'[v].pc = "idle"
                           \/ /\ worker[v].pc # "idle" /\ worker'[v].run = worker[v].run
                              /\ worker'[v].token = worker[v].token
    BY <1>t, <1>3, <1>5, IdleTyped DEF r
  <2>2. \A q \in Runs : /\ row'[q].attempts = row[q].attempts
                        /\ \/ row'[q].token = NoToken \/ row'[q] = row[q]
                           \/ row'[q].token = row[q].token /\ Open(row'[q])
    BY <1>2, <1>4
  <2> QED
    BY <1>t, <2>1, <2>2, LeaseFrame DEF IntakeInv
<1>10. Collected'
  <2>1. SealIsOneCollect'
    <3>1. ASSUME NEW q \in Runs, sealed'[q] # NotSealed
          PROVE  /\ \E failed \in SUBSET Logs : sealed'[q] = Evidence(failed)
                 /\ sealed'[q] \subseteq artifacts'[q]
      <4>1. CASE q = r
        BY <1>1, <1>4, <1>s, <4>1
      <4>2. CASE q # r
        BY <1>1, <1>4, <3>1, <4>2 DEF IntakeInv, Collected, SealIsOneCollect
      <4> QED
        BY <4>1, <4>2
    <3> QED
      BY <3>1 DEF SealIsOneCollect
  <2>2. ASSUME NEW v \in Workers
        PROVE  /\ worker'[v].pc \in {"idle", "collect"} => worker'[v].unsaved = {} /\ worker'[v].saved = {}
               /\ worker'[v].pc = "idle" => worker'[v] = Idle
               /\ worker'[v].pc = "save" =>
                    /\ \E failed \in SUBSET Logs :
                         worker'[v].unsaved \cup worker'[v].saved = Evidence(failed)
                    /\ worker'[v].saved \subseteq artifacts'[worker'[v].run]
    <3>1. CASE v = w
      BY <1>3, <1>5, <3>1, IdleTyped
    <3>2. CASE v # w
      BY <1>1, <1>5, <3>2 DEF IntakeInv, Collected
    <3> QED
      BY <3>1, <3>2
  <2> QED
    BY <2>1, <2>2 DEF Collected
<1> QED
  BY <1>6, <1>7, <1>8, <1>9, <1>10 DEF IntakeInv

(* Every step of the requests, the workers, the clock and GitHub keeps the   *)
(* invariant.                                                                *)
LEMMA IntakeStep ==
  ASSUME IntakeInv, [Next]_vars
  PROVE  IntakeInv'
<1>0. ASSUME UNCHANGED <<received, incident, detected, row, artifacts, sealed, handler, answered,
                         worker, faults>>,
             failing' \in [Runs -> SUBSET Logs]
      PROVE  IntakeInv'
  <2>1. Typed'
    BY <1>0 DEF IntakeInv, Typed
  <2>2. OneCreator' /\ TablesAgree'
    BY <1>0 DEF IntakeInv, OneCreator, Inserting, Creating, TablesAgree
  <2>3. LeasesFresh' /\ Collected'
    BY <1>0 DEF IntakeInv, LeasesFresh, Collected, SealIsOneCollect
  <2> QED
    BY <2>1, <2>2, <2>3 DEF IntakeInv
<1>f. failing \in [Runs -> SUBSET Logs]
  BY DEF IntakeInv, Typed
<1>1. CASE UNCHANGED vars
  BY <1>0, <1>1, <1>f DEF vars, tables
<1>2. ASSUME NEW r \in Runs, NEW logs \in SUBSET Logs, ReRun(r, logs) PROVE IntakeInv'
  BY <1>0, <1>2, <1>f DEF ReRun, tables
<1>3. ASSUME NEW h \in Handlers, HandlerStep(h) PROVE IntakeInv'
  BY <1>3, RequestStep, CommitStep DEF HandlerStep
<1>4. ASSUME NEW w \in Workers, WorkerStep(w) \/ Crash(w) PROVE IntakeInv'
  BY <1>4, WorkStep, RowStep, ClaimStep, CompleteStep DEF WorkerStep
<1>5. ASSUME NEW r \in Runs, LeaseLapses(r) \/ BackoffElapses(r) PROVE IntakeInv'
  BY <1>5, RowStep
<1> QED
  BY <1>1, <1>2, <1>3, <1>4, <1>5 DEF Next

-----------------------------------------------------------------------------
(* The invariant holds of every run of the intake. *)
THEOREM InvariantHolds == Spec => []IntakeInv
<1>1. Init => IntakeInv
  <2> SUFFICES ASSUME Init PROVE IntakeInv
    OBVIOUS
  <2>1. Absent \in Row /\ ~Absent.present /\ ~Absent.done /\ Absent.token = NoToken
    BY DEF Absent, Row, NoToken
  <2>2. Typed
    BY <2>1, IdleTyped, FreeTyped, MaxFaultsIsNat DEF Init, Typed, Incidents, NotSealed
  <2>3. OneCreator /\ TablesAgree
    BY <2>1, FreeTyped DEF Init, OneCreator, Inserting, Creating, TablesAgree, NotSealed
  <2>4. LeasesFresh /\ Collected
    BY <2>1, IdleTyped DEF Init, LeasesFresh, Collected, SealIsOneCollect, NotSealed
  <2> QED
    BY <2>2, <2>3, <2>4 DEF IntakeInv
<1>2. IntakeInv /\ [Next]_vars => IntakeInv'
  BY IntakeStep
<1> QED
  BY <1>1, <1>2, PTL DEF Spec

(* The tables, requests and memories stay within their types. *)
THEOREM TypeCorrect == Spec => []TypeOK
<1>1. IntakeInv => TypeOK
  BY DEF IntakeInv, Typed, OneCreator, LeasesFresh, Slot, Incidents, TypeOK
<1> QED
  BY <1>1, InvariantHolds, PTL

(* However many deliveries of a run are handled at once, one incident, one   *)
(* detection event and one ingestion come of them.                           *)
THEOREM OneIncidentPerRunHolds == Spec => []OneIncidentPerRun
<1>1. IntakeInv => OneIncidentPerRun
  BY DEF IntakeInv, TablesAgree, OneIncidentPerRun
<1> QED
  BY <1>1, InvariantHolds, PTL

(* What was answered 202 is on record, and its ingestion is requested. *)
THEOREM AcceptedIsDurableHolds == Spec => []AcceptedIsDurable
<1>1. IntakeInv => AcceptedIsDurable
  BY DEF IntakeInv, TablesAgree, AcceptedIsDurable
<1> QED
  BY <1>1, InvariantHolds, PTL

(* Sealed evidence is the outcome of one collect, and all of it is stored. *)
THEOREM SealIsOneCollectHolds == Spec => []SealIsOneCollect
<1>1. IntakeInv => SealIsOneCollect
  BY DEF IntakeInv, Collected
<1> QED
  BY <1>1, InvariantHolds, PTL

(* Evidence is sealed once: only an open row is completed. *)
THEOREM SealIsFinalHolds == Spec => SealIsFinal
<1>1. ASSUME IntakeInv, [Next]_vars, NEW r \in Runs, sealed[r] # NotSealed
      PROVE  sealed'[r] = sealed[r]
  <2>1. ASSUME NEW w \in Workers, NEW acknowledged \in BOOLEAN, Complete(w, acknowledged)
        PROVE  sealed'[r] = sealed[r]
    <3>1. worker[w].run # r
      BY <1>1, <2>1, HeldRow DEF Complete
    <3>2. sealed \in [Runs -> SUBSET Artifacts]
      BY <1>1 DEF IntakeInv, Typed
    <3> QED
      BY <2>1, <3>1, <3>2 DEF Complete
  <2>2. CASE UNCHANGED vars
    BY <2>2 DEF vars, tables
  <2>3. ASSUME NEW h \in Handlers, HandlerStep(h) PROVE sealed' = sealed
    BY <2>3 DEF HandlerStep, Receive, AcceptDelivery, RepeatedDelivery, CreateIncident,
                CommitWorkflow, AbortWorkflow, tables
  <2>4. ASSUME NEW w \in Workers, WorkerStep(w) \/ Crash(w) PROVE sealed'[r] = sealed[r]
    <3>1. CASE \E acknowledged \in BOOLEAN : Complete(w, acknowledged)
      BY <2>1, <3>1
    <3>2. CASE ~\E acknowledged \in BOOLEAN : Complete(w, acknowledged)
      BY <2>4, <3>2 DEF WorkerStep, Claim, Collect, Save, IngestFails, CompleteLate, Reschedule,
                        LoseLease, Crash, tables
    <3> QED
      BY <3>1, <3>2
  <2>5. ASSUME NEW q \in Runs,
               LeaseLapses(q) \/ BackoffElapses(q) \/ \E logs \in SUBSET Logs : ReRun(q, logs)
        PROVE  sealed' = sealed
    BY <2>5 DEF LeaseLapses, BackoffElapses, ReRun, tables
  <2> QED
    BY <1>1, <2>2, <2>3, <2>4, <2>5 DEF Next
<1>2. IntakeInv /\ IntakeInv' /\ [Next]_vars =>
        [\A r \in Runs :
           /\ sealed[r] # NotSealed => sealed'[r] = sealed[r]
           /\ (sealed'[r] # NotSealed <=> row'[r].done)
           /\ (row'[r].done <=> incident'[r] = "CLUSTERING_FAILURES")]_vars
  BY <1>1 DEF IntakeInv, TablesAgree
<1> QED
  BY <1>2, InvariantHolds, PTL DEF Spec, SealIsFinal

-----------------------------------------------------------------------------
(* How often a run may be claimed *)

(* w holds the row as before, and has not failed meanwhile. *)
SameHolder(w, r) ==
  /\ Holder(w, r)' <=> Holder(w, r)
  /\ Holder(w, r) /\ worker'[w].pc = "failing" => worker[w].pc = "failing"

(* Columns that no claim touches. *)
LEMMA BoundFrame ==
  ASSUME NEW r \in Runs, ClaimsBoundedOf(r), row[r].attempts \in Nat, faults \in Nat,
         row'[r].attempts = row[r].attempts,
         \/ faults' = faults + 1
         \/ faults' = faults /\ row[r].attempts <= faults
         \/ faults' = faults /\ row'[r].done /\ row'[r].token = NoToken
         \/ /\ faults' = faults /\ row'[r].token = row[r].token /\ row'[r].done = row[r].done
            /\ row'[r].lapsed = row[r].lapsed
            /\ \A w \in Workers : SameHolder(w, r)
  PROVE  ClaimsBoundedOf(r)'
<1>1. CASE faults' = faults + 1
  <2>1. row[r].attempts <= 1 + faults
    BY DEF ClaimsBoundedOf
  <2>2. row'[r].attempts <= faults' /\ row'[r].attempts <= 1 + faults'
    BY <1>1, <2>1
  <2> QED
    BY <2>2 DEF ClaimsBoundedOf
<1>2. CASE faults' = faults /\ row[r].attempts <= faults
  <2>1. row'[r].attempts <= faults' /\ row'[r].attempts <= 1 + faults'
    BY <1>2
  <2> QED
    BY <2>1 DEF ClaimsBoundedOf
<1>3. CASE faults' = faults /\ row'[r].done /\ row'[r].token = NoToken
  <2>1. \A w \in Workers : ~Holder(w, r)'
    BY <1>3 DEF Holder, HeldUnder
  <2> QED
    BY <1>3, <2>1 DEF ClaimsBoundedOf
<1>4. CASE /\ faults' = faults /\ row'[r].token = row[r].token /\ row'[r].done = row[r].done
           /\ row'[r].lapsed = row[r].lapsed
           /\ \A w \in Workers : SameHolder(w, r)
  <2>1. /\ row'[r].attempts <= 1 + faults'
        /\ ~row'[r].done /\ row'[r].token = NoToken => row'[r].attempts <= faults'
    BY <1>4 DEF ClaimsBoundedOf
  <2>2. ASSUME row'[r].token # NoToken, row'[r].lapsed \/ \A w \in Workers : ~Holder(w, r)'
        PROVE  row'[r].attempts <= faults'
    <3>1. row[r].token # NoToken /\ (row[r].lapsed \/ \A w \in Workers : ~Holder(w, r))
      BY <1>4, <2>2 DEF SameHolder
    <3> QED
      BY <1>4, <3>1 DEF ClaimsBoundedOf
  <2>3. ASSUME NEW w \in Workers, Holder(w, r)', worker'[w].pc = "failing"
        PROVE  row'[r].attempts <= faults'
    <3>1. Holder(w, r) /\ worker[w].pc = "failing"
      BY <1>4, <2>3 DEF SameHolder
    <3> QED
      BY <1>4, <3>1 DEF ClaimsBoundedOf
  <2> QED
    BY <2>1, <2>2, <2>3 DEF ClaimsBoundedOf
<1> QED
  BY <1>1, <1>2, <1>3, <1>4

(* Each step keeps the bound on the claims of a run. *)
LEMMA ClaimsBoundedStep ==
  ASSUME IntakeInv, NEW r \in Runs, ClaimsBoundedOf(r), [Next]_vars
  PROVE  ClaimsBoundedOf(r)'
<1>t. /\ row \in [Runs -> Row] /\ row[r] \in Row /\ worker \in [Workers -> Slot]
      /\ row[r].attempts \in Nat /\ row[r].token \in Nat /\ faults \in Nat
      /\ handler \in [Handlers -> Request]
  BY MaxFaultsIsNat DEF IntakeInv, Typed, Row
<1>h. \A w \in Workers : Holder(w, r) => Holds(w)
  BY RunsAssumption DEF Holder, Holds
<1>u. ASSUME row'[r].attempts = row[r].attempts, row'[r].token = row[r].token,
             row'[r].done = row[r].done, row'[r].lapsed = row[r].lapsed, faults' = faults,
             \A w \in Workers :
               \/ worker'[w] = worker[w]
               \/ ~Holder(w, r) /\ (worker'[w] = Idle \/ (worker'[w].run = worker[w].run
                                                      /\ worker'[w].token = worker[w].token))
               \/ /\ worker'[w].run = worker[w].run /\ worker'[w].token = worker[w].token
                  /\ worker'[w].pc # "failing"
               \/ worker'[w].run # r /\ ~Holder(w, r)
      PROVE  ClaimsBoundedOf(r)'
  <2>1. ASSUME NEW w \in Workers
        PROVE  SameHolder(w, r)
    BY <1>u, IdleTyped DEF SameHolder, Holder, HeldUnder
  <2> QED
    BY <1>t, <1>u, <2>1, BoundFrame
<1>1. CASE UNCHANGED <<row, worker, faults>>
  BY <1>u, <1>1
<1>2. ASSUME NEW h \in Handlers, NEW acknowledged \in BOOLEAN, CommitWorkflow(h, acknowledged)
      PROVE  ClaimsBoundedOf(r)'
  <2>1. UNCHANGED <<worker, faults>> /\ (row'[r] = row[r] \/ row'[r] = Inserted(row[r]))
    BY <1>t, <1>2 DEF CommitWorkflow
  <2>2. /\ row'[r].attempts = row[r].attempts /\ row'[r].token = row[r].token
        /\ row'[r].done = row[r].done /\ row'[r].lapsed = row[r].lapsed
    BY <1>t, <2>1, RowFields, RowClock
  <2> QED
    BY <1>u, <2>1, <2>2
<1>3. ASSUME NEW w \in Workers, NEW q \in Runs, Claim(w, q) PROVE ClaimsBoundedOf(r)'
  <2> DEFINE m == [Idle EXCEPT !.pc = "collect", !.run = q, !.token = row'[q].token]
  <2>1. /\ worker' = [worker EXCEPT ![w] = m] /\ faults' = faults
        /\ row' = [row EXCEPT ![q] = Claimed(row[q])]
        /\ worker[w].pc = "idle" /\ Claimable(row[q])
    BY <1>3 DEF Claim
  <2>2. m.pc = "collect" /\ m.run = q /\ m.token = row'[q].token
    BY DEF Idle
  <2> HIDE DEF m
  <2>3. worker'[w] = m /\ \A v \in Workers \ {w} : worker'[v] = worker[v]
    BY <1>t, <2>1
  <2>4. worker[w] = Idle
    BY <2>1 DEF IntakeInv, Collected
  <2>5. ~Holder(w, r)
    BY <2>4, IdleTyped DEF Holder, HeldUnder
  <2>6. CASE q # r
    <3>1. row'[r] = row[r]
      BY <1>t, <2>1, <2>6
    <3> QED
      BY <1>u, <2>1, <2>2, <2>3, <2>5, <2>6, <3>1
  <2>7. CASE q = r
    <3> DEFINE n == row[r].attempts + 1
    <3>1. row'[r].token = n /\ row'[r].attempts = n /\ ~row'[r].lapsed /\ ~row'[r].done
      <4>1. row'[r] = Claimed(row[r]) /\ ~row[r].done
        BY <1>t, <2>1, <2>7 DEF Claimable, Open
      <4> QED
        BY <1>t, <4>1, RowFields, RowClock
    <3>2. row[r].attempts <= faults
      BY <2>1, <2>7 DEF Claimable, Open, ClaimsBoundedOf
    <3>3. n <= 1 + faults' /\ n \in Nat /\ n # NoToken
      BY <1>t, <2>1, <3>2 DEF NoToken
    <3> HIDE DEF n
    <3>4. Holder(w, r)'
      BY <2>2, <2>3, <2>7, <3>1, <3>3 DEF Holder, HeldUnder
    <3>5. ASSUME NEW v \in Workers, Holder(v, r)', worker'[v].pc = "failing" PROVE FALSE
      <4>1. v # w
        BY <2>2, <2>3, <3>5
      <4>2. worker[v].run = r /\ worker[v].token = n /\ worker[v].pc # "idle"
        BY <2>3, <3>1, <3>5, <4>1 DEF Holder, HeldUnder
      <4>3. worker[v].token <= row[r].attempts
        BY <4>2 DEF IntakeInv, LeasesFresh
      <4> QED
        BY <1>t, <4>2, <4>3 DEF n
    <3> QED
      BY <3>1, <3>3, <3>4, <3>5 DEF ClaimsBoundedOf
  <2> QED
    BY <2>6, <2>7
<1>4. ASSUME NEW w \in Workers, Collect(w) \/ (\E a \in Artifacts : Save(w, a)) PROVE ClaimsBoundedOf(r)'
  <2>1. UNCHANGED <<row, faults>> /\ \A v \in Workers \ {w} : worker'[v] = worker[v]
    BY <1>t, <1>4 DEF Collect, Save, tables
  <2>2. worker'[w].pc = "save" /\ worker'[w].run = worker[w].run /\ worker'[w].token = worker[w].token
    <3>1. \E u, s : worker'[w] = [worker[w] EXCEPT !.pc = "save", !.unsaved = u, !.saved = s]
      <4>1. CASE Collect(w)
        <5>1. worker'[w] = [worker[w] EXCEPT !.pc = "save",
                                             !.unsaved = Evidence(failing[worker[w].run]),
                                             !.saved = worker[w].saved]
          BY <1>t, <4>1 DEF Collect, Slot
        <5> QED
          BY <5>1
      <4>2. ASSUME NEW a \in Artifacts, Save(w, a)
            PROVE  \E u, s : worker'[w] = [worker[w] EXCEPT !.pc = "save", !.unsaved = u, !.saved = s]
        <5>1. worker'[w] = [worker[w] EXCEPT !.pc = "save", !.unsaved = worker[w].unsaved \ {a},
                                             !.saved = worker[w].saved \cup {a}]
          BY <1>t, <4>2 DEF Save, Slot
        <5> QED
          BY <5>1
      <4> QED
        BY <1>4, <4>1, <4>2
    <3> QED
      BY <1>t, <3>1 DEF Slot
  <2> QED
    BY <1>u, <2>1, <2>2
<1>5. ASSUME NEW w \in Workers, IngestFails(w) \/ Crash(w) PROVE ClaimsBoundedOf(r)'
  BY <1>t, <1>5, BoundFrame DEF IngestFails, Crash, tables
<1>6. ASSUME NEW w \in Workers, CompleteLate(w) \/ LoseLease(w) PROVE ClaimsBoundedOf(r)'
  <2>1. UNCHANGED <<row, faults>> /\ \A v \in Workers \ {w} : worker'[v] = worker[v]
    BY <1>t, <1>6 DEF CompleteLate, LoseLease, tables
  <2>2. ~Holder(w, r)
    BY <1>h, <1>6 DEF CompleteLate, LoseLease
  <2>3. \/ worker'[w] = Idle
        \/ worker'[w].run = worker[w].run /\ worker'[w].token = worker[w].token
    BY <1>t, <1>6 DEF CompleteLate, LoseLease, Slot
  <2> QED
    BY <1>u, <2>1, <2>2, <2>3
<1>7. ASSUME NEW w \in Workers, NEW acknowledged \in BOOLEAN, Complete(w, acknowledged)
      PROVE  ClaimsBoundedOf(r)'
  <2>1. worker[w].run \in Runs /\ faults' = faults /\ worker[w].pc # "idle"
        /\ row' = [row EXCEPT ![worker[w].run] = Completed(row[worker[w].run])]
        /\ \A v \in Workers \ {w} : worker'[v] = worker[v]
    BY <1>t, <1>7, HeldRow DEF Complete
  <2>2. CASE worker[w].run = r
    <3>1. row'[r] = Completed(row[r])
      BY <1>t, <2>1, <2>2
    <3>2. row'[r].attempts = row[r].attempts /\ row'[r].done /\ row'[r].token = NoToken
      BY <1>t, <3>1, RowFields
    <3> QED
      BY <1>t, <2>1, <3>2, BoundFrame
  <2>3. CASE worker[w].run # r
    <3>1. row'[r] = row[r]
      BY <1>t, <2>1, <2>3
    <3>2. worker'[w].run # r
      BY <1>t, <1>7, <2>3, IdleTyped, RunsAssumption DEF Complete, Slot
    <3>3. ~Holder(w, r)
      BY <2>3 DEF Holder
    <3> QED
      BY <1>u, <2>1, <3>1, <3>2, <3>3
  <2> QED
    BY <2>2, <2>3
<1>8. ASSUME NEW w \in Workers, Reschedule(w) PROVE ClaimsBoundedOf(r)'
  <2>1. worker[w].run \in Runs /\ faults' = faults /\ worker[w].pc = "failing" /\ Holds(w)
        /\ row' = [row EXCEPT ![worker[w].run] = Rescheduled(row[worker[w].run])]
        /\ worker' = [worker EXCEPT ![w] = Idle]
    BY <1>8, HeldRow DEF Reschedule
  <2>2. CASE worker[w].run = r
    <3>1. row'[r] = Rescheduled(row[r]) /\ Holder(w, r)
      BY <1>t, <2>1, <2>2 DEF Holder, Holds
    <3>2. row'[r].attempts = row[r].attempts /\ row[r].attempts <= faults
      BY <1>t, <2>1, <3>1, RowFields DEF ClaimsBoundedOf
    <3> QED
      BY <1>t, <2>1, <3>2, BoundFrame
  <2>3. CASE worker[w].run # r
    <3>1. row'[r] = row[r] /\ ~Holder(w, r)
      BY <1>t, <2>1, <2>3 DEF Holder
    <3>2. \A v \in Workers : worker'[v] = worker[v] \/ (v = w /\ worker'[v] = Idle)
      BY <1>t, <2>1
    <3> QED
      BY <1>u, <2>1, <3>1, <3>2
  <2> QED
    BY <2>2, <2>3
<1>9. ASSUME NEW q \in Runs, LeaseLapses(q) PROVE ClaimsBoundedOf(r)'
  <2>1. row' = [row EXCEPT ![q] = LeaseRunsOut(row[q])] /\ UNCHANGED worker
        /\ row[q].token # NoToken
        /\ \/ (\A w \in Workers : ~(worker[w].run = q /\ Holds(w))) /\ faults' = faults
           \/ faults' = faults + 1
    BY <1>9 DEF LeaseLapses
  <2>2. row'[r].attempts = row[r].attempts
    BY <1>t, <2>1, RowFields
  <2>3. CASE faults' = faults + 1
    BY <1>t, <2>2, <2>3, BoundFrame
  <2>4. CASE faults' = faults /\ q # r
    <3>1. row'[r] = row[r]
      BY <1>t, <2>1, <2>4
    <3> QED
      BY <1>u, <2>1, <2>4, <3>1
  <2>5. CASE faults' = faults /\ q = r
    <3>1. \A w \in Workers : ~Holder(w, r)
      BY <1>t, <1>h, <2>1, <2>5 DEF Holder
    <3>2. row[r].attempts <= faults
      BY <2>1, <2>5, <3>1 DEF ClaimsBoundedOf
    <3> QED
      BY <1>t, <2>2, <2>5, <3>2, BoundFrame
  <2> QED
    BY <2>1, <2>3, <2>4, <2>5
<1>10. ASSUME NEW q \in Runs, BackoffElapses(q) PROVE ClaimsBoundedOf(r)'
  <2>1. row' = [row EXCEPT ![q] = BackoffRunsOut(row[q])] /\ UNCHANGED <<worker, faults>>
    BY <1>10 DEF BackoffElapses
  <2>2. /\ row'[r].attempts = row[r].attempts /\ row'[r].token = row[r].token
        /\ row'[r].done = row[r].done /\ row'[r].lapsed = row[r].lapsed
    <3>1. row'[r] = row[r] \/ row'[r] = BackoffRunsOut(row[r])
      BY <1>t, <2>1
    <3> QED
      BY <1>t, <3>1, RowFields, RowClock
  <2> QED
    BY <1>u, <2>1, <2>2
<1>11. ASSUME NEW h \in Handlers, HandlerStep(h) PROVE ClaimsBoundedOf(r)'
  <2>1. CASE \E acknowledged \in BOOLEAN : CommitWorkflow(h, acknowledged)
    BY <1>2, <2>1
  <2>2. CASE ~\E acknowledged \in BOOLEAN : CommitWorkflow(h, acknowledged)
    BY <1>1, <1>11, <2>2 DEF HandlerStep, Receive, AcceptDelivery, RepeatedDelivery, CreateIncident,
                             AbortWorkflow, tables
  <2> QED
    BY <2>1, <2>2
<1>12. ASSUME NEW w \in Workers, WorkerStep(w) \/ Crash(w) PROVE ClaimsBoundedOf(r)'
  BY <1>3, <1>4, <1>5, <1>6, <1>7, <1>8, <1>12 DEF WorkerStep
<1>13. ASSUME NEW q \in Runs, NEW logs \in SUBSET Logs, ReRun(q, logs) PROVE ClaimsBoundedOf(r)'
  BY <1>1, <1>13 DEF ReRun, tables
<1>14. CASE UNCHANGED vars
  BY <1>1, <1>14 DEF vars, tables
<1> QED
  BY <1>9, <1>10, <1>11, <1>12, <1>13, <1>14 DEF Next

(* A run is claimed at most once more than there were faults, for any number *)
(* of workers: the bound under which its row is a LeaseQueue.                *)
THEOREM ClaimsBoundedHolds == Spec => []ClaimsBounded
<1>1. Init => ClaimsBounded
  BY DEF Init, ClaimsBounded, ClaimsBoundedOf, Holder, HeldUnder, Absent, Idle, NoToken
<1>2. IntakeInv /\ ClaimsBounded /\ [Next]_vars => ClaimsBounded'
  BY ClaimsBoundedStep DEF ClaimsBounded
<1> QED
  BY <1>1, <1>2, InvariantHolds, PTL DEF Spec

-----------------------------------------------------------------------------
(* The ingestion rows are a LeaseQueue: whatever the webhook and the workers *)
(* do besides, rows, tokens and sealed evidence change by one of that        *)
(* protocol's steps or not at all.                                           *)
THEOREM RowsAreLeaseQueue == Spec => ImplementsLeaseQueue
<1> DEFINE leases == [w \in Workers |-> [r \in Runs |->
                        IF worker[w].run = r THEN worker[w].token ELSE NoToken]]
           results == [r \in Runs |-> IF sealed[r] = NotSealed THEN "none" ELSE "evidence.ingested"]
<1> USE DEF NoToken, IngestQueue!NoToken
<1>1. Init => IngestQueue!Init
  BY DEF Init, IngestQueue!Init, IngestQueue!Free, IngestQueue!NoOutcome, IngestQueue!Absent,
         Absent, Idle, NotSealed
<1>2. IntakeInv /\ IntakeInv' /\ ClaimsBounded' /\ [Next]_vars
        => [IngestQueue!Next]_IngestQueue!vars
  <2> SUFFICES ASSUME IntakeInv, IntakeInv', ClaimsBounded', [Next]_vars
      PROVE  IngestQueue!Next \/ UNCHANGED <<row, leases, results>>
    BY DEF IngestQueue!vars
  <2>t. /\ row \in [Runs -> Row] /\ worker \in [Workers -> Slot]
        /\ sealed \in [Runs -> SUBSET Artifacts]
        /\ \A w \in Workers : /\ worker[w].pc = "idle" => worker[w] = Idle
                              /\ worker[w].pc # "idle" => worker[w].run \in Runs /\ worker[w].token # 0
        /\ \A w \in Workers : worker[w].token \in Nat
    BY DEF IntakeInv, Typed, Collected, LeasesFresh, Slot
  <2>f. faults' <= MaxFaults /\ faults' \in Nat /\ MaxFaults \in Nat
    BY MaxFaultsIsNat DEF IntakeInv, Typed
  <2>i. ASSUME NEW w \in Workers, worker' = [worker EXCEPT ![w] = Idle]
        PROVE  leases' = [leases EXCEPT ![w] = IngestQueue!Free]
    BY <2>t, <2>i, IdleTyped DEF IngestQueue!Free
  <2>k. ASSUME \A w \in Workers : /\ worker'[w].run = worker[w].run
                                 /\ worker'[w].token = worker[w].token
        PROVE  UNCHANGED leases
    BY <2>k
  <2>1. CASE UNCHANGED <<row, worker, sealed>>
    BY <2>1
  <2>2. ASSUME NEW h \in Handlers, NEW acknowledged \in BOOLEAN, CommitWorkflow(h, acknowledged)
        PROVE  IngestQueue!Next \/ UNCHANGED <<row, leases, results>>
    <3> DEFINE r == RunOf(handler[h].delivery)
    <3>1. UNCHANGED <<worker, sealed>> /\ handler[h].pc = "commit"
          /\ (row' = row \/ row' = [row EXCEPT ![r] = Inserted(@)])
      BY <2>2 DEF CommitWorkflow
    <3>2. r \in Runs
      BY <3>1 DEF IntakeInv, OneCreator, Deliveries, RunOf
    <3> HIDE DEF r
    <3>3. CASE row' = [row EXCEPT ![r] = Inserted(@)]
      <4>1. row' = [i \in Runs |-> IF i \in {r} THEN IngestQueue!Inserted(row[i]) ELSE row[i]]
        BY <2>t, <3>2, <3>3 DEF Inserted, IngestQueue!Inserted
      <4>2. IngestQueue!Enqueue({r})
        BY <3>1, <4>1 DEF IngestQueue!Enqueue
      <4> QED
        BY <3>2, <4>2 DEF IngestQueue!Next
    <3> QED
      BY <2>1, <3>1, <3>3
  <2>3. ASSUME NEW w \in Workers, NEW r \in Runs, Claim(w, r) PROVE IngestQueue!Next
    <3> DEFINE m == [Idle EXCEPT !.pc = "collect", !.run = r, !.token = row'[r].token]
    <3>1. /\ row' = [row EXCEPT ![r] = Claimed(row[r])] /\ Claimable(row[r])
          /\ worker' = [worker EXCEPT ![w] = m] /\ worker[w] = Idle /\ sealed' = sealed
      BY <2>3, <2>t DEF Claim
    <3>2. m.run = r /\ m.token = row'[r].token
      BY DEF Idle
    <3> HIDE DEF m
    <3>3. leases' = [leases EXCEPT ![w][r] = row'[r].token]
      <4>1. worker'[w] = m /\ \A v \in Workers \ {w} : worker'[v] = worker[v]
        BY <2>t, <3>1
      <4>2. \A q \in Runs : (IF worker[w].run = q THEN worker[w].token ELSE NoToken) = NoToken
        BY <3>1, IdleTyped
      <4> QED
        BY <3>2, <4>1, <4>2
    <3>4. row[r].attempts < 1 + MaxFaults
      <4>1. row'[r] = Claimed(row[r]) /\ row[r] \in Row
        BY <2>t, <3>1
      <4>2. row'[r].attempts = row[r].attempts + 1 /\ row[r].attempts \in Nat
        BY <4>1, RowFields DEF Row
      <4>3. row'[r].attempts <= 1 + faults'
        BY DEF ClaimsBounded, ClaimsBoundedOf
      <4> QED
        BY <2>f, <4>2, <4>3
    <3>5. IngestQueue!Idle(w)
      BY <3>1, IdleTyped DEF IngestQueue!Idle, IngestQueue!Free
    <3>6. IngestQueue!Claim(w, r)
      BY <3>1, <3>3, <3>4, <3>5
         DEF IngestQueue!Claim, IngestQueue!Claimable, Claimable, IngestQueue!Open, Open,
             IngestQueue!Claimed, Claimed
    <3> QED
      BY <3>6 DEF IngestQueue!Next, IngestQueue!WorkerStep
  <2>4. ASSUME NEW w \in Workers,
               Collect(w) \/ (\E a \in Artifacts : Save(w, a)) \/ IngestFails(w) \/ CompleteLate(w)
        PROVE  UNCHANGED <<row, leases, results>>
    <3>1. UNCHANGED <<row, sealed>>
      BY <2>4 DEF Collect, Save, IngestFails, CompleteLate, tables
    <3>2. \A v \in Workers : worker'[v].run = worker[v].run /\ worker'[v].token = worker[v].token
      <4>1. CASE Collect(w)
        BY <2>t, <4>1 DEF Collect, Slot
      <4>2. CASE \E a \in Artifacts : Save(w, a)
        BY <2>t, <4>2 DEF Save, Slot
      <4>3. CASE IngestFails(w) \/ CompleteLate(w)
        BY <2>t, <4>3 DEF IngestFails, CompleteLate, Slot
      <4> QED
        BY <2>4, <4>1, <4>2, <4>3
    <3> QED
      BY <2>k, <3>1, <3>2
  <2>5. ASSUME NEW w \in Workers, NEW acknowledged \in BOOLEAN, Complete(w, acknowledged)
        PROVE  IngestQueue!Next
    <3> DEFINE r == worker[w].run
    <3>1. /\ Holds(w) /\ r \in Runs /\ row' = [row EXCEPT ![r] = Completed(row[r])]
          /\ sealed' = [sealed EXCEPT ![r] = worker[w].saved]
      BY <2>5, HeldRow DEF Complete
    <3>2. row'[r].done /\ sealed'[r] # NotSealed
      <4>1. row'[r] = Completed(row[r]) /\ row[r] \in Row
        BY <2>t, <3>1
      <4> QED
        BY <3>1, <4>1, RowFields DEF IntakeInv, TablesAgree
    <3>3. results' = [results EXCEPT ![r] = "evidence.ingested"]
      BY <2>t, <3>1, <3>2
    <3>4. leases' = [leases EXCEPT ![w] = IngestQueue!Free] \/ UNCHANGED leases
      <4>1. CASE acknowledged
        BY <2>5, <2>i, <4>1 DEF Complete
      <4>2. CASE ~acknowledged
        <5>1. \A v \in Workers : worker'[v].run = worker[v].run /\ worker'[v].token = worker[v].token
          BY <2>5, <2>t, <4>2 DEF Complete, Slot
        <5> QED
          BY <2>k, <5>1
      <4> QED
        BY <4>1, <4>2
    <3>5. IngestQueue!Settle(w, r, "evidence.ingested")
      BY <3>1, <3>3, <3>4
         DEF IngestQueue!Settle, IngestQueue!Forget, IngestQueue!HeldUnder, HeldUnder, Holds,
             IngestQueue!Completed, Completed
    <3> QED
      BY <3>1, <3>5 DEF IngestQueue!Next, IngestQueue!WorkerStep
  <2>6. ASSUME NEW w \in Workers, Reschedule(w) PROVE IngestQueue!Next
    <3> DEFINE r == worker[w].run
    <3>1. /\ Holds(w) /\ r \in Runs /\ row' = [row EXCEPT ![r] = Rescheduled(row[r])]
          /\ sealed' = sealed /\ worker' = [worker EXCEPT ![w] = Idle]
      BY <2>6, HeldRow DEF Reschedule
    <3>2. IngestQueue!Reschedule(w, r)
      BY <2>i, <3>1
         DEF IngestQueue!Reschedule, IngestQueue!Forget, IngestQueue!HeldUnder, HeldUnder, Holds,
             IngestQueue!Rescheduled, Rescheduled
    <3> QED
      BY <3>1, <3>2 DEF IngestQueue!Next, IngestQueue!WorkerStep
  <2>7. ASSUME NEW w \in Workers, LoseLease(w) PROVE IngestQueue!Next
    <3> DEFINE r == worker[w].run
    <3>1. /\ ~Holds(w) /\ r \in Runs /\ worker[w].token # 0
          /\ UNCHANGED <<row, sealed>> /\ worker' = [worker EXCEPT ![w] = Idle]
      BY <2>7, <2>t DEF LoseLease, tables
    <3>2. IngestQueue!LoseLease(w, r)
      BY <2>i, <3>1, RunsAssumption
         DEF IngestQueue!LoseLease, IngestQueue!Forget, IngestQueue!HeldUnder, HeldUnder, Holds
    <3> QED
      BY <3>1, <3>2 DEF IngestQueue!Next, IngestQueue!WorkerStep
  <2>8. ASSUME NEW w \in Workers, Crash(w) PROVE IngestQueue!Next
    <3>1. UNCHANGED <<row, sealed>> /\ worker' = [worker EXCEPT ![w] = Idle]
      BY <2>8 DEF Crash, tables
    <3>2. IngestQueue!Crash({w})
      BY <2>i, <3>1 DEF IngestQueue!Crash
    <3> QED
      BY <3>2 DEF IngestQueue!Next
  <2>9. ASSUME NEW r \in Runs, LeaseLapses(r) \/ BackoffElapses(r) PROVE IngestQueue!Next
    <3>1. CASE LeaseLapses(r)
      <4>1. IngestQueue!LeaseLapses(r)
        BY <3>1 DEF LeaseLapses, IngestQueue!LeaseLapses, IngestQueue!Open, Open,
                    IngestQueue!LeaseRunsOut, LeaseRunsOut
      <4> QED
        BY <4>1 DEF IngestQueue!Next
    <3>2. CASE BackoffElapses(r)
      <4>1. IngestQueue!BackoffElapses(r)
        BY <3>2 DEF BackoffElapses, IngestQueue!BackoffElapses, IngestQueue!Open, Open,
                    IngestQueue!BackoffRunsOut, BackoffRunsOut
      <4> QED
        BY <4>1 DEF IngestQueue!Next
    <3> QED
      BY <2>9, <3>1, <3>2
  <2>10. ASSUME NEW h \in Handlers, HandlerStep(h)
         PROVE  IngestQueue!Next \/ UNCHANGED <<row, leases, results>>
    <3>1. CASE \E acknowledged \in BOOLEAN : CommitWorkflow(h, acknowledged)
      BY <2>2, <3>1
    <3>2. CASE ~\E acknowledged \in BOOLEAN : CommitWorkflow(h, acknowledged)
      <4>1. UNCHANGED <<row, worker, sealed>>
        BY <2>10, <3>2 DEF HandlerStep, Receive, AcceptDelivery, RepeatedDelivery, CreateIncident,
                           AbortWorkflow, tables
      <4> QED
        BY <2>1, <4>1
    <3> QED
      BY <3>1, <3>2
  <2>11. ASSUME NEW r \in Runs, NEW logs \in SUBSET Logs, ReRun(r, logs)
         PROVE  UNCHANGED <<row, leases, results>>
    BY <2>1, <2>11 DEF ReRun, tables
  <2>12. CASE UNCHANGED vars
    BY <2>1, <2>12 DEF vars, tables
  <2> QED
    BY <2>3, <2>4, <2>5, <2>6, <2>7, <2>8, <2>9, <2>10, <2>11, <2>12 DEF Next, WorkerStep
<1> QED
  BY <1>1, <1>2, InvariantHolds, ClaimsBoundedHolds, PTL DEF Spec, ImplementsLeaseQueue

(* The state of an incident moves in two places only, each time by one step. *)
LEMMA IncidentMoves ==
  ASSUME IntakeInv, [Next]_vars, NEW r \in Runs
  PROVE  \/ incident'[r] = incident[r]
         \/ incident[r] = "absent" /\ incident'[r] = "RECEIVED"
         \/ incident[r] = "RECEIVED" /\ incident'[r] = "CLUSTERING_FAILURES"
<1>t. incident \in [Runs -> Incidents]
  BY DEF IntakeInv, Typed
<1>1. ASSUME NEW h \in Handlers, NEW acknowledged \in BOOLEAN, CommitWorkflow(h, acknowledged)
      PROVE  \/ incident'[r] = incident[r]
             \/ incident[r] = "absent" /\ incident'[r] = "RECEIVED"
  <2> DEFINE q == RunOf(handler[h].delivery)
  <2>1. handler[h].pc = "commit"
    BY <1>1 DEF CommitWorkflow
  <2>2. CASE handler[h].created
    <3>1. incident' = [incident EXCEPT ![q] = "RECEIVED"]
      BY <1>1, <2>2 DEF CommitWorkflow
    <3>2. incident[q] = "absent"
      BY <2>1, <2>2 DEF IntakeInv, OneCreator
    <3> HIDE DEF q
    <3> QED
      BY <1>t, <3>1, <3>2
  <2>3. CASE ~handler[h].created
    BY <1>1, <2>3 DEF CommitWorkflow
  <2> QED
    BY <2>2, <2>3
<1>2. ASSUME NEW w \in Workers, NEW acknowledged \in BOOLEAN, Complete(w, acknowledged)
      PROVE  \/ incident'[r] = incident[r]
             \/ incident[r] = "RECEIVED" /\ incident'[r] = "CLUSTERING_FAILURES"
  BY <1>t, <1>2 DEF Complete
<1>3. ASSUME NEW h \in Handlers, HandlerStep(h)
      PROVE  \/ UNCHANGED incident
             \/ \E acknowledged \in BOOLEAN : CommitWorkflow(h, acknowledged)
  BY <1>3 DEF HandlerStep, Receive, AcceptDelivery, RepeatedDelivery, CreateIncident,
              AbortWorkflow, tables
<1>4. ASSUME NEW w \in Workers, WorkerStep(w) \/ Crash(w)
      PROVE  \/ UNCHANGED incident
             \/ \E acknowledged \in BOOLEAN : Complete(w, acknowledged)
  BY <1>4 DEF WorkerStep, Crash, Claim, Collect, Save, IngestFails, CompleteLate, Reschedule,
              LoseLease, tables
<1>5. ASSUME NEW q \in Runs,
             LeaseLapses(q) \/ BackoffElapses(q) \/ \E logs \in SUBSET Logs : ReRun(q, logs)
      PROVE  UNCHANGED incident
  BY <1>5 DEF LeaseLapses, BackoffElapses, ReRun, tables
<1>6. CASE UNCHANGED vars
  BY <1>6 DEF vars, tables
<1> QED
  BY <1>1, <1>2, <1>3, <1>4, <1>5, <1>6 DEF Next

(* What the database says of an incident goes through intake and ingestion   *)
(* as Incident says: detected once, then sealed once, for any number of      *)
(* runs, requests and workers.                                               *)
THEOREM IntakeFollowsIncident == Spec => FollowsIncident
<1>1. Init => \A r \in Runs : Life(r)!Init
  BY DEF Init, Life!Init, Life!Nothing, Life!NoRun, Life!NoAttempt, NotSealed
<1>2. IntakeInv /\ IntakeInv' /\ [Next]_vars => \A r \in Runs : [Life(r)!Next]_(Life(r)!vars)
  <2> SUFFICES ASSUME IntakeInv, IntakeInv', [Next]_vars, NEW r \in Runs
      PROVE  [Life(r)!Next]_(Life(r)!vars)
    OBVIOUS
  <2>1. /\ detected[r] > 0 <=> incident[r] # "absent"
        /\ sealed[r] # NotSealed <=> incident[r] = "CLUSTERING_FAILURES"
    BY DEF IntakeInv, TablesAgree
  <2>2. /\ detected'[r] > 0 <=> incident'[r] # "absent"
        /\ sealed'[r] # NotSealed <=> incident'[r] = "CLUSTERING_FAILURES"
    BY DEF IntakeInv, TablesAgree
  <2>3. CASE incident'[r] = incident[r]
    BY <2>1, <2>2, <2>3 DEF Life!vars
  <2>4. CASE incident[r] = "absent" /\ incident'[r] = "RECEIVED"
    <3>1. Life(r)!Detect
      BY <2>1, <2>2, <2>4 DEF Life!Detect
    <3> QED
      BY <3>1 DEF Life!Next
  <2>5. CASE incident[r] = "RECEIVED" /\ incident'[r] = "CLUSTERING_FAILURES"
    <3>1. Life(r)!Seal
      BY <2>1, <2>2, <2>5 DEF Life!Seal, Life!Unsealed
    <3> QED
      BY <3>1 DEF Life!Next
  <2> QED
    BY <2>3, <2>4, <2>5, IncidentMoves
<1> QED
  BY <1>1, <1>2, InvariantHolds, PTL DEF Spec, FollowsIncident

-----------------------------------------------------------------------------
(* What is proved of every lease queue, said of this stage's rows.           *)
Leases == INSTANCE LeaseQueueProofs WITH
  Items <- Runs, MaxClaims <- 1 + MaxFaults, Outcomes <- {"evidence.ingested"},
  lease <- [w \in Workers |-> [r \in Runs |->
              IF worker[w].run = r THEN worker[w].token ELSE NoToken]],
  outcome <- [r \in Runs |-> IF sealed[r] = NotSealed THEN "none" ELSE "evidence.ingested"]

(* IngestQueue and Leases are the same definitions. *)
LEMMA SameQueue == /\ IngestQueue!Init => Leases!Init
                   /\ [IngestQueue!Next]_(IngestQueue!vars) => [Leases!Next]_(Leases!vars)
  BY DEF IngestQueue!NoToken, Leases!NoToken, IngestQueue!Absent, Leases!Absent,
         IngestQueue!Inserted, Leases!Inserted, IngestQueue!Open, Leases!Open,
         IngestQueue!Claimable, Leases!Claimable, IngestQueue!Claimed,
         Leases!Claimed, IngestQueue!HeldUnder, Leases!HeldUnder,
         IngestQueue!Completed, Leases!Completed, IngestQueue!Rescheduled,
         Leases!Rescheduled, IngestQueue!LeaseRunsOut, Leases!LeaseRunsOut,
         IngestQueue!BackoffRunsOut, Leases!BackoffRunsOut, IngestQueue!NoOutcome,
         Leases!NoOutcome, IngestQueue!Free, Leases!Free, IngestQueue!Idle,
         Leases!Idle, IngestQueue!Forget, Leases!Forget, IngestQueue!Enqueue,
         Leases!Enqueue, IngestQueue!Claim, Leases!Claim, IngestQueue!Settle,
         Leases!Settle, IngestQueue!Reschedule, Leases!Reschedule,
         IngestQueue!LoseLease, Leases!LoseLease, IngestQueue!Crash, Leases!Crash,
         IngestQueue!LeaseLapses, Leases!LeaseLapses, IngestQueue!BackoffElapses,
         Leases!BackoffElapses, IngestQueue!WorkerStep, Leases!WorkerStep,
         IngestQueue!vars, Leases!vars, IngestQueue!Init, Leases!Init,
         IngestQueue!Next, Leases!Next

(* Each run is ingested once, for any number of workers: at most one of them *)
(* could seal its evidence, and what is sealed is what the latest claim      *)
(* brought (the token check of complete).                                    *)
THEOREM IngestedOnce ==
  Spec => Leases!ImplementsWorkOnce /\ []Leases!SoleHolder /\ Leases!LatestClaimSettles
<1>1. Leases!MaxClaimsAssumption /\ Leases!OutcomesAssumption
  BY MaxFaultsIsNat
     DEF Leases!MaxClaimsAssumption, Leases!OutcomesAssumption, Leases!NoOutcome
<1>2. Leases!Spec => /\ Leases!ImplementsWorkOnce
                     /\ []Leases!SoleHolder /\ Leases!LatestClaimSettles
  BY <1>1, Leases!Refinement, Leases!SoleHolderHolds, Leases!LatestClaimSettlesHolds, PTL
<1> QED
  BY <1>2, SameQueue, RowsAreLeaseQueue, PTL DEF ImplementsLeaseQueue, Leases!Spec
=============================================================================
