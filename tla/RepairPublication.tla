-------------------------- MODULE RepairPublication --------------------------
(* The repair stage of one incident, from the outbox row of topic            *)
(* repair.work.requested to the pull request: workers/repair-worker.ts with  *)
(* persistence/repair-queue.ts, and github/pr-broker.ts against GitHub.      *)
(* The repair attempts themselves are one step here (AttemptLoop opens it).  *)
(* Every HTTP request is a step, each may fail, fail after taking effect, or *)
(* be the last thing a dying worker does; every transaction is one step.     *)
EXTENDS OutboxRow, Sequences

CONSTANTS
  Workers,    \* repair server processes
  Patches,    \* what a validated diff may be
  NoPatch,
  MaxFaults   \* bound of the model: crashes, hung workers and overrun leases together

ASSUME NoPatchAssumption == NoPatch \notin Patches
ASSUME MaxFaultsAssumption == MaxFaults \in Nat

Stopped == {"NEEDS_REVIEW", "BUDGET_EXHAUSTED", "VALIDATION_FAILED"}
Terminal == Stopped \cup {"PR_OPENED"}
NoFinal == "none"
Finals == {"VALIDATED", "REJECTED", "VALIDATION_FAILED", "BUDGET_EXHAUSTED"}

VARIABLES
  actionable,  \* every diagnosis says EXECUTE_REPAIR
  testable,    \* selectRequiredTests finds commands for the checked-out policy
  row,         \* the outbox row
  run,         \* the repair_runs row: state and lease_token
  incident,    \* incidents.state
  attempts,    \* repair_attempts: state and patch of the last attempt recorded
  events,      \* types of incident_events
  worker,      \* per process: where runOnce is, its job and its results
  branch,      \* GitHub: what the ci-doctor/ branch points to
  pulls,       \* GitHub: its pull requests, [patch, open]
  faults       \* how much of MaxFaults is spent

input == <<actionable, testable>>
tables == <<row, run, incident, attempts, events>>
github == <<branch, pulls>>
vars == <<input, tables, worker, github, faults>>

Idle == [pc |-> "idle", token |-> NoToken, final |-> NoFinal,
         patch |-> NoPatch, opened |-> FALSE]

(* The diagnoses are final when the repair is requested. *)
Init == /\ actionable \in BOOLEAN /\ testable \in BOOLEAN
        /\ row = Absent
        /\ run = [state |-> "absent", token |-> NoToken]
        /\ incident = "DIAGNOSING"
        /\ attempts = [final |-> NoFinal, patch |-> NoPatch]
        /\ events = {}
        /\ worker = [w \in Workers |-> Idle]
        /\ branch = NoPatch
        /\ pulls = <<>>
        /\ faults = 0

At(w, pc) == worker[w].pc = pc
HoldsOnce(w) == worker[w].token # NoToken            \* mutant: token not compared
Holds(w) == HeldUnder(row, worker[w].token)

(* UPDATE repair_runs ... WHERE id = $1 AND lease_token = $2 *)
RunKeepingToken(token, state) ==                     \* mutant: token not cleared
  IF run.token = token THEN [run EXCEPT !.state = state] ELSE run
RunUnder(token, state) ==
  IF run.token = token /\ token # NoToken
  THEN [state |-> state, token |-> NoToken] ELSE run

HasOpenPull == \E k \in DOMAIN pulls : pulls[k].open

-----------------------------------------------------------------------------
(* The request, by the transaction of the last diagnosis (recordDiagnosis) *)
Request == /\ row' = Inserted(row)
           /\ UNCHANGED <<input, run, incident, attempts, events, worker, github, faults>>

(* PostgresRepairQueue *)

Claim(w) ==
  /\ At(w, "idle") /\ Claimable(row)
  /\ row' = Claimed(row)
  /\ run' = [state |-> "RUNNING", token |-> row'.token]
  /\ incident' = IF incident = "DIAGNOSING" THEN "PATCHING" ELSE incident
  /\ worker' = [worker EXCEPT ![w].pc = IF actionable THEN "checkout" ELSE "declining",
                              ![w].token = row'.token]
  /\ UNCHANGED <<input, attempts, events, github, faults>>

(* completeLease and what decline, complete or reschedule write with it. *)
Finish(w, state, types) ==
  /\ Holds(w)
  /\ row' = Completed(row)
  /\ run' = RunUnder(worker[w].token, state)
  /\ incident' = state
  /\ events' = events \cup types
  /\ UNCHANGED <<input, github, faults>>

Decline(w) ==
  /\ At(w, "declining")
  /\ Finish(w, "NEEDS_REVIEW", {"repair.declined"})
  /\ worker' = [worker EXCEPT ![w] = Idle]
  /\ UNCHANGED attempts

DeclineLate(w) == /\ At(w, "declining") /\ ~Holds(w)
                  /\ worker' = [worker EXCEPT ![w] = Idle]
                  /\ UNCHANGED <<input, tables, github, faults>>

(* The state that complete derives from the final outcome. *)
VerdictCopied(opened, final) ==                      \* mutant: no mapping
  IF opened THEN "PR_OPENED" ELSE final
VerdictByDefault(opened, final) ==                   \* mutant: wrong default
  IF final \in {"BUDGET_EXHAUSTED", "VALIDATION_FAILED"} THEN final ELSE "PR_OPENED"
Verdict(opened, final) == IF opened THEN "PR_OPENED"
                          ELSE IF final \in {"BUDGET_EXHAUSTED", "VALIDATION_FAILED"}
                          THEN final ELSE "NEEDS_REVIEW"

(* complete; the reply to its COMMIT may be lost. *)
Complete(w, acknowledged) ==
  /\ At(w, "completing")
  /\ Finish(w, Verdict(worker[w].opened, worker[w].final),
            {"repair.attempt.recorded"}
              \cup (IF worker[w].opened THEN {"pull_request.opened"} ELSE {}))
  /\ attempts' = [final |-> worker[w].final, patch |-> worker[w].patch]
  /\ worker' = IF acknowledged THEN [worker EXCEPT ![w] = Idle]
               ELSE [worker EXCEPT ![w].pc = "failing"]

Fail(w) == worker' = [worker EXCEPT ![w] = [Idle EXCEPT !.pc = "failing",
                                                        !.token = worker[w].token]]

(* complete throws: the lease was lost, or the database is out of reach.     *)
(* So may the decline that is inside the try block.                          *)
RecordFails(w) == /\ At(w, "completing") \/ (At(w, "declining") /\ actionable)
                  /\ Fail(w)
                  /\ UNCHANGED <<input, tables, github, faults>>

(* reschedule, from the catch block: give up on the third claim or later. *)
GiveUp(w) ==
  /\ At(w, "failing") /\ worker[w].token >= 3
  /\ Finish(w, "NEEDS_REVIEW", {"repair.declined"})
  /\ worker' = [worker EXCEPT ![w] = Idle]
  /\ UNCHANGED attempts

Reschedule(w) ==
  /\ At(w, "failing") /\ worker[w].token < 3 /\ Holds(w)
  /\ row' = Rescheduled(row)
  /\ run' = RunUnder(worker[w].token, "PENDING")
  /\ events' = events \cup {"repair.retry_scheduled"}
  /\ worker' = [worker EXCEPT ![w] = Idle]
  /\ UNCHANGED <<input, incident, attempts, github, faults>>

RescheduleLate(w) == /\ At(w, "failing") /\ ~Holds(w)
                     /\ worker' = [worker EXCEPT ![w] = Idle]
                     /\ UNCHANGED <<input, tables, github, faults>>

-----------------------------------------------------------------------------
(* RepairWorker.runOnce between its transactions *)

Checkout(w) ==
  /\ At(w, "checkout")
  /\ worker' = [worker EXCEPT ![w].pc = IF testable THEN "repairing" ELSE "declining"]
  /\ UNCHANGED <<input, tables, github, faults>>

(* RepairAttemptLoop.run returns: a validated diff, or why there is none.    *)
(* No loop ends in VALIDATION_FAILED (AttemptLoop), though complete knows it. *)
Validate(w, p) ==
  /\ At(w, "repairing")
  /\ worker' = [worker EXCEPT ![w].pc = "publishing", ![w].final = "VALIDATED",
                              ![w].patch = p]
  /\ UNCHANGED <<input, tables, github, faults>>

EndWithoutPatch(w, final) ==
  /\ At(w, "repairing")
  /\ worker' = [worker EXCEPT ![w].pc = "completing", ![w].final = final]
  /\ UNCHANGED <<input, tables, github, faults>>

(* GitHubPullRequestBroker.publish.  Blobs, tree and commit are unreferenced *)
(* until the branch points to them: they belong to the step of the branch.   *)
ReusePull(w) ==
  /\ At(w, "publishing") /\ HasOpenPull
  /\ worker' = [worker EXCEPT ![w].pc = "completing", ![w].opened = TRUE]
  /\ UNCHANGED <<input, tables, github, faults>>

FindNoPull(w) ==
  /\ At(w, "publishing") /\ ~HasOpenPull
  /\ worker' = [worker EXCEPT ![w].pc = "branching"]
  /\ UNCHANGED <<input, tables, github, faults>>

(* POST /git/refs answers 422 when the branch exists. *)
BranchMayMove == TRUE                                \* mutant: forced update
BranchIsFree == branch = NoPatch

CreateBranch(w, acknowledged) ==
  /\ At(w, "branching") /\ BranchIsFree
  /\ branch' = worker[w].patch
  /\ IF acknowledged THEN worker' = [worker EXCEPT ![w].pc = "opening"] ELSE Fail(w)
  /\ UNCHANGED <<input, tables, pulls, faults>>

(* POST /pulls answers 422 while a pull request of the branch is open. *)
OpenPull(w, acknowledged) ==
  /\ At(w, "opening") /\ ~HasOpenPull
  /\ pulls' = Append(pulls, [patch |-> branch, open |-> TRUE])
  /\ IF acknowledged
     THEN worker' = [worker EXCEPT ![w].pc = "completing", ![w].opened = TRUE]
     ELSE Fail(w)
  /\ UNCHANGED <<input, tables, branch, faults>>

(* A checkout, a request or a check of what is to be published fails. *)
StepFails(w) ==
  /\ worker[w].pc \in {"checkout", "publishing", "branching", "opening"}
  /\ Fail(w)
  /\ UNCHANGED <<input, tables, github, faults>>

-----------------------------------------------------------------------------
(* Hangs, deaths, the clock, and the people at GitHub *)

(* An await of runOnce that never comes back, whether or not it took effect: *)
(* git clone, checkout and show run without a timer, and the end of the      *)
(* Codex child is waited for without one.                                    *)
Hangs(w) == /\ ~At(w, "idle") /\ ~At(w, "hung") /\ faults < MaxFaults
            /\ faults' = faults + 1
            /\ worker' = [worker EXCEPT ![w] = [Idle EXCEPT !.pc = "hung",
                                                           !.token = worker[w].token]]
            /\ UNCHANGED <<input, tables, github>>

Crash(w) == /\ ~At(w, "idle") /\ faults < MaxFaults
            /\ faults' = faults + 1
            /\ worker' = [worker EXCEPT ![w] = Idle]
            /\ UNCHANGED <<input, tables, github>>

(* Nobody is on the way to complete, reschedule or decline under the lease. *)
Abandoned == \A w \in Workers : Holds(w) => At(w, "hung")

(* Fifteen minutes pass; overrunning the lease is the holder's fault. *)
LeaseLapses ==
  /\ Open(row) /\ row.token # NoToken /\ ~row.lapsed
  /\ \/ Abandoned /\ UNCHANGED faults
     \/ faults < MaxFaults /\ faults' = faults + 1
  /\ row' = LeaseRunsOut(row)
  /\ UNCHANGED <<input, run, incident, attempts, events, worker, github>>

BackoffElapses ==
  /\ Open(row) /\ ~row.due
  /\ row' = BackoffRunsOut(row)
  /\ UNCHANGED <<input, run, incident, attempts, events, worker, github, faults>>

(* Somebody merges or closes the pull request, and may delete its branch. *)
HumanCloses(k) ==
  /\ pulls[k].open
  /\ pulls' = [pulls EXCEPT ![k].open = FALSE]
  /\ branch' \in {branch, NoPatch}
  /\ UNCHANGED <<input, tables, worker, faults>>

(* Somebody tidies away a branch that never got, or no longer has, a pull    *)
(* request; not in the moment between a worker's POST /git/refs and its      *)
(* POST /pulls.                                                              *)
HumanDeletesBranch ==
  /\ branch # NoPatch /\ ~HasOpenPull
  /\ \A w \in Workers : ~At(w, "opening")
  /\ branch' = NoPatch
  /\ UNCHANGED <<input, tables, worker, pulls, faults>>

WorkerStep(w) == \/ Claim(w)
                 \/ Decline(w) \/ DeclineLate(w)
                 \/ \E acknowledged \in BOOLEAN : \/ Complete(w, acknowledged)
                                                  \/ CreateBranch(w, acknowledged)
                                                  \/ OpenPull(w, acknowledged)
                 \/ RecordFails(w)
                 \/ GiveUp(w) \/ Reschedule(w) \/ RescheduleLate(w)
                 \/ Checkout(w)
                 \/ \E p \in Patches : Validate(w, p)
                 \/ \E final \in {"REJECTED", "BUDGET_EXHAUSTED"} : EndWithoutPatch(w, final)
                 \/ ReusePull(w) \/ FindNoPull(w)
                 \/ StepFails(w)

Next == \/ \E w \in Workers : WorkerStep(w) \/ Hangs(w) \/ Crash(w)
        \/ Request
        \/ LeaseLapses
        \/ BackoffElapses
        \/ \E k \in DOMAIN pulls : HumanCloses(k)
        \/ HumanDeletesBranch

Spec == Init /\ [][Next]_vars

(* A worker that has not hung goes on (the loop of repair-server.ts, which   *)
(* waits for each runOnce), and time passes.  That an await comes back is not*)
(* assumed: one that never does is a Hangs, and a hung worker takes no step. *)
Fairness == /\ \A w \in Workers : WF_vars(WorkerStep(w))
            /\ WF_vars(LeaseLapses) /\ WF_vars(BackoffElapses)

FairSpec == Spec /\ Fairness

-----------------------------------------------------------------------------
(* The types of the tables, of GitHub and of the workers' memories. *)
TypeOK ==
  /\ actionable \in BOOLEAN /\ testable \in BOOLEAN
  /\ row \in Row
  /\ run \in [state: {"absent", "PENDING", "RUNNING"} \cup Terminal, token: Nat]
  /\ incident \in {"DIAGNOSING", "PATCHING"} \cup Terminal
  /\ attempts \in [final: Finals \cup {NoFinal}, patch: Patches \cup {NoPatch}]
  /\ worker \in [Workers ->
       [pc: {"idle", "declining", "checkout", "repairing", "publishing", "branching",
             "opening", "completing", "failing", "hung"},
        token: Nat, final: Finals \cup {NoFinal}, patch: Patches \cup {NoPatch},
        opened: BOOLEAN]]
  /\ branch \in Patches \cup {NoPatch}
  /\ pulls \in Seq([patch: Patches, open: BOOLEAN])
  /\ faults \in 0 .. MaxFaults

(* The outbox row and the repair_runs row carry the same lease at all times, *)
(* so that the second token check of decline, complete and reschedule never  *)
(* leaves one of them behind; and the run, the row and the incident agree on *)
(* whether the repair is waiting, running or over.                           *)
RunFollowsRow ==
  /\ run.token = row.token
  /\ run.state = "RUNNING" <=> row.token # NoToken
  /\ row.done <=> incident \in Terminal
  /\ row.done => run.state = incident

(* An incident whose repair is over stays as it was recorded: no late worker *)
(* and no second claim moves it, its run or its recorded attempt.            *)
VerdictIsFinal ==
  [][(incident \in Terminal) => UNCHANGED <<incident, run, attempts>>]_vars

(* Several workers may be publishing at once, but only one of them gets the  *)
(* branch and may go on to open a pull request, which then shows that        *)
(* worker's own validated patch; and no two pull requests are open at once.  *)
OnePublisher ==
  /\ \A w \in Workers : At(w, "opening") => /\ branch = worker[w].patch
                                            /\ ~HasOpenPull
                                            /\ \A v \in Workers \ {w} : ~At(v, "opening")
  /\ \A j, k \in DOMAIN pulls : pulls[j].open /\ pulls[k].open => j = k

(* An incident says PR_OPENED only with a validated attempt on record and a  *)
(* pull request at GitHub.  A repair that was claimed once shows there the   *)
(* very patch on record; a retry may find the pull request of an earlier     *)
(* claim and record another patch than it shows (pr-broker.ts, line 59).     *)
RecordedPullExists ==
  incident = "PR_OPENED" =>
    /\ attempts.final = "VALIDATED" /\ pulls # <<>>
    /\ row.attempts = 1 => \E k \in DOMAIN pulls : pulls[k].patch = attempts.patch

(* A requested repair is over in the end, for all the retries, lost leases,  *)
(* restarts and hung workers, as long as faults stop: its lease runs out     *)
(* under a worker that hangs, and another takes it, unless none is left.     *)
RepairSettles ==
  row.present ~> (row.done \/ [](\A w \in Workers : At(w, "hung")))

(* README: "A stopped attempt creates no PR."                                *)
StoppedHasNoPull == incident \in Stopped => ~HasOpenPull

(* pr-broker.ts: "is safe to retry".  With one worker, whoever finds no open *)
(* pull request and goes on to the branch is not refused it.                 *)
RetryCanPublish == \A w \in Workers : At(w, "branching") => BranchIsFree

(* The one outbox row is a LeaseQueue. *)
RepairQueue == INSTANCE LeaseQueue WITH
  Items <- {"repair"}, MaxClaims <- 3 + MaxFaults, Outcomes <- Terminal,
  row <- [i \in {"repair"} |-> row],
  lease <- [w \in Workers |-> [i \in {"repair"} |-> worker[w].token]],
  outcome <- [i \in {"repair"} |-> IF incident \in Terminal THEN incident ELSE "none"]

ImplementsLeaseQueue == RepairQueue!Init /\ [][RepairQueue!Next]_RepairQueue!vars

(* The repair stage carries the incident's life on from there: its request   *)
(* is the diagnosis of the last cluster, and whatever late, repeated and     *)
(* dying workers do to run, attempts, ledger and incident together is one    *)
(* claim, reschedule, decline or verdict.  (The UPDATE that sets a run to    *)
(* PR_OPENED is the one that names the pull request.)                        *)
Life == INSTANCE Incident WITH
  Clusters <- {"last", "other"},
  state <- incident,
  cluster <- [c \in {"last", "other"} |->
                IF c = "last" THEN (IF row.present THEN "EXECUTE_REPAIR" ELSE "PENDING")
                ELSE IF actionable THEN "EXECUTE_REPAIR" ELSE "ESCALATE_HUMAN"],
  requested <- row.present,
  run <- [state |-> run.state, pull |-> run.state = "PR_OPENED"],
  attempt <- attempts.final,
  events <- events \cup {"workflow.failure.detected", "evidence.ingested",
                         "failure.clustered", "diagnosis.proposed"}

FollowsIncident == Life!AwaitsRepair /\ [][Life!Next]_Life!vars
=============================================================================
