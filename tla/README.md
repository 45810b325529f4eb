# CI Doctor: models, checks and proofs

CI Doctor turns a failed GitHub Actions run into a reviewable pull request:
webhook, sealed evidence, failure clusters, diagnoses, repair attempts in a
sandbox, publication. Four programs share one PostgreSQL database and nothing
else: the API (`app.ts`), the ingestion server, the diagnosis server and the
repair server (`workers/*-server.ts`). Work passes from one to the next through
the `outbox` table. This directory holds TLA+ models of that system, TLC
configurations, and TLAPS proofs that every safety and action property and every refinement
the configurations check holds for all values of the constants.

Paths below are relative to `src/apps/api/src/` unless they say otherwise.

## 1. Inventory

| Component | State it keeps | Operations | Hard behaviour | What makes it correct |
| --- | --- | --- | --- | --- |
| Outbox (`001-schema.sql`, three queue classes in `persistence/`) | `completed_at`, `attempts`, `lease_token`, `leased_until`, `available_at` per row | insert on a dedupe key, claim, complete, reschedule | leases run out while the work goes on; workers die; the reply to COMMIT is lost | one outcome per row, that of the latest claim |
| Webhook intake (`app.ts`, `persistence/incident-store.ts`) | `webhook_deliveries`, `incidents`, `incident_events` | one transaction per delivery | repeated and concurrent deliveries; 503 after a commit | one incident and one ingestion per run attempt; what was answered 202 is on record |
| Ingestion (`workers/ingestion-worker.ts`, `persistence/ingestion-queue.ts`) | a job in memory | claim, collect, put artifacts, complete, reschedule | puts are outside the transaction; the run may be re-run meanwhile | evidence is sealed once, from one collect |
| Artifact store (`persistence/artifact-store.ts`) | `artifacts`, encrypted | put on (incident, kind, hash), listForIncident | late and partial puts | what is sealed is stored |
| Evidence client (`github/evidence-client.ts`) | none | collect jobs, logs, diff | GitHub changes between two requests | - |
| Diagnosis (`workers/diagnosis-server.ts`, `diagnosis-workers.ts`, `persistence/diagnosis-queue.ts`) | `failure_clusters`, `diagnosis_findings`, two outbox topics; jobs in memory | cluster, save clusters; claim, load, diagnose, record; fail | parallel slots; a count of others' rows inside a transaction; a throw that kills the process | clusters and work items agree; repair is requested once all settled, and is requested |
| Failure clustering (`diagnosis/failure-clustering.ts`) | none | text to fingerprints | - | equal failures meet in one cluster |
| Repair (`workers/repair-server.ts`, `repair-worker.ts`, `persistence/repair-queue.ts`) | `repair_runs`, `repair_attempts`, incident state | claim, decline, complete, reschedule, give up | every step may be the last one; two token checks | one verdict; run, row and incident agree |
| Attempt loop (`repair/attempt-loop.ts`, `repair-gate.ts`, `policy.ts`, `structured-patch.ts`, `docker-sandbox.ts`) | the working tree; hashes of patches seen; outcomes | propose, apply, validate | nothing resets the tree between attempts | what is published was tested and is within the policy |
| Broker (`github/pr-broker.ts`) | none; GitHub's branches and pull requests | find, blobs, tree, commit, branch, pull request | requests fail after taking effect; retries; two publishers | one branch, one open pull request, safe to retry |
| Checkout (`repair/github-checkout.ts`) | a temporary directory | git clone, checkout and show, read policy, read changes | git runs without a timer; the files are read again after the loop ended | what is read is what was validated |
| Agents and models (`repair/*-patch-agent.ts`, `diagnosis/*-model.ts`, `contract.ts`) | none | one request each | any answer, late or none | answers are checked, never trusted |
| Codex runner (`agent-runtime/codex-cli-runner.ts`) | a child process, a timer | run | after the timeout `close` may never come | work is not lost with a call that never ends |
| Dashboard read model (`dashboard/*`) | listeners | latest, byId, subscribe | one summary from several statements, three at once, while the incident moves; only the latest eighty events are read | a summary does not contradict itself; what is missing is only what the limit pushed out |
| Dashboard application (`src/apps/dashboard/src/App.tsx`) | the incident shown, whether it is the recorded proof | load; stages drawn from state and events | calls of load overlap and overtake each other; one failure replaces live data | the display goes forward and ends at the truth |
| Migrations (`persistence/migration-runner.ts`) | `schema_migrations` | run once, in order | two runners at once | each migration once |
| Configuration, signature, redaction, secrets | none | pure functions | - | - |
| Benchmarks, fixtures, scripts | tooling | - | - | - |

How they meet: intake inserts `incident.ingest.requested`; ingestion completes
it, seals `evidence.ingested` and inserts `diagnosis.cluster.requested`;
clustering completes that and inserts one `diagnosis.work.requested` per
cluster; the last diagnosis inserts `repair.work.requested`; the repair's verdict
ends the incident. Each hand-over is inside the transaction that completes the
row before it. The only shared memory is the database; the only promise chains
that matter across jobs are `Promise.all` over the diagnosis slots and over the
broker's blobs.

The hazards of this code, each at its line and with the properties that cover
it, are listed in `PROJECT.json`.

## 2. The modules

| Module | Models | State and actions |
| --- | --- | --- |
| `OutboxRow` | one outbox row | a record of the columns; `Inserted`, `Claimable`, `Claimed`, `HeldUnder`, `Completed`, `Rescheduled` are the SQL statements, `LeaseRunsOut` and `BackoffRunsOut` the clock |
| `WorkOnce` | what the outbox promises | `status` per item: absent, open, or its one outcome |
| `LeaseQueue` | the lease protocol by itself | `row`, the workers' memory `lease`, the committed `outcome`; implements `WorkOnce` |
| `Incident` | what the database says of one incident, from webhook to verdict | `incidents.state`, clusters with their findings, the repair request, the run, the last attempt, the event types; one action per committed transaction, no rows, leases or workers |
| `Intake` | webhook to sealed evidence | requests as processes (`deliver`, `create`, `commit`), ingestion workers (`collect`, `save`, `failing`); GitHub's re-runs as an environment action; its rows are a `LeaseQueue`, its commits steps of `Incident` |
| `Diagnosis` | the diagnosis stage of one incident | processes with a cluster turn and slots; the transaction of `recordDiagnosis` is three steps (`BeginRecord`, `CountPending`, `CommitRecord`); its work items are a `LeaseQueue`, its commits steps of `Incident` |
| `RepairPublication` | the repair stage of one incident, and GitHub's branch and pull requests | each HTTP request and each transaction of `runOnce` is a step, any await may never come back (`Hangs`); people close pull requests and delete left-over branches; its row is a `LeaseQueue`, its commits steps of `Incident` |
| `AttemptLoop` | `RepairAttemptLoop.run` on one checkout, and what the worker reads from it for the broker | the tree as a function from files to contents; propose, apply (wholly, not at all, or in part when the timer fires), validate, command by command; `HandOver` |
| `Console` | the console over an incident that moves | `Incident` as the database, with the number of events (`recorded`) and the rank of the latest of each drawn type (`newest`), of which `Ledger` holds what `ORDER BY sequence DESC LIMIT` returns; per call of `load` where it is and what it has read; each SELECT of `byId` is a step, answers arrive in any order, failures bring the recorded proof |
| `MC...` | instances for TLC | they extend the module; `MCConsole` adds the symmetry of its clusters |
| `OutboxRowProofs` | lemmas about `OutboxRow` | what each SQL statement does to each column of any row; every queue's proof rests on them |
| `LeaseQueueProofs`, `IntakeProofs`, `DiagnosisProofs`, `RepairProofs`, `AttemptLoopProofs`, `ConsoleProofs` | theorems about the modules (`RepairProofs` is about `RepairPublication`) | section 5 |

How they compose. The stages share the database and nothing else, so what one stage must know of the
others is what the rows say when it starts and what other stages may write meanwhile. `Incident` states
that: the initial states of `Diagnosis` and `RepairPublication` are its predicates `AwaitsClustering` and
`AwaitsRepair`, each commit of the three stage modules is checked to be one of its steps
(`FollowsIncident`), and `Console` checks on `Incident` itself that those predicates hold where one stage hands
over to the next (`StagesHandOver`). What is proved or checked of `Incident` therefore holds of the
stages together, without their product ever being explored. `Incident` is kept as loose as the
code: a diagnosis that says EXECUTE_REPAIR and settles the last cluster need not request the repair,
since of two recorded at once neither may.

Decisions that hold for all of them:

- *Transactions.* The code runs at PostgreSQL's READ COMMITTED. A transaction
  that takes the row lock of its outbox row first and reads nothing that others may
  still change is one step. Two are not, and are split: `recordDiagnosis`, whose count
  reads rows of other clusters, and the webhook transaction, whose inserts wait
  for another open transaction that inserted the same key. A claim passes over
  locked rows (SKIP LOCKED), hence `Offered` in `Diagnosis`.
- *COMMIT replies.* `acknowledged = FALSE` is a COMMIT (or an HTTP request)
  that took effect while its reply was lost; the worker takes its catch branch.
- *Time.* A row's `due` and `lapsed` are the two comparisons with `now()`.
  A lease may lapse at any moment, held or not.
- *Tokens.* A `randomUUID()` lease token is the number of the claim that took
  it; both are fresh per row. It lets `attempts` and the token be compared,
  which is what makes `LatestClaimSettles` expressible.
- *Left out of rows and events.* Payloads of events, `incidents.version`,
  timestamps, correlation ids: nothing reads them to decide anything.
  `incident` ranges over the states that the modelled stage writes.
- *Mutants.* Operators commented `mutant` are not part of the specification:
  each is a plausible bug of the operator below it, and each property is shown
  to fail under one of them (`PROJECT.json`, "mutants").

## 3. The runs

| Run | Instance | Shows |
| --- | --- | --- |
| `lease_queue` | 2 rows, 3 workers, 3 claims per row | one outcome per row, from its latest claim; exactly-once work |
| `intake` | 1 run attempt, 2 delivery ids, 2 concurrent requests, 2 ingestion workers, 1 log, 2 faults | one incident; one seal, from one collect; late workers change nothing; evidence is sealed in the end |
| `diagnosis` | 2 clusters, 2 processes of 1 slot, 1 fault | the stage's tables agree, the repair request is sound, the stage settles |
| `repair` | 2 workers, 2 patches, 2 faults | one verdict, one publisher, one open pull request; the repair ends unless all workers have hung |
| `attempt_loop` | 4 files, 1 of them protected, at most 2 changed, 3 attempts, 2 focused commands | the broker is handed the tested tree, within the policy |
| `console` | 2 clusters, at most 2 attempts, 8 events of which the latest 6 are read, 2 loads at once, 1 commit while loads are under way | stages hand over; a pull request is backed; displayed summaries do not contradict themselves; the display goes forward and converges |

Six runs expect a violation. Each is a disagreement between the code and what
the repository says of it, found while modelling:

| Run | The repository says | The code does |
| --- | --- | --- |
| `diagnosis_skew` | clusters "can be diagnosed in parallel" (`src/README.md:156`) | two diagnoses recorded at once each count the other as pending; no repair is requested (`persistence/diagnosis-queue.ts:169`) |
| `diagnosis_stop` | an answer `ESCALATE_HUMAN` (`diagnosis/contract.ts:19`), a decline for `diagnosis_not_actionable` (`workers/repair-worker.ts:21`) | if the last cluster to settle is not actionable or was escalated, the incident stays in DIAGNOSING (`persistence/diagnosis-queue.ts:168`) |
| `repair_stopped` | "A stopped attempt creates no PR." (`src/README.md:43`) | the pull request comes before the record; a retry may stop the incident with one open (`workers/repair-worker.ts:58`) |
| `repair_retry` | the broker "is safe to retry" (`github/pr-broker.ts:40`) | after a failure between branch and pull request every retry is refused the branch (`github/pr-broker.ts:72`) |
| `attempt_test` | "A patch must add or strengthen a regression test." (`src/README.md:39`) | nothing checks it (`repair/repair-gate.ts:15`) |
| `intake_seal` | an "immutable diagnostic bundle" (`src/apps/dashboard/src/App.tsx:202`) | artifacts of a failed attempt stay beside the sealed ones and are read with them (`workers/ingestion-worker.ts:44`) |

These six use the smallest instance that shows the case, most without any fault,
so that the counterexample is the ordinary schedule that leads to it.

### Bounds

`MaxClaims` bounds the claims of a row in `LeaseQueue`. Three claims let an
overtaken worker meet the successor of the worker that overtook it; a fourth
adds no new relation between a token and its row. `Diagnosis` and `RepairPublication` need no bound on claims: the third claim
escalates or gives up, and only a fault adds another. `MaxFaults` bounds
crashes and leases overrun by a living holder, together, in `RepairPublication` the hangs too, and in `Intake` the
failed attempts, since ingestion has no limit of its own; the lapse of a dead or hung
worker's lease is free. Two faults in `Intake` give three claims: a failed attempt after a partial
save and a late worker, in either order (`intake_seal` needs one). One fault in `Diagnosis` puts a late worker beside the one
that overtook it (three attempts also come from failures, which are not faults);
two in `RepairPublication` add a crash or a hang to an overrun, and let both workers hang.
Two clusters are what the count of pending clusters needs: more of them only
add others that are pending. Two patches tell a pull request's patch from the one
of the attempt recorded. Two processes of one slot differ from one process of two
slots only in that the two slots share a round; the run with two slots of one
process is `diagnosis_skew`. `AttemptLoop`'s bounds are the policy's own limits, with
one writable file more than may be changed; writable files that are no tests are
symmetric there. A patch is the sequence of its edits, since the hash that
recognises a repeated patch depends on their order. In `Console`, `MaxCommits` bounds the
transactions that commit between two moments at which a call of `load` returns and leaves no other under way: a request
takes milliseconds, a stage seconds. One is enough for a summary to mix two moments, wherever it commits between two
SELECTs, and for an answer to overtake another; the invariant of the proof was checked with two as well. The limit of
readEvents is six instead of eighty, and `MaxEvents` lets the ledger grow to eight: a pull request over two clusters has at
least eight events, so the first two fall out of what is read of its ledger; from shorter lives they do after retries of the
ingestion or the repair. `MaxAttempts` is two of the three that a policy may allow. Requests fail any number of times. The two clusters are symmetric; that is sound for
`DisplayConverges` too, since it names no cluster and a cluster only ever goes forward, so that no cycle of states
permutes them.

### Fairness and liveness

`RepairSettles` assumes no more than that a worker which has not hung goes on (`repair-server.ts` loops for ever, a process
that dies is started again, a Node event loop starves no promise) and that time passes. It does not assume that an await
ends: git clone, checkout and show run without a timer (`repair/github-checkout.ts:127-145`), and the Codex runner waits
for the `close` of a child it has killed. `Hangs` is such an await, whether it took effect or not: the process stays
alive, its lease runs out and another worker must take over. The property says what is left: the repair ends, or from some moment on all
workers hang. With the one loop of a repair server, one hung clone is that case.

`StageSettles` (diagnosis) and `EvidenceSettles` (intake) assume weak fairness of each process's steps, and so more than the
code guarantees: that a model call ends (its timer is two minutes, but with the Codex runner the end of the killed child is waited
for without one), and that the context query of `claimDiagnosisJob` (`diagnosis-queue.ts:101`) and the put of an
artifact, which have no statement timeout, come back. These are assumptions about the environment.

Lapses and back-offs are weakly fair since the clock goes on. No fairness says that anything succeeds: a worker may fail at each
claim, and the third claim then gives up. Crashes, hangs and overruns stop in the
end (`MaxFaults`). `EvidenceSettles` needs one thing more: ingestion retries without limit, so
it says only that evidence is sealed once failed attempts stop (they count as faults); of the webhook's
requests nothing is assumed, GitHub need not send anything. `DisplayConverges` assumes that each load is
called again and ends, by an answer or a failure: the interval of 2.5 seconds runs as long as the page is open. That requests
do not fail for ever is its hypothesis. Nothing obliges the servers to move the incident on; the property starts when
its verdict is there.
`AttemptLoop` is a bounded loop.

No configuration switches the deadlock check off. Where a stage is over, what can still happen
is what the code allows: a request that is inserted again (`ON CONFLICT DO NOTHING`), an empty
round of a server, one more delivery, a re-run, another poll; in `AttemptLoop` the end is a step of its own (`Done`).

## 4. What the properties say

- `LeaseQueue`: fresh tokens (`TokensAreFresh`) are why there is a
  `SoleHolder`, and that is why the outcome is the latest claim's. `leased_until` is
  never compared when a row is completed: a lapsed lease that nobody took over
  still counts, and none of the properties needs more.
- `Diagnosis`: `WorkMatchesClusters` is what keeps `claimDiagnosisJob` from killing its
  process at each claim (it throws outside the `try` if the cluster of an open item has
  settled). `RepairedUnlessOverlapped` delimits the write skew: without overlapping
  transactions an actionable incident always has its repair requested.
- `RepairPublication`: `RunFollowsRow` is why the unchecked second token comparison
  (`repair-queue.ts:153-159`) never leaves the run behind. `OnePublisher` rests on GitHub
  refusing a second ref of one name: the refusal that makes retries fail is what
  makes concurrent publishers safe. `RecordedPullExists` ties the record to GitHub: after a single claim
  the recorded attempt's patch is that of the pull request; after more a reused one may show another's.
  A person may delete a branch that has no open pull request, except in the moment between POST /git/refs and POST /pulls
  of one publisher (`HumanDeletesBranch`): the ticket that the branch is holds as long as nobody takes it away there.
- `AttemptLoop`: the tree keeps what failed attempts changed, so single patches
  within the policy may add up to a diff beyond it; the gate reads the diff of the
  whole tree before it tests, and the worker reads the files of that diff again after the loop, which
  is what `ValidatedTreeIsPublished` compares.
  `VALIDATION_FAILED` is never the last outcome, although `complete` provides for it.
- `Intake`: `SealIsOneCollect` and `SealIsFinal` hold although artifacts are stored
  outside the transaction; `SealedIsAllEvidence` does not.
- `Incident` and `Console`: `PullIsBacked` is the end-to-end promise, across all stages: behind a pull request
  there is a validated attempt, every cluster had settled, one diagnosis at least said EXECUTE_REPAIR and
  none said anything else. It permits what the code permits: clusters escalated without a finding are not
  counted, the JOIN LATERAL drops them. `ViewIsCausal` is what a displayed summary may be relied on for, although it
  mixes several moments and readEvents keeps only the latest eighty events: an incident displayed as PR_OPENED has its pull
  request, its validated attempt and its last two stages complete; a stopped one has no pull request and nothing active; and a stage
  is missing before a complete one only when the ledger has more events than are read, and then so are all the stages
  before it. That an effect is displayed without its cause does happen, then. The property rests on the order of the SELECTs (the incident
  first, the attempts after the run: it fails as soon as both are read at once), and on the order in which the stages record.
  `DisplayAdvances` is of every call that no other has overtaken (set the display since it started) and whose request
  did not fail: live data stays live, a displayed pull request stays, a displayed end stays exactly as it is, and
  events vanish only from a ledger longer than what is read. Overtaken, an older answer may win, and `DisplayConverges` says that
  this, and the recorded proof after a failure, is repaired by later polls.
  The ledger is ordered by commit. The code orders it by `sequence`, which is drawn at the INSERT: two
  overlapping transactions of `recordDiagnosis` or `failDiagnosis` may commit the other way round; as their events belong to one stage and
  the repair is requested only after both, no stage is drawn otherwise.

`TransactionKeepsLease` says that the split of `recordDiagnosis` is the only place where a
check and its commit are apart, and that the row lock covers the gap.

## 5. What is proved

Every property of the passing runs but the four liveness properties is a theorem of its module's `Spec`, for any
number of rows, runs, clusters, processes, slots, workers, patches, files, loads and faults. TLC
first checked each inductive invariant in all reachable states of an instance; then it was proved.

| Module | Inductive invariant, and the states TLC checked it in | Theorems (property of the run) |
| --- | --- | --- |
| `LeaseQueueProofs` | `LQInv` (the run itself) | `TypeCorrect`, `TokensAreFreshHolds`, `SoleHolderHolds`, `OutcomeIffDoneHolds`, `LatestClaimSettlesHolds`, `Refinement` (`ImplementsWorkOnce`) |
| `IntakeProofs` | `IntakeInv` (597,438) | `TypeCorrect`, `OneIncidentPerRunHolds`, `AcceptedIsDurableHolds`, `SealIsOneCollectHolds`, `SealIsFinalHolds`, `RowsAreLeaseQueue` (`ImplementsLeaseQueue`), `IntakeFollowsIncident` (`FollowsIncident`) |
| `DiagnosisProofs` | `DiagnosisInv`, `ClaimsBounded` (5,887,335 with two processes of two slots) | `TypeCorrect`, `WorkMatchesClustersHolds`, `TransactionKeepsLeaseHolds`, `RepairRequestIsSoundHolds`, `RepairedUnlessOverlappedHolds`, `DiagnosisIsFinalHolds`, `WorkIsLeaseQueue` (`ImplementsLeaseQueue`), `DiagnosisFollowsIncident` (`FollowsIncident`) |
| `RepairProofs` | `RepairInv`, `ClaimsBounded` (274,505) | `TypeCorrect`, `RunFollowsRowHolds`, `OnePublisherHolds`, `RecordedPullExistsHolds`, `VerdictIsFinalHolds`, `RowIsLeaseQueue` (`ImplementsLeaseQueue`), `RepairFollowsIncident` (`FollowsIncident`) |
| `AttemptLoopProofs` | `LoopInv` (1,489,303) | `TypeCorrect`, `ValidatedTreeIsPublishedHolds`, `LastOutcomeExplainsEndHolds` |
| `ConsoleProofs` | `ConsoleInv` (4,031,356 up to symmetry, with two commits and three attempts) | `TypeCorrect`, `StagesHandOverHolds`, `PullIsBackedHolds`, `ViewIsCausalHolds`, `DisplayAdvancesHolds` |

Each module also has `InvariantHolds` (`Spec => []` its invariant), the three stage modules `ClaimsBoundedHolds`, and
`IngestedOnce`, `DiagnosedOnce` and `RepairedOnce`, which carry the theorems about `LeaseQueue` over to the stage's
own rows: exactly-once work, at most one possible committer, and an outcome that is the latest claim's.

### The arguments

- *Lease protocol.* `SoleHolder` is not inductive: nothing in it says that the token of the next claim is new.
  `LQInv` adds `TokensAreFresh`, that no remembered token exceeds the claims made and the row carries the latest or none,
  from which two holders would hold the same token and so be one. `NoNewToken` and `ForgetKeepsOldTokens` treat all
  the steps that claim nothing at once. The stages' invariants each contain the same fact as `LeasesFresh`.
- *Intake* (`IntakeInv`). `OneCreator`: what an open transaction saw of the two unique keys is still so when it
  commits, since a second insert of the same key waits. `TablesAgree`: event, row, incident and seal of one run tell the
  same. `Collected`: what a worker put and has still to put is, together, what one collect brought, and what it put is stored.
- *Diagnosis* (`DiagnosisInv`). `OneClustering`: before the one commit of the clustering there is no cluster and no claim,
  so `saveClusters` never meets a slot at work. `Memory`: a count that came out clear stays clear until its COMMIT,
  because no cluster becomes PENDING again. `TransactionKeepsLease` with `LeasesFresh` (`OneHolder`): the slot in a transaction is the
  only one that passes the token check. `OneByOne`: while no two transactions overlapped, a slot that counted a PENDING
  cluster leaves one unsettled, or one that was escalated, so it was not the last.
- *Repair* (`RepairInv`). Three layers: the lease moves row, run and incident together (`RowAndRun`); GitHub's refusal
  of a second ref makes the branch a ticket that one worker holds while it opens its pull request, whatever leases it
  has lost meanwhile (`Publishing`); what a worker brings to `complete` is validated and published (`Memory`), and during the first claim the
  only pull request is its own (`FirstClaim`).
- *Attempt loop* (`LoopInv`). Between the check of the diff and the end only commands run, so the tree whose diff was
  checked, tested and read back is one (`TestedTree`); one outcome per attempt, a verdict last (`Counted`).
- *Console* (`ConsoleInv`). The tables of an incident agree with its stage, and a verdict is final (`DatabaseInv`); its
  stages record their events one after the other, the pull request and its attempt last of all (`LedgerInv`), so whatever the
  limit cuts off is a prefix of the stages and never the end. So what a call has
  read stays true (`Behind`), a later SELECT is never behind an earlier one (`Partial`), and a call that has not been overtaken is ahead
  of what is displayed (`Fresh`). `PullIsBacked` and `StagesHandOver` are of `DatabaseInv`.
- *Refinements.* `LeaseQueue` bounds its claims, so that the refinement needs a bound on each stage's: one claim (`Intake`) or
  three (`Diagnosis`, `RepairPublication`), and one more for each fault (in `RepairPublication` a lease that runs out under hung
  workers only, `Abandoned`, is charged to the hang). In `Diagnosis` that is not obvious: a slot that finds
  its cluster settled kills its process, and the other slots lose their leases without a fault of theirs. The
  proof charges each such death to the fault by which the dying slot had lost its own lease (`Doomed`, `Debt`); a `Doomed` slot
  pays once, for all other items of its process. `ImplementsLeaseQueue` and `FollowsIncident` are then step by step: each
  action of a stage is an action of `LeaseQueue` (of `Incident`) or leaves its variables alone.

### Assumptions

On constants, all evaluated by TLC on the instances: bounds are natural numbers (`Concurrency` and `FocusedCommands` positive, the budgets within the
policy's limits), markers are no values (`NoCluster`, `NoPatch`, `NoRun`, and the outcomes of a queue are none of
"none", "absent", "open"), the original content of a file is a content, tests and writable files are files. Finite sets: `Files`, since a
patch lists the files it changes, `Procs`, since the bound on claims counts slots, and in `Console` `Clusters`, since an event per cluster is recorded. `EventLimit` is two
at least, or the last two events of an incident would not be read together; the code has eighty. Nothing else is assumed of the sizes.

### Only model-checked

Liveness: `StageSettles`, `RepairSettles`, `EvidenceSettles`, `DisplayConverges`; they need fairness and ENABLED, which are
out of the prover's reach. The six runs that expect a violation are counterexamples, not theorems.

## 6. Not modelled

- The Codex runner: one promise over a child process, a timer and two events, without state that anything
  else shares. That a call may never end is in `RepairPublication` (`Hangs`); `Diagnosis` assumes that it does.
- Migrations: one transaction under an advisory lock, before the programs run.
- Configuration, secrets, HMAC, redaction: functions over strings without state.
- Benchmarks, fixtures, scripts: not part of the running system.
- Within modelled parts: encryption and hashing of artifacts, paging and truncation of logs, text rules
  of fingerprints, glob matching and diff parsing of the policy, the line budget (it acts as
  the file budget does), Docker's isolation; of the console the list of diagnoses, the filter of payloads, the
  choice of the latest among several incidents, the loading flag and all presentation.
- An incident whose logs contain no cluster stops in DIAGNOSING. `Diagnosis` and `Incident` have the step;
  no property claims an end for it, because there is none.
- The comment at `src/apps/dashboard/src/App.tsx:88-89` says that the local console "always prefers live
  ledger data". `Console` has the catch block as it is: any failed poll, or an older 404, replaces live data by the
  recorded proof until the next answer. `DisplayAdvances` and `DisplayConverges` state what remains true.

## 7. Plan

Done: one module per stage in the order of their hazards, `Incident`, which the stages implement, `Console`; proofs of
all safety properties, action properties and refinements that the runs check.

Next:

1. The stages joined in one proof: from `AwaitsClustering` and `AwaitsRepair` on, what `DatabaseInv` of `ConsoleProofs` says of
   `Incident` holds of each stage's tables, so that `PullIsBacked` becomes a theorem about `RepairPublication` itself.
2. The safety half of the liveness properties: that a row which is neither done nor held is claimable, due or about to
   be, in every reachable state of each stage, which is what fairness needs to act on.
3. For one process with one slot, that two `recordDiagnosis` transactions never overlap, so that `RepairedUnlessOverlapped`
   holds without its exemption (`ActionableIsRepaired`).
