----------------------------- MODULE AttemptLoop -----------------------------
(* RepairAttemptLoop.run (repair/attempt-loop.ts) on one checkout, with the  *)
(* agent's patch compiler (repair/structured-patch.ts), the gate             *)
(* (repair/repair-gate.ts), the policy (repair/policy.ts) and the sandbox    *)
(* (repair/docker-sandbox.ts) it calls; and what the worker then reads from  *)
(* the checkout for the broker (repair/github-checkout.ts).  What the model, *)
(* git apply and the test commands answer is nondeterministic.  A file's     *)
(* content is one value; the line budget of the policy behaves like its file *)
(* budget and is left out; a protected path is one outside Writable.         *)
EXTENDS Integers, FiniteSets, Sequences, SequencesExt

CONSTANTS
  Files,            \* the regular files of the checkout
  Writable,         \* those matched by autonomousWritePaths, none protected
  TestFiles,        \* those under test/
  Contents,         \* what a file may contain
  Original,         \* what every file contains at HEAD
  MaxAttempts, MaxChangedFiles,   \* policy.repairBudget
  FocusedCommands   \* how many commands requiredTests.targeted has

ASSUME FilesAssumption == /\ IsFiniteSet(Files)
                          /\ Writable \subseteq Files /\ TestFiles \subseteq Files
ASSUME ContentsAssumption == Original \in Contents
ASSUME BudgetAssumption == MaxAttempts \in 1 .. 3 /\ MaxChangedFiles \in 1 .. 20
ASSUME CommandsAssumption == FocusedCommands \in Nat \ {0}

VARIABLES
  pc,         \* where run is
  attempt,    \* the loop's counter
  workspace,  \* the checkout's working tree, which nothing resets
  proposal,   \* the compiled patch of this attempt
  seen,       \* seenPatchHashes
  passed,     \* required commands that exited with 0 in this attempt
  outcomes,   \* the outcomes returned at the end
  changes     \* the file contents handed to the broker

loop == <<pc, attempt, workspace, proposal, seen, passed, outcomes>>
vars == <<loop, changes>>

NoPatch == << >>

(* assertPatchWithinPolicy, by the paths of a diff *)
WithinFileBudget(paths) == paths # {} /\ Cardinality(paths) <= MaxChangedFiles
WithinScope(paths) == paths \subseteq Writable       \* mutant of the next: no budget
WithinPolicy(paths) == WithinFileBudget(paths) /\ WithinScope(paths)

(* compileStructuredPatch: two edits at least (the proposal schema), of      *)
(* different existing files, each diffed against the working tree.  The hash *)
(* of the patch tells the order of its edits.                                *)
Patch(order, after) ==
  [k \in DOMAIN order |-> [path |-> order[k], before |-> workspace[order[k]],
                           after |-> after[order[k]]]]
Proposals ==
  UNION {{Patch(order, after) : order \in SetToSeqs(paths), after \in [paths -> Contents]} :
         paths \in {s \in SUBSET Files : Cardinality(s) >= 2 /\ WithinPolicy(s)}}

Patched ==
  [f \in Files |-> LET edits == {k \in DOMAIN proposal : proposal[k].path = f}
                   IN IF edits = {} THEN workspace[f]
                      ELSE proposal[CHOOSE k \in edits : TRUE].after]

(* git diff HEAD *)
Diff == Restrict(workspace, {f \in Files : workspace[f] # Original})

Init == /\ pc = "propose" /\ attempt = 1
        /\ workspace = [f \in Files |-> Original]
        /\ proposal = NoPatch /\ seen = {} /\ passed = 0
        /\ outcomes = <<>> /\ changes = NoPatch

Recorded(state, reason, diff) ==
  Append(outcomes, [attempt |-> attempt, state |-> state, reason |-> reason, diff |-> diff])

AttemptsLeftInclusive(n) == n <= MaxAttempts + 1     \* mutant: off by one
AttemptsLeft(n) == n <= MaxAttempts
LastAttemptMissed == attempt > MaxAttempts           \* mutant: off by one
LastAttempt == attempt = MaxAttempts

(* The end of an attempt that failed: continue, with the for loop's test. *)
NextAttempt(state, reason) ==
  /\ outcomes' = Recorded(IF LastAttempt THEN "BUDGET_EXHAUSTED" ELSE state, reason, NoPatch)
  /\ attempt' = attempt + 1
  /\ pc' = IF AttemptsLeft(attempt') THEN "propose" ELSE "done"
  /\ UNCHANGED <<seen, passed>>

(* The model fails, or its edits do not compile: a fragment that is not in   *)
(* the working tree exactly once, a path or a size outside the policy.       *)
AgentFails == /\ pc = "propose"
              /\ NextAttempt("REJECTED", "agent_failed")
              /\ UNCHANGED <<workspace, proposal>>

RepeatsPatch(p) == /\ pc = "propose" /\ p \in seen
                   /\ outcomes' = Recorded("REJECTED", "duplicate_patch", NoPatch)
                   /\ pc' = "done"
                   /\ UNCHANGED <<attempt, workspace, proposal, seen, passed>>

Propose(p) == /\ pc = "propose" /\ p \notin seen
              /\ seen' = seen \cup {p}
              /\ proposal' = p
              /\ pc' = "apply"
              /\ UNCHANGED <<attempt, workspace, passed, outcomes>>

(* The sandbox's applyPatch *)
ApplyPatch == /\ pc = "apply"
              /\ workspace' = Patched
              /\ passed' = 0
              /\ pc' = "validate"
              /\ UNCHANGED <<attempt, proposal, seen, outcomes>>

(* git apply refuses the patch, which changes nothing; or the container is   *)
(* killed by the timer, and the files it had written by then stay.           *)
RejectPatch == /\ pc = "apply"
               /\ \E written \in SUBSET Files :
                    workspace' = [f \in Files |-> IF f \in written THEN Patched[f]
                                                 ELSE workspace[f]]
               /\ NextAttempt("REJECTED", "sandbox_patch_rejected")
               /\ UNCHANGED proposal

(* validateRepairAttempt: the diff is read and must be within the policy,    *)
(* then the focused commands run, then the full suite.                       *)
ReadDiff == /\ pc = "validate" /\ WithinPolicy(DOMAIN Diff)
            /\ pc' = "test"
            /\ UNCHANGED <<attempt, workspace, proposal, seen, passed, outcomes>>

RefuseDiff == /\ pc = "validate"
              /\ NextAttempt("VALIDATION_FAILED", "full_suite_failed")
              /\ UNCHANGED <<workspace, proposal>>

CommandPasses == /\ pc = "test"
                 /\ passed' = passed + 1
                 /\ IF passed < FocusedCommands
                    THEN UNCHANGED <<pc, outcomes>>
                    ELSE /\ pc' = "done"
                         /\ outcomes' = Recorded("VALIDATED", "none", Diff)
                 /\ UNCHANGED <<attempt, workspace, proposal, seen>>

(* A focused command exits with another code, or the full suite does, or the *)
(* container cannot be started at all.                                       *)
CommandFails(reason) ==
  /\ pc = "test"
  /\ passed < FocusedCommands \/ reason = "full_suite_failed"
  /\ NextAttempt("VALIDATION_FAILED", reason)
  /\ UNCHANGED <<workspace, proposal>>

Attempt == \/ AgentFails
           \/ \E p \in Proposals : RepeatsPatch(p) \/ Propose(p)
           \/ ApplyPatch \/ RejectPatch
           \/ ReadDiff \/ RefuseDiff
           \/ CommandPasses
           \/ \E reason \in {"targeted_test_failed", "full_suite_failed"} : CommandFails(reason)

(* changesFromDiff: the paths of the validated diff, but what their files    *)
(* contain now.                                                              *)
LastPatchOnly(diff) ==                               \* mutant: only what it edited
  [path \in {proposal[k].path : k \in DOMAIN proposal} |-> workspace[path]]
ChangesFromDiff(diff) == [path \in DOMAIN diff |-> workspace[path]]

Validated == pc = "done" /\ Last(outcomes).state = "VALIDATED"

HandOver == /\ Validated
            /\ changes' = ChangesFromDiff(Last(outcomes).diff)
            /\ pc' = "handed over"
            /\ UNCHANGED <<attempt, workspace, proposal, seen, passed, outcomes>>

Over == pc \in {"done", "handed over"}
Done == Over /\ ~Validated /\ UNCHANGED vars

Next == (Attempt /\ UNCHANGED changes) \/ HandOver \/ Done

Spec == Init /\ [][Next]_vars

-----------------------------------------------------------------------------
(* The types of the loop's variables. *)
TypeOK ==
  /\ pc \in {"propose", "apply", "validate", "test", "done", "handed over"}
  /\ attempt \in 1 .. MaxAttempts + 1
  /\ workspace \in [Files -> Contents]
  /\ \A p \in seen \cup {proposal} :
       p \in Seq([path: Files, before: Contents, after: Contents])
  /\ passed \in 0 .. FocusedCommands + 1
  /\ \A k \in DOMAIN outcomes :
       outcomes[k].state \in {"VALIDATED", "REJECTED", "VALIDATION_FAILED", "BUDGET_EXHAUSTED"}

(* What the broker is handed is all that the checkout differs in from HEAD,  *)
(* changes left behind by failed attempts included, although the loop hands  *)
(* over a diff and the files are read again after it ended; it is within the *)
(* policy although only single patches were compiled against it, and every   *)
(* required command passed on just that tree.                                *)
ValidatedTreeIsPublished ==
  pc = "handed over" =>
    /\ changes = Diff
    /\ WithinFileBudget(DOMAIN changes) /\ WithinScope(DOMAIN changes)
    /\ passed = FocusedCommands + 1

(* The last outcome says how the run ended: validated, or the same patch     *)
(* twice, or the budget spent.  VALIDATION_FAILED, which complete and the    *)
(* repair_runs table provide for, is never the last outcome.  Nothing comes  *)
(* after a VALIDATED or a BUDGET_EXHAUSTED outcome.                          *)
LastOutcomeExplainsEnd ==
  /\ Over => \/ Last(outcomes).state = "VALIDATED"
             \/ Last(outcomes).state = "REJECTED" /\ Last(outcomes).reason = "duplicate_patch"
             \/ Last(outcomes).state = "BUDGET_EXHAUSTED" /\ Last(outcomes).attempt = MaxAttempts
  /\ \A k \in DOMAIN outcomes :
       /\ outcomes[k].attempt = k
       /\ ~Over \/ k < Len(outcomes)
            => outcomes[k].state \in {"REJECTED", "VALIDATION_FAILED"}

(* README: "A patch must add or strengthen a regression test." *)
ValidatedHasTest ==
  Validated => DOMAIN Last(outcomes).diff \cap TestFiles # {}
=============================================================================
