-------------------------- MODULE AttemptLoopProofs --------------------------
(* The attempt loop is right for every checkout, policy and budget.  The     *)
(* argument: the diff that is checked is read from the working tree after    *)
(* the patch is applied, and between that check and the end of the run only  *)
(* commands run, so that what is validated, tested and read back for the     *)
(* broker is one and the same tree (TestedTree); and each attempt appends    *)
(* one outcome, the last of them a verdict (Counted).                        *)
EXTENDS AttemptLoop, SequenceTheorems, FiniteSetTheorems, TLAPS

States == {"VALIDATED", "REJECTED", "VALIDATION_FAILED", "BUDGET_EXHAUSTED"}
Reasons == {"none", "agent_failed", "duplicate_patch", "sandbox_patch_rejected",
            "full_suite_failed", "targeted_test_failed"}
Edit == [path: Files, before: Contents, after: Contents]
Diffs == (UNION {[paths -> Contents] : paths \in SUBSET Files}) \cup {NoPatch}
Outcome == [attempt: Nat, state: States, reason: Reasons, diff: Diffs]

(* One outcome per attempt, and the end of the run after the last. *)
Counted ==
  /\ outcomes \in Seq(Outcome)
  /\ ~Over => Len(outcomes) = attempt - 1 /\ attempt <= MaxAttempts
  /\ Over => Len(outcomes) # 0
  /\ LastOutcomeExplainsEnd
  /\ pc = "handed over" => Last(outcomes).state = "VALIDATED"

(* The tree that the commands run on is the one whose diff was checked, and  *)
(* the one that the VALIDATED outcome and the broker get.                    *)
TestedTree ==
  /\ pc = "validate" => passed = 0
  /\ pc = "test" => WithinPolicy(DOMAIN Diff) /\ passed <= FocusedCommands
  /\ Validated => /\ Last(outcomes).diff = Diff /\ WithinPolicy(DOMAIN Diff)
                  /\ passed = FocusedCommands + 1
  /\ ValidatedTreeIsPublished

LoopInv == TypeOK /\ Counted /\ TestedTree

-----------------------------------------------------------------------------
(* A compiled patch is a finite sequence of edits of the checkout's files. *)
LEMMA ProposalsTyped ==
  ASSUME workspace \in [Files -> Contents], NEW p \in Proposals
  PROVE  p \in Seq(Edit)
<1>0. PICK paths \in SUBSET Files :
        \E order \in SetToSeqs(paths), after \in [paths -> Contents] : p = Patch(order, after)
  BY DEF Proposals
<1>1. PICK order \in SetToSeqs(paths), after \in [paths -> Contents] : p = Patch(order, after)
  BY <1>0
<1>2. Cardinality(paths) \in Nat
  BY FilesAssumption, FS_Subset, FS_CardinalityType
<1>3. order \in [1 .. Cardinality(paths) -> paths]
  BY <1>1 DEF SetToSeqs
<1>4. p = [k \in 1 .. Cardinality(paths) |-> [path |-> order[k], before |-> workspace[order[k]],
                                              after |-> after[order[k]]]]
  BY <1>1, <1>3 DEF Patch
<1>5. \A k \in 1 .. Cardinality(paths) :
        [path |-> order[k], before |-> workspace[order[k]], after |-> after[order[k]]] \in Edit
  BY <1>3 DEF Edit
<1>6. p \in [1 .. Cardinality(paths) -> Edit]
  BY <1>4, <1>5
<1> QED
  BY <1>2, <1>6, SeqDef

(* Applying one leaves every file with some content. *)
LEMMA PatchedTyped ==
  ASSUME workspace \in [Files -> Contents], proposal \in Seq(Edit)
  PROVE  Patched \in [Files -> Contents]
<1> DEFINE edits(f) == {k \in DOMAIN proposal : proposal[k].path = f}
           content(f) == IF edits(f) = {} THEN workspace[f]
                         ELSE proposal[CHOOSE k \in edits(f) : TRUE].after
<1>1. ASSUME NEW f \in Files PROVE content(f) \in Contents
  <2>1. CASE edits(f) = {}
    BY <2>1
  <2>2. CASE edits(f) # {}
    <3>1. PICK k \in DOMAIN proposal : k = CHOOSE j \in edits(f) : TRUE
      BY <2>2
    <3>2. proposal[k] \in Edit
      BY LenProperties, ElementOfSeq
    <3> QED
      BY <2>2, <3>1, <3>2 DEF Edit
  <2> QED
    BY <2>1, <2>2
<1>2. Patched = [f \in Files |-> content(f)]
  BY DEF Patched
<1> HIDE DEF content
<1> QED
  BY <1>1, <1>2

(* The diff of a working tree. *)
LEMMA DiffTyped ==
  ASSUME workspace \in [Files -> Contents]
  PROVE  /\ Diff \in Diffs
         /\ DOMAIN Diff \subseteq Files
         /\ \A path \in DOMAIN Diff : Diff[path] = workspace[path]
<1> DEFINE paths == {f \in Files : workspace[f] # Original}
<1>1. Diff = [f \in paths |-> workspace[f]]
  BY DEF Diff, Restrict
<1>2. paths \in SUBSET Files /\ [f \in paths |-> workspace[f]] \in [paths -> Contents]
  OBVIOUS
<1> HIDE DEF paths
<1> QED
  BY <1>1, <1>2 DEF Diffs

(* An outcome joins the others at the end. *)
LEMMA OutcomeAppended ==
  ASSUME NEW outs \in Seq(Outcome), NEW o \in Outcome
  PROVE  LET s == Append(outs, o)
         IN  /\ s \in Seq(Outcome) /\ Len(s) = Len(outs) + 1 /\ Len(outs) \in Nat
             /\ DOMAIN s = 1 .. Len(outs) + 1 /\ DOMAIN outs = 1 .. Len(outs)
             /\ Last(s) = o /\ s[Len(outs) + 1] = o
             /\ \A k \in DOMAIN outs : s[k] = outs[k]
BY AppendProperties, LenProperties DEF Last

(* The parts of the invariant that the proofs below start from. *)
LEMMA Unfolded ==
  ASSUME LoopInv
  PROVE  /\ attempt \in Nat /\ attempt \in 1 .. MaxAttempts + 1 /\ MaxAttempts \in Nat
         /\ outcomes \in Seq(Outcome) /\ Len(outcomes) \in Nat
         /\ DOMAIN outcomes = 1 .. Len(outcomes)
         /\ proposal \in Seq(Edit) /\ \A p \in seen : p \in Seq(Edit)
         /\ passed \in 0 .. FocusedCommands + 1 /\ FocusedCommands \in Nat
         /\ workspace \in [Files -> Contents]
<1>1. /\ attempt \in 1 .. MaxAttempts + 1 /\ passed \in 0 .. FocusedCommands + 1
      /\ workspace \in [Files -> Contents]
      /\ \A p \in seen \cup {proposal} : p \in Seq(Edit)
  BY DEF LoopInv, TypeOK, Edit
<1>2. outcomes \in Seq(Outcome)
  BY DEF LoopInv, Counted
<1>3. Len(outcomes) \in Nat /\ DOMAIN outcomes = 1 .. Len(outcomes)
  BY <1>2, LenProperties
<1>4. MaxAttempts \in Nat /\ FocusedCommands \in Nat
  BY BudgetAssumption, CommandsAssumption
<1> QED
  BY <1>1, <1>2, <1>3, <1>4

(* While the run goes on, every attempt made has failed. *)
LEMMA WhileRunning ==
  ASSUME LoopInv, ~Over
  PROVE  /\ attempt \in Nat /\ attempt \in 1 .. MaxAttempts /\ MaxAttempts \in Nat
         /\ outcomes \in Seq(Outcome) /\ Len(outcomes) = attempt - 1
         /\ \A k \in DOMAIN outcomes : /\ outcomes[k].attempt = k
                                       /\ outcomes[k].state \in {"REJECTED", "VALIDATION_FAILED"}
<1>1. attempt <= MaxAttempts /\ Len(outcomes) = attempt - 1
  BY DEF LoopInv, Counted
<1>2. \A k \in DOMAIN outcomes : /\ outcomes[k].attempt = k
                                 /\ outcomes[k].state \in {"REJECTED", "VALIDATION_FAILED"}
  BY DEF LoopInv, Counted, LastOutcomeExplainsEnd
<1>3. /\ attempt \in Nat /\ attempt \in 1 .. MaxAttempts + 1 /\ MaxAttempts \in Nat
      /\ outcomes \in Seq(Outcome)
  BY Unfolded
<1> QED
  BY <1>1, <1>2, <1>3

(* The record that Recorded appends. *)
LEMMA OutcomeTyped ==
  ASSUME NEW n \in Nat, NEW state \in States, NEW reason \in Reasons, NEW diff \in Diffs
  PROVE  [attempt |-> n, state |-> state, reason |-> reason, diff |-> diff] \in Outcome
BY DEF Outcome

(* A failed attempt: one more outcome, and either another attempt or the end *)
(* of the run with the budget spent.                                         *)
LEMMA AttemptFails ==
  ASSUME LoopInv, ~Over,
         NEW state \in {"REJECTED", "VALIDATION_FAILED"}, NEW reason \in Reasons,
         NextAttempt(state, reason)
  PROVE  /\ Counted'
         /\ pc' \in {"propose", "done"} /\ attempt' \in 1 .. MaxAttempts + 1
         /\ seen' = seen /\ passed' = passed
         /\ ~Validated'
<1>t. /\ attempt \in Nat /\ attempt \in 1 .. MaxAttempts /\ MaxAttempts \in Nat
      /\ outcomes \in Seq(Outcome) /\ Len(outcomes) = attempt - 1
      /\ \A k \in DOMAIN outcomes : /\ outcomes[k].attempt = k
                                    /\ outcomes[k].state \in {"REJECTED", "VALIDATION_FAILED"}
  BY WhileRunning
<1> DEFINE o == [attempt |-> attempt,
                 state |-> IF LastAttempt THEN "BUDGET_EXHAUSTED" ELSE state,
                 reason |-> reason, diff |-> NoPatch]
<1>0. (IF LastAttempt THEN "BUDGET_EXHAUSTED" ELSE state) \in States
  <2>1. state \in States /\ "BUDGET_EXHAUSTED" \in States
    BY DEF States
  <2> QED
    BY <2>1
<1>d. NoPatch \in Diffs
  BY DEF Diffs
<1>1. /\ o \in Outcome /\ o.attempt = attempt
      /\ o.state = IF LastAttempt THEN "BUDGET_EXHAUSTED" ELSE state
  BY <1>t, <1>0, <1>d, OutcomeTyped
<1>2. outcomes' = Append(outcomes, o) /\ attempt' = attempt + 1
      /\ pc' = (IF attempt' <= MaxAttempts THEN "propose" ELSE "done")
      /\ seen' = seen /\ passed' = passed
  BY DEF NextAttempt, Recorded, AttemptsLeft
<1> HIDE DEF o
<1>3. /\ outcomes' \in Seq(Outcome) /\ Len(outcomes') = attempt /\ DOMAIN outcomes' = 1 .. attempt
      /\ Last(outcomes') = o /\ outcomes'[attempt] = o
      /\ \A k \in 1 .. attempt - 1 : outcomes'[k] = outcomes[k] /\ k \in DOMAIN outcomes
  BY <1>t, <1>1, <1>2, OutcomeAppended
<1>4. \A k \in DOMAIN outcomes' :
        /\ outcomes'[k].attempt = k
        /\ k < attempt => outcomes'[k].state \in {"REJECTED", "VALIDATION_FAILED"}
  BY <1>t, <1>1, <1>3
<1>5. CASE LastAttempt
  <2>1. pc' = "done" /\ attempt = MaxAttempts
    BY <1>t, <1>2, <1>5 DEF LastAttempt
  <2>2. LastOutcomeExplainsEnd'
    BY <1>1, <1>3, <1>4, <1>5, <2>1 DEF LastOutcomeExplainsEnd, Over, Last
  <2>3. Over' /\ pc' # "handed over"
    BY <2>1 DEF Over
  <2>6. Len(outcomes') # 0
    <3>1. attempt # 0
      BY <1>t
    <3> QED
      BY <1>3, <3>1
  <2>4. Counted'
    BY <1>3, <2>2, <2>3, <2>6 DEF Counted
  <2>5. ~Validated'
    BY <1>1, <1>3, <1>5 DEF Validated, Last
  <2> QED
    BY <1>t, <1>2, <2>1, <2>4, <2>5
<1>6. CASE ~LastAttempt
  <2>1. pc' = "propose" /\ attempt' <= MaxAttempts
    BY <1>t, <1>2, <1>6 DEF LastAttempt
  <2>2. \A k \in DOMAIN outcomes' : outcomes'[k].state \in {"REJECTED", "VALIDATION_FAILED"}
    BY <1>t, <1>1, <1>3, <1>4, <1>6
  <2>3. LastOutcomeExplainsEnd'
    BY <1>4, <2>1, <2>2 DEF LastOutcomeExplainsEnd, Over
  <2>4. ~Over' /\ pc' # "handed over" /\ ~Validated'
    BY <2>1 DEF Over, Validated
  <2>5. Len(outcomes') = attempt' - 1
    BY <1>t, <1>2, <1>3
  <2>6. Counted'
    BY <1>3, <2>1, <2>3, <2>4, <2>5 DEF Counted
  <2> QED
    BY <1>t, <1>2, <2>1, <2>4, <2>6
<1> QED
  BY <1>5, <1>6

EndsTheRun(o) == \/ o.state = "VALIDATED"
                 \/ o.state = "REJECTED" /\ o.reason = "duplicate_patch"

(* The end of the run by another outcome than a spent budget. *)
LEMMA RunEnds ==
  ASSUME LoopInv, ~Over, NEW o \in Outcome, o.attempt = attempt,
         outcomes' = Append(outcomes, o), pc' = "done",
         EndsTheRun(o)
  PROVE  Counted' /\ Last(outcomes') = o
<1>t. /\ attempt \in Nat /\ attempt \in 1 .. MaxAttempts /\ MaxAttempts \in Nat
      /\ outcomes \in Seq(Outcome) /\ Len(outcomes) = attempt - 1
      /\ \A k \in DOMAIN outcomes : /\ outcomes[k].attempt = k
                                    /\ outcomes[k].state \in {"REJECTED", "VALIDATION_FAILED"}
  BY WhileRunning
<1>1. /\ outcomes' \in Seq(Outcome) /\ Len(outcomes') = attempt /\ DOMAIN outcomes' = 1 .. attempt
      /\ Last(outcomes') = o /\ outcomes'[attempt] = o
      /\ \A k \in 1 .. attempt - 1 : outcomes'[k] = outcomes[k] /\ k \in DOMAIN outcomes
  BY <1>t, OutcomeAppended
<1>2. \A k \in DOMAIN outcomes' :
        /\ outcomes'[k].attempt = k
        /\ k < attempt => outcomes'[k].state \in {"REJECTED", "VALIDATION_FAILED"}
  BY <1>t, <1>1
<1>3. LastOutcomeExplainsEnd'
  BY <1>1, <1>2 DEF LastOutcomeExplainsEnd, Over, Last, EndsTheRun
<1>4. Over' /\ pc' # "handed over"
  BY DEF Over
<1>5. Len(outcomes') # 0
  <2>1. attempt # 0
    BY <1>t
  <2> QED
    BY <1>1, <2>1
<1> QED
  BY <1>1, <1>3, <1>4, <1>5 DEF Counted

(* Every step of the loop, and the hand-over, keeps the invariant. *)
LEMMA LoopStep ==
  ASSUME LoopInv, [Next]_vars
  PROVE  LoopInv'
<1>t. /\ attempt \in 1 .. MaxAttempts + 1 /\ MaxAttempts \in Nat
      /\ outcomes \in Seq(Outcome)
      /\ proposal \in Seq(Edit) /\ \A p \in seen : p \in Seq(Edit)
      /\ passed \in 0 .. FocusedCommands + 1 /\ FocusedCommands \in Nat
      /\ workspace \in [Files -> Contents]
  BY Unfolded
<1>j. ASSUME pc' \in {"propose", "apply", "validate", "test", "done", "handed over"},
             attempt' \in 1 .. MaxAttempts + 1, workspace' \in [Files -> Contents],
             proposal' \in Seq(Edit), \A p \in seen' : p \in Seq(Edit),
             passed' \in 0 .. FocusedCommands + 1, outcomes' \in Seq(Outcome)
      PROVE  TypeOK'
  <2>0. \A k \in DOMAIN outcomes' : outcomes'[k] \in Outcome
    BY <1>j, LenProperties
  <2>1. \A k \in DOMAIN outcomes' : outcomes'[k].state \in States
    BY <2>0 DEF Outcome
  <2> QED
    BY <1>j, <2>1 DEF TypeOK, Edit, States
<1>k. ASSUME UNCHANGED outcomes, ~Over, ~Over', attempt' = attempt PROVE Counted'
  BY <1>k DEF LoopInv, Counted, LastOutcomeExplainsEnd, Over
<1>n. ASSUME NEW state \in {"REJECTED", "VALIDATION_FAILED"}, NEW reason \in Reasons, ~Over,
             NextAttempt(state, reason), workspace' \in [Files -> Contents], proposal' = proposal
      PROVE  LoopInv'
  <2>1. /\ Counted' /\ pc' \in {"propose", "done"} /\ attempt' \in 1 .. MaxAttempts + 1
        /\ seen' = seen /\ passed' = passed /\ ~Validated'
    BY <1>n, AttemptFails
  <2>2. TypeOK'
    BY <1>t, <1>j, <1>n, <2>1 DEF Counted
  <2>3. TestedTree'
    BY <2>1 DEF TestedTree, ValidatedTreeIsPublished
  <2> QED
    BY <2>1, <2>2, <2>3 DEF LoopInv
<1>1. CASE UNCHANGED vars
  BY <1>1 DEF vars, loop, LoopInv, TypeOK, Counted, LastOutcomeExplainsEnd, Over, TestedTree,
              Validated, ValidatedTreeIsPublished, Diff
<1>2. CASE AgentFails
  BY <1>t, <1>n, <1>2 DEF AgentFails, Over, Reasons
<1>3. ASSUME NEW p \in Proposals, RepeatsPatch(p) PROVE LoopInv'
  <2> DEFINE o == [attempt |-> attempt, state |-> "REJECTED", reason |-> "duplicate_patch",
                   diff |-> NoPatch]
  <2>0. /\ attempt \in Nat /\ NoPatch \in Diffs
        /\ "REJECTED" \in States /\ "duplicate_patch" \in Reasons
    BY <1>t DEF States, Reasons, Diffs
  <2>1. /\ o \in Outcome /\ o.attempt = attempt /\ o.state = "REJECTED"
        /\ o.reason = "duplicate_patch"
    BY <2>0, OutcomeTyped
  <2>2. outcomes' = Append(outcomes, o) /\ pc' = "done" /\ ~Over
    BY <1>3 DEF RepeatsPatch, Recorded, Over
  <2>6. EndsTheRun(o)
    BY DEF EndsTheRun
  <2> HIDE DEF o
  <2>3. Counted' /\ Last(outcomes') = o
    BY <2>1, <2>2, <2>6, RunEnds
  <2>4. TypeOK'
    BY <1>t, <1>j, <1>3, <2>2, <2>3 DEF RepeatsPatch, Counted
  <2>5. TestedTree'
    BY <2>1, <2>2, <2>3 DEF TestedTree, Validated, ValidatedTreeIsPublished
  <2> QED
    BY <2>3, <2>4, <2>5 DEF LoopInv
<1>4. ASSUME NEW p \in Proposals, Propose(p) PROVE LoopInv'
  <2>1. p \in Seq(Edit)
    BY <1>t, ProposalsTyped
  <2>2. TypeOK'
    BY <1>t, <1>j, <1>4, <2>1 DEF Propose
  <2>3. Counted'
    BY <1>k, <1>4 DEF Propose, Over
  <2>4. TestedTree'
    BY <1>4 DEF Propose, TestedTree, Validated, ValidatedTreeIsPublished
  <2> QED
    BY <2>2, <2>3, <2>4 DEF LoopInv
<1>5. CASE ApplyPatch
  <2>1. TypeOK'
    BY <1>t, <1>j, <1>5, PatchedTyped DEF ApplyPatch
  <2>2. Counted'
    BY <1>k, <1>5 DEF ApplyPatch, Over
  <2>3. TestedTree'
    BY <1>5 DEF ApplyPatch, TestedTree, Validated, ValidatedTreeIsPublished
  <2> QED
    BY <2>1, <2>2, <2>3 DEF LoopInv
<1>6. CASE RejectPatch
  <2>1. workspace' \in [Files -> Contents]
    BY <1>t, <1>6, PatchedTyped DEF RejectPatch
  <2> QED
    BY <1>n, <1>6, <2>1 DEF RejectPatch, Over, Reasons
<1>7. CASE ReadDiff
  <2>1. TypeOK'
    BY <1>t, <1>j, <1>7 DEF ReadDiff
  <2>2. Counted'
    BY <1>k, <1>7 DEF ReadDiff, Over
  <2>3. passed <= FocusedCommands
    BY <1>t, <1>7 DEF ReadDiff, LoopInv, TestedTree
  <2>4. TestedTree'
    BY <1>7, <2>3 DEF ReadDiff, TestedTree, Validated, ValidatedTreeIsPublished, Diff
  <2> QED
    BY <2>1, <2>2, <2>4 DEF LoopInv
<1>8. CASE RefuseDiff
  BY <1>t, <1>n, <1>8 DEF RefuseDiff, Over, Reasons
<1>9. CASE CommandPasses
  <2>1. WithinPolicy(DOMAIN Diff) /\ passed <= FocusedCommands /\ ~Over
    BY <1>9 DEF CommandPasses, LoopInv, TestedTree, Over
  <2>2. Diff' = Diff
    BY <1>9 DEF CommandPasses, Diff
  <2>3. CASE passed < FocusedCommands
    <3>1. TypeOK'
      BY <1>t, <1>j, <1>9, <2>3 DEF CommandPasses
    <3>2. Counted'
      BY <1>k, <1>9, <2>3 DEF CommandPasses, Over
    <3>3. TestedTree'
      BY <1>t, <1>9, <2>1, <2>2, <2>3
         DEF CommandPasses, TestedTree, Validated, ValidatedTreeIsPublished
    <3> QED
      BY <3>1, <3>2, <3>3 DEF LoopInv
  <2>4. CASE ~(passed < FocusedCommands)
    <3> DEFINE verdict == [attempt |-> attempt, state |-> "VALIDATED", reason |-> "none",
                           diff |-> Diff]
    <3>1. verdict \in Outcome /\ outcomes' = Append(outcomes, verdict) /\ pc' = "done"
          /\ passed' = FocusedCommands + 1
      <4>1. attempt \in Nat /\ Diff \in Diffs /\ "VALIDATED" \in States /\ "none" \in Reasons
        BY <1>t, DiffTyped DEF States, Reasons
      <4>2. verdict \in Outcome
        BY <4>1, OutcomeTyped
      <4> QED
        BY <1>t, <1>9, <2>1, <2>4, <4>2 DEF CommandPasses, Recorded
    <3>2. PICK o \in Outcome : o = verdict
      BY <3>1
    <3>6. o.attempt = attempt /\ o.state = "VALIDATED" /\ o.diff = Diff /\ EndsTheRun(o)
      BY <3>2 DEF EndsTheRun
    <3>7. outcomes' = Append(outcomes, o)
      BY <3>1, <3>2
    <3> HIDE DEF verdict
    <3>3. Counted' /\ Last(outcomes') = o
      BY <2>1, <3>1, <3>6, <3>7, RunEnds
    <3>4. TypeOK'
      BY <1>t, <1>j, <1>9, <3>1, <3>3 DEF CommandPasses, Counted
    <3>5. TestedTree'
      BY <2>1, <2>2, <3>1, <3>3, <3>6 DEF TestedTree, Validated, ValidatedTreeIsPublished
    <3> QED
      BY <3>3, <3>4, <3>5 DEF LoopInv
  <2> QED
    BY <2>3, <2>4
<1>10. ASSUME NEW reason \in {"targeted_test_failed", "full_suite_failed"}, CommandFails(reason)
       PROVE  LoopInv'
  BY <1>t, <1>n, <1>10 DEF CommandFails, Over, Reasons
<1>11. CASE HandOver
  <2>1. /\ Last(outcomes).diff = Diff /\ WithinPolicy(DOMAIN Diff) /\ passed = FocusedCommands + 1
        /\ Last(outcomes).state = "VALIDATED" /\ Over
    BY <1>11 DEF HandOver, LoopInv, TestedTree, Validated, Over
  <2>2. changes' = Diff
    BY <1>t, <1>11, <2>1, DiffTyped DEF HandOver, ChangesFromDiff, Diff, Restrict
  <2>3. pc' = "handed over"
        /\ UNCHANGED <<attempt, workspace, proposal, seen, passed, outcomes>>
    BY <1>11 DEF HandOver
  <2>4. TypeOK'
    BY <1>t, <1>j, <2>3
  <2>5. Counted'
    BY <2>1, <2>3 DEF LoopInv, Counted, LastOutcomeExplainsEnd, Over
  <2>6. TestedTree'
    BY <2>1, <2>2, <2>3
       DEF TestedTree, Validated, ValidatedTreeIsPublished, WithinPolicy, Diff
  <2> QED
    BY <2>4, <2>5, <2>6 DEF LoopInv
<1> QED
  BY <1>1, <1>2, <1>3, <1>4, <1>5, <1>6, <1>7, <1>8, <1>9, <1>10, <1>11
     DEF Next, Attempt, Done

(* The invariant holds of every run, whatever the agent proposes and the     *)
(* commands answer.                                                          *)
THEOREM InvariantHolds == Spec => []LoopInv
<1>1. Init => LoopInv
  <2> SUFFICES ASSUME Init PROVE LoopInv
    OBVIOUS
  <2>1. /\ pc = "propose" /\ attempt = 1 /\ workspace = [f \in Files |-> Original]
        /\ proposal = << >> /\ seen = {} /\ passed = 0 /\ outcomes = << >>
    BY DEF Init, NoPatch
  <2>2. TypeOK
    <3>1. /\ pc \in {"propose", "apply", "validate", "test", "done", "handed over"}
          /\ workspace \in [Files -> Contents]
      BY <2>1, ContentsAssumption
    <3>2. attempt \in 1 .. MaxAttempts + 1 /\ passed \in 0 .. FocusedCommands + 1
      BY <2>1, BudgetAssumption, CommandsAssumption
    <3>3. \A p \in seen \cup {proposal} : p \in Seq([path: Files, before: Contents, after: Contents])
      BY <2>1, EmptySeq
    <3>4. DOMAIN outcomes = {}
      BY <2>1, EmptySeq
    <3> QED
      BY <3>1, <3>2, <3>3, <3>4 DEF TypeOK
  <2>3. Counted
    <3>1. outcomes \in Seq(Outcome) /\ Len(outcomes) = 0 /\ DOMAIN outcomes = {}
      BY <2>1, EmptySeq
    <3>2. ~Over /\ pc # "handed over"
      BY <2>1 DEF Over
    <3>3. LastOutcomeExplainsEnd
      BY <3>1, <3>2 DEF LastOutcomeExplainsEnd
    <3>4. Len(outcomes) = attempt - 1 /\ attempt <= MaxAttempts
      BY <2>1, <3>1, BudgetAssumption
    <3> QED
      BY <3>1, <3>2, <3>3, <3>4 DEF Counted
  <2>4. TestedTree
    BY <2>1 DEF TestedTree, Validated, ValidatedTreeIsPublished
  <2> QED
    BY <2>2, <2>3, <2>4 DEF LoopInv
<1>2. LoopInv /\ [Next]_vars => LoopInv'
  BY LoopStep
<1> QED
  BY <1>1, <1>2, PTL DEF Spec

(* The variables stay within their types; a patch is always a finite         *)
(* sequence of edits of the checkout's files.                                *)
THEOREM TypeCorrect == Spec => []TypeOK
<1>1. LoopInv => TypeOK
  BY DEF LoopInv
<1> QED
  BY <1>1, InvariantHolds, PTL

(* What is handed to the broker is the tree that was checked against the     *)
(* policy and passed every required command, and all of what it changed.     *)
THEOREM ValidatedTreeIsPublishedHolds == Spec => []ValidatedTreeIsPublished
<1>1. LoopInv => ValidatedTreeIsPublished
  BY DEF LoopInv, TestedTree
<1> QED
  BY <1>1, InvariantHolds, PTL

(* The last outcome tells how the run ended, and VALIDATION_FAILED is never  *)
(* the last one, for any budget the policy may set.                          *)
THEOREM LastOutcomeExplainsEndHolds == Spec => []LastOutcomeExplainsEnd
<1>1. LoopInv => LastOutcomeExplainsEnd
  BY DEF LoopInv, Counted
<1> QED
  BY <1>1, InvariantHolds, PTL
=============================================================================
