----------------------------- MODULE RepairProofs -----------------------------
(* The repair stage is right for any number of workers, any set of patches   *)
(* and any number of faults.  The argument has three layers.  The lease: a   *)
(* claim mints a token larger than any token about, so one worker at most    *)
(* passes the token check, and the outbox row, the repair_runs row and the   *)
(* incident move together (LeasesFresh, RowAndRun).  GitHub: the branch can  *)
(* be created once, so that one worker at most stands before POST /pulls,    *)
(* for all the workers that overran their leases and publish nonetheless     *)
(* (Publishing).  The record: what a worker brings to complete was validated *)
(* and is at GitHub (Memory, FirstClaim).                                    *)
EXTENDS RepairPublication, OutboxRowProofs, SequenceTheorems

Pull == [patch: Patches, open: BOOLEAN]

(* The token of the row is that of its latest claim or none; workers hold    *)
(* tokens of claims already made, each its own; the idle hold none.          *)
LeasesFresh ==
  /\ row.token \in {NoToken, row.attempts}
  /\ \A w \in Workers : /\ worker[w].token <= row.attempts
                        /\ At(w, "idle") <=> worker[w].token = NoToken
  /\ \A v, w \in Workers : v # w /\ worker[v].token = worker[w].token
                             => worker[v].token = NoToken

(* Only an open row is leased, and its run is not over. *)
RowAndRun ==
  /\ RunFollowsRow
  /\ row.token # NoToken => Open(row)
  /\ row.done => row.present
  /\ ~row.done => run.state \in {"absent", "PENDING", "RUNNING"}

(* What a worker remembers at each place of runOnce. *)
Memory ==
  \A w \in Workers :
    /\ worker[w].pc \in {"checkout", "repairing", "publishing", "branching", "opening",
                         "completing"} => actionable
    /\ worker[w].pc \in {"publishing", "branching", "opening"} =>
         worker[w].final = "VALIDATED" /\ worker[w].patch \in Patches
    /\ At(w, "completing") =>
         /\ worker[w].final \in {"VALIDATED", "REJECTED", "BUDGET_EXHAUSTED"}
         /\ worker[w].final = "VALIDATED" => worker[w].opened
    /\ worker[w].opened => /\ worker[w].pc \in {"completing", "failing"}
                           /\ worker[w].final = "VALIDATED" /\ pulls # <<>>

(* GitHub's branch is the ticket of the one worker that opens a pull request,*)
(* and stays as long as a pull request of it is open.                        *)
Publishing == OnePublisher /\ (HasOpenPull => branch # NoPatch)

(* Before the first claim there is no pull request, and during the first     *)
(* claim there is none but the claimant's own.                               *)
FirstClaim ==
  /\ row.attempts = 0 => pulls = <<>>
  /\ row.attempts = 1 => \A w \in Workers :
       /\ worker[w].pc \in {"checkout", "repairing", "publishing", "branching", "opening"}
            => pulls = <<>>
       /\ worker[w].opened => \E k \in DOMAIN pulls : pulls[k].patch = worker[w].patch

RepairInv == /\ TypeOK /\ LeasesFresh /\ RowAndRun /\ Memory /\ Publishing
             /\ FirstClaim /\ RecordedPullExists
-----------------------------------------------------------------------------
(* A new pull request joins the others; closing one changes nothing else. *)
LEMMA PullAppended ==
  ASSUME NEW ps \in Seq(Pull), NEW q \in Pull
  PROVE  /\ Append(ps, q) \in Seq(Pull) /\ Append(ps, q) # <<>>
         /\ \A k \in DOMAIN ps : k \in DOMAIN Append(ps, q) /\ Append(ps, q)[k] = ps[k]
         /\ \E n \in DOMAIN Append(ps, q) :
              /\ Append(ps, q)[n] = q
              /\ \A k \in DOMAIN Append(ps, q) : k = n \/ k \in DOMAIN ps
<1>1. /\ Append(ps, q) \in Seq(Pull) /\ Append(ps, q) # <<>>
      /\ \A k \in DOMAIN ps : k \in DOMAIN Append(ps, q) /\ Append(ps, q)[k] = ps[k]
  BY AppendProperties, LenProperties
<1>2. LET n == Len(ps) + 1
      IN  /\ n \in DOMAIN Append(ps, q) /\ Append(ps, q)[n] = q
          /\ \A k \in DOMAIN Append(ps, q) : k = n \/ k \in DOMAIN ps
  BY AppendProperties, LenProperties
<1> QED
  BY <1>1, <1>2

(* Closing one pull request leaves the others, and its patch, as they are. *)
LEMMA PullClosed ==
  ASSUME NEW ps \in Seq(Pull), NEW k \in DOMAIN ps
  PROVE  LET qs == [ps EXCEPT ![k].open = FALSE]
         IN  /\ qs \in Seq(Pull)
             /\ DOMAIN qs = DOMAIN ps /\ (qs = <<>> <=> ps = <<>>)
             /\ \A j \in DOMAIN ps : qs[j].patch = ps[j].patch
             /\ \A j \in DOMAIN ps : qs[j].open => ps[j].open /\ j # k
<1> DEFINE qs == [ps EXCEPT ![k].open = FALSE]
           p == [ps[k] EXCEPT !.open = FALSE]
<1>0. ps[k] \in Pull
  BY LenProperties, ElementOfSeq
<1>1. p \in Pull /\ p.patch = ps[k].patch /\ ~p.open
  BY <1>0 DEF Pull
<1>2. qs = [ps EXCEPT ![k] = p]
  OBVIOUS
<1>3. qs \in Seq(Pull) /\ Len(qs) = Len(ps)
  BY <1>1, <1>2, LenProperties, ExceptSeq
<1>4. DOMAIN qs = DOMAIN ps
  OBVIOUS
<1>5. qs = <<>> <=> ps = <<>>
  BY <1>4, <1>1
<1>6. \A j \in DOMAIN ps : qs[j] = IF j = k THEN p ELSE ps[j]
  BY <1>2
<1> HIDE DEF qs, p
<1> QED
  BY <1>1, <1>3, <1>4, <1>5, <1>6 DEF qs

-----------------------------------------------------------------------------
(* Where each step of a worker leaves that worker's memory. *)
Slot == [pc: {"idle", "declining", "checkout", "repairing", "publishing", "branching",
              "opening", "completing", "failing", "hung"},
         token: Nat, final: Finals \cup {NoFinal}, patch: Patches \cup {NoPatch},
         opened: BOOLEAN]

Becomes(w, pc, token, final, patch, opened) ==
  /\ worker' \in [Workers -> Slot]
  /\ worker'[w].pc = pc /\ worker'[w].token = token /\ worker'[w].final = final
  /\ worker'[w].patch = patch /\ (worker'[w].opened <=> opened)
  /\ \A v \in Workers \ {w} : worker'[v] = worker[v]

Goes(w, pc) == Becomes(w, pc, worker[w].token, worker[w].final, worker[w].patch,
                       worker[w].opened)
BecomesIdle(w) == Becomes(w, "idle", NoToken, NoFinal, NoPatch, FALSE)
BecomesFailing(w) == Becomes(w, "failing", worker[w].token, NoFinal, NoPatch, FALSE)
BecomesHung(w) == Becomes(w, "hung", worker[w].token, NoFinal, NoPatch, FALSE)

(* A worker whose slot is overwritten is what the slot says. *)
LEMMA SlotWritten ==
  ASSUME worker \in [Workers -> Slot], NEW w \in Workers, NEW m \in Slot,
         worker' = [worker EXCEPT ![w] = m]
  PROVE  Becomes(w, m.pc, m.token, m.final, m.patch, m.opened)
<1>1. m.opened \in BOOLEAN
  BY DEF Slot
<1> QED
  BY <1>1 DEF Becomes

(* Of the catch block and of a hang only the token matters, of going idle    *)
(* not even that.                                                            *)
LEMMA FailMoves ==
  ASSUME worker \in [Workers -> Slot], NEW w \in Workers
  PROVE  /\ Fail(w) => BecomesFailing(w)
         /\ Hangs(w) => BecomesHung(w)
         /\ worker' = [worker EXCEPT ![w] = Idle] => BecomesIdle(w)
<1>1. ASSUME Fail(w) PROVE BecomesFailing(w)
  <2> DEFINE m == [Idle EXCEPT !.pc = "failing", !.token = worker[w].token]
  <2>1. worker' = [worker EXCEPT ![w] = m]
    BY <1>1 DEF Fail
  <2>2. /\ m \in Slot
        /\ m.pc = "failing" /\ m.token = worker[w].token /\ m.final = NoFinal
        /\ m.patch = NoPatch /\ m.opened = FALSE
    BY DEF Slot, Idle, NoToken
  <2> HIDE DEF m
  <2> QED
    BY <2>1, <2>2, SlotWritten DEF BecomesFailing
<1>2. ASSUME worker' = [worker EXCEPT ![w] = Idle] PROVE BecomesIdle(w)
  <2>1. Idle \in Slot
    BY DEF Slot, Idle, NoToken
  <2> QED
    BY <1>2, <2>1, SlotWritten DEF BecomesIdle, Idle
<1>3. ASSUME Hangs(w) PROVE BecomesHung(w)
  <2> DEFINE m == [Idle EXCEPT !.pc = "hung", !.token = worker[w].token]
  <2>1. worker' = [worker EXCEPT ![w] = m]
    BY <1>3 DEF Hangs
  <2>2. /\ m \in Slot
        /\ m.pc = "hung" /\ m.token = worker[w].token /\ m.final = NoFinal
        /\ m.patch = NoPatch /\ m.opened = FALSE
    BY DEF Slot, Idle, NoToken
  <2> HIDE DEF m
  <2> QED
    BY <2>1, <2>2, SlotWritten DEF BecomesHung
<1> QED
  BY <1>1, <1>2, <1>3

(* Where each step of a worker takes its memory. *)
LEMMA Moves ==
  ASSUME worker \in [Workers -> Slot], row \in Row, NEW w \in Workers
  PROVE  /\ Claim(w) =>
              Becomes(w, IF actionable THEN "checkout" ELSE "declining", row'.token,
                      worker[w].final, worker[w].patch, worker[w].opened)
         /\ Checkout(w) => Goes(w, IF testable THEN "repairing" ELSE "declining")
         /\ \A p \in Patches :
              Validate(w, p) => Becomes(w, "publishing", worker[w].token, "VALIDATED", p,
                                        worker[w].opened)
         /\ \A final \in {"REJECTED", "BUDGET_EXHAUSTED"} :
              EndWithoutPatch(w, final) =>
                Becomes(w, "completing", worker[w].token, final, worker[w].patch,
                        worker[w].opened)
         /\ ReusePull(w) => Becomes(w, "completing", worker[w].token, worker[w].final,
                                    worker[w].patch, TRUE)
         /\ FindNoPull(w) => Goes(w, "branching")
         /\ CreateBranch(w, TRUE) => Goes(w, "opening")
         /\ OpenPull(w, TRUE) => Becomes(w, "completing", worker[w].token, worker[w].final,
                                         worker[w].patch, TRUE)
         /\ Complete(w, FALSE) => Goes(w, "failing")
         /\ RecordFails(w) \/ StepFails(w) \/ CreateBranch(w, FALSE) \/ OpenPull(w, FALSE)
              => BecomesFailing(w)
         /\ Hangs(w) => BecomesHung(w)
         /\ Decline(w) \/ DeclineLate(w) \/ Complete(w, TRUE) \/ GiveUp(w) \/ Reschedule(w)
              \/ RescheduleLate(w) \/ Crash(w) => BecomesIdle(w)
<1> USE DEF Becomes, Goes
<1>1. Claim(w) => Becomes(w, IF actionable THEN "checkout" ELSE "declining", row'.token,
                          worker[w].final, worker[w].patch, worker[w].opened)
  <2> SUFFICES ASSUME Claim(w)
      PROVE Becomes(w, IF actionable THEN "checkout" ELSE "declining", row'.token,
                    worker[w].final, worker[w].patch, worker[w].opened)
    OBVIOUS
  <2>1. row'.token \in Nat
    BY RowOperatorsTyped DEF Claim, Row
  <2> QED
    BY <2>1 DEF Claim, Slot
<1>2. Checkout(w) => Goes(w, IF testable THEN "repairing" ELSE "declining")
  BY DEF Checkout, Slot
<1>3. ASSUME NEW p \in Patches, Validate(w, p)
      PROVE  Becomes(w, "publishing", worker[w].token, "VALIDATED", p, worker[w].opened)
  BY <1>3 DEF Validate, Slot, Finals
<1>4. ASSUME NEW final \in {"REJECTED", "BUDGET_EXHAUSTED"}, EndWithoutPatch(w, final)
      PROVE  Becomes(w, "completing", worker[w].token, final, worker[w].patch,
                     worker[w].opened)
  BY <1>4 DEF EndWithoutPatch, Slot, Finals
<1>5. /\ FindNoPull(w) => Goes(w, "branching")
      /\ CreateBranch(w, TRUE) => Goes(w, "opening")
      /\ Complete(w, FALSE) => Goes(w, "failing")
  BY DEF FindNoPull, CreateBranch, Complete, Slot
<1>6. ReusePull(w) \/ OpenPull(w, TRUE) =>
        Becomes(w, "completing", worker[w].token, worker[w].final, worker[w].patch, TRUE)
  <2> SUFFICES ASSUME ReusePull(w) \/ OpenPull(w, TRUE)
      PROVE Becomes(w, "completing", worker[w].token, worker[w].final, worker[w].patch, TRUE)
    OBVIOUS
  <2> DEFINE m == [worker[w] EXCEPT !.pc = "completing", !.opened = TRUE]
  <2>1. worker' = [worker EXCEPT ![w] = m]
    BY DEF ReusePull, OpenPull
  <2>2. /\ m \in Slot
        /\ m.pc = "completing" /\ m.token = worker[w].token /\ m.final = worker[w].final
        /\ m.patch = worker[w].patch /\ m.opened = TRUE
    BY DEF Slot
  <2> HIDE DEF m
  <2> QED
    BY <2>1, <2>2, SlotWritten
<1>7. RecordFails(w) \/ StepFails(w) \/ CreateBranch(w, FALSE) \/ OpenPull(w, FALSE)
        => BecomesFailing(w)
  BY FailMoves DEF RecordFails, StepFails, CreateBranch, OpenPull
<1>8. Decline(w) \/ DeclineLate(w) \/ Complete(w, TRUE) \/ GiveUp(w) \/ Reschedule(w)
        \/ RescheduleLate(w) \/ Crash(w) => BecomesIdle(w)
  BY FailMoves DEF Decline, DeclineLate, Complete, GiveUp, Reschedule, RescheduleLate, Crash
<1> QED
  BY <1>1, <1>2, <1>3, <1>4, <1>5, <1>6, <1>7, <1>8, FailMoves

-----------------------------------------------------------------------------
(* The steps by what they write: most of them only the worker's memory. *)
LocalStep(w) ==
  \/ DeclineLate(w) \/ RecordFails(w) \/ RescheduleLate(w) \/ StepFails(w)
  \/ Checkout(w) \/ ReusePull(w) \/ FindNoPull(w)
  \/ \E p \in Patches : Validate(w, p)
  \/ \E final \in {"REJECTED", "BUDGET_EXHAUSTED"} : EndWithoutPatch(w, final)

(* A local step writes no table and asks nothing of GitHub. *)
LEMMA LocalStepFrame ==
  ASSUME NEW w \in Workers, LocalStep(w)
  PROVE  WorkerStep(w) /\ UNCHANGED <<input, tables, github, faults>>
<1>1. WorkerStep(w)
  BY DEF LocalStep, WorkerStep
<1>2. UNCHANGED <<input, tables, github, faults>>
  BY DEF LocalStep, DeclineLate, RecordFails, RescheduleLate, StepFails, Checkout,
         ReusePull, FindNoPull, Validate, EndWithoutPatch
<1> QED
  BY <1>1, <1>2

(* Every step is local to a worker or one of those that write something. *)
LEMMA StepKinds ==
  ASSUME [Next]_vars
  PROVE  \/ UNCHANGED vars \/ Request \/ LeaseLapses \/ BackoffElapses
         \/ \E k \in DOMAIN pulls : HumanCloses(k)
         \/ HumanDeletesBranch
         \/ \E w \in Workers :
              \/ LocalStep(w) \/ Claim(w) \/ Decline(w) \/ GiveUp(w) \/ Reschedule(w)
              \/ Hangs(w) \/ Crash(w)
              \/ \E a \in {TRUE, FALSE} : Complete(w, a) \/ CreateBranch(w, a) \/ OpenPull(w, a)
<1> SUFFICES ASSUME Next, NEW w \in Workers, WorkerStep(w)
    PROVE  \/ LocalStep(w) \/ Claim(w) \/ Decline(w) \/ GiveUp(w) \/ Reschedule(w)
           \/ \E a \in {TRUE, FALSE} : Complete(w, a) \/ CreateBranch(w, a) \/ OpenPull(w, a)
  BY DEF Next
<1>1. BOOLEAN = {TRUE, FALSE}
  OBVIOUS
<1> QED
  BY <1>1 DEF WorkerStep, LocalStep

(* The types are kept. *)
LEMMA Unfolded ==
  ASSUME TypeOK
  PROVE  /\ worker \in [Workers -> Slot]
         /\ row \in Row /\ row.attempts \in Nat /\ row.token \in Nat
         /\ pulls \in Seq(Pull)
BY DEF TypeOK, Slot, Row, Pull

(* The writes that end a run keep their types. *)
LEMMA FinishTyped ==
  ASSUME TypeOK, NEW w \in Workers, NEW final \in Terminal, NEW types, Finish(w, final, types)
  PROVE  /\ row' \in Row
         /\ run' \in [state: {"absent", "PENDING", "RUNNING"} \cup Terminal, token: Nat]
         /\ incident' \in {"DIAGNOSING", "PATCHING"} \cup Terminal
BY RowOperatorsTyped DEF TypeOK, Finish, RunUnder, NoToken

(* Every step keeps the types. *)
LEMMA TypeStep ==
  ASSUME RepairInv, [Next]_vars
  PROVE  TypeOK'
<1> DEFINE Tables == /\ row' \in Row
                     /\ run' \in [state: {"absent", "PENDING", "RUNNING"} \cup Terminal,
                                  token: Nat]
                     /\ incident' \in {"DIAGNOSING", "PATCHING"} \cup Terminal
                     /\ attempts' \in [final: Finals \cup {NoFinal},
                                       patch: Patches \cup {NoPatch}]
           Rest == /\ actionable' \in BOOLEAN /\ testable' \in BOOLEAN
                   /\ branch' \in Patches \cup {NoPatch}
                   /\ pulls' \in Seq(Pull)
                   /\ faults' \in 0 .. MaxFaults
<1>t. /\ TypeOK /\ worker \in [Workers -> Slot] /\ row \in Row /\ pulls \in Seq(Pull)
      /\ NoPatch \in Patches \cup {NoPatch} /\ "NEEDS_REVIEW" \in Terminal
  BY Unfolded DEF RepairInv, Terminal, Stopped
<1>j. ASSUME worker' \in [Workers -> Slot], Tables, Rest PROVE TypeOK'
  BY <1>j DEF TypeOK, Slot, Pull
<1>u. /\ UNCHANGED tables => Tables
      /\ UNCHANGED <<input, github, faults>> => Rest
  BY <1>t DEF TypeOK, tables, input, github, Pull
<1> USE DEF Becomes, Goes, BecomesIdle, BecomesFailing, BecomesHung
<1>1. ASSUME NEW w \in Workers, WorkerStep(w) \/ Hangs(w) \/ Crash(w)
      PROVE  worker' \in [Workers -> Slot]
  <2>1. \A a \in BOOLEAN : a = TRUE \/ a = FALSE
    OBVIOUS
  <2> QED
    BY <1>t, <1>1, <2>1, Moves DEF WorkerStep
<1> HIDE DEF Tables, Rest, Becomes, Goes, BecomesIdle, BecomesFailing, BecomesHung
<1>2. CASE UNCHANGED vars
  BY <1>t, <1>j, <1>u, <1>2 DEF vars, input, github
<1>3. CASE Request
  BY <1>t, <1>j, <1>u, <1>3, RowOperatorsTyped DEF Request, Tables, TypeOK, github
<1>4. ASSUME NEW w \in Workers, Claim(w) PROVE TypeOK'
  <2>1. row' \in Row /\ row'.token \in Nat
    BY <1>4, <1>t, RowOperatorsTyped DEF Claim, Row
  <2>2. Tables
    BY <1>4, <1>t, <2>1 DEF Claim, Tables, TypeOK
  <2>3. UNCHANGED <<input, github, faults>>
    BY <1>4 DEF Claim
  <2> QED
    BY <1>1, <1>4, <1>j, <1>u, <2>2, <2>3 DEF WorkerStep
<1>5. ASSUME NEW w \in Workers, Decline(w) \/ GiveUp(w) PROVE TypeOK'
  <2>1. Tables
    BY <1>5, <1>t, FinishTyped DEF Decline, GiveUp, Tables, TypeOK
  <2>2. UNCHANGED <<input, github, faults>>
    BY <1>5 DEF Decline, GiveUp, Finish
  <2> QED
    BY <1>1, <1>5, <1>j, <1>u, <2>1, <2>2 DEF WorkerStep
<1>6. ASSUME NEW w \in Workers, NEW a \in BOOLEAN, Complete(w, a) PROVE TypeOK'
  <2>1. Verdict(worker[w].opened, worker[w].final) \in Terminal
    BY DEF Verdict, Terminal, Stopped
  <2>2. attempts' \in [final: Finals \cup {NoFinal}, patch: Patches \cup {NoPatch}]
    BY <1>6, <1>t DEF Complete, Slot
  <2>3. Tables
    BY <1>6, <1>t, <2>1, <2>2, FinishTyped DEF Complete, Tables
  <2>4. UNCHANGED <<input, github, faults>>
    BY <1>6 DEF Complete, Finish
  <2> QED
    BY <1>1, <1>6, <1>j, <1>u, <2>3, <2>4 DEF WorkerStep
<1>7. ASSUME NEW w \in Workers, Reschedule(w) PROVE TypeOK'
  <2>1. Tables
    BY <1>7, <1>t, RowOperatorsTyped DEF Reschedule, RunUnder, Tables, TypeOK, NoToken
  <2>2. UNCHANGED <<input, github, faults>>
    BY <1>7 DEF Reschedule
  <2> QED
    BY <1>1, <1>7, <1>j, <1>u, <2>1, <2>2 DEF WorkerStep
<1>8. ASSUME NEW w \in Workers, LocalStep(w) PROVE TypeOK'
  BY <1>1, <1>8, <1>j, <1>u, LocalStepFrame
<1>9. ASSUME NEW w \in Workers, Hangs(w) \/ Crash(w) PROVE TypeOK'
  <2>1. Rest
    BY <1>9, MaxFaultsAssumption DEF RepairInv, Hangs, Crash, Rest, TypeOK, input, github, Pull
  <2> QED
    BY <1>1, <1>9, <1>j, <1>u, <2>1 DEF Hangs, Crash
<1>10. ASSUME NEW w \in Workers, NEW a \in BOOLEAN, CreateBranch(w, a) PROVE TypeOK'
  <2>1. Rest
    BY <1>10, <1>t DEF CreateBranch, Rest, TypeOK, Slot, input, github, Pull
  <2> QED
    BY <1>1, <1>10, <1>j, <1>u, <2>1 DEF WorkerStep, CreateBranch
<1>11. ASSUME NEW w \in Workers, NEW a \in BOOLEAN, OpenPull(w, a) PROVE TypeOK'
  <2>1. branch \in Patches
    BY <1>11 DEF RepairInv, OpenPull, Publishing, OnePublisher, Memory, At
  <2>2. pulls' \in Seq(Pull)
    BY <1>11, <1>t, <2>1, PullAppended DEF OpenPull, Pull
  <2>3. Rest
    BY <1>11, <1>t, <2>2 DEF OpenPull, Rest, TypeOK, input
  <2> QED
    BY <1>1, <1>11, <1>j, <1>u, <2>3 DEF WorkerStep, OpenPull
<1>12. CASE LeaseLapses
  <2>1. Tables
    BY <1>12, <1>t, RowOperatorsTyped DEF LeaseLapses, Tables, TypeOK
  <2>2. Rest /\ worker' = worker
    BY <1>12, <1>t, MaxFaultsAssumption DEF LeaseLapses, Rest, TypeOK, input, github, Pull
  <2> QED
    BY <1>j, <1>t, <2>1, <2>2
<1>13. CASE BackoffElapses
  BY <1>t, <1>j, <1>u, <1>13, RowOperatorsTyped DEF BackoffElapses, Tables, TypeOK, github
<1>14. ASSUME NEW k \in DOMAIN pulls, HumanCloses(k) PROVE TypeOK'
  <2>1. pulls' \in Seq(Pull)
    BY <1>14, <1>t, PullClosed DEF HumanCloses
  <2> QED
    BY <1>14, <1>t, <1>j, <1>u, <2>1 DEF HumanCloses, Rest, TypeOK, input
<1>15. CASE HumanDeletesBranch
  BY <1>15, <1>t, <1>j, <1>u DEF HumanDeletesBranch, Rest, TypeOK, input, Pull
<1> QED
  BY <1>2, <1>3, <1>4, <1>5, <1>6, <1>7, <1>8, <1>9, <1>10, <1>11, <1>12, <1>13, <1>14,
     <1>15, StepKinds

-----------------------------------------------------------------------------
(* The leases stay fresh.  Every step but a claim leaves the row its token or*)
(* none, and each worker its own or none.                                    *)
LEMMA NoNewLease ==
  ASSUME TypeOK, LeasesFresh,
         row'.token \in {NoToken, row.token}, row'.attempts = row.attempts,
         \A w \in Workers : /\ worker'[w].token \in {NoToken, worker[w].token}
                            /\ worker'[w].pc = "idle" <=> worker'[w].token = NoToken
  PROVE  LeasesFresh'
<1>1. row.attempts \in Nat /\ \A w \in Workers : worker[w].token \in Nat
  BY Unfolded DEF Slot
<1>2. /\ row'.token \in {NoToken, row'.attempts}
      /\ \A w \in Workers : worker'[w].token <= row'.attempts
  BY <1>1 DEF LeasesFresh, NoToken
<1>3. \A v, w \in Workers : v # w /\ worker'[v].token = worker'[w].token
                             => worker'[v].token = NoToken
  BY DEF LeasesFresh
<1> QED
  BY <1>2, <1>3 DEF LeasesFresh, At

(* Every step keeps the tokens fresh: only the claim makes one. *)
LEMMA LeaseStep ==
  ASSUME RepairInv, [Next]_vars
  PROVE  LeasesFresh'
<1>t. /\ TypeOK /\ LeasesFresh /\ worker \in [Workers -> Slot]
      /\ row \in Row /\ row.attempts \in Nat
  BY Unfolded DEF RepairInv
<1>w. ASSUME NEW w \in Workers, row'.token \in {NoToken, row.token},
             row'.attempts = row.attempts,
             \A v \in Workers \ {w} : worker'[v] = worker[v],
             \/ worker'[w].pc = "idle" /\ worker'[w].token = NoToken
             \/ /\ worker'[w].pc # "idle" /\ worker[w].pc # "idle"
                /\ worker'[w].token = worker[w].token
      PROVE  LeasesFresh'
  <2>1. \A v \in Workers : /\ worker'[v].token \in {NoToken, worker[v].token}
                           /\ worker'[v].pc = "idle" <=> worker'[v].token = NoToken
    BY <1>w, <1>t DEF LeasesFresh, At
  <2> QED
    BY <1>w, <1>t, <2>1, NoNewLease
<1>e. ASSUME row'.token \in {NoToken, row.token}, row'.attempts = row.attempts,
             worker' = worker
      PROVE  LeasesFresh'
  BY <1>e, <1>t, NoNewLease DEF LeasesFresh, At
<1>1. CASE UNCHANGED vars
  BY <1>1, <1>e DEF vars, tables
<1>2. CASE Request \/ LeaseLapses \/ BackoffElapses
  BY <1>2, <1>e, <1>t, RowFields DEF Request, LeaseLapses, BackoffElapses
<1>3. CASE HumanDeletesBranch \/ \E k \in DOMAIN pulls : HumanCloses(k)
  BY <1>3, <1>e DEF HumanCloses, HumanDeletesBranch, tables
<1>4. ASSUME NEW w \in Workers, LocalStep(w) PROVE LeasesFresh'
  <2>1. row' = row
    BY <1>4, LocalStepFrame DEF tables
  <2>2. /\ \A v \in Workers \ {w} : worker'[v] = worker[v]
        /\ \/ worker'[w].pc = "idle" /\ worker'[w].token = NoToken
           \/ worker'[w].pc # "idle" /\ worker'[w].token = worker[w].token
    BY <1>4, <1>t, Moves DEF LocalStep, Becomes, Goes, BecomesIdle, BecomesFailing
  <2>3. worker[w].pc # "idle"
    BY <1>4 DEF LocalStep, DeclineLate, RecordFails, RescheduleLate, StepFails, Checkout,
                ReusePull, FindNoPull, Validate, EndWithoutPatch, At
  <2> QED
    BY <1>w, <2>1, <2>2, <2>3
<1>5. ASSUME NEW w \in Workers, Claim(w) PROVE LeasesFresh'
  <2> DEFINE t == row.attempts + 1
  <2>1. row'.attempts = t /\ row'.token = t
    BY <1>5, <1>t, RowFields DEF Claim
  <2>2. /\ worker'[w].token = t /\ worker'[w].pc # "idle"
        /\ \A v \in Workers \ {w} : worker'[v] = worker[v]
    BY <1>5, <1>t, <2>1, Moves DEF Becomes
  <2>3. \A v \in Workers : worker[v].token \in Nat /\ worker[v].token < t
    BY <1>t DEF LeasesFresh, Slot
  <2> HIDE DEF t
  <2>4. t \in Nat /\ t # NoToken
    BY <1>t DEF t, NoToken
  <2> QED
    BY <1>t, <2>1, <2>2, <2>3, <2>4 DEF LeasesFresh, At
<1>6. ASSUME NEW w \in Workers, Hangs(w) \/ Crash(w) PROVE LeasesFresh'
  BY <1>6, <1>w, <1>t, Moves DEF Hangs, Crash, At, tables, Becomes, BecomesIdle, BecomesHung
<1>7. ASSUME NEW w \in Workers, Decline(w) \/ GiveUp(w) \/ Reschedule(w) \/ Complete(w, TRUE)
      PROVE  LeasesFresh'
  <2>1. row' = Completed(row) \/ row' = Rescheduled(row)
    BY <1>7 DEF Decline, GiveUp, Complete, Finish, Reschedule
  <2>2. worker'[w].pc = "idle" /\ worker'[w].token = NoToken
        /\ \A v \in Workers \ {w} : worker'[v] = worker[v]
    BY <1>7, <1>t, Moves DEF Becomes, BecomesIdle
  <2> QED
    BY <1>t, <1>w, <2>1, <2>2, RowFields
<1>8. ASSUME NEW w \in Workers, Complete(w, FALSE) PROVE LeasesFresh'
  <2>1. row' = Completed(row) /\ worker[w].pc # "idle"
    BY <1>8 DEF Complete, Finish, At
  <2>2. worker'[w].pc # "idle" /\ worker'[w].token = worker[w].token
        /\ \A v \in Workers \ {w} : worker'[v] = worker[v]
    BY <1>8, <1>t, Moves DEF Becomes, Goes
  <2> QED
    BY <1>t, <1>w, <2>1, <2>2, RowFields
<1>9. ASSUME NEW w \in Workers, NEW a \in {TRUE, FALSE}, CreateBranch(w, a) \/ OpenPull(w, a)
      PROVE  LeasesFresh'
  <2>1. row' = row /\ worker[w].pc # "idle"
    BY <1>9 DEF CreateBranch, OpenPull, At, tables
  <2>2. worker'[w].pc # "idle" /\ worker'[w].token = worker[w].token
        /\ \A v \in Workers \ {w} : worker'[v] = worker[v]
    BY <1>9, <1>t, Moves DEF Becomes, Goes, BecomesFailing
  <2> QED
    BY <1>w, <2>1, <2>2
<1> QED
  BY <1>1, <1>2, <1>3, <1>4, <1>5, <1>6, <1>7, <1>8, <1>9, StepKinds

-----------------------------------------------------------------------------
(* Row, run and incident move together. *)
LEMMA TablesStep ==
  ASSUME RepairInv, [Next]_vars
  PROVE  RowAndRun' /\ (incident \in Terminal => UNCHANGED <<incident, run, attempts>>)
<1>t. /\ LeasesFresh /\ RowAndRun /\ row \in Row /\ row.attempts \in Nat /\ row.token \in Nat
  BY Unfolded DEF RepairInv
<1>n. "RUNNING" \notin Terminal /\ "PENDING" \notin Terminal /\ "PATCHING" \notin Terminal
  BY DEF Terminal, Stopped
<1>1. ASSUME UNCHANGED <<run, incident, attempts>>,
             row'.token = row.token, row'.done = row.done, row.present => row'.present
      PROVE  RowAndRun' /\ UNCHANGED <<incident, run, attempts>>
  BY <1>1, <1>t DEF RowAndRun, RunFollowsRow, Open
<1>2. CASE UNCHANGED vars
  BY <1>1, <1>2 DEF vars, tables
<1>3. CASE Request \/ LeaseLapses \/ BackoffElapses
  BY <1>1, <1>3, <1>t, RowFields DEF Request, LeaseLapses, BackoffElapses
<1>4. ASSUME UNCHANGED tables PROVE RowAndRun' /\ UNCHANGED <<incident, run, attempts>>
  BY <1>1, <1>4 DEF tables
<1>5. ASSUME NEW w \in Workers, Claim(w)
      PROVE  RowAndRun' /\ incident \notin Terminal
  <2>1. row.present /\ ~row.done /\ incident \notin Terminal
    BY <1>5, <1>t DEF Claim, Claimable, Open, RowAndRun, RunFollowsRow
  <2>2. row'.present /\ ~row'.done /\ row'.token # NoToken
    BY <1>5, <1>t, <2>1, RowFields DEF Claim, NoToken
  <2>3. run'.state = "RUNNING" /\ run'.token = row'.token /\ incident' \notin Terminal
    BY <1>5, <1>n, <2>1 DEF Claim
  <2> QED
    BY <2>1, <2>2, <2>3 DEF RowAndRun, RunFollowsRow, Open
<1>6. ASSUME NEW w \in Workers, NEW final \in Terminal, NEW types, Finish(w, final, types)
      PROVE  RowAndRun' /\ incident \notin Terminal
  <2>1. row.present /\ ~row.done /\ incident \notin Terminal /\ run.token = worker[w].token
    BY <1>6, <1>t DEF Finish, Holds, HeldUnder, RowAndRun, RunFollowsRow, Open
  <2>2. row'.present /\ row'.done /\ row'.token = NoToken
    BY <1>6, <1>t, <2>1, RowFields DEF Finish
  <2>3. run'.state = final /\ run'.token = NoToken /\ incident' = final
    BY <1>6, <2>1 DEF Finish, RunUnder, Holds, HeldUnder
  <2> QED
    BY <1>n, <2>1, <2>2, <2>3 DEF RowAndRun, RunFollowsRow, Open
<1>7. ASSUME NEW w \in Workers, Decline(w) \/ GiveUp(w)
      PROVE  RowAndRun' /\ incident \notin Terminal
  BY <1>6, <1>7 DEF Decline, GiveUp, Terminal, Stopped
<1>8. ASSUME NEW w \in Workers, NEW a \in {TRUE, FALSE}, Complete(w, a)
      PROVE  RowAndRun' /\ incident \notin Terminal
  <2>1. Verdict(worker[w].opened, worker[w].final) \in Terminal
    BY DEF Verdict, Terminal, Stopped
  <2> QED
    BY <1>6, <1>8, <2>1 DEF Complete
<1>9. ASSUME NEW w \in Workers, Reschedule(w)
      PROVE  RowAndRun' /\ incident \notin Terminal
  <2>1. row.present /\ ~row.done /\ incident \notin Terminal /\ run.token = worker[w].token
    BY <1>9, <1>t DEF Reschedule, Holds, HeldUnder, RowAndRun, RunFollowsRow, Open
  <2>2. row'.present /\ ~row'.done /\ row'.token = NoToken
    BY <1>9, <1>t, <2>1, RowFields DEF Reschedule
  <2>3. run'.state = "PENDING" /\ run'.token = NoToken /\ incident' = incident
    BY <1>9, <2>1 DEF Reschedule, RunUnder, Holds, HeldUnder
  <2> QED
    BY <1>n, <2>1, <2>2, <2>3 DEF RowAndRun, RunFollowsRow, Open
<1>10. ASSUME NEW w \in Workers, LocalStep(w) PROVE UNCHANGED tables
  BY <1>10, LocalStepFrame
<1> QED
  BY <1>2, <1>3, <1>4, <1>5, <1>7, <1>8, <1>9, <1>10, StepKinds
     DEF HumanCloses, HumanDeletesBranch, Hangs, Crash, CreateBranch, OpenPull

-----------------------------------------------------------------------------
(* What the workers remember.  Only one worker's memory changes in a step,   *)
(* and pull requests do not vanish.                                          *)
LEMMA PullsGrow ==
  ASSUME RepairInv, [Next]_vars
  PROVE  /\ pulls # <<>> => pulls' # <<>>
         /\ \A k \in DOMAIN pulls : k \in DOMAIN pulls' /\ pulls'[k].patch = pulls[k].patch
<1>t. pulls \in Seq(Pull)
  BY Unfolded DEF RepairInv
<1>1. CASE UNCHANGED pulls
  BY <1>1
<1>2. ASSUME NEW k \in DOMAIN pulls, HumanCloses(k)
      PROVE  /\ pulls # <<>> => pulls' # <<>>
             /\ \A j \in DOMAIN pulls : j \in DOMAIN pulls' /\ pulls'[j].patch = pulls[j].patch
  BY <1>2, <1>t, PullClosed DEF HumanCloses
<1>3. ASSUME NEW w \in Workers, NEW a \in {TRUE, FALSE}, OpenPull(w, a)
      PROVE  /\ pulls # <<>> => pulls' # <<>>
             /\ \A k \in DOMAIN pulls : k \in DOMAIN pulls' /\ pulls'[k].patch = pulls[k].patch
  <2>1. branch \in Patches
    BY <1>3 DEF RepairInv, OpenPull, Publishing, OnePublisher, Memory, At
  <2> DEFINE q == [patch |-> branch, open |-> TRUE]
  <2>2. q \in Pull /\ pulls' = Append(pulls, q)
    BY <1>3, <2>1 DEF OpenPull, Pull
  <2> HIDE DEF q
  <2> QED
    BY <1>t, <2>2, PullAppended
<1>4. ASSUME NEW w \in Workers, LocalStep(w) PROVE UNCHANGED pulls
  BY <1>4, LocalStepFrame DEF github
<1> QED
  BY <1>1, <1>2, <1>3, <1>4, StepKinds
     DEF vars, github, Request, LeaseLapses, BackoffElapses, Claim, Decline, GiveUp, Finish,
         Reschedule, Hangs, Crash, Complete, CreateBranch, HumanDeletesBranch

(* Every step keeps what the workers remember backed by the tables. *)
LEMMA MemoryStep ==
  ASSUME RepairInv, [Next]_vars
  PROVE  Memory'
<1>t. /\ TypeOK /\ Memory /\ worker \in [Workers -> Slot] /\ row \in Row
  BY Unfolded DEF RepairInv
<1>a. actionable' = actionable
  <2>1. ASSUME NEW w \in Workers, LocalStep(w) PROVE actionable' = actionable
    BY <2>1, LocalStepFrame DEF input
  <2> QED
    BY <2>1, StepKinds
       DEF vars, input, Request, LeaseLapses, BackoffElapses, HumanCloses,
           HumanDeletesBranch, Claim, Decline, GiveUp, Finish, Reschedule, Hangs, Crash,
           Complete, CreateBranch, OpenPull
<1> DEFINE Sound(s, ps) ==
      /\ s.pc \in {"checkout", "repairing", "publishing", "branching", "opening",
                   "completing"} => actionable
      /\ s.pc \in {"publishing", "branching", "opening"} =>
           s.final = "VALIDATED" /\ s.patch \in Patches
      /\ s.pc = "completing" =>
           /\ s.final \in {"VALIDATED", "REJECTED", "BUDGET_EXHAUSTED"}
           /\ s.final = "VALIDATED" => s.opened
      /\ s.opened => /\ s.pc \in {"completing", "failing"}
                     /\ s.final = "VALIDATED" /\ ps # <<>>
<1>s. \A w \in Workers : Sound(worker[w], pulls)
  BY <1>t DEF Memory, At
<1>j. ASSUME \A w \in Workers : Sound(worker'[w], pulls') PROVE Memory'
  BY <1>a, <1>j DEF Memory, At
<1>k. ASSUME NEW w \in Workers, worker' = worker \/ \A v \in Workers \ {w} : worker'[v] = worker[v],
             worker' = worker \/ Sound(worker'[w], pulls')
      PROVE  Memory'
  <2>1. \A v \in Workers : worker'[v] = worker[v] => Sound(worker'[v], pulls')
    BY <1>s, PullsGrow
  <2> HIDE DEF Sound
  <2> QED
    BY <1>j, <1>k, <2>1
<1>1. CASE worker' = worker
  BY <1>1, <1>s, <1>j, PullsGrow
<1> USE DEF Becomes, Goes, BecomesIdle, BecomesFailing, BecomesHung
<1>2. ASSUME NEW w \in Workers, BecomesIdle(w) \/ BecomesFailing(w) \/ BecomesHung(w)
      PROVE  Memory'
  <2>1. Sound(worker'[w], pulls')
    BY <1>2
  <2> HIDE DEF Sound
  <2> QED
    BY <1>2, <1>k, <2>1
<1>3. ASSUME NEW w \in Workers, LocalStep(w) PROVE Memory'
  <2>1. CASE DeclineLate(w) \/ RecordFails(w) \/ RescheduleLate(w) \/ StepFails(w)
    BY <1>2, <1>t, <2>1, Moves
  <2>2. CASE Checkout(w)
    <3>1. Sound(worker'[w], pulls')
      BY <1>t, <1>s, <2>2, Moves DEF Checkout, At
    <3> QED
      BY <1>k, <1>t, <2>2, <3>1, Moves
  <2>3. CASE ReusePull(w)
    <3>1. pulls # <<>>
      BY <2>3 DEF ReusePull, HasOpenPull
    <3>2. pulls' # <<>>
      BY <3>1, PullsGrow
    <3>3. Becomes(w, "completing", worker[w].token, worker[w].final, worker[w].patch, TRUE)
      BY <1>t, <2>3, Moves
    <3>4. worker[w].pc = "publishing"
      BY <2>3 DEF ReusePull, At
    <3>5. Sound(worker'[w], pulls')
      BY <1>s, <3>2, <3>3, <3>4
    <3> QED
      BY <1>k, <3>3, <3>5
  <2>4. CASE FindNoPull(w)
    <3>1. Sound(worker'[w], pulls')
      BY <1>t, <1>s, <2>4, Moves DEF FindNoPull, At
    <3> QED
      BY <1>k, <1>t, <2>4, <3>1, Moves
  <2>5. ASSUME NEW p \in Patches, Validate(w, p) PROVE Memory'
    <3>1. Becomes(w, "publishing", worker[w].token, "VALIDATED", p, worker[w].opened)
      BY <1>t, <2>5, Moves
    <3>2. worker[w].pc = "repairing"
      BY <2>5 DEF Validate, At
    <3>3. Sound(worker'[w], pulls')
      BY <1>s, <3>1, <3>2
    <3> QED
      BY <1>k, <3>1, <3>3
  <2>6. ASSUME NEW final \in {"REJECTED", "BUDGET_EXHAUSTED"}, EndWithoutPatch(w, final)
        PROVE  Memory'
    <3>1. Sound(worker'[w], pulls')
      BY <1>t, <1>s, <2>6, Moves DEF EndWithoutPatch, At
    <3> QED
      BY <1>k, <1>t, <2>6, <3>1, Moves
  <2> QED
    BY <1>3, <2>1, <2>2, <2>3, <2>4, <2>5, <2>6 DEF LocalStep
<1>4. ASSUME NEW w \in Workers, Claim(w) PROVE Memory'
  <2>1. Becomes(w, IF actionable THEN "checkout" ELSE "declining", row'.token,
                worker[w].final, worker[w].patch, worker[w].opened)
    BY <1>t, <1>4, Moves
  <2>2. worker[w].pc = "idle"
    BY <1>4 DEF Claim, At
  <2>3. Sound(worker'[w], pulls')
    BY <1>s, <2>1, <2>2
  <2> QED
    BY <1>k, <2>1, <2>3
<1>5. ASSUME NEW w \in Workers, Complete(w, FALSE) PROVE Memory'
  <2>1. Sound(worker'[w], pulls')
    BY <1>t, <1>s, <1>5, PullsGrow, Moves DEF Complete, At
  <2> QED
    BY <1>k, <1>t, <1>5, <2>1, Moves
<1>6. ASSUME NEW w \in Workers, CreateBranch(w, TRUE) PROVE Memory'
  <2>1. Sound(worker'[w], pulls')
    BY <1>t, <1>s, <1>6, Moves DEF CreateBranch, At
  <2> QED
    BY <1>k, <1>t, <1>6, <2>1, Moves
<1>7. ASSUME NEW w \in Workers, OpenPull(w, TRUE) PROVE Memory'
  <2>1. branch \in Patches
    BY <1>7 DEF RepairInv, OpenPull, Publishing, OnePublisher, Memory, At
  <2>2. pulls' # <<>>
    BY <1>7, <2>1, Unfolded, PullAppended DEF RepairInv, OpenPull, Pull
  <2>3. Sound(worker'[w], pulls')
    BY <1>t, <1>s, <1>7, <2>2, Moves DEF OpenPull, At
  <2> QED
    BY <1>k, <1>t, <1>7, <2>3, Moves
<1>8. ASSUME NEW w \in Workers,
             \/ Decline(w) \/ GiveUp(w) \/ Reschedule(w) \/ Hangs(w) \/ Crash(w)
             \/ Complete(w, TRUE) \/ CreateBranch(w, FALSE) \/ OpenPull(w, FALSE)
      PROVE  Memory'
  BY <1>2, <1>t, <1>8, Moves
<1>9. UNCHANGED vars \/ Request \/ LeaseLapses \/ BackoffElapses \/ HumanDeletesBranch
        \/ (\E k \in DOMAIN pulls : HumanCloses(k)) => worker' = worker
  BY DEF vars, Request, LeaseLapses, BackoffElapses, HumanCloses, HumanDeletesBranch
<1> QED
  BY <1>1, <1>3, <1>4, <1>5, <1>6, <1>7, <1>8, <1>9, StepKinds

-----------------------------------------------------------------------------
(* One publisher at a time. *)
LEMMA PublishingStep ==
  ASSUME RepairInv, [Next]_vars
  PROVE  Publishing'
<1>t. /\ TypeOK /\ Memory /\ worker \in [Workers -> Slot] /\ row \in Row /\ pulls \in Seq(Pull)
  BY Unfolded DEF RepairInv
<1>p. /\ \A w \in Workers : worker[w].pc = "opening" =>
           /\ branch = worker[w].patch /\ ~HasOpenPull
           /\ \A v \in Workers \ {w} : worker[v].pc # "opening"
      /\ \A j, k \in DOMAIN pulls : pulls[j].open /\ pulls[k].open => j = k
      /\ HasOpenPull => branch # NoPatch
      /\ \A w \in Workers : worker[w].pc \in {"branching", "opening"} =>
           worker[w].patch \in Patches
  BY <1>t DEF RepairInv, Publishing, OnePublisher, Memory, At
<1>1. ASSUME UNCHANGED github,
             \A v \in Workers : worker'[v].pc = "opening" => worker'[v] = worker[v]
      PROVE  Publishing'
  BY <1>1, <1>p DEF Publishing, OnePublisher, HasOpenPull, At, github
<1>2. CASE UNCHANGED vars \/ Request \/ LeaseLapses \/ BackoffElapses
  BY <1>1, <1>2 DEF vars, Request, LeaseLapses, BackoffElapses, github
<1>3. ASSUME NEW w \in Workers, LocalStep(w) PROVE Publishing'
  <2>1. UNCHANGED github
    BY <1>3, LocalStepFrame
  <2>2. worker'[w].pc # "opening" /\ \A v \in Workers \ {w} : worker'[v] = worker[v]
    BY <1>3, <1>t, Moves DEF LocalStep, Becomes, Goes, BecomesIdle, BecomesFailing
  <2> QED
    BY <1>1, <2>1, <2>2
<1>4. ASSUME NEW w \in Workers,
             \/ Claim(w) \/ Decline(w) \/ GiveUp(w) \/ Reschedule(w) \/ Hangs(w) \/ Crash(w)
             \/ Complete(w, TRUE) \/ Complete(w, FALSE)
      PROVE  Publishing'
  <2>1. UNCHANGED github
    BY <1>4 DEF Claim, Decline, GiveUp, Finish, Reschedule, Hangs, Crash, Complete
  <2>2. worker'[w].pc # "opening" /\ \A v \in Workers \ {w} : worker'[v] = worker[v]
    BY <1>4, <1>t, Moves DEF Becomes, Goes, BecomesIdle, BecomesHung
  <2> QED
    BY <1>1, <2>1, <2>2
<1>5. ASSUME NEW w \in Workers, NEW a \in {TRUE, FALSE}, CreateBranch(w, a)
      PROVE  Publishing'
  <2>1. /\ branch = NoPatch /\ branch' = worker[w].patch /\ pulls' = pulls
        /\ worker[w].patch \in Patches
    BY <1>5, <1>p DEF CreateBranch, BranchIsFree, At
  <2>2. ~HasOpenPull /\ \A v \in Workers : worker[v].pc # "opening"
    BY <1>p, <2>1, NoPatchAssumption
  <2>3. /\ \A v \in Workers \ {w} : worker'[v] = worker[v]
        /\ worker'[w].pc = "opening" => worker'[w].patch = worker[w].patch
    BY <1>5, <1>t, Moves DEF Becomes, Goes, BecomesFailing
  <2> QED
    BY <1>p, <2>1, <2>2, <2>3 DEF Publishing, OnePublisher, HasOpenPull, At
<1>6. ASSUME NEW w \in Workers, NEW a \in {TRUE, FALSE}, OpenPull(w, a)
      PROVE  Publishing'
  <2> DEFINE q == [patch |-> branch, open |-> TRUE]
  <2>1. /\ worker[w].pc = "opening" /\ ~HasOpenPull /\ branch' = branch
        /\ pulls' = Append(pulls, q) /\ branch \in Patches
    BY <1>6, <1>p DEF OpenPull, At
  <2>2. q \in Pull /\ q.open /\ branch # NoPatch
    BY <2>1, NoPatchAssumption DEF Pull
  <2> HIDE DEF q
  <2>3. PICK n \in DOMAIN pulls' : \A k \in DOMAIN pulls' : k = n \/ k \in DOMAIN pulls
    BY <1>t, <2>1, <2>2, PullAppended
  <2>4. \A k \in DOMAIN pulls : ~pulls'[k].open
    BY <1>t, <2>1, <2>2, PullAppended DEF HasOpenPull
  <2>5. worker'[w].pc # "opening" /\ \A v \in Workers \ {w} : worker'[v] = worker[v]
    BY <1>6, <1>t, Moves DEF Becomes, BecomesFailing
  <2>6. \A v \in Workers : worker'[v].pc # "opening"
    BY <1>p, <2>1, <2>5
  <2> QED
    BY <2>1, <2>2, <2>3, <2>4, <2>6 DEF Publishing, OnePublisher, At
<1>7. ASSUME NEW k \in DOMAIN pulls, HumanCloses(k) PROVE Publishing'
  <2>1. /\ HasOpenPull /\ worker' = worker /\ pulls[k].open
        /\ pulls' = [pulls EXCEPT ![k].open = FALSE]
    BY <1>7 DEF HumanCloses, HasOpenPull
  <2>2. \A v \in Workers : worker'[v].pc # "opening"
    BY <1>p, <2>1
  <2>3. /\ DOMAIN pulls' = DOMAIN pulls
        /\ \A j \in DOMAIN pulls : pulls'[j].open => pulls[j].open /\ j # k
    BY <1>t, <2>1, PullClosed
  <2>4. \A j \in DOMAIN pulls' : ~pulls'[j].open
    BY <1>p, <2>1, <2>3
  <2> QED
    BY <2>2, <2>4 DEF Publishing, OnePublisher, HasOpenPull, At
<1>8. CASE HumanDeletesBranch
  BY <1>8, <1>p DEF HumanDeletesBranch, Publishing, OnePublisher, HasOpenPull, At
<1> QED
  BY <1>2, <1>3, <1>4, <1>5, <1>6, <1>7, <1>8, StepKinds

-----------------------------------------------------------------------------
(* The pull request of the first claim is the claimant's own. *)
LEMMA FirstClaimStep ==
  ASSUME RepairInv, [Next]_vars
  PROVE  FirstClaim'
<1>t. /\ TypeOK /\ Memory /\ LeasesFresh /\ worker \in [Workers -> Slot]
      /\ row \in Row /\ row.attempts \in Nat /\ pulls \in Seq(Pull)
  BY Unfolded DEF RepairInv
<1> DEFINE Early == {"checkout", "repairing", "publishing", "branching", "opening"}
           Own(s, ps) == /\ s.pc \in Early => ps = <<>>
                         /\ s.opened => \E k \in DOMAIN ps : ps[k].patch = s.patch
<1>f. /\ row.attempts = 0 => pulls = <<>>
      /\ row.attempts = 1 => \A w \in Workers : Own(worker[w], pulls)
  BY DEF RepairInv, FirstClaim
<1>j. ASSUME row'.attempts = 0 => pulls' = <<>>,
             row'.attempts = 1 => \A w \in Workers : Own(worker'[w], pulls')
      PROVE  FirstClaim'
  BY <1>j DEF FirstClaim
<1>k. ASSUME row'.attempts = row.attempts, pulls' = <<>> <=> pulls = <<>>,
             NEW w \in Workers, \A v \in Workers \ {w} : worker'[v] = worker[v],
             row.attempts = 1 => Own(worker'[w], pulls')
      PROVE  FirstClaim'
  <2>1. \A v \in Workers : row.attempts = 1 /\ worker'[v] = worker[v] => Own(worker'[v], pulls')
    BY <1>f, <1>k, PullsGrow
  <2> HIDE DEF Own
  <2> QED
    BY <1>f, <1>j, <1>k, <2>1
<1>1. ASSUME row'.attempts = row.attempts, worker' = worker, pulls' = <<>> <=> pulls = <<>>
      PROVE  FirstClaim'
  BY <1>1, <1>f, <1>j, PullsGrow
<1>2. CASE UNCHANGED vars \/ Request \/ LeaseLapses \/ BackoffElapses
  BY <1>1, <1>2, <1>t, RowFields
     DEF vars, tables, github, Request, LeaseLapses, BackoffElapses
<1>3. CASE HumanDeletesBranch \/ \E k \in DOMAIN pulls : HumanCloses(k)
  BY <1>1, <1>3, <1>t, PullClosed DEF HumanCloses, HumanDeletesBranch, tables
<1>4. ASSUME NEW w \in Workers, LocalStep(w) PROVE FirstClaim'
  <2>1. row' = row /\ pulls' = pulls
    BY <1>4, LocalStepFrame DEF tables, github
  <2>2. \A v \in Workers \ {w} : worker'[v] = worker[v]
    BY <1>4, <1>t, Moves DEF LocalStep, Becomes, Goes, BecomesIdle, BecomesFailing
  <2>3. CASE DeclineLate(w) \/ RecordFails(w) \/ RescheduleLate(w) \/ StepFails(w)
    <3>1. worker'[w].pc \notin Early /\ ~worker'[w].opened
      BY <1>t, <2>3, Moves DEF Becomes, BecomesIdle, BecomesFailing
    <3> QED
      BY <1>k, <2>1, <2>2, <3>1
  <2>4. CASE ReusePull(w)
    <3>1. pulls # <<>> /\ worker[w].pc = "publishing"
      BY <2>4 DEF ReusePull, HasOpenPull, At
    <3> QED
      BY <1>f, <1>k, <2>1, <2>2, <3>1
  <2>5. CASE \/ Checkout(w) \/ FindNoPull(w) \/ \E p \in Patches : Validate(w, p)
             \/ \E final \in {"REJECTED", "BUDGET_EXHAUSTED"} : EndWithoutPatch(w, final)
    <3>1. worker[w].pc \in Early
      BY <2>5 DEF Checkout, FindNoPull, Validate, EndWithoutPatch, At
    <3>2. worker'[w].opened <=> worker[w].opened
      BY <1>t, <2>5, Moves DEF Becomes, Goes
    <3>3. ~worker[w].opened
      BY <1>t, <3>1 DEF Memory
    <3> QED
      BY <1>f, <1>k, <2>1, <2>2, <3>1, <3>2, <3>3
  <2> QED
    BY <1>4, <2>3, <2>4, <2>5 DEF LocalStep
<1>5. ASSUME NEW w \in Workers, Claim(w) PROVE FirstClaim'
  <2>1. row'.attempts = row.attempts + 1 /\ pulls' = pulls
    BY <1>5, <1>t, RowFields DEF Claim, github
  <2>2. Becomes(w, IF actionable THEN "checkout" ELSE "declining", row'.token,
                worker[w].final, worker[w].patch, worker[w].opened)
    BY <1>t, <1>5, Moves
  <2>3. \A v \in Workers : worker'[v].opened => worker[v].opened
    BY <2>2 DEF Becomes
  <2>4. ASSUME row.attempts = 0, NEW v \in Workers PROVE ~worker[v].opened
    <3>1. worker[v].token = NoToken
      BY <1>t, <2>4 DEF LeasesFresh, Slot, NoToken
    <3> QED
      BY <1>t, <3>1 DEF LeasesFresh, Memory, At
  <2>5. row'.attempts = 1 => row.attempts = 0
    BY <1>t, <2>1
  <2>6. row'.attempts # 0
    BY <1>t, <2>1
  <2>7. row'.attempts = 1 => \A v \in Workers : Own(worker'[v], pulls')
    BY <1>f, <2>1, <2>3, <2>4, <2>5
  <2> HIDE DEF Own
  <2> QED
    BY <1>j, <2>6, <2>7
<1>6. ASSUME NEW w \in Workers,
             \/ Decline(w) \/ GiveUp(w) \/ Reschedule(w) \/ Hangs(w) \/ Crash(w)
             \/ Complete(w, TRUE) \/ CreateBranch(w, FALSE)
      PROVE  FirstClaim'
  <2>1. row'.attempts = row.attempts /\ pulls' = pulls
    BY <1>6, <1>t, RowFields
       DEF Decline, GiveUp, Reschedule, Hangs, Crash, Complete, CreateBranch, Finish, tables,
           github
  <2>2. /\ worker'[w].pc \notin Early /\ ~worker'[w].opened
        /\ \A v \in Workers \ {w} : worker'[v] = worker[v]
    BY <1>6, <1>t, Moves DEF Becomes, BecomesIdle, BecomesFailing, BecomesHung
  <2> QED
    BY <1>k, <2>1, <2>2
<1>7. ASSUME NEW w \in Workers, Complete(w, FALSE) PROVE FirstClaim'
  <2>1. row'.attempts = row.attempts /\ pulls' = pulls
    BY <1>7, <1>t, RowFields DEF Complete, Finish, github
  <2>2. Goes(w, "failing")
    BY <1>7, <1>t, Moves
  <2> QED
    BY <1>f, <1>k, <2>1, <2>2 DEF Goes, Becomes
<1>8. ASSUME NEW w \in Workers, CreateBranch(w, TRUE) PROVE FirstClaim'
  <2>1. row' = row /\ pulls' = pulls /\ worker[w].pc = "branching"
    BY <1>8 DEF CreateBranch, tables, At
  <2>2. Goes(w, "opening")
    BY <1>8, <1>t, Moves
  <2> QED
    BY <1>f, <1>k, <2>1, <2>2 DEF Goes, Becomes
<1>9. ASSUME NEW w \in Workers, NEW a \in {TRUE, FALSE}, OpenPull(w, a) PROVE FirstClaim'
  <2> DEFINE q == [patch |-> branch, open |-> TRUE]
  <2>1. /\ row' = row /\ worker[w].pc = "opening" /\ pulls' = Append(pulls, q)
        /\ branch = worker[w].patch /\ worker[w].patch \in Patches
    BY <1>9, <1>t DEF OpenPull, tables, At, RepairInv, Publishing, OnePublisher, Memory
  <2>2. q \in Pull /\ q.patch = worker[w].patch
    BY <2>1 DEF Pull
  <2> HIDE DEF q
  <2>3. \E k \in DOMAIN pulls' : pulls'[k].patch = worker[w].patch
    BY <1>t, <2>1, <2>2, PullAppended
  <2>4. /\ \A v \in Workers \ {w} : worker'[v] = worker[v]
        /\ worker'[w].pc \notin Early
        /\ worker'[w].opened => worker'[w].patch = worker[w].patch
    BY <1>9, <1>t, Moves DEF Becomes, BecomesFailing
  <2>5. worker[w].token # NoToken /\ worker[w].token \in Nat /\ worker[w].token <= row.attempts
    BY <1>t, <2>1 DEF LeasesFresh, Slot, At
  <2>6. row.attempts # 0
    BY <1>t, <2>5 DEF NoToken
  <2>7. ASSUME row.attempts = 1, NEW v \in Workers, v # w, worker[v].pc \in Early PROVE FALSE
    <3>1. worker[v].token # NoToken /\ worker[v].token \in Nat /\ worker[v].token <= 1
      BY <1>t, <2>7 DEF LeasesFresh, Slot, At
    <3>2. worker[v].token = worker[w].token
      BY <2>5, <2>7, <3>1 DEF NoToken
    <3> QED
      BY <1>t, <2>7, <3>1, <3>2 DEF LeasesFresh
  <2>8. row.attempts = 1 => \A v \in Workers : Own(worker'[v], pulls')
    BY <1>f, <2>3, <2>4, <2>7, PullsGrow
  <2> HIDE DEF Own
  <2> QED
    BY <1>j, <2>1, <2>6, <2>8
<1> QED
  BY <1>2, <1>3, <1>4, <1>5, <1>6, <1>7, <1>8, <1>9, StepKinds

-----------------------------------------------------------------------------
(* What an incident with a verdict says stays backed. *)
LEMMA RecordStep ==
  ASSUME RepairInv, [Next]_vars
  PROVE  RecordedPullExists'
<1>t. /\ TypeOK /\ Memory /\ RowAndRun /\ RecordedPullExists /\ worker \in [Workers -> Slot]
      /\ row \in Row /\ row.attempts \in Nat /\ pulls \in Seq(Pull)
  BY Unfolded DEF RepairInv
<1>1. ASSUME UNCHANGED <<incident, attempts>>, row'.attempts = row.attempts
      PROVE  RecordedPullExists'
  BY <1>1, <1>t, PullsGrow DEF RecordedPullExists
<1>2. CASE UNCHANGED vars \/ Request \/ LeaseLapses \/ BackoffElapses
  BY <1>1, <1>2, <1>t, RowFields DEF vars, tables, Request, LeaseLapses, BackoffElapses
<1>3. CASE UNCHANGED tables
  BY <1>1, <1>3 DEF tables
<1>4. ASSUME NEW w \in Workers, Claim(w) PROVE RecordedPullExists'
  <2>1. incident \notin Terminal
    BY <1>4, <1>t DEF Claim, Claimable, Open, RowAndRun, RunFollowsRow
  <2>2. incident' # "PR_OPENED"
    BY <1>4, <2>1 DEF Claim, Terminal
  <2> QED
    BY <2>2 DEF RecordedPullExists
<1>5. ASSUME NEW w \in Workers, Decline(w) \/ GiveUp(w) PROVE RecordedPullExists'
  BY <1>5 DEF Decline, GiveUp, Finish, RecordedPullExists
<1>6. ASSUME NEW w \in Workers, Reschedule(w) PROVE RecordedPullExists'
  BY <1>1, <1>6, <1>t, RowFields DEF Reschedule
<1>7. ASSUME NEW w \in Workers, NEW a \in {TRUE, FALSE}, Complete(w, a)
      PROVE  RecordedPullExists'
  <2>1. /\ incident' = Verdict(worker[w].opened, worker[w].final)
        /\ attempts' = [final |-> worker[w].final, patch |-> worker[w].patch]
        /\ row'.attempts = row.attempts /\ pulls' = pulls /\ At(w, "completing")
    BY <1>7, <1>t, RowFields DEF Complete, Finish, github
  <2>2. ASSUME incident' = "PR_OPENED" PROVE worker[w].opened
    BY <2>1, <2>2 DEF Verdict
  <2>3. worker[w].opened =>
          /\ worker[w].final = "VALIDATED" /\ pulls # <<>>
          /\ row.attempts = 1 => \E k \in DOMAIN pulls : pulls[k].patch = worker[w].patch
    BY <1>t DEF Memory, RepairInv, FirstClaim
  <2> QED
    BY <2>1, <2>2, <2>3 DEF RecordedPullExists
<1>8. ASSUME NEW w \in Workers, LocalStep(w) PROVE UNCHANGED tables
  BY <1>8, LocalStepFrame
<1> QED
  BY <1>2, <1>3, <1>4, <1>5, <1>6, <1>7, <1>8, StepKinds
     DEF HumanCloses, HumanDeletesBranch, Hangs, Crash, CreateBranch, OpenPull

-----------------------------------------------------------------------------
(* The invariant holds for every number of workers, patches and faults. *)
THEOREM InvariantHolds == Spec => []RepairInv
<1>1. Init => RepairInv
  <2> SUFFICES ASSUME Init PROVE RepairInv
    OBVIOUS
  <2>1. TypeOK
    BY EmptySeq, MaxFaultsAssumption
       DEF Init, TypeOK, Row, Absent, Idle, NoToken, Finals
  <2>2. LeasesFresh /\ RowAndRun /\ Memory
    BY DEF Init, LeasesFresh, RowAndRun, RunFollowsRow, Open, Memory, At, Absent, Idle, NoToken,
           NoFinal, Terminal, Stopped
  <2>3. Publishing /\ FirstClaim /\ RecordedPullExists
    BY DEF Init, Publishing, OnePublisher, HasOpenPull, FirstClaim, RecordedPullExists, At,
           Idle, Absent
  <2> QED
    BY <2>1, <2>2, <2>3 DEF RepairInv
<1>2. RepairInv /\ [Next]_vars => RepairInv'
  <2> SUFFICES ASSUME RepairInv, [Next]_vars PROVE RepairInv'
    OBVIOUS
  <2> QED
    BY TypeStep, LeaseStep, TablesStep, MemoryStep, PublishingStep, FirstClaimStep, RecordStep
       DEF RepairInv
<1> QED
  BY <1>1, <1>2, PTL DEF Spec

(* The tables, GitHub and the memories keep their types. *)
THEOREM TypeCorrect == Spec => []TypeOK
<1>1. RepairInv => TypeOK
  BY DEF RepairInv
<1> QED
  BY <1>1, InvariantHolds, PTL

(* The outbox row and the repair_runs row carry the same lease, and the      *)
(* incident is over exactly when the row is (repair-queue.ts checks both     *)
(* tokens in each transaction).                                              *)
THEOREM RunFollowsRowHolds == Spec => []RunFollowsRow
<1>1. RepairInv => RunFollowsRow
  BY DEF RepairInv, RowAndRun
<1> QED
  BY <1>1, InvariantHolds, PTL

(* However many workers overrun their leases and publish, at most one stands *)
(* before POST /pulls, with its own patch on the branch, and at most one     *)
(* pull request is open (publish of pr-broker.ts).                           *)
THEOREM OnePublisherHolds == Spec => []OnePublisher
<1>1. RepairInv => OnePublisher
  BY DEF RepairInv, Publishing
<1> QED
  BY <1>1, InvariantHolds, PTL

(* An incident that says PR_OPENED has its validated attempt on record and a *)
(* pull request at GitHub (complete of repair-queue.ts).                     *)
THEOREM RecordedPullExistsHolds == Spec => []RecordedPullExists
<1>1. RepairInv => RecordedPullExists
  BY DEF RepairInv
<1> QED
  BY <1>1, InvariantHolds, PTL

(* A verdict is never revised: not by a late worker, a repeated complete or  *)
(* another claim.                                                            *)
THEOREM VerdictIsFinalHolds == Spec => VerdictIsFinal
<1>1. RepairInv /\ [Next]_vars =>
        [(incident \in Terminal) => UNCHANGED <<incident, run, attempts>>]_vars
  BY TablesStep
<1> QED
  BY <1>1, InvariantHolds, PTL DEF Spec, VerdictIsFinal

-----------------------------------------------------------------------------
(* How often a repair may be claimed.  reschedule gives up on the third      *)
(* claim, so that a further one takes a lease that ran out: by the fault of  *)
(* its holder, or because the holder died or hung.                           *)
ClaimsBounded ==
  /\ row.attempts <= 3 + faults
  /\ ~row.done /\ row.token = NoToken => row.attempts <= 2
  /\ row.token # NoToken /\ (row.lapsed \/ Abandoned) => row.attempts <= 2 + faults

(* No step claims the row for a reason other than the first claim or a fault. *)
LEMMA ClaimsBoundedStep ==
  ASSUME RepairInv, RepairInv', ClaimsBounded, [Next]_vars
  PROVE  ClaimsBounded'
<1>t. /\ TypeOK /\ LeasesFresh /\ RowAndRun /\ worker \in [Workers -> Slot]
      /\ row \in Row /\ row.attempts \in Nat /\ row.token \in Nat /\ faults \in Nat
  BY Unfolded, MaxFaultsAssumption DEF RepairInv, TypeOK
<1>1. ASSUME row'.attempts = row.attempts, row'.token = row.token, row'.done = row.done,
             row'.lapsed => row.lapsed,
             faults' = faults,
             \A w \in Workers : Holds(w) => /\ worker'[w].token = worker[w].token
                                            /\ worker'[w].pc = "hung" => worker[w].pc = "hung"
      PROVE  ClaimsBounded'
  BY <1>1, <1>t DEF ClaimsBounded, Abandoned, Holds, HeldUnder, At
<1>2. CASE UNCHANGED vars \/ Request \/ BackoffElapses
  BY <1>1, <1>2, <1>t, RowFields, RowClock DEF vars, tables, Request, BackoffElapses
<1>3. CASE HumanDeletesBranch \/ \E k \in DOMAIN pulls : HumanCloses(k)
  BY <1>1, <1>3 DEF HumanCloses, HumanDeletesBranch, tables
<1>4. CASE LeaseLapses
  <2>1. row'.attempts = row.attempts /\ row'.token = row.token /\ row'.done = row.done
    BY <1>4, <1>t, RowFields DEF LeaseLapses
  <2>2. \/ Abandoned /\ faults' = faults
        \/ faults' = faults + 1
    BY <1>4 DEF LeaseLapses
  <2>3. row.token # NoToken
    BY <1>4 DEF LeaseLapses
  <2>4. row'.attempts <= 2 + faults'
    BY <1>t, <2>1, <2>2, <2>3 DEF ClaimsBounded
  <2>5. faults' \in Nat
    BY <1>t, <2>2
  <2> QED
    BY <1>t, <2>1, <2>3, <2>4, <2>5 DEF ClaimsBounded
<1>5. ASSUME NEW w \in Workers, LocalStep(w) PROVE ClaimsBounded'
  <2>1. UNCHANGED <<row, faults>>
    BY <1>5, LocalStepFrame DEF tables
  <2>2. ~Holds(w) \/ worker'[w].token = worker[w].token
    BY <1>5, <1>t, Moves
       DEF LocalStep, DeclineLate, RescheduleLate, Becomes, Goes, BecomesFailing
  <2>4. worker'[w].pc # "hung"
    BY <1>5, <1>t, Moves DEF LocalStep, Becomes, Goes, BecomesIdle, BecomesFailing
  <2>3. \A v \in Workers \ {w} : worker'[v] = worker[v]
    BY <1>5, <1>t, Moves DEF LocalStep, Becomes, Goes, BecomesIdle, BecomesFailing
  <2> QED
    BY <1>1, <2>1, <2>2, <2>3, <2>4
<1>6. ASSUME NEW w \in Workers, Claim(w) PROVE ClaimsBounded'
  <2>1. /\ row'.attempts = row.attempts + 1 /\ row'.token = row.attempts + 1
        /\ row'.done = row.done /\ ~row'.lapsed /\ ~row.done /\ faults' = faults
        /\ row.token = NoToken \/ row.lapsed
    BY <1>6, <1>t, RowFields, RowClock DEF Claim, Claimable, Open
  <2>2. row.attempts <= 2 + faults
    BY <1>t, <2>1 DEF ClaimsBounded
  <2>3. worker'[w].token = row'.token /\ worker'[w].pc # "hung"
    BY <1>6, <1>t, Moves DEF Becomes
  <2>4. row'.token # NoToken
    BY <1>t, <2>1 DEF NoToken
  <2>5. ~Abandoned'
    BY <2>1, <2>3, <2>4 DEF Abandoned, Holds, HeldUnder, At
  <2> QED
    BY <1>t, <2>1, <2>2, <2>4, <2>5 DEF ClaimsBounded
<1>7. ASSUME NEW w \in Workers, Hangs(w) \/ Crash(w) PROVE ClaimsBounded'
  <2>1. row' = row /\ faults' = faults + 1
    BY <1>7 DEF Hangs, Crash, tables
  <2> QED
    BY <1>t, <2>1 DEF ClaimsBounded
<1>8. ASSUME NEW w \in Workers, NEW state, NEW types, Finish(w, state, types)
      PROVE  ClaimsBounded'
  <2>1. row'.attempts = row.attempts /\ row'.token = NoToken /\ row'.done /\ faults' = faults
    BY <1>8, <1>t, RowFields DEF Finish
  <2> QED
    BY <1>t, <2>1 DEF ClaimsBounded
<1>9. ASSUME NEW w \in Workers, Reschedule(w) PROVE ClaimsBounded'
  <2>1. row'.attempts = row.attempts /\ row'.token = NoToken /\ faults' = faults
    BY <1>9, <1>t, RowFields DEF Reschedule
  <2>2. worker[w].token = row.attempts /\ worker[w].token < 3
    BY <1>9, <1>t DEF Reschedule, Holds, HeldUnder, LeasesFresh
  <2> QED
    BY <1>t, <2>1, <2>2 DEF ClaimsBounded
<1>10. ASSUME NEW w \in Workers, NEW a \in {TRUE, FALSE}, CreateBranch(w, a) \/ OpenPull(w, a)
       PROVE  ClaimsBounded'
  <2>1. UNCHANGED <<row, faults>>
    BY <1>10 DEF CreateBranch, OpenPull, tables
  <2>2. \A v \in Workers : /\ worker'[v].token = worker[v].token
                           /\ worker'[v].pc = "hung" => worker[v].pc = "hung"
    BY <1>10, <1>t, Moves DEF Becomes, Goes, BecomesFailing
  <2> QED
    BY <1>1, <2>1, <2>2
<1> QED
  BY <1>2, <1>3, <1>4, <1>5, <1>6, <1>7, <1>8, <1>9, <1>10, StepKinds
     DEF Decline, GiveUp, Complete

(* A repair is claimed three times at most, and once more for each fault.    *)
THEOREM ClaimsBoundedHolds == Spec => []ClaimsBounded
<1>1. Init => ClaimsBounded
  BY DEF Init, ClaimsBounded, Absent, NoToken
<1>2. RepairInv /\ RepairInv' /\ ClaimsBounded /\ [Next]_vars => ClaimsBounded'
  BY ClaimsBoundedStep
<1> QED
  BY <1>1, <1>2, InvariantHolds, PTL DEF Spec

-----------------------------------------------------------------------------
(* The one row of the repair stage is a LeaseQueue: whatever runOnce does    *)
(* between its transactions, the row, the tokens and the verdict change by   *)
(* one of that protocol's steps or not at all.                               *)
THEOREM RowIsLeaseQueue == Spec => ImplementsLeaseQueue
<1> DEFINE rows == [i \in {"repair"} |-> row]
           leases == [w \in Workers |-> [i \in {"repair"} |-> worker[w].token]]
           verdicts == [i \in {"repair"} |-> IF incident \in Terminal THEN incident ELSE "none"]
<1> USE DEF NoToken, RepairQueue!NoToken
<1>1. Init => RepairQueue!Init
  BY DEF Init, RepairQueue!Init, RepairQueue!Free, RepairQueue!NoOutcome, RepairQueue!Absent,
         Absent, Idle, Terminal, Stopped
<1>2. RepairInv /\ RepairInv' /\ ClaimsBounded' /\ [Next]_vars
        => [RepairQueue!Next]_RepairQueue!vars
  <2> SUFFICES ASSUME RepairInv, RepairInv', ClaimsBounded', [Next]_vars
      PROVE  RepairQueue!Next \/ UNCHANGED <<rows, leases, verdicts>>
    BY DEF RepairQueue!vars
  <2>t. /\ TypeOK /\ LeasesFresh /\ RowAndRun /\ worker \in [Workers -> Slot]
        /\ row \in Row /\ row.attempts \in Nat /\ row.token \in Nat
    BY Unfolded DEF RepairInv
  <2>f. faults' <= MaxFaults /\ faults' \in Nat /\ MaxFaults \in Nat
    BY MaxFaultsAssumption DEF RepairInv, TypeOK
  <2>w. ASSUME NEW w \in Workers, \A v \in Workers \ {w} : worker'[v] = worker[v]
        PROVE  /\ worker'[w].token = NoToken => leases' = [leases EXCEPT ![w] = RepairQueue!Free]
               /\ worker'[w].token = worker[w].token => UNCHANGED leases
               /\ leases' = [leases EXCEPT ![w]["repair"] = worker'[w].token]
    BY <2>w DEF RepairQueue!Free
  <2>1. CASE UNCHANGED <<row, worker, incident>>
    BY <2>1
  <2>2. CASE Request
    <3>1. RepairQueue!Enqueue({"repair"})
      BY <2>2 DEF Request, RepairQueue!Enqueue, RepairQueue!Inserted, Inserted
    <3> QED
      BY <3>1 DEF RepairQueue!Next
  <2>3. CASE LeaseLapses
    <3>1. RepairQueue!LeaseLapses("repair")
      BY <2>3 DEF LeaseLapses, RepairQueue!LeaseLapses, RepairQueue!Open, Open,
                  RepairQueue!LeaseRunsOut, LeaseRunsOut
    <3> QED
      BY <3>1 DEF RepairQueue!Next
  <2>4. CASE BackoffElapses
    <3>1. RepairQueue!BackoffElapses("repair")
      BY <2>4 DEF BackoffElapses, RepairQueue!BackoffElapses, RepairQueue!Open, Open,
                  RepairQueue!BackoffRunsOut, BackoffRunsOut
    <3> QED
      BY <3>1 DEF RepairQueue!Next
  <2>5. ASSUME NEW w \in Workers, LocalStep(w)
        PROVE  RepairQueue!Next \/ UNCHANGED <<rows, leases, verdicts>>
    <3>1. UNCHANGED <<rows, verdicts>>
      BY <2>5, LocalStepFrame DEF tables
    <3>2. \A v \in Workers \ {w} : worker'[v] = worker[v]
      BY <2>5, <2>t, Moves DEF LocalStep, Becomes, Goes, BecomesIdle, BecomesFailing
    <3>3. CASE DeclineLate(w) \/ RescheduleLate(w)
      <4>1. worker'[w].token = NoToken
        BY <2>t, <3>3, Moves DEF Becomes, BecomesIdle
      <4>2. worker[w].token # NoToken /\ ~HeldUnder(row, worker[w].token)
        BY <2>t, <3>3 DEF DeclineLate, RescheduleLate, Holds, LeasesFresh, At
      <4>3. RepairQueue!LoseLease(w, "repair")
        BY <2>w, <3>1, <3>2, <4>1, <4>2
           DEF RepairQueue!LoseLease, RepairQueue!Forget, RepairQueue!HeldUnder, HeldUnder
      <4> QED
        BY <4>3 DEF RepairQueue!Next, RepairQueue!WorkerStep
    <3>4. CASE ~(DeclineLate(w) \/ RescheduleLate(w))
      <4>1. worker'[w].token = worker[w].token
        BY <2>5, <2>t, <3>4, Moves DEF LocalStep, Becomes, Goes, BecomesFailing
      <4> QED
        BY <2>w, <3>1, <3>2, <4>1
    <3> QED
      BY <3>3, <3>4
  <2>6. ASSUME NEW w \in Workers, Claim(w) PROVE RepairQueue!Next
    <3>1. /\ row' = Claimed(row) /\ Claimable(row) /\ worker[w].token = NoToken
          /\ row'.attempts = row.attempts + 1
      BY <2>6, <2>t, RowFields DEF Claim, LeasesFresh
    <3>2. row.attempts < 3 + MaxFaults
      BY <2>f, <2>t, <3>1 DEF ClaimsBounded
    <3>3. worker'[w].token = row'.token /\ \A v \in Workers \ {w} : worker'[v] = worker[v]
      BY <2>6, <2>t, Moves DEF Becomes
    <3>4. UNCHANGED verdicts
      BY <2>6, <3>1, <2>t
         DEF Claim, Claimable, Open, RowAndRun, RunFollowsRow, Terminal, Stopped
    <3>5. RepairQueue!Claim(w, "repair")
      BY <2>w, <3>1, <3>2, <3>3, <3>4
         DEF RepairQueue!Claim, RepairQueue!Idle, RepairQueue!Free, RepairQueue!Claimable,
             Claimable, RepairQueue!Open, Open, RepairQueue!Claimed, Claimed
    <3> QED
      BY <3>5 DEF RepairQueue!Next, RepairQueue!WorkerStep
  <2>7. ASSUME NEW w \in Workers, NEW final \in Terminal, NEW types, Finish(w, final, types),
               \/ BecomesIdle(w)
               \/ Goes(w, "failing")
        PROVE  RepairQueue!Next
    <3>1. HeldUnder(row, worker[w].token) /\ row' = Completed(row) /\ incident' = final
      BY <2>7 DEF Finish, Holds
    <3>2. leases' = [leases EXCEPT ![w] = RepairQueue!Free] \/ UNCHANGED leases
      BY <2>7, <2>w DEF BecomesIdle, Goes, Becomes
    <3>3. verdicts' = [verdicts EXCEPT !["repair"] = final]
      BY <3>1
    <3>4. RepairQueue!Settle(w, "repair", final)
      BY <3>1, <3>2, <3>3
         DEF RepairQueue!Settle, RepairQueue!Forget, RepairQueue!HeldUnder, HeldUnder,
             RepairQueue!Completed, Completed
    <3> QED
      BY <3>4 DEF RepairQueue!Next, RepairQueue!WorkerStep
  <2>8. ASSUME NEW w \in Workers, Decline(w) \/ GiveUp(w) PROVE RepairQueue!Next
    BY <2>7, <2>8, <2>t, Moves DEF Decline, GiveUp, Terminal, Stopped
  <2>9. ASSUME NEW w \in Workers, NEW a \in {TRUE, FALSE}, Complete(w, a)
        PROVE  RepairQueue!Next
    <3>1. Verdict(worker[w].opened, worker[w].final) \in Terminal
      BY DEF Verdict, Terminal, Stopped
    <3>2. BecomesIdle(w) \/ Goes(w, "failing")
      BY <2>9, <2>t, Moves
    <3> QED
      BY <2>7, <2>9, <3>1, <3>2 DEF Complete
  <2>10. ASSUME NEW w \in Workers, Reschedule(w) PROVE RepairQueue!Next
    <3>1. HeldUnder(row, worker[w].token) /\ row' = Rescheduled(row) /\ incident' = incident
      BY <2>10 DEF Reschedule, Holds
    <3>2. leases' = [leases EXCEPT ![w] = RepairQueue!Free]
      BY <2>10, <2>t, <2>w, Moves DEF BecomesIdle, Becomes
    <3>3. RepairQueue!Reschedule(w, "repair")
      BY <3>1, <3>2
         DEF RepairQueue!Reschedule, RepairQueue!Forget, RepairQueue!HeldUnder, HeldUnder,
             RepairQueue!Rescheduled, Rescheduled
    <3> QED
      BY <3>3 DEF RepairQueue!Next, RepairQueue!WorkerStep
  <2>11. ASSUME NEW w \in Workers, Crash(w) PROVE RepairQueue!Next
    <3>1. UNCHANGED <<rows, verdicts>>
      BY <2>11 DEF Crash, tables
    <3>2. worker'[w].token = NoToken /\ \A v \in Workers \ {w} : worker'[v] = worker[v]
      BY <2>11, <2>t, Moves DEF BecomesIdle, Becomes
    <3>3. RepairQueue!Crash({w})
      BY <3>1, <3>2 DEF RepairQueue!Crash, RepairQueue!Free
    <3> QED
      BY <3>3 DEF RepairQueue!Next
  <2>12. ASSUME NEW w \in Workers, NEW a \in {TRUE, FALSE}, CreateBranch(w, a) \/ OpenPull(w, a)
         PROVE  UNCHANGED <<rows, leases, verdicts>>
    <3>1. UNCHANGED <<row, incident>>
      BY <2>12 DEF CreateBranch, OpenPull, tables
    <3>2. \A v \in Workers : worker'[v].token = worker[v].token
      BY <2>12, <2>t, Moves DEF Becomes, Goes, BecomesFailing
    <3> QED
      BY <3>1, <3>2
  <2>13. UNCHANGED vars \/ HumanDeletesBranch \/ (\E k \in DOMAIN pulls : HumanCloses(k))
           => UNCHANGED <<row, worker, incident>>
    BY DEF vars, tables, HumanCloses, HumanDeletesBranch
  <2>14. ASSUME NEW w \in Workers, Hangs(w) PROVE UNCHANGED <<rows, leases, verdicts>>
    <3>1. UNCHANGED <<row, incident>>
      BY <2>14 DEF Hangs, tables
    <3>2. \A v \in Workers : worker'[v].token = worker[v].token
      BY <2>14, <2>t, Moves DEF Becomes, BecomesHung
    <3> QED
      BY <3>1, <3>2
  <2> QED
    BY <2>1, <2>2, <2>3, <2>4, <2>5, <2>6, <2>8, <2>9, <2>10, <2>11, <2>12, <2>13, <2>14,
       StepKinds
<1> QED
  BY <1>1, <1>2, InvariantHolds, ClaimsBoundedHolds, PTL DEF Spec, ImplementsLeaseQueue

-----------------------------------------------------------------------------
(* What the repair stage does to incident, run, attempts and ledger is one   *)
(* claim, reschedule, decline or verdict of the incident's life.             *)
THEOREM RepairFollowsIncident == Spec => FollowsIncident
<1> DEFINE clusters == [c \in {"last", "other"} |->
                          IF c = "last" THEN (IF row.present THEN "EXECUTE_REPAIR" ELSE "PENDING")
                          ELSE IF actionable THEN "EXECUTE_REPAIR" ELSE "ESCALATE_HUMAN"]
           r == [state |-> run.state, pull |-> run.state = "PR_OPENED"]
           ledger == events \cup {"workflow.failure.detected", "evidence.ingested",
                                  "failure.clustered", "diagnosis.proposed"}
           view == <<incident, clusters, row.present, r, attempts.final, ledger>>
<1>1. Init => Life!AwaitsRepair
  <2> SUFFICES ASSUME Init PROVE Life!AwaitsRepair
    OBVIOUS
  <2>1. incident = "DIAGNOSING" /\ ~row.present /\ attempts.final = "none"
    BY DEF Init, Absent, NoFinal
  <2>2. r = [state |-> "absent", pull |-> FALSE]
    BY DEF Init
  <2>3. ledger = {"workflow.failure.detected", "evidence.ingested", "failure.clustered",
                  "diagnosis.proposed"}
    BY DEF Init
  <2> QED
    BY <2>1, <2>2, <2>3 DEF Life!AwaitsRepair, Life!NoRun, Life!NoAttempt
<1>2. RepairInv /\ RepairInv' /\ [Next]_vars => [Life!Next]_Life!vars
  <2> SUFFICES ASSUME RepairInv, RepairInv', [Next]_vars
      PROVE  Life!Next \/ UNCHANGED view
    BY DEF Life!vars
  <2>t. /\ TypeOK /\ LeasesFresh /\ RowAndRun /\ Memory /\ worker \in [Workers -> Slot]
        /\ row \in Row
    BY Unfolded DEF RepairInv
  <2>1. ASSUME row'.present = row.present, UNCHANGED <<actionable, run, incident, attempts, events>>
        PROVE  UNCHANGED view
    BY <2>1
  <2>2. CASE UNCHANGED vars \/ LeaseLapses \/ BackoffElapses
    BY <2>1, <2>2, <2>t, RowFields DEF vars, tables, input, LeaseLapses, BackoffElapses
  <2>3. CASE UNCHANGED <<input, tables>>
    BY <2>1, <2>3 DEF tables, input
  <2>4. CASE Request
    <3>1. /\ row' = Inserted(row) /\ row'.present
          /\ UNCHANGED <<actionable, run, incident, attempts, events>>
      BY <2>4, <2>t, RowFields DEF Request, input
    <3>2. CASE row.present
      BY <2>1, <3>1, <3>2 DEF Inserted
    <3>3. CASE ~row.present
      <4>1. clusters["last"] = "PENDING" /\ clusters' = [clusters EXCEPT !["last"] = "EXECUTE_REPAIR"]
        BY <3>1, <3>3
      <4>2. \A d \in {"last", "other"} \ {"last"} : clusters[d] # "PENDING"
        OBVIOUS
      <4>3. ledger' = ledger \cup {"diagnosis.proposed"} /\ UNCHANGED <<incident, r, attempts.final>>
        BY <3>1
      <4>4. Life!Diagnose("last", "EXECUTE_REPAIR", TRUE)
        BY <3>1, <3>3, <4>1, <4>2, <4>3 DEF Life!Diagnose, Life!LastToSettle
      <4> QED
        BY <4>4 DEF Life!Next, Life!Actions
    <3> QED
      BY <3>2, <3>3
  <2>5. ASSUME NEW w \in Workers, Claim(w) PROVE Life!Next
    <3>1. /\ row.present /\ row'.present /\ ~row.done
          /\ UNCHANGED <<actionable, attempts, events>>
          /\ run'.state = "RUNNING"
          /\ incident' = IF incident = "DIAGNOSING" THEN "PATCHING" ELSE incident
      BY <2>5, <2>t, RowFields DEF Claim, Claimable, Open, input
    <3>2. run.state \in {"absent", "PENDING", "RUNNING"}
      BY <2>t, <3>1 DEF RowAndRun
    <3>3. r' = [r EXCEPT !.state = "RUNNING"] /\ r.state = run.state
      BY <3>1, <3>2
    <3>4. Life!Claim
      BY <3>1, <3>2, <3>3 DEF Life!Claim
    <3> QED
      BY <3>4 DEF Life!Next
  <2>6. ASSUME NEW w \in Workers, NEW final \in Terminal, NEW types, Finish(w, final, types)
        PROVE  /\ row.present /\ row'.present /\ run.state = "RUNNING" /\ run'.state = final
               /\ incident' = final /\ events' = events \cup types
               /\ actionable' = actionable
    <3>1. row.present /\ run.state = "RUNNING" /\ run.token = worker[w].token
          /\ worker[w].token # NoToken
      BY <2>6, <2>t DEF Finish, Holds, HeldUnder, RowAndRun, RunFollowsRow, Open
    <3> QED
      BY <2>6, <2>t, <3>1, RowFields DEF Finish, RunUnder, input
  <2>7. ASSUME NEW w \in Workers, Decline(w) \/ GiveUp(w) PROVE Life!Next
    <3>1. Finish(w, "NEEDS_REVIEW", {"repair.declined"}) /\ attempts' = attempts
      BY <2>7 DEF Decline, GiveUp
    <3>2. /\ row.present /\ row'.present /\ run.state = "RUNNING" /\ run'.state = "NEEDS_REVIEW"
          /\ incident' = "NEEDS_REVIEW" /\ events' = events \cup {"repair.declined"}
          /\ actionable' = actionable
      BY <2>6, <3>1 DEF Terminal, Stopped
    <3>3. r' = [r EXCEPT !.state = "NEEDS_REVIEW"] /\ r.state = "RUNNING"
      BY <3>2
    <3>4. Life!Decline
      BY <3>1, <3>2, <3>3 DEF Life!Decline
    <3> QED
      BY <3>4 DEF Life!Next
  <2>8. ASSUME NEW w \in Workers, Reschedule(w) PROVE Life!Next
    <3>1. run.state = "RUNNING" /\ run.token = worker[w].token /\ worker[w].token # NoToken
      BY <2>8, <2>t DEF Reschedule, Holds, HeldUnder, RowAndRun, RunFollowsRow
    <3>2. /\ row'.present = row.present /\ run'.state = "PENDING"
          /\ events' = events \cup {"repair.retry_scheduled"}
          /\ UNCHANGED <<actionable, incident, attempts>>
      BY <2>8, <2>t, <3>1, RowFields DEF Reschedule, RunUnder, input
    <3>3. r' = [r EXCEPT !.state = "PENDING"] /\ r.state = "RUNNING"
      BY <3>1, <3>2
    <3>4. Life!Reschedule
      BY <3>2, <3>3 DEF Life!Reschedule
    <3> QED
      BY <3>4 DEF Life!Next
  <2>9. ASSUME NEW w \in Workers, NEW a \in {TRUE, FALSE}, Complete(w, a) PROVE Life!Next
    <3> DEFINE final == worker[w].final
               verdict == Verdict(worker[w].opened, final)
               types == {"repair.attempt.recorded"}
                          \cup (IF worker[w].opened THEN {"pull_request.opened"} ELSE {})
    <3>1. Finish(w, verdict, types) /\ attempts'.final = final /\ At(w, "completing")
      BY <2>9 DEF Complete
    <3>2. verdict \in Terminal
      BY DEF Verdict, Terminal, Stopped
    <3>3. /\ final \in {"VALIDATED", "REJECTED", "BUDGET_EXHAUSTED"}
          /\ worker[w].opened <=> final = "VALIDATED"
          /\ actionable
      BY <2>t, <3>1 DEF Memory, At
    <3>4. /\ row.present /\ row'.present /\ run.state = "RUNNING" /\ run'.state = verdict
          /\ incident' = verdict /\ events' = events \cup types /\ actionable' = actionable
      BY <2>6, <3>1, <3>2
    <3>5. verdict = Life!Verdict(final)
      BY <3>3 DEF Verdict, Life!Verdict
    <3>6. r.state = "RUNNING" /\ r' = [state |-> verdict, pull |-> final = "VALIDATED"]
      <4>1. verdict = "PR_OPENED" <=> final = "VALIDATED"
        BY <3>3 DEF Verdict
      <4> HIDE DEF verdict, final
      <4> QED
        BY <3>4, <4>1
    <3>7. Life!Actionable
      BY <3>3, <3>4 DEF Life!Actionable, Life!Diagnoses, Life!Actions
    <3>8. ledger' = ledger \cup {"repair.attempt.recorded"}
                     \cup (IF final = "VALIDATED" THEN {"pull_request.opened"} ELSE {})
      BY <3>3, <3>4
    <3>9. UNCHANGED <<clusters, row.present>>
      BY <3>4
    <3> HIDE DEF verdict, final, types, r, ledger, clusters
    <3>10. Life!Complete(final)
      BY <3>1, <3>4, <3>5, <3>6, <3>7, <3>8, <3>9
         DEF Life!Complete, r, ledger, clusters
    <3> QED
      BY <3>3, <3>10 DEF Life!Next
  <2>10. ASSUME NEW w \in Workers, LocalStep(w) PROVE UNCHANGED <<input, tables>>
    BY <2>10, LocalStepFrame
  <2> QED
    BY <2>2, <2>3, <2>4, <2>5, <2>7, <2>8, <2>9, <2>10, StepKinds
       DEF HumanCloses, HumanDeletesBranch, Hangs, Crash, CreateBranch, OpenPull
<1> QED
  BY <1>1, <1>2, InvariantHolds, PTL DEF Spec, FollowsIncident

-----------------------------------------------------------------------------
(* What is proved of every lease queue, said of this stage's rows.           *)
Leases == INSTANCE LeaseQueueProofs WITH
  Items <- {"repair"}, MaxClaims <- 3 + MaxFaults, Outcomes <- Terminal,
  row <- [i \in {"repair"} |-> row],
  lease <- [w \in Workers |-> [i \in {"repair"} |-> worker[w].token]],
  outcome <- [i \in {"repair"} |-> IF incident \in Terminal THEN incident ELSE "none"]

(* RepairQueue and Leases are the same definitions. *)
LEMMA SameQueue == /\ RepairQueue!Init => Leases!Init
                   /\ [RepairQueue!Next]_(RepairQueue!vars) => [Leases!Next]_(Leases!vars)
  BY DEF RepairQueue!NoToken, Leases!NoToken, RepairQueue!Absent, Leases!Absent,
         RepairQueue!Inserted, Leases!Inserted, RepairQueue!Open, Leases!Open,
         RepairQueue!Claimable, Leases!Claimable, RepairQueue!Claimed,
         Leases!Claimed, RepairQueue!HeldUnder, Leases!HeldUnder,
         RepairQueue!Completed, Leases!Completed, RepairQueue!Rescheduled,
         Leases!Rescheduled, RepairQueue!LeaseRunsOut, Leases!LeaseRunsOut,
         RepairQueue!BackoffRunsOut, Leases!BackoffRunsOut, RepairQueue!NoOutcome,
         Leases!NoOutcome, RepairQueue!Free, Leases!Free, RepairQueue!Idle,
         Leases!Idle, RepairQueue!Forget, Leases!Forget, RepairQueue!Enqueue,
         Leases!Enqueue, RepairQueue!Claim, Leases!Claim, RepairQueue!Settle,
         Leases!Settle, RepairQueue!Reschedule, Leases!Reschedule,
         RepairQueue!LoseLease, Leases!LoseLease, RepairQueue!Crash, Leases!Crash,
         RepairQueue!LeaseLapses, Leases!LeaseLapses, RepairQueue!BackoffElapses,
         Leases!BackoffElapses, RepairQueue!WorkerStep, Leases!WorkerStep,
         RepairQueue!vars, Leases!vars, RepairQueue!Init, Leases!Init,
         RepairQueue!Next, Leases!Next

(* The repair has one verdict, for any number of workers: at most one of them *)
(* could commit it, and it is that of the latest claim (the token check of   *)
(* decline, complete and reschedule).                                        *)
THEOREM RepairedOnce ==
  Spec => Leases!ImplementsWorkOnce /\ []Leases!SoleHolder /\ Leases!LatestClaimSettles
<1>1. Leases!MaxClaimsAssumption /\ Leases!OutcomesAssumption
  BY MaxFaultsAssumption
     DEF Leases!MaxClaimsAssumption, Leases!OutcomesAssumption, Leases!NoOutcome, Terminal, Stopped
<1>2. Leases!Spec => /\ Leases!ImplementsWorkOnce
                     /\ []Leases!SoleHolder /\ Leases!LatestClaimSettles
  BY <1>1, Leases!Refinement, Leases!SoleHolderHolds, Leases!LatestClaimSettlesHolds, PTL
<1> QED
  BY <1>2, SameQueue, RowIsLeaseQueue, PTL DEF ImplementsLeaseQueue, Leases!Spec
=============================================================================
