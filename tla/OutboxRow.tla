----------------------------- MODULE OutboxRow -----------------------------
(* One row of the `outbox` table (001-schema.sql) and the five SQL           *)
(* statements the program runs on such a row.  The three queues              *)
(* (ingestion, diagnosis, repair) repeat the same statements; only the       *)
(* length of the lease differs, and time is abstracted here to the two       *)
(* comparisons that the statements make with now().                          *)
(*                                                                           *)
(*   present   the INSERT ... ON CONFLICT (dedupe_key) DO NOTHING happened   *)
(*   done      completed_at IS NOT NULL                                      *)
(*   attempts  the attempts column                                           *)
(*   token     lease_token, 0 for NULL.  randomUUID() never returns a token  *)
(*             twice; the number of the claim that took it is as unique.     *)
(*   due       available_at <= now()                                         *)
(*   lapsed    leased_until < now(); meaningless while token = 0             *)
EXTENDS Naturals

NoToken == 0

Row == [present: BOOLEAN, done: BOOLEAN, attempts: Nat, token: Nat,
        due: BOOLEAN, lapsed: BOOLEAN]

Absent == [present |-> FALSE, done |-> FALSE, attempts |-> 0,
           token |-> NoToken, due |-> TRUE, lapsed |-> FALSE]

(* INSERT ... ON CONFLICT (dedupe_key) DO NOTHING *)
InsertedAgain(r) == [Absent EXCEPT !.present = TRUE] \* mutant: DO UPDATE
Inserted(r) == IF r.present THEN r ELSE [r EXCEPT !.present = TRUE]

Open(r) == r.present /\ ~r.done

(* The WHERE clause of the claim; FOR UPDATE SKIP LOCKED is the caller's. *)
Claimable(r) == Open(r) /\ r.due /\ (r.token = NoToken \/ r.lapsed)

(* The claim's UPDATE: a new lease, a new token, one more attempt. *)
ClaimedKeepingToken(r) ==                            \* mutant: token not renewed
  [r EXCEPT !.attempts = @ + 1, !.lapsed = FALSE,
            !.token = IF @ = NoToken THEN r.attempts + 1 ELSE @]
ClaimedCountingDown(r) ==                            \* mutant: attempts - 1
  [r EXCEPT !.attempts = @ - 1, !.token = r.attempts + 1, !.lapsed = FALSE]
Claimed(r) == [r EXCEPT !.attempts = @ + 1, !.token = r.attempts + 1,
                        !.lapsed = FALSE]

(* WHERE lease_token = $2 AND completed_at IS NULL.  Nothing is said of      *)
(* leased_until: a lease that has run out and was not taken over still       *)
(* counts.                                                                   *)
HeldAtAll(r, token) == ~r.done /\ token # NoToken    \* mutant: token not compared
HeldUnder(r, token) == ~r.done /\ token # NoToken /\ r.token = token

CompletedUnderLease(r) == [r EXCEPT !.done = TRUE]   \* mutant: lease not cleared
Completed(r) == [r EXCEPT !.done = TRUE, !.token = NoToken, !.lapsed = FALSE]

(* available_at = now() + least(300, 2 ^ attempts) seconds *)
Rescheduled(r) == [r EXCEPT !.token = NoToken, !.lapsed = FALSE, !.due = FALSE]

(* Two moments the clock brings. *)
LeaseRunsOut(r) == [r EXCEPT !.lapsed = TRUE]
BackoffNeverRunsOut(r) == r                          \* mutant: available_at NULL
BackoffRunsOut(r) == [r EXCEPT !.due = TRUE]
=============================================================================
