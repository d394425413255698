------------------------------- MODULE WaLog --------------------------------
(***************************************************************************)
(* The row of a WhatsApp message log (whatsapp_message_logs) and the pure  *)
(* operations of sender.py on one row object: what each provider answer,   *)
(* each webhook status and each ORM commit makes of it.                    *)
(*                                                                         *)
(* Of the row's columns the model keeps the three that steer the pipeline: *)
(* status, attempts and next_attempt_at.  A time is abstracted to what the *)
(* code compares it with: "none" (NULL), "waiting" (in the future) or      *)
(* "due" (reached).                                                        *)
(***************************************************************************)
EXTENDS Naturals

CONSTANT Backoffs   \* len(RETRY_BACKOFF_MINUTES); 3 in the code

ASSUME BackoffsAssumption == Backoffs \in Nat

\* Where a message stands on its way to the recipient.
STATUS_ORDER ==
  [queued |-> 0, submitted |-> 1, sent |-> 2, delivered |-> 3, read |-> 4]

\* "absent": the row does not exist yet.
Status == DOMAIN STATUS_ORDER \cup {"failed", "skipped", "absent"}

NextAttempt == {"none", "waiting", "due"}

Row == [status : Status, attempts : Nat, next : NextAttempt]

NoRow == [status |-> "absent", attempts |-> 0, next |-> "none"]

\* What the provider says in a message_status webhook event.
WebhookStatus == {"sent", "delivered", "read", "failed"}

\* What one call of send_log may learn before it writes the row.  The first
\* two are decided without calling the provider.
Answer == {"unsendable", "undecryptable",
           "accepted", "duplicate", "auth", "retryable", "rejected"}

-----------------------------------------------------------------------------

\* A failure is final until somebody retries it: no automatic attempt is left.
Fail(r) == [r EXCEPT !.status = "failed", !.next = "none"]

\* Mutant: off by one in the number of automatic retries.
RecordedOneTooMany(r, a) ==
  LET tried == [r EXCEPT !.attempts = @ + 1]
  IN  CASE a = "unsendable" -> [r EXCEPT !.status = "skipped"]
        [] a = "accepted"   -> [tried EXCEPT !.status = "submitted", !.next = "none"]
        [] a = "duplicate"  -> [tried EXCEPT !.status = "skipped"]
        [] a = "retryable" /\ tried.attempts <= Backoffs + 1
                            -> [tried EXCEPT !.next = "waiting"]
        [] OTHER            -> Fail(tried)

\* The row object after send_log has recorded answer a.
Recorded(r, a) ==
  LET tried == [r EXCEPT !.attempts = @ + 1]
  IN  CASE a = "unsendable" -> [r EXCEPT !.status = "skipped"]
        [] a = "accepted"   -> [tried EXCEPT !.status = "submitted", !.next = "none"]
        [] a = "duplicate"  -> [tried EXCEPT !.status = "skipped"]
        [] a = "retryable" /\ tried.attempts <= Backoffs
                            -> [tried EXCEPT !.status = "queued", !.next = "waiting"]
        [] OTHER            -> Fail(tried)

\* Mutant: any status other than the present one is applied.
AdvancesEitherWay(r, st) ==
  IF st = "failed"
  THEN r.status \notin {"delivered", "read", "failed", "skipped"}
  ELSE /\ r.status \in DOMAIN STATUS_ORDER
       /\ STATUS_ORDER[st] # STATUS_ORDER[r.status]

\* advance_status: does delivery status st change the row object?
Advances(r, st) ==
  IF st = "failed"
  THEN r.status \notin {"delivered", "read", "failed", "skipped"}
  ELSE /\ r.status \in DOMAIN STATUS_ORDER
       /\ STATUS_ORDER[st] > STATUS_ORDER[r.status]

Advanced(r, st) ==
  IF ~Advances(r, st) THEN r
  ELSE IF st = "failed" THEN Fail(r) ELSE [r EXCEPT !.status = st]

\* retry_log puts a failed row back in the queue; attempts keeps counting.
Requeued(r) == [r EXCEPT !.status = "queued", !.next = "none"]

-----------------------------------------------------------------------------

(***************************************************************************)
(* A commit of the SQLAlchemy session.  UPDATE names only the columns      *)
(* whose value differs from the one that was loaded, and no row version    *)
(* is compared: a column the object did not change keeps what another      *)
(* session committed meanwhile, a column it changed is overwritten.        *)
(***************************************************************************)
Changed(committed, loaded, object) ==
  IF object = loaded THEN committed ELSE object

Flush(committed, loaded, object) ==
  [status   |-> Changed(committed.status, loaded.status, object.status),
   attempts |-> Changed(committed.attempts, loaded.attempts, object.attempts),
   next     |-> Changed(committed.next, loaded.next, object.next)]

\* Mutant: the UPDATE names every column.
FlushAnswerWhole(committed, loaded, a) == Recorded(loaded, a)

\* The commit of send_log.  A rescheduled attempt carries a new point in time,
\* which differs from the loaded one even when both lie in the future.
FlushAnswer(committed, loaded, a) ==
  LET object  == Recorded(loaded, a)
      flushed == Flush(committed, loaded, object)
  IN  IF a = "retryable" /\ object.status = "queued"
      THEN [flushed EXCEPT !.next = "waiting"]
      ELSE flushed

=============================================================================
