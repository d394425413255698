----------------------------- MODULE MailOutbox -----------------------------
(***************************************************************************)
(* The Outbox of app/mail_layer: request threads queue, schedule, cancel,  *)
(* edit and delete messages (compose_api, messages_api) while one worker   *)
(* process (send_worker.run) sends the queued ones over SMTP.              *)
(*                                                                         *)
(* Both sides work on rows they loaded earlier.  The worker loads up to    *)
(* Limit candidates at once; every commit expires its objects, so it sees  *)
(* the later candidates as they were after the commit of the one before,   *)
(* and does not look at their send_status again.                           *)
(*                                                                         *)
(* A message starts as a draft: POST /messages/send without a draft id is  *)
(* a draft that is queued at once.  Folders and contents are left out.     *)
(***************************************************************************)
EXTENDS Naturals, FiniteSets

CONSTANTS
  Messages,     \* ids, in the order of created_at
  Requests,     \* request threads of the mail API
  Limit,        \* .limit(20) of the worker's query
  MAX_RETRIES,  \* MAIL_MAX_SEND_RETRIES; 5 by default
  MaxRequests,  \* bound: requests that change a row
  MaxFaults     \* bound: crashes of the worker and exceptions in it

ASSUME MessagesAssumption == Messages \subseteq Nat \ {0}
ASSUME LimitsAssumption   == {Limit, MAX_RETRIES} \subseteq Nat \ {0}
ASSUME BoundsAssumption   == {MaxRequests, MaxFaults} \subseteq Nat

NoMessage == 0

\* send_status, is_draft, send_attempts, scheduled_at and deleted_at of a row;
\* undo is updated_at against the undo-send window of the account.
Row == [status   : {"none", "queued", "sending", "sent", "failed", "canceled"},
        draft    : BOOLEAN,
        attempts : Nat,
        sched    : {"no", "future", "reached"},
        undo     : {"open", "elapsed"},
        deleted  : BOOLEAN]

Draft == [status |-> "none", draft |-> TRUE, attempts |-> 0,
          sched |-> "no", undo |-> "open", deleted |-> FALSE]

Ops == {"send", "schedule", "cancel", "edit", "delete"}

VARIABLES
  row,        \* the committed rows of mail_messages
  connected,  \* the mailbox has not been disconnected
  \* the worker
  pc,         \* "idle", "check", "compose", "smtp", "record" or "refresh"
  todo,       \* candidates of this pass, the lowest is the one at work
  view,       \* the rows as its session holds them
  smtp,       \* what smtp_send.send returned
  \* each request thread
  op, target, copy,  \* its operation, its message, the row as it loaded it
  \* history
  enqueues,   \* enqueues[m]: requests that queued m
  undone,     \* undone[m]: m was cancelled and not queued again
  handed,     \* handed[m]: SMTP attempts
  accepted,   \* accepted[m]: attempts the server took
  ambiguous,  \* ambiguous[m]: ... and that failed for the worker
  requests, faults

workerVars  == <<pc, todo, view, smtp>>
requestVars == <<op, target, copy>>
sendHist    == <<handed, accepted, ambiguous>>
userHist    == <<enqueues, undone, requests>>
vars == <<row, connected, workerVars, requestVars, sendHist, userHist, faults>>

TypeOK ==
  /\ row \in [Messages -> Row]
  /\ connected \in BOOLEAN
  /\ pc \in {"idle", "check", "compose", "smtp", "record", "refresh"}
  /\ todo \subseteq Messages
  /\ pc # "idle" => todo # {}
  /\ view \in [Messages -> Row]
  /\ smtp \in {"none", "ok", "failed"}
  /\ op \in [Requests -> Ops \cup {"none"}]
  /\ target \in [Requests -> Messages \cup {NoMessage}]
  /\ copy \in [Requests -> Row]
  /\ \A r \in Requests : op[r] # "none" => target[r] \in Messages
  /\ undone \in [Messages -> BOOLEAN]
  /\ enqueues \in [Messages -> Nat]
  /\ handed \in [Messages -> Nat]
  /\ accepted \in [Messages -> Nat]
  /\ ambiguous \in [Messages -> Nat]
  /\ requests \in Nat /\ faults \in Nat

Init ==
  /\ row = [m \in Messages |-> Draft]
  /\ connected = TRUE
  /\ pc = "idle" /\ todo = {} /\ smtp = "none"
  /\ view = [m \in Messages |-> Draft]
  /\ op = [r \in Requests |-> "none"]
  /\ target = [r \in Requests |-> NoMessage]
  /\ copy = [r \in Requests |-> Draft]
  /\ undone = [m \in Messages |-> FALSE]
  /\ enqueues = [m \in Messages |-> 0]
  /\ handed = [m \in Messages |-> 0]
  /\ accepted = [m \in Messages |-> 0]
  /\ ambiguous = [m \in Messages |-> 0]
  /\ requests = 0 /\ faults = 0

-----------------------------------------------------------------------------
\* A commit writes the columns the object changed and, with them, updated_at.

Changed(committed, loaded, object) ==
  IF object = loaded THEN committed ELSE object

Flush(committed, loaded, object) ==
  IF object = loaded THEN committed
  ELSE [status   |-> Changed(committed.status, loaded.status, object.status),
        draft    |-> Changed(committed.draft, loaded.draft, object.draft),
        attempts |-> Changed(committed.attempts, loaded.attempts, object.attempts),
        sched    |-> Changed(committed.sched, loaded.sched, object.sched),
        undo     |-> "open",
        deleted  |-> Changed(committed.deleted, loaded.deleted, object.deleted)]

-----------------------------------------------------------------------------
\* Requests.

\* The row object after operation o; a schedule names a new point in time.
Applied(o, r) ==
  CASE o = "send"     -> [r EXCEPT !.draft = FALSE, !.status = "queued",
                                   !.attempts = 0, !.sched = "no"]
    [] o = "schedule" -> [r EXCEPT !.draft = FALSE, !.status = "queued",
                                   !.attempts = 0, !.sched = "future"]
    [] o = "cancel"   -> [r EXCEPT !.status = "canceled", !.sched = "no",
                                   !.draft = TRUE]
    [] o = "delete"   -> [r EXCEPT !.deleted = TRUE]
    [] OTHER          -> r

\* What the handlers check: get_owned_message, cancel_send, update_draft.
Allowed(o, r) ==
  /\ ~r.deleted
  /\ o = "cancel" => r.status \in {"queued", "failed"}
  /\ o = "edit" => r.draft

Queueing == {"send", "schedule"}

\* What the commit of operation o leaves in the table: a new schedule and an
\* edit always change a column, so they touch updated_at.
Written(o, committed, loaded) ==
  LET flushed == Flush(committed, loaded, Applied(o, loaded)) IN
  CASE o = "schedule" -> [flushed EXCEPT !.sched = "future", !.undo = "open"]
    [] o = "edit"     -> [flushed EXCEPT !.undo = "open"]
    [] OTHER          -> flushed

RequestLoad(r, m, o) ==
  /\ op[r] = "none"
  /\ requests < MaxRequests
  /\ Allowed(o, row[m])
  /\ op' = [op EXCEPT ![r] = o]
  /\ target' = [target EXCEPT ![r] = m]
  /\ copy' = [copy EXCEPT ![r] = row[m]]
  /\ requests' = requests + 1
  /\ UNCHANGED <<row, connected, workerVars, sendHist, enqueues, undone, faults>>

RequestCommit(r) ==
  LET m == target[r] IN
  /\ op[r] # "none"
  /\ row' = [row EXCEPT ![m] = Written(op[r], @, copy[r])]
  /\ enqueues' = [enqueues EXCEPT ![m] = IF op[r] \in Queueing THEN @ + 1 ELSE @]
  /\ undone' = [undone EXCEPT ![m] = op[r] = "cancel" \/ (@ /\ op[r] \notin Queueing)]
  /\ op' = [op EXCEPT ![r] = "none"]
  /\ target' = [target EXCEPT ![r] = NoMessage]
  /\ copy' = [copy EXCEPT ![r] = Draft]
  /\ UNCHANGED <<connected, workerVars, sendHist, requests, faults>>

\* The mailbox is disconnected (soft-deleted) or connected again.
ConnectionChanges ==
  /\ connected' = ~connected
  /\ UNCHANGED <<row, workerVars, requestVars, sendHist, userHist, faults>>

-----------------------------------------------------------------------------
\* The worker.

Candidates == {m \in Messages : row[m].status = "queued" /\ ~row[m].deleted}

\* Mutant: the query skips messages that have a schedule.
OldestUnscheduled ==
  {m \in Candidates : /\ row[m].sched = "no"
                      /\ Cardinality({k \in Candidates : k < m}) < Limit}

\* The first Limit candidates by created_at, whether or not they are due.
Oldest == {m \in Candidates : Cardinality({k \in Candidates : k < m}) < Limit}

\* _undo_elapsed and the check of scheduled_at before it.
Due(r) == IF r.sched = "no" THEN r.undo = "elapsed" ELSE r.sched = "reached"

AtWork == CHOOSE m \in todo : \A k \in todo : m <= k

\* Objects outside the pass are not in the session.
Loaded(S) == [m \in Messages |-> IF m \in S THEN row[m] ELSE Draft]

PassLoad ==
  /\ pc = "idle"
  /\ Oldest # {}
  /\ pc' = "check"
  /\ todo' = Oldest
  /\ view' = Loaded(Oldest)
  /\ UNCHANGED <<row, connected, smtp, requestVars, sendHist, userHist, faults>>

\* The message at work is done with; newView is what the session now holds.
NextCandidate(newView) ==
  /\ todo' = todo \ {AtWork}
  /\ pc' = IF todo' = {} THEN "idle" ELSE "check"
  /\ view' = [m \in Messages |-> IF m \in todo' THEN newView[m] ELSE Draft]
  /\ smtp' = "none"

PassOver ==
  /\ pc = "check"
  /\ ~Due(view[AtWork])
  /\ NextCandidate(view)
  /\ UNCHANGED <<row, connected, requestVars, sendHist, userHist, faults>>

WorkerWrites(object) ==
  row' = [row EXCEPT ![AtWork] = Flush(@, view[AtWork], object)]

\* The mailbox is no longer connected (or nobody is left to send to).
Refuse ==
  /\ pc = "check"
  /\ Due(view[AtWork])
  /\ ~connected
  /\ WorkerWrites([view[AtWork] EXCEPT !.status = "failed"])
  /\ pc' = "refresh"
  /\ UNCHANGED <<connected, todo, view, smtp, requestVars, sendHist, userHist, faults>>

\* Mutant: nothing is committed before the message is handed over.
MarkSendingLater ==
  /\ pc = "check"
  /\ Due(view[AtWork])
  /\ connected
  /\ pc' = "compose"
  /\ UNCHANGED <<row, connected, todo, view, smtp, requestVars, sendHist, userHist, faults>>

MarkSending ==
  /\ pc = "check"
  /\ Due(view[AtWork])
  /\ connected
  /\ WorkerWrites([view[AtWork] EXCEPT !.status = "sending"])
  /\ pc' = "compose"
  /\ UNCHANGED <<connected, todo, view, smtp, requestVars, sendHist, userHist, faults>>

\* The commit expired the object: attachments and body are loaded afresh.
Compose ==
  /\ pc = "compose"
  /\ view' = [view EXCEPT ![AtWork] = row[AtWork]]
  /\ pc' = "smtp"
  /\ UNCHANGED <<row, connected, todo, smtp, requestVars, sendHist, userHist, faults>>

\* smtp_send.send; an error after the server took the message reads "failed".
Send ==
  LET m == AtWork IN
  /\ pc = "smtp"
  /\ \E took, ok \in BOOLEAN :
       /\ ok => took
       /\ smtp' = IF ok THEN "ok" ELSE "failed"
       /\ accepted' = [accepted EXCEPT ![m] = IF took THEN @ + 1 ELSE @]
       /\ ambiguous' = [ambiguous EXCEPT ![m] = IF took /\ ~ok THEN @ + 1 ELSE @]
  /\ handed' = [handed EXCEPT ![m] = @ + 1]
  /\ pc' = "record"
  /\ UNCHANGED <<row, connected, todo, view, requestVars, userHist, faults>>

\* Mutant: off by one in the number of attempts.
OutcomeOneMore(r, ok) ==
  CASE ok -> [r EXCEPT !.status = "sent"]
    [] ~ok /\ r.attempts + 1 > MAX_RETRIES ->
         [r EXCEPT !.status = "failed", !.attempts = @ + 1]
    [] OTHER -> [r EXCEPT !.status = "queued", !.attempts = @ + 1]

\* Mutant: a failed attempt is counted, but the message is not queued again.
OutcomeNotRequeued(r, ok) ==
  CASE ok -> [r EXCEPT !.status = "sent"]
    [] ~ok /\ r.attempts + 1 >= MAX_RETRIES ->
         [r EXCEPT !.status = "failed", !.attempts = @ + 1]
    [] OTHER -> [r EXCEPT !.attempts = @ + 1]

\* The row object after the attempt.
Outcome(r, ok) ==
  CASE ok -> [r EXCEPT !.status = "sent"]
    [] ~ok /\ r.attempts + 1 >= MAX_RETRIES ->
         [r EXCEPT !.status = "failed", !.attempts = @ + 1]
    [] OTHER -> [r EXCEPT !.status = "queued", !.attempts = @ + 1]

Record ==
  /\ pc = "record"
  /\ WorkerWrites(Outcome(view[AtWork], smtp = "ok"))
  /\ pc' = "refresh"
  /\ UNCHANGED <<connected, todo, view, smtp, requestVars, sendHist, userHist, faults>>

\* The commit expired the other candidates too.
Refresh ==
  /\ pc = "refresh"
  /\ NextCandidate(row)
  /\ UNCHANGED <<row, connected, requestVars, sendHist, userHist, faults>>

\* A crash, or an exception outside smtp_send.send (a lost attachment, a
\* password that cannot be decrypted, a failed commit): the pass is over.
PassFails ==
  /\ pc # "idle"
  /\ faults < MaxFaults
  /\ faults' = faults + 1
  /\ pc' = "idle" /\ todo' = {} /\ view' = Loaded({}) /\ smtp' = "none"
  /\ UNCHANGED <<row, connected, requestVars, sendHist, userHist>>

-----------------------------------------------------------------------------
\* Time.  A copy is never newer than its row, so its window elapses no later.

UndoElapses(m) ==
  /\ row[m].undo = "open" /\ row[m].status # "none"
  /\ row' = [row EXCEPT ![m].undo = "elapsed"]
  /\ view' = [view EXCEPT ![m].undo = IF m \in todo THEN "elapsed" ELSE @]
  /\ UNCHANGED <<connected, pc, todo, smtp, requestVars, sendHist, userHist, faults>>

OldUndoElapses(m) ==
  /\ m \in todo
  /\ view[m].undo = "open" /\ view[m] # row[m]
  /\ view' = [view EXCEPT ![m].undo = "elapsed"]
  /\ UNCHANGED <<row, connected, pc, todo, smtp, requestVars, sendHist, userHist, faults>>

ScheduleReached(m) ==
  /\ row[m].sched = "future"
  /\ row' = [row EXCEPT ![m].sched = "reached"]
  /\ UNCHANGED <<connected, workerVars, requestVars, sendHist, userHist, faults>>

-----------------------------------------------------------------------------

WorkerStep ==
  \/ PassLoad \/ PassOver \/ Refuse \/ MarkSending \/ Compose
  \/ Send \/ Record \/ Refresh

Next ==
  \/ WorkerStep
  \/ PassFails
  \/ ConnectionChanges
  \/ \E r \in Requests : RequestCommit(r)
  \/ \E r \in Requests, m \in Messages, o \in Ops : RequestLoad(r, m, o)
  \/ \E m \in Messages : UndoElapses(m) \/ OldUndoElapses(m) \/ ScheduleReached(m)

Spec == Init /\ [][Next]_vars

\* The worker loops for ever (every call it makes has a timeout), requests end
\* and time passes.
Fairness ==
  /\ WF_vars(WorkerStep)
  /\ \A r \in Requests : WF_vars(RequestCommit(r))
  /\ \A m \in Messages : WF_vars(UndoElapses(m)) /\ WF_vars(ScheduleReached(m))

FairSpec == Spec /\ Fairness

-----------------------------------------------------------------------------
\* Properties.

\* Nobody gets a message twice for one request to send it, unless the server
\* took an attempt that failed for the worker: neither a crash at any point nor
\* a request that races the worker repeats a delivery.
DeliveriesExplained ==
  \A m \in Messages : accepted[m] <= enqueues[m] + ambiguous[m]

\* The SMTP server is bothered MAX_RETRIES times per request to send, however
\* cancels, new requests and failures overwrite each other's columns.
SmtpBudget == \A m \in Messages : handed[m] <= MAX_RETRIES * enqueues[m]

\* A message stays in "sending" without the worker only where a pass failed:
\* no interleaving with requests leaves it there.
SendingInFlight ==
  \A m \in Messages :
    row[m].status = "sending" => \/ faults > 0
                                 \/ /\ todo # {} /\ m = AtWork
                                    /\ pc \in {"compose", "smtp", "record"}

\* Whatever is queued leaves the queue, although passes look at the oldest
\* messages only and those may be scheduled for later.
QueuedIsTaken ==
  \A m \in Messages : m \in Candidates ~> m \notin Candidates

\* compose_api.py, cancel_send: "Undo send - pull a queued/scheduled/failed
\* message back to Drafts": once that has succeeded the message is not sent.
UndoneIsNotSent ==
  [][\A m \in Messages : accepted'[m] > accepted[m] => ~undone[m]]_vars

=============================================================================
