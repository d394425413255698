------------------------------ MODULE WaSender ------------------------------
(***************************************************************************)
(* The send path of app/whatsapp_layer: message logs are created by the    *)
(* reminder engine, handed to senders, sent through the provider, retried  *)
(* with a backoff and retried by hand.                                     *)
(*                                                                         *)
(* Two kinds of processes run send_log on the same rows.  CeleryWorkers    *)
(* run the task send_whatsapp_message under the Redis key wa:send:<id>.    *)
(* InlineSenders call send_log directly: the asyncio fallback tick of the  *)
(* API process and the request threads of POST /logs/{id}/retry.           *)
(*                                                                         *)
(* send_log reads the row, calls the provider and commits; other processes *)
(* run between these steps, so each is an action of its own and a sender   *)
(* keeps in view[s] the row as it loaded it.                               *)
(***************************************************************************)
EXTENDS WaLog, FiniteSets

CONSTANTS
  Logs,              \* log ids (AUTO_INCREMENT); dispatch_due orders by id
  CeleryWorkers,     \* processes of the Celery worker
  InlineSenders,     \* fallback tick and API request threads
  LockOutlivesSend,  \* TRUE: no send takes longer than SEND_LOCK_TTL
  DispatchLimit,     \* `limit` of dispatch_due; 500 in the code
  MaxQueue,          \* bound: pending Celery tasks per log
  MaxRetries,        \* bound: manual retries per log
  MaxFaults,         \* bound: crashes and lost tasks in a behaviour
  MaxCalls           \* bound: provider calls per log

Senders == CeleryWorkers \cup InlineSenders

ASSUME LogsAssumption    == Logs \subseteq Nat \ {0}
ASSUME SendersAssumption == CeleryWorkers \cap InlineSenders = {}
ASSUME LockAssumption    == LockOutlivesSend \in BOOLEAN
ASSUME BoundsAssumption  ==
  /\ DispatchLimit \in Nat \ {0}
  /\ {MaxQueue, MaxRetries, MaxFaults, MaxCalls} \subseteq Nat

NoLog == 0
NoAnswer == "none"

Ages == {"new", "ripe", "stale"}
PCs  == {"idle", "load", "call", "commit", "requeue"}

VARIABLES
  \* MySQL
  row,         \* row[l]: the committed message log
  age,         \* age[l]: created_at against 2 minutes ("ripe") and 24 h ("stale")
  sendable,    \* sendable[l]: template approved, phone known, not opted out
  accountOk,   \* the org's provider account has status "active"
  \* Redis
  tasks,       \* tasks[l]: send_whatsapp_message(l) tasks in the broker
  lock,        \* lock[l]: the key wa:send:<l> exists (its value names no owner)
  \* each sender process
  pc,          \* what it does next
  cur,         \* the log it works on
  todo,        \* inline dispatch_many: the logs still to send
  view,        \* the row as it loaded it
  answer,      \* what it learnt and has not committed yet
  \* history
  calls,       \* calls[l]: requests for l that reached the provider call
  accepted,    \* accepted[l]: how often the provider took l for delivery
  lost,        \* lost[l]: acceptances whose answer no sender ever committed
  retries,     \* retries[l]: manual retries
  overlaps,    \* overlaps[l]: sends begun while another send of l was open
  faults       \* crashes and lost tasks so far

dbVars     == <<row, age, sendable, accountOk>>
redisVars  == <<tasks, lock>>
procVars   == <<pc, cur, todo, view, answer>>
histVars   == <<calls, accepted, lost, retries, overlaps, faults>>
senderVars == <<dbVars, redisVars, procVars, histVars>>

SenderTypeOK ==
  /\ row \in [Logs -> Row]
  /\ age \in [Logs -> Ages]
  /\ sendable \in [Logs -> BOOLEAN]
  /\ accountOk \in BOOLEAN
  /\ tasks \in [Logs -> Nat]
  /\ lock \in [Logs -> BOOLEAN]
  /\ pc \in [Senders -> PCs]
  /\ cur \in [Senders -> Logs \cup {NoLog}]
  /\ todo \in [Senders -> SUBSET Logs]
  /\ view \in [Senders -> Row]
  /\ answer \in [Senders -> Answer \cup {NoAnswer}]
  /\ calls \in [Logs -> Nat]
  /\ accepted \in [Logs -> Nat]
  /\ lost \in [Logs -> Nat]
  /\ retries \in [Logs -> Nat]
  /\ overlaps \in [Logs -> Nat]
  /\ faults \in Nat
  /\ \A s \in Senders : pc[s] # "idle" => cur[s] \in Logs

SenderInit ==
  /\ row = [l \in Logs |-> NoRow]
  /\ age = [l \in Logs |-> "new"]
  /\ sendable \in [Logs -> BOOLEAN]
  /\ accountOk \in BOOLEAN
  /\ tasks = [l \in Logs |-> 0]
  /\ lock = [l \in Logs |-> FALSE]
  /\ pc = [s \in Senders |-> "idle"]
  /\ cur = [s \in Senders |-> NoLog]
  /\ todo = [s \in Senders |-> {}]
  /\ view = [s \in Senders |-> NoRow]
  /\ answer = [s \in Senders |-> NoAnswer]
  /\ calls = [l \in Logs |-> 0]
  /\ accepted = [l \in Logs |-> 0]
  /\ lost = [l \in Logs |-> 0]
  /\ retries = [l \in Logs |-> 0]
  /\ overlaps = [l \in Logs |-> 0]
  /\ faults = 0

-----------------------------------------------------------------------------
\* Process bookkeeping.

\* Sender s turns to the lowest log of S; the rest of S waits (dispatch_many).
Walk(s, S) ==
  \E l \in S :
    /\ \A k \in S : l <= k
    /\ pc' = [pc EXCEPT ![s] = "load"]
    /\ cur' = [cur EXCEPT ![s] = l]
    /\ todo' = [todo EXCEPT ![s] = S \ {l}]

Rest(s) ==
  /\ pc' = [pc EXCEPT ![s] = "idle"]
  /\ cur' = [cur EXCEPT ![s] = NoLog]
  /\ todo' = [todo EXCEPT ![s] = {}]

Forget(s) ==
  /\ view' = [view EXCEPT ![s] = NoRow]
  /\ answer' = [answer EXCEPT ![s] = NoAnswer]

\* send_log(cur[s]) has returned or raised: the Celery task's `finally` deletes
\* the key, whoever set it; an inline sender turns to its next log.
Done(s) ==
  /\ Forget(s)
  /\ lock' = [lock EXCEPT ![cur[s]] = @ /\ s \notin CeleryWorkers]
  /\ IF todo[s] = {} THEN Rest(s) ELSE Walk(s, todo[s])

\* The answer s holds is an acceptance nobody has committed yet.
HoldsAcceptance(s) == pc[s] = "commit" /\ answer[s] = "accepted"

\* Sender s has loaded log l as queued and has not committed yet.
IsOpen(s, l) == cur[s] = l /\ pc[s] \in {"call", "commit"}

-----------------------------------------------------------------------------
\* Creating and dispatching.

\* create_log + apply_prechecks + commit; `status` is their verdict.
Insert(l) ==
  /\ row[l].status = "absent"
  /\ row' = [row EXCEPT ![l].status =
               IF accountOk /\ sendable[l] THEN "queued" ELSE "skipped"]

\* A Celery job creates the log and enqueues its task, or dies in between.
CreateByJob(l) ==
  /\ CeleryWorkers # {}
  /\ Insert(l)
  /\ \/ /\ row'[l].status = "queued" /\ tasks[l] < MaxQueue
        /\ tasks' = [tasks EXCEPT ![l] = @ + 1]
     \/ UNCHANGED tasks
  /\ UNCHANGED <<age, sendable, accountOk, lock, procVars, histVars>>

\* The fallback tick or POST /logs/send-now creates the log and sends it itself.
CreateInline(s, l) ==
  /\ pc[s] = "idle"
  /\ Insert(l)
  /\ IF row'[l].status = "queued" THEN Walk(s, {l}) ELSE UNCHANGED <<pc, cur, todo>>
  /\ UNCHANGED <<age, sendable, accountOk, redisVars, view, answer, histVars>>

\* dispatch_due: queued logs younger than 24 h, the first DispatchLimit by id ...
Queued == {l \in Logs : row[l].status = "queued" /\ age[l] # "stale"}

\* Mutant: the limit counts logs of any status.
WindowOfAllRows == {l \in Queued : Cardinality({k \in Logs : k < l}) < DispatchLimit}

Window == {l \in Queued : Cardinality({k \in Queued : k < l}) < DispatchLimit}

\* ... whose backoff has elapsed, or that nobody picked up for 2 minutes.
Due == {l \in Window : \/ row[l].next = "due"
                       \/ row[l].next = "none" /\ age[l] = "ripe"}

\* The beat job poll_whatsapp_batches enqueues a task per due log.
DispatchByBeat ==
  /\ CeleryWorkers # {}
  /\ \E l \in Due : tasks[l] < MaxQueue
  /\ tasks' = [l \in Logs |->
                 IF l \in Due /\ tasks[l] < MaxQueue THEN tasks[l] + 1 ELSE tasks[l]]
  /\ UNCHANGED <<dbVars, lock, procVars, histVars>>

\* The fallback tick sends the due logs itself, one after the other.
DispatchInline(s) ==
  /\ pc[s] = "idle"
  /\ Due # {}
  /\ Walk(s, Due)
  /\ UNCHANGED <<dbVars, redisVars, view, answer, histVars>>

\* POST /logs/{id}/retry reads the row ...
RetryLoad(s, l) ==
  /\ pc[s] = "idle"
  /\ row[l].status = "failed"
  /\ retries[l] < MaxRetries
  /\ pc' = [pc EXCEPT ![s] = "requeue"]
  /\ cur' = [cur EXCEPT ![s] = l]
  /\ view' = [view EXCEPT ![s] = row[l]]
  /\ UNCHANGED <<dbVars, redisVars, todo, answer, histVars>>

\* ... commits it as queued, then calls send_log in the request thread.
RetryCommit(s) ==
  /\ pc[s] = "requeue"
  /\ row' = [row EXCEPT ![cur[s]] = Flush(@, view[s], Requeued(view[s]))]
  /\ retries' = [retries EXCEPT ![cur[s]] = @ + 1]
  /\ pc' = [pc EXCEPT ![s] = "load"]
  /\ Forget(s)
  /\ UNCHANGED <<age, sendable, accountOk, redisVars, cur, todo,
                 calls, accepted, lost, overlaps, faults>>

-----------------------------------------------------------------------------
\* The Celery task send_whatsapp_message.

\* Mutant: the task runs whether or not the key exists.
TakeTaskUnlocked(w, l) ==
  /\ pc[w] = "idle"
  /\ tasks[l] > 0
  /\ tasks' = [tasks EXCEPT ![l] = @ - 1]
  /\ lock' = [lock EXCEPT ![l] = TRUE]
  /\ Walk(w, {l})
  /\ UNCHANGED <<dbVars, view, answer, histVars>>

TakeTask(w, l) ==
  /\ pc[w] = "idle"
  /\ tasks[l] > 0
  /\ ~lock[l]
  /\ tasks' = [tasks EXCEPT ![l] = @ - 1]
  /\ lock' = [lock EXCEPT ![l] = TRUE]
  /\ Walk(w, {l})
  /\ UNCHANGED <<dbVars, view, answer, histVars>>

\* The key exists: the task returns "skipped".
SkipTask(w, l) ==
  /\ pc[w] = "idle"
  /\ tasks[l] > 0
  /\ lock[l]
  /\ tasks' = [tasks EXCEPT ![l] = @ - 1]
  /\ UNCHANGED <<dbVars, lock, procVars, histVars>>

\* Redis is down when the key is tried, or the worker dies holding the task
\* (tasks are acknowledged early): the task is gone.
LoseTask(l) ==
  /\ tasks[l] > 0
  /\ faults < MaxFaults
  /\ tasks' = [tasks EXCEPT ![l] = @ - 1]
  /\ faults' = faults + 1
  /\ UNCHANGED <<dbVars, lock, procVars, calls, accepted, lost, retries, overlaps>>

-----------------------------------------------------------------------------
\* send_log.

LoadNotQueued(s) ==
  /\ pc[s] = "load"
  /\ row[cur[s]].status # "queued"
  /\ Done(s)
  /\ UNCHANGED <<dbVars, tasks, histVars>>

LoadUnsendable(s) ==
  /\ pc[s] = "load"
  /\ row[cur[s]].status = "queued"
  /\ ~(accountOk /\ sendable[cur[s]])
  /\ pc' = [pc EXCEPT ![s] = "commit"]
  /\ view' = [view EXCEPT ![s] = row[cur[s]]]
  /\ answer' = [answer EXCEPT ![s] = "unsendable"]
  /\ UNCHANGED <<dbVars, redisVars, cur, todo, histVars>>

\* Mutant: the status of the loaded row is not checked.
LoadSendableAnyStatus(s) ==
  /\ pc[s] = "load"
  /\ accountOk /\ sendable[cur[s]]
  /\ pc' = [pc EXCEPT ![s] = "call"]
  /\ view' = [view EXCEPT ![s] = row[cur[s]]]
  /\ UNCHANGED <<dbVars, redisVars, cur, todo, answer, histVars>>

LoadSendable(s) ==
  /\ pc[s] = "load"
  /\ row[cur[s]].status = "queued"
  /\ accountOk /\ sendable[cur[s]]
  /\ pc' = [pc EXCEPT ![s] = "call"]
  /\ view' = [view EXCEPT ![s] = row[cur[s]]]
  /\ overlaps' = [overlaps EXCEPT ![cur[s]] =
                    IF \E t \in Senders : IsOpen(t, cur[s]) THEN @ + 1 ELSE @]
  /\ UNCHANGED <<dbVars, redisVars, cur, todo, answer,
                 calls, accepted, lost, retries, faults>>

\* The stored token cannot be decrypted: the provider is not called.
CannotDecrypt(s) ==
  /\ pc[s] = "call"
  /\ pc' = [pc EXCEPT ![s] = "commit"]
  /\ answer' = [answer EXCEPT ![s] = "undecryptable"]
  /\ UNCHANGED <<dbVars, redisVars, cur, todo, view, histVars>>

\* One HTTP request.  A timeout or a reply that is not JSON is "retryable", one
\* without counts is "rejected", whether or not the provider took the message.
CallProvider(s) ==
  LET l == cur[s] IN
  /\ pc[s] = "call"
  /\ calls[l] < MaxCalls
  /\ \E a \in {"accepted", "duplicate", "auth", "retryable", "rejected"},
        took \in BOOLEAN :
       /\ a = "accepted" => took
       /\ took => a \in {"accepted", "retryable", "rejected"}
       /\ answer' = [answer EXCEPT ![s] = a]
       /\ accepted' = [accepted EXCEPT ![l] = IF took THEN @ + 1 ELSE @]
       /\ lost' = [lost EXCEPT ![l] = IF took /\ a # "accepted" THEN @ + 1 ELSE @]
  /\ calls' = [calls EXCEPT ![l] = @ + 1]
  /\ pc' = [pc EXCEPT ![s] = "commit"]
  /\ UNCHANGED <<dbVars, redisVars, cur, todo, view, retries, overlaps, faults>>

\* The one commit at the end of send_log; "auth" commits through
\* mark_auth_error, which also stops the account.
CommitAnswer(s) ==
  /\ pc[s] = "commit"
  /\ row' = [row EXCEPT ![cur[s]] = FlushAnswer(@, view[s], answer[s])]
  /\ accountOk' = (accountOk /\ answer[s] # "auth")
  /\ Done(s)
  /\ UNCHANGED <<age, sendable, tasks, histVars>>

\* Nothing of what s learnt reaches the row.
LoseAnswer(s) ==
  /\ pc[s] # "idle"
  /\ faults < MaxFaults
  /\ faults' = faults + 1
  /\ lost' = IF HoldsAcceptance(s) THEN [lost EXCEPT ![cur[s]] = @ + 1] ELSE lost
  /\ UNCHANGED <<dbVars, tasks, calls, accepted, retries, overlaps>>

\* A database error: rollback, the key is released, dispatch_many goes on.
SendError(s) == LoseAnswer(s) /\ Done(s)

\* The process is killed: the key stays until its TTL has passed.
Crash(s) == LoseAnswer(s) /\ Forget(s) /\ Rest(s) /\ UNCHANGED lock

-----------------------------------------------------------------------------
\* Time, Redis expiry and the rest of the service.

BackoffElapses(l) ==
  /\ row[l].next = "waiting"
  /\ row' = [row EXCEPT ![l].next = "due"]
  /\ UNCHANGED <<age, sendable, accountOk, redisVars, procVars, histVars>>

Ripen(l) ==
  /\ row[l].status # "absent" /\ age[l] = "new"
  /\ age' = [age EXCEPT ![l] = "ripe"]
  /\ UNCHANGED <<row, sendable, accountOk, redisVars, procVars, histVars>>

GrowStale(l) ==
  /\ age[l] = "ripe"
  /\ age' = [age EXCEPT ![l] = "stale"]
  /\ UNCHANGED <<row, sendable, accountOk, redisVars, procVars, histVars>>

LockExpires(l) ==
  /\ lock[l]
  /\ LockOutlivesSend => \A w \in CeleryWorkers : cur[w] # l
  /\ lock' = [lock EXCEPT ![l] = FALSE]
  /\ UNCHANGED <<dbVars, tasks, procVars, histVars>>

\* A health check or an operator changes the account's status.
AccountChanges ==
  /\ accountOk' = ~accountOk
  /\ UNCHANGED <<row, age, sendable, redisVars, procVars, histVars>>

\* Opt-out and opt-in, template approval and withdrawal.
SendabilityChanges(l) ==
  /\ sendable' = [sendable EXCEPT ![l] = ~@]
  /\ UNCHANGED <<row, age, accountOk, redisVars, procVars, histVars>>

-----------------------------------------------------------------------------

SendStep(s) ==
  \/ LoadNotQueued(s) \/ LoadUnsendable(s) \/ LoadSendable(s)
  \/ CannotDecrypt(s) \/ CallProvider(s) \/ CommitAnswer(s) \/ RetryCommit(s)

SenderNext ==
  \/ \E l \in Logs : \/ CreateByJob(l) \/ LoseTask(l)
                     \/ BackoffElapses(l) \/ Ripen(l) \/ GrowStale(l)
                     \/ LockExpires(l) \/ SendabilityChanges(l)
  \/ \E s \in InlineSenders, l \in Logs : CreateInline(s, l) \/ RetryLoad(s, l)
  \/ \E s \in InlineSenders : DispatchInline(s)
  \/ \E w \in CeleryWorkers, l \in Logs : TakeTask(w, l) \/ SkipTask(w, l)
  \/ \E s \in Senders : SendStep(s) \/ SendError(s) \/ Crash(s)
  \/ DispatchByBeat
  \/ AccountChanges

SenderSpec == SenderInit /\ [][SenderNext]_senderVars

(***************************************************************************)
(* Fairness: a live process finishes the send it has begun (the HTTP       *)
(* request has a timeout), workers take tasks, Celery Beat and the         *)
(* fallback loop run dispatch_due every few minutes, and time passes.      *)
(* Nothing forces a crash, a retry by hand or a change of the account.     *)
(***************************************************************************)
SenderFairness ==
  /\ \A s \in Senders : WF_senderVars(SendStep(s))
  /\ \A w \in CeleryWorkers, l \in Logs :
       WF_senderVars(TakeTask(w, l)) /\ WF_senderVars(SkipTask(w, l))
  /\ WF_senderVars(DispatchByBeat)
  /\ \A s \in InlineSenders : WF_senderVars(DispatchInline(s))
  /\ \A l \in Logs : /\ WF_senderVars(BackoffElapses(l))
                     /\ WF_senderVars(Ripen(l))
                     /\ WF_senderVars(LockExpires(l))

FairSenderSpec == SenderSpec /\ SenderFairness

-----------------------------------------------------------------------------
\* Properties.

\* Celery workers alone exclude each other: while the key outlives a send, no
\* two of them work on the same log, and the key exists as long as one does.
WorkersExclude ==
  /\ \A v, w \in CeleryWorkers : cur[v] \in Logs /\ cur[v] = cur[w] => v = w
  /\ \A w \in CeleryWorkers : cur[w] \in Logs => lock[cur[w]]

\* Every copy of a message beyond the first is explained: its predecessor's
\* acceptance was lost, somebody retried by hand, or two sends overlapped.
DuplicatesExplained ==
  \A l \in Logs : accepted[l] <= 1 + lost[l] + retries[l] + overlaps[l]

\* A log is never shown as on its way unless the provider took it.
NoFalseDelivery ==
  \A l \in Logs :
    row[l].status \in {"submitted", "sent", "delivered", "read"} => accepted[l] > 0

\* A log that has left the queue comes back only by a retry from the API: a
\* late "retryable" answer never requeues what another process has settled.
RequeuedByHandOnly ==
  [][\A l \in Logs :
       row'[l].status = "queued" /\ row[l].status \notin {"absent", "queued"}
         => retries'[l] = retries[l] + 1]_senderVars

\* The provider is called for a log at most once, once more per backoff, once
\* more per retry by hand, and once more for each attempt that never reached the
\* row: it was lost with a crash, or overwritten by an overlapping send.
RetryBudget ==
  \A l \in Logs : calls[l] <= Backoffs + 1 + overlaps[l] + retries[l] + faults

\* Every queued log is settled, or grows older than the 24 h dispatch_due
\* looks back: crashes, lost tasks and orphaned keys only delay it.
QueuedIsSettled ==
  \A l \in Logs : row[l].status = "queued" ~> row[l].status # "queued" \/ age[l] = "stale"

=============================================================================
