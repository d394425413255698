------------------------------ MODULE MCQueues ------------------------------
(***************************************************************************)
(* The two send queues under the fairness of their workers.  `deployment`,  *)
(* chosen at the start, says what runs: WhatsApp logs sent by a Celery      *)
(* worker or by the asyncio fallback alone, or the mail outbox.             *)
(***************************************************************************)
EXTENDS Naturals

CONSTANTS w1, i1, r1

VARIABLES deployment,
  row, age, sendable, accountOk, tasks, lock, pc, cur, todo, view, answer,
  calls, accepted, lost, retries, overlaps, faults,
  mailRow, connected, passPc, passTodo, passView, smtp, op, target, copy,
  enqueues, undone, handed, taken, ambiguous, requests, passFaults

\* One Celery worker that may crash, lose tasks and leave keys behind.
Celery == INSTANCE WaSender WITH
  Logs <- {1}, CeleryWorkers <- {w1}, InlineSenders <- {}, LockOutlivesSend <- TRUE,
  Backoffs <- 1, DispatchLimit <- 1, MaxQueue <- 2, MaxRetries <- 0, MaxFaults <- 2, MaxCalls <- 4

\* The fallback alone: two logs that stay sendable, a dispatch window of one.
Fallback == INSTANCE WaSender WITH
  Logs <- {1, 2}, CeleryWorkers <- {}, InlineSenders <- {i1}, LockOutlivesSend <- TRUE,
  Backoffs <- 1, DispatchLimit <- 1, MaxQueue <- 1, MaxRetries <- 0, MaxFaults <- 0, MaxCalls <- 4

\* Two mails, a window of one, schedules in front.
Outbox == INSTANCE MailOutbox WITH
  Messages <- {1, 2}, Requests <- {r1}, Limit <- 1, MAX_RETRIES <- 2, MaxRequests <- 2, MaxFaults <- 0,
  row <- mailRow, pc <- passPc, todo <- passTodo, view <- passView, accepted <- taken, faults <- passFaults

waVars == <<row, age, sendable, accountOk, tasks, lock, pc, cur, todo, view, answer,
            calls, accepted, lost, retries, overlaps, faults>>
mailVars == <<mailRow, connected, passPc, passTodo, passView, smtp, op, target, copy,
              enqueues, undone, handed, taken, ambiguous, requests, passFaults>>
vars == <<deployment, waVars, mailVars>>

\* Where a queue is not deployed, its variables stay as they are.
Off == /\ row = <<>> /\ age = <<>> /\ sendable = <<>> /\ accountOk = TRUE /\ tasks = <<>> /\ lock = <<>>
       /\ pc = <<>> /\ cur = <<>> /\ todo = <<>> /\ view = <<>> /\ answer = <<>> /\ calls = <<>>
       /\ accepted = <<>> /\ lost = <<>> /\ retries = <<>> /\ overlaps = <<>> /\ faults = 0

Init == /\ Outbox!Init
        /\ \/ deployment = "celery" /\ Celery!SenderInit
           \/ deployment = "fallback" /\ Fallback!SenderInit /\ accountOk /\ \A l \in {1, 2} : sendable[l]
           \/ deployment = "outbox" /\ Off

OnWa(name, step) == deployment = name /\ step /\ UNCHANGED <<deployment, mailVars>>
OnMail(step)     == deployment = "outbox" /\ step /\ UNCHANGED <<deployment, waVars>>

Next == \/ OnWa("celery", Celery!SenderNext)
        \/ OnWa("fallback", Fallback!SenderNext /\ UNCHANGED sendable)
        \/ OnMail(Outbox!Next)

\* The fairness of WaSender and MailOutbox where each is deployed (the deployment never
\* changes, so conditions of different deployments share a conjunct).  What passes by
\* itself with time is one condition per row here: weaker, and enough.
Fairness ==
  /\ WF_vars(\/ OnWa("celery", Celery!SendStep(w1))
             \/ OnWa("fallback", Fallback!SendStep(i1))
             \/ OnMail(Outbox!WorkerStep))
  /\ WF_vars(\/ OnWa("celery", Celery!TakeTask(w1, 1) \/ Celery!SkipTask(w1, 1))
             \/ OnWa("fallback", Fallback!DispatchInline(i1))
             \/ OnMail(Outbox!RequestCommit(r1)))
  /\ WF_vars(OnWa("celery", Celery!DispatchByBeat))
  /\ WF_vars(OnWa("celery", Celery!LockExpires(1)))
  /\ WF_vars(\/ OnWa("celery", Celery!BackoffElapses(1) \/ Celery!Ripen(1))
             \/ OnWa("fallback", Fallback!BackoffElapses(1) \/ Fallback!Ripen(1))
             \/ OnMail(Outbox!UndoElapses(1) \/ Outbox!ScheduleReached(1)))
  /\ WF_vars(\/ OnWa("fallback", Fallback!BackoffElapses(2) \/ Fallback!Ripen(2))
             \/ OnMail(Outbox!UndoElapses(2) \/ Outbox!ScheduleReached(2)))

Spec == Init /\ [][Next]_vars /\ Fairness
-----------------------------------------------------------------------------
Waiting(l) == l \in DOMAIN row /\ row[l].status = "queued" /\ age[l] # "stale"

\* Every queued log is settled, or grows older than the 24 h dispatch_due looks back:
\* crashes, lost tasks and orphaned keys, and a window of one log, only delay it.
QueuedIsSettled == \A l \in {1, 2} : Waiting(l) ~> ~Waiting(l)

\* Whatever mail is queued leaves the queue, although passes look at the oldest
\* messages only and those may be scheduled for later.
QueuedIsTaken == Outbox!QueuedIsTaken
=============================================================================
