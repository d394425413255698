----------------------------- MODULE WaPipeline -----------------------------
(***************************************************************************)
(* WaSender together with the two other writers of a message log: the      *)
(* batch poll (sender.poll_batches) and the delivery webhooks              *)
(* (webhooks.apply_events).                                                *)
(*                                                                         *)
(* Both load a row, hold the object while other processes run, and commit  *)
(* without looking at the row again.  The poll holds it for the HTTP       *)
(* requests of its whole list; a webhook handler for one event.            *)
(***************************************************************************)
EXTENDS WaSender

CONSTANT Handlers   \* threads serving webhook requests

VARIABLES
  \* the job poll_whatsapp_batches
  polled,     \* polled[l]: "no", "ask" (loaded) or what the provider said
  pollView,   \* pollView[l]: the row as the poll loaded it
  \* each webhook handler
  event,      \* event[h]: the <<log, status>> it applies, or NoEvent
  hookView,   \* the row as it loaded it
  \* history
  crossed     \* logs that two senders have worked on at once

NoEvent == <<NoLog, "none">>

pollVars  == <<polled, pollView>>
hookVars  == <<event, hookView>>
feedVars  == <<pollVars, hookVars>>
vars      == <<senderVars, feedVars, crossed>>

TypeOK ==
  /\ SenderTypeOK
  /\ polled \in [Logs -> {"no", "ask", "sent", "failed", "skip"}]
  /\ pollView \in [Logs -> Row]
  /\ event \in [Handlers -> (Logs \X WebhookStatus) \cup {NoEvent}]
  /\ hookView \in [Handlers -> Row]
  /\ crossed \in SUBSET Logs

Init ==
  /\ SenderInit
  /\ polled = [l \in Logs |-> "no"]
  /\ pollView = [l \in Logs |-> NoRow]
  /\ event = [h \in Handlers |-> NoEvent]
  /\ hookView = [h \in Handlers |-> NoRow]
  /\ crossed = {}

-----------------------------------------------------------------------------
\* poll_batches.

Polling == \E l \in Logs : polled[l] # "no"

\* Mutant: the poll's query does not filter on the status.
PollLoadUnfiltered ==
  /\ ~Polling
  /\ accountOk
  /\ \E S \in SUBSET {l \in Logs : row[l].status # "absent"} :
       /\ S # {}
       /\ polled' = [l \in Logs |-> IF l \in S THEN "ask" ELSE "no"]
       /\ pollView' = [l \in Logs |-> IF l \in S THEN row[l] ELSE NoRow]
  /\ UNCHANGED <<senderVars, hookVars>>

\* The submitted logs of an active account that have a batch id and were
\* submitted between 2 minutes and 3 days ago: any set of submitted logs.
PollLoad ==
  /\ ~Polling
  /\ accountOk
  /\ \E S \in SUBSET {l \in Logs : row[l].status = "submitted"} :
       /\ S # {}
       /\ polled' = [l \in Logs |-> IF l \in S THEN "ask" ELSE "no"]
       /\ pollView' = [l \in Logs |-> IF l \in S THEN row[l] ELSE NoRow]
  /\ UNCHANGED <<senderVars, hookVars>>

\* One batch status request; "skip" is an error, or a batch still under way.
PollAsk(l) ==
  /\ polled[l] = "ask"
  /\ \E a \in {"sent", "failed", "skip"} : polled' = [polled EXCEPT ![l] = a]
  /\ UNCHANGED <<senderVars, pollView, hookVars>>

\* The row object of log l after the poll has recorded its answer.
Polled(l) ==
  CASE polled[l] = "sent"   -> [pollView[l] EXCEPT !.status = "sent"]
    [] polled[l] = "failed" -> Fail(pollView[l])
    [] OTHER                -> pollView[l]

\* A commit writes all objects of the session.
PollFlush ==
  row' = [l \in Logs |-> IF polled[l] = "no" THEN row[l]
                         ELSE Flush(row[l], pollView[l], Polled(l))]

PollForget ==
  /\ polled' = [l \in Logs |-> "no"]
  /\ pollView' = [l \in Logs |-> NoRow]

\* 401: mark_auth_error commits the session and stops the account; the logs
\* not asked about yet are passed over.
PollAuthError(l) ==
  /\ polled[l] = "ask"
  /\ PollFlush
  /\ accountOk' = FALSE
  /\ PollForget
  /\ UNCHANGED <<age, sendable, redisVars, procVars, histVars, hookVars>>

PollCommit ==
  /\ Polling
  /\ \A l \in Logs : polled[l] # "ask"
  /\ PollFlush
  /\ PollForget
  /\ UNCHANGED <<age, sendable, accountOk, redisVars, procVars, histVars,
                 hookVars>>

\* The job fails or its process is killed: nothing is committed.
PollCrash ==
  /\ Polling
  /\ faults < MaxFaults
  /\ faults' = faults + 1
  /\ PollForget
  /\ UNCHANGED <<dbVars, redisVars, procVars, calls, accepted, lost, retries,
                 overlaps, hookVars>>

-----------------------------------------------------------------------------
\* webhooks.py.  The provider reports on a message it took, at any time after
\* that, in any order and more than once; correlation_id is stored before the
\* first send, so the event finds its log from the start.

HookLoad(h, l) ==
  /\ event[h] = NoEvent
  /\ accepted[l] > 0
  /\ \E st \in WebhookStatus : event' = [event EXCEPT ![h] = <<l, st>>]
  /\ hookView' = [hookView EXCEPT ![h] = row[l]]
  /\ UNCHANGED <<senderVars, pollVars>>

HookForget(h) ==
  /\ event' = [event EXCEPT ![h] = NoEvent]
  /\ hookView' = [hookView EXCEPT ![h] = NoRow]

HookCommit(h) ==
  /\ event[h] # NoEvent
  /\ row' = [row EXCEPT ![event[h][1]] =
               Flush(@, hookView[h], Advanced(hookView[h], event[h][2]))]
  /\ HookForget(h)
  /\ UNCHANGED <<age, sendable, accountOk, redisVars, procVars, histVars,
                 pollVars>>

\* process() keeps the error on the event row and never applies it again.
HookError(h) ==
  /\ event[h] # NoEvent
  /\ faults < MaxFaults
  /\ faults' = faults + 1
  /\ HookForget(h)
  /\ UNCHANGED <<dbVars, redisVars, procVars, calls, accepted, lost, retries,
                 overlaps, pollVars>>

-----------------------------------------------------------------------------

FeedNext ==
  \/ PollLoad \/ PollCommit \/ PollCrash
  \/ \E l \in Logs : PollAsk(l) \/ PollAuthError(l)
  \/ \E h \in Handlers, l \in Logs : HookLoad(h, l)
  \/ \E h \in Handlers : HookCommit(h) \/ HookError(h)

Crossing == {l \in Logs : \E s, t \in Senders : s # t /\ IsOpen(s, l) /\ IsOpen(t, l)}

Next ==
  /\ (SenderNext /\ UNCHANGED feedVars) \/ FeedNext
  /\ crossed' = crossed \cup Crossing'

Spec == Init /\ [][Next]_vars

-----------------------------------------------------------------------------
\* Properties.

\* sender.py, advance_status: "Apply a delivery status without ever moving
\* backwards": on the committed row, no step but a retry lowers the status.
NeverBackwards ==
  [][\A l \in Logs :
       {row[l].status, row'[l].status} \subseteq DOMAIN STATUS_ORDER
         => STATUS_ORDER[row'[l].status] >= STATUS_ORDER[row[l].status]]_vars

\* An acceptance that was not lost is on the row, which waits for no other send and does
\* not count as skipped, unless somebody queued it again by hand, a sender is about to
\* write it, or two senders have had the log loaded at once: nothing that the poll, late
\* events or crashes do takes it off again.
AcceptanceRecorded ==
  \A l \in Logs \ crossed :
    /\ accepted[l] > lost[l] + retries[l]
    /\ ~ \E s \in Senders : cur[s] = l /\ HoldsAcceptance(s)
    => row[l].status \notin {"absent", "queued", "skipped"}

\* A row moves backwards only through a process that loaded it before the
\* newer status was committed: every step that lowers the status ends the work
\* of a sender, a poll or a handler whose copy is older than the row.
BackwardsOnlyFromStaleCopy ==
  [][\A l \in Logs :
       /\ {row[l].status, row'[l].status} \subseteq DOMAIN STATUS_ORDER
       /\ STATUS_ORDER[row'[l].status] < STATUS_ORDER[row[l].status]
       => \/ \E s \in Senders : /\ cur[s] = l /\ pc[s] \in {"commit", "requeue"}
                                /\ view[s].status # row[l].status
          \/ polled[l] # "no" /\ pollView[l].status # row[l].status
          \/ \E h \in Handlers : /\ event[h][1] = l
                                 /\ hookView[h].status # row[l].status]_vars

=============================================================================
