-------------------------- MODULE WaPipelineProofs --------------------------
(***************************************************************************)
(* Theorems about WaPipeline for every number of logs, workers, inline     *)
(* senders and webhook handlers and every value of the bounds.             *)
(***************************************************************************)
EXTENDS WaPipeline, FiniteSetTheorems, TLAPS

-----------------------------------------------------------------------------
\* The operations on one row object keep it a row.

LEMMA NoRowType == NoRow \in Row
  BY DEF NoRow, Row, Status, NextAttempt

LEMMA FailType == ASSUME NEW r \in Row PROVE Fail(r) \in Row
  BY DEF Fail, Row, Status, NextAttempt

LEMMA RequeuedType == ASSUME NEW r \in Row PROVE Requeued(r) \in Row
  BY DEF Requeued, Row, Status, NextAttempt, STATUS_ORDER

LEMMA RecordedType ==
  ASSUME NEW r \in Row, NEW a PROVE Recorded(r, a) \in Row
<1> DEFINE tried == [r EXCEPT !.attempts = @ + 1]
<1>1. tried \in Row
  BY DEF Row
<1>2. /\ [r EXCEPT !.status = "skipped"] \in Row
      /\ [tried EXCEPT !.status = "submitted", !.next = "none"] \in Row
      /\ [tried EXCEPT !.status = "skipped"] \in Row
      /\ [tried EXCEPT !.status = "queued", !.next = "waiting"] \in Row
      /\ Fail(tried) \in Row
  <2> HIDE DEF tried
  <2> QED BY <1>1, FailType DEF Row, Status, NextAttempt, STATUS_ORDER
<1> HIDE DEF tried
<1>3. Recorded(r, a) = CASE a = "unsendable" -> [r EXCEPT !.status = "skipped"]
        [] a = "accepted"   -> [tried EXCEPT !.status = "submitted", !.next = "none"]
        [] a = "duplicate"  -> [tried EXCEPT !.status = "skipped"]
        [] a = "retryable" /\ tried.attempts <= Backoffs
                            -> [tried EXCEPT !.status = "queued", !.next = "waiting"]
        [] OTHER            -> Fail(tried)
  BY Zenon DEF Recorded, tried
<1> QED BY <1>2, <1>3

LEMMA AdvancedType ==
  ASSUME NEW r \in Row, NEW st \in WebhookStatus PROVE Advanced(r, st) \in Row
  BY DEF Advanced, Fail, Row, Status, NextAttempt, STATUS_ORDER, WebhookStatus

LEMMA FlushType ==
  ASSUME NEW c \in Row, NEW l \in Row, NEW o \in Row PROVE Flush(c, l, o) \in Row
  BY DEF Flush, Changed, Row

LEMMA FlushAnswerType ==
  ASSUME NEW c \in Row, NEW l \in Row, NEW a
  PROVE  FlushAnswer(c, l, a) \in Row
  BY RecordedType, FlushType DEF FlushAnswer, Row, NextAttempt
-----------------------------------------------------------------------------
\* Type correctness.  Every operation that ends a send does it through Done.

ProcTypeOK ==
  /\ pc \in [Senders -> PCs]
  /\ cur \in [Senders -> Logs \cup {NoLog}]
  /\ todo \in [Senders -> SUBSET Logs]
  /\ \A s \in Senders : pc[s] # "idle" => cur[s] \in Logs

LEMMA WalkType ==
  ASSUME ProcTypeOK, NEW s \in Senders, NEW S \in SUBSET Logs, Walk(s, S)
  PROVE  ProcTypeOK'
  BY DEF ProcTypeOK, Walk, PCs

LEMMA RestType ==
  ASSUME ProcTypeOK, NEW s \in Senders, Rest(s)
  PROVE  ProcTypeOK'
  BY DEF ProcTypeOK, Rest, PCs

LEMMA ForgetType ==
  ASSUME SenderTypeOK, NEW s \in Senders, Forget(s)
  PROVE  /\ view' \in [Senders -> Row]
         /\ answer' \in [Senders -> Answer \cup {NoAnswer}]
  BY NoRowType DEF SenderTypeOK, Forget

LEMMA DoneType ==
  ASSUME SenderTypeOK, NEW s \in Senders, Done(s)
  PROVE  /\ ProcTypeOK'
         /\ view' \in [Senders -> Row]
         /\ answer' \in [Senders -> Answer \cup {NoAnswer}]
         /\ lock' \in [Logs -> BOOLEAN]
<1>1. ProcTypeOK /\ todo[s] \in SUBSET Logs
  BY DEF SenderTypeOK, ProcTypeOK
<1>2. ProcTypeOK'
  BY <1>1, WalkType, RestType DEF Done
<1>3. lock' \in [Logs -> BOOLEAN]
  <2>1. \A l \in Logs : (lock[l] /\ s \notin CeleryWorkers) \in BOOLEAN
    OBVIOUS
  <2> QED BY <2>1, Zenon DEF Done, SenderTypeOK
<1> QED BY <1>2, <1>3, ForgetType DEF Done

LEMMA InsertType ==
  ASSUME SenderTypeOK, NEW l \in Logs, Insert(l) PROVE row' \in [Logs -> Row]
<1> DEFINE verdict == IF accountOk /\ sendable[l] THEN "queued" ELSE "skipped"
<1>1. verdict \in Status
  BY DEF Status, STATUS_ORDER
<1>2. row' = [row EXCEPT ![l].status = verdict]
  BY Zenon DEF Insert
<1> HIDE DEF verdict
<1> QED BY <1>1, <1>2 DEF SenderTypeOK, Row

LEMMA SenderTypeInit == SenderInit => SenderTypeOK
  BY NoRowType, BoundsAssumption DEF SenderInit, SenderTypeOK, Ages, PCs, Senders

LEMMA SenderTypeStep ==
  ASSUME SenderTypeOK, SenderNext PROVE SenderTypeOK'
<1> USE DEF SenderTypeOK, dbVars, redisVars, procVars, histVars
<1>1. ProcTypeOK
  BY DEF ProcTypeOK
<1>2. ASSUME NEW l \in Logs, CreateByJob(l) PROVE SenderTypeOK'
  <2>1. row' \in [Logs -> Row]
    BY <1>2, InsertType DEF CreateByJob
  <2>2. tasks' \in [Logs -> Nat]
    BY <1>2 DEF CreateByJob
  <2> QED BY <1>2, <2>1, <2>2 DEF CreateByJob
<1>3. ASSUME NEW l \in Logs, LoseTask(l) PROVE SenderTypeOK'
  BY <1>3 DEF LoseTask
<1>4. ASSUME NEW l \in Logs, BackoffElapses(l) PROVE SenderTypeOK'
  BY <1>4 DEF BackoffElapses, Row, NextAttempt
<1>5. ASSUME NEW l \in Logs, Ripen(l) PROVE SenderTypeOK'
  BY <1>5 DEF Ripen, Ages
<1>6. ASSUME NEW l \in Logs, GrowStale(l) PROVE SenderTypeOK'
  BY <1>6 DEF GrowStale, Ages
<1>7. ASSUME NEW l \in Logs, LockExpires(l) PROVE SenderTypeOK'
  BY <1>7 DEF LockExpires
<1>8. ASSUME NEW l \in Logs, SendabilityChanges(l) PROVE SenderTypeOK'
  BY <1>8 DEF SendabilityChanges
<1>9. ASSUME NEW s \in InlineSenders, NEW l \in Logs, CreateInline(s, l)
      PROVE SenderTypeOK'
  <2>1. s \in Senders
    BY DEF Senders
  <2>2. row' \in [Logs -> Row]
    BY <1>9, InsertType DEF CreateInline
  <2>3. ProcTypeOK'
    BY <1>1, <1>9, <2>1, WalkType DEF CreateInline, ProcTypeOK
  <2> QED BY <1>9, <2>2, <2>3 DEF CreateInline, ProcTypeOK
<1>10. ASSUME NEW s \in InlineSenders, NEW l \in Logs, RetryLoad(s, l)
       PROVE SenderTypeOK'
  BY <1>10 DEF RetryLoad, PCs, Senders
<1>11. ASSUME NEW s \in InlineSenders, DispatchInline(s) PROVE SenderTypeOK'
  <2>1. s \in Senders /\ Due \in SUBSET Logs
    BY DEF Senders, Due, Window, Queued
  <2>2. ProcTypeOK'
    BY <1>1, <1>11, <2>1, WalkType DEF DispatchInline
  <2> QED BY <1>11, <2>2 DEF DispatchInline, ProcTypeOK
<1>12. ASSUME NEW w \in CeleryWorkers, NEW l \in Logs, TakeTask(w, l)
       PROVE SenderTypeOK'
  <2>1. w \in Senders
    BY DEF Senders
  <2>2. ProcTypeOK'
    BY <1>1, <1>12, <2>1, WalkType DEF TakeTask
  <2>3. tasks' \in [Logs -> Nat]
    BY <1>12 DEF TakeTask
  <2>4. lock' \in [Logs -> BOOLEAN]
    BY <1>12 DEF TakeTask
  <2> QED BY <1>12, <2>2, <2>3, <2>4 DEF TakeTask, ProcTypeOK
<1>13. ASSUME NEW w \in CeleryWorkers, NEW l \in Logs, SkipTask(w, l)
       PROVE SenderTypeOK'
  BY <1>13 DEF SkipTask
<1>14. ASSUME NEW s \in Senders, SendStep(s) PROVE SenderTypeOK'
  <2>1. CASE LoadNotQueued(s)
    BY <2>1, DoneType DEF LoadNotQueued, ProcTypeOK
  <2>2. CASE LoadUnsendable(s)
    BY <2>2 DEF LoadUnsendable, PCs, Answer
  <2>3. CASE LoadSendable(s)
    BY <2>3 DEF LoadSendable, PCs
  <2>4. CASE CannotDecrypt(s)
    BY <2>4 DEF CannotDecrypt, PCs, Answer
  <2>5. CASE CallProvider(s)
    <3>1. cur[s] \in Logs
      BY <2>5 DEF CallProvider
    <3>2. /\ calls' \in [Logs -> Nat]
          /\ accepted' \in [Logs -> Nat]
          /\ lost' \in [Logs -> Nat]
      BY <2>5, <3>1 DEF CallProvider
    <3>3. answer' \in [Senders -> Answer \cup {NoAnswer}]
      BY <2>5 DEF CallProvider, Answer
    <3>4. pc' \in [Senders -> PCs] /\ \A t \in Senders : pc'[t] # "idle" => cur'[t] \in Logs
      BY <2>5, <3>1 DEF CallProvider, PCs
    <3> QED BY <2>5, <3>2, <3>3, <3>4 DEF CallProvider
  <2>6. CASE CommitAnswer(s)
    <3>1. cur[s] \in Logs
      BY <2>6 DEF CommitAnswer
    <3>2. FlushAnswer(row[cur[s]], view[s], answer[s]) \in Row
      BY <3>1, FlushAnswerType
    <3>3. row' \in [Logs -> Row]
      BY <2>6, <3>2 DEF CommitAnswer
    <3>4. accountOk' \in BOOLEAN
      BY <2>6 DEF CommitAnswer
    <3> QED BY <2>6, <3>3, <3>4, DoneType DEF CommitAnswer, ProcTypeOK
  <2>7. CASE RetryCommit(s)
    <3>1. cur[s] \in Logs
      BY <2>7 DEF RetryCommit
    <3>2. Flush(row[cur[s]], view[s], Requeued(view[s])) \in Row
      BY <3>1, RequeuedType, FlushType
    <3>3. row' \in [Logs -> Row]
      BY <2>7, <3>2 DEF RetryCommit
    <3>4. pc' \in [Senders -> PCs] /\ \A t \in Senders : pc'[t] # "idle" => cur'[t] \in Logs
      BY <2>7, <3>1 DEF RetryCommit, PCs
    <3>5. retries' \in [Logs -> Nat]
      BY <2>7, <3>1 DEF RetryCommit
    <3> QED BY <2>7, <3>3, <3>4, <3>5, ForgetType DEF RetryCommit
  <2> QED BY <1>14, <2>1, <2>2, <2>3, <2>4, <2>5, <2>6, <2>7 DEF SendStep
<1>15. ASSUME NEW s \in Senders, SendError(s) PROVE SenderTypeOK'
  BY <1>15, DoneType DEF SendError, LoseAnswer, ProcTypeOK
<1>16. ASSUME NEW s \in Senders, Crash(s) PROVE SenderTypeOK'
  BY <1>1, <1>16, RestType, ForgetType DEF Crash, LoseAnswer, ProcTypeOK
<1>17. ASSUME DispatchByBeat PROVE SenderTypeOK'
  BY <1>17 DEF DispatchByBeat
<1>18. ASSUME AccountChanges PROVE SenderTypeOK'
  BY <1>18 DEF AccountChanges
<1> QED
  BY <1>2, <1>3, <1>4, <1>5, <1>6, <1>7, <1>8, <1>9, <1>10, <1>11, <1>12, <1>13,
     <1>14, <1>15, <1>16, <1>17, <1>18 DEF SenderNext

LEMMA PollFlushType ==
  ASSUME TypeOK, PollFlush PROVE row' \in [Logs -> Row]
<1>1. ASSUME NEW l \in Logs PROVE Polled(l) \in Row
  <2>1. pollView[l] \in Row
    BY DEF TypeOK
  <2>2. [pollView[l] EXCEPT !.status = "sent"] \in Row
    BY <2>1 DEF Row, Status, STATUS_ORDER
  <2> QED BY <2>1, <2>2, FailType DEF Polled
<1>2. \A l \in Logs : Flush(row[l], pollView[l], Polled(l)) \in Row
  BY <1>1, FlushType DEF TypeOK, SenderTypeOK
<1> QED BY <1>2 DEF PollFlush, TypeOK, SenderTypeOK

LEMMA FeedTypeStep ==
  ASSUME TypeOK, FeedNext, crossed' \in SUBSET Logs PROVE TypeOK'
<1> USE DEF TypeOK, senderVars, pollVars, hookVars, dbVars, redisVars, procVars, histVars
<1>1. ASSUME UNCHANGED <<age, sendable, redisVars, procVars>>,
             row' \in [Logs -> Row], accountOk' \in BOOLEAN,
             UNCHANGED <<calls, accepted, lost, retries, overlaps>>, faults' \in Nat
      PROVE  SenderTypeOK'
  BY <1>1 DEF SenderTypeOK
<1>2. PollForget => /\ polled' \in [Logs -> {"no", "ask", "sent", "failed", "skip"}]
                    /\ pollView' \in [Logs -> Row]
  BY NoRowType DEF PollForget
<1>3. ASSUME NEW h \in Handlers, HookForget(h)
      PROVE  /\ event' \in [Handlers -> (Logs \X WebhookStatus) \cup {NoEvent}]
             /\ hookView' \in [Handlers -> Row]
  BY <1>3, NoRowType DEF HookForget
<1>4. CASE PollLoad
  <2>1. PICK S \in SUBSET {l \in Logs : row[l].status = "submitted"} :
          /\ polled' = [l \in Logs |-> IF l \in S THEN "ask" ELSE "no"]
          /\ pollView' = [l \in Logs |-> IF l \in S THEN row[l] ELSE NoRow]
    BY <1>4 DEF PollLoad
  <2>2. pollView' \in [Logs -> Row]
    BY <2>1, NoRowType DEF SenderTypeOK
  <2>3. polled' \in [Logs -> {"no", "ask", "sent", "failed", "skip"}]
    BY <2>1
  <2> QED BY <1>4, <2>2, <2>3 DEF PollLoad, SenderTypeOK
<1>5. ASSUME NEW l \in Logs, PollAsk(l) PROVE TypeOK'
  BY <1>5 DEF PollAsk, SenderTypeOK
<1>6. ASSUME NEW l \in Logs, PollAuthError(l) PROVE TypeOK'
  BY <1>1, <1>2, <1>6, PollFlushType DEF PollAuthError, SenderTypeOK
<1>7. CASE PollCommit
  BY <1>1, <1>2, <1>7, PollFlushType DEF PollCommit, SenderTypeOK
<1>8. CASE PollCrash
  BY <1>1, <1>2, <1>8 DEF PollCrash, SenderTypeOK
<1>9. ASSUME NEW h \in Handlers, NEW l \in Logs, HookLoad(h, l) PROVE TypeOK'
  <2>1. event' \in [Handlers -> (Logs \X WebhookStatus) \cup {NoEvent}]
    BY <1>9 DEF HookLoad
  <2>2. hookView' \in [Handlers -> Row]
    BY <1>9 DEF HookLoad, SenderTypeOK
  <2> QED BY <1>9, <2>1, <2>2 DEF HookLoad, SenderTypeOK
<1>10. ASSUME NEW h \in Handlers, HookCommit(h) PROVE TypeOK'
  <2>1. event[h][1] \in Logs /\ event[h][2] \in WebhookStatus
    BY <1>10 DEF HookCommit
  <2>2. Flush(row[event[h][1]], hookView[h], Advanced(hookView[h], event[h][2])) \in Row
    BY <2>1, AdvancedType, FlushType DEF SenderTypeOK
  <2>3. row' \in [Logs -> Row]
    BY <1>10, <2>2 DEF HookCommit, SenderTypeOK
  <2> QED BY <1>1, <1>3, <1>10, <2>3 DEF HookCommit, SenderTypeOK
<1>11. ASSUME NEW h \in Handlers, HookError(h) PROVE TypeOK'
  BY <1>1, <1>3, <1>11 DEF HookError, SenderTypeOK
<1> QED BY <1>4, <1>5, <1>6, <1>7, <1>8, <1>9, <1>10, <1>11 DEF FeedNext

LEMMA TypeStep ==
  ASSUME TypeOK, [Next]_vars PROVE TypeOK'
<1>1. crossed' \in SUBSET Logs
  <2>1. Crossing' \subseteq Logs
    BY DEF Crossing
  <2> QED BY <2>1 DEF Next, vars, TypeOK
<1>2. CASE SenderNext /\ UNCHANGED feedVars
  BY <1>2, <1>1, SenderTypeStep DEF TypeOK, feedVars, pollVars, hookVars
<1>3. CASE FeedNext
  BY <1>3, <1>1, FeedTypeStep
<1>4. CASE UNCHANGED vars
  BY <1>4 DEF TypeOK, SenderTypeOK, vars, senderVars, feedVars, pollVars, hookVars,
              dbVars, redisVars, procVars, histVars
<1> QED BY <1>2, <1>3, <1>4 DEF Next

\* Every reachable state of the pipeline has the types of TypeOK: a row keeps a
\* status of the lifecycle and a process that works has a log to work on.
THEOREM TypeCorrect == Spec => []TypeOK
<1>1. Init => TypeOK
  BY SenderTypeInit, NoRowType DEF Init, TypeOK
<1>2. TypeOK /\ [Next]_vars => TypeOK'
  BY TypeStep
<1> QED BY <1>1, <1>2, PTL DEF Spec

-----------------------------------------------------------------------------
\* What a commit can make of the status column, whatever the row has become.

LEMMA FlushStatus ==
  ASSUME NEW c, NEW l, NEW o
  PROVE  /\ Flush(c, l, o).status \in {c.status, o.status}
         /\ o.status = l.status => Flush(c, l, o).status = c.status
         /\ o.status # l.status => Flush(c, l, o).status = o.status
  BY DEF Flush, Changed

LEMMA FlushAnswerStatus ==
  ASSUME NEW c \in Row, NEW v \in Row, NEW a, v.status = "queued"
  PROVE  FlushAnswer(c, v, a).status =
           IF Recorded(v, a).status = "queued" THEN c.status ELSE Recorded(v, a).status
<1>1. Flush(c, v, Recorded(v, a)) \in Row
  BY RecordedType, FlushType
<1>2. FlushAnswer(c, v, a).status = Flush(c, v, Recorded(v, a)).status
  BY <1>1 DEF FlushAnswer, Row
<1> QED BY <1>2, FlushStatus

LEMMA RecordedStatus ==
  ASSUME NEW v \in Row, NEW a, v.status = "queued"
  PROVE  /\ Recorded(v, a).status \in {"queued", "submitted", "skipped", "failed"}
         /\ Recorded(v, a).status = "submitted" <=> a = "accepted"
<1> DEFINE tried == [v EXCEPT !.attempts = @ + 1]
<1>1. tried \in Row
  BY DEF Row
<1>2. /\ [v EXCEPT !.status = "skipped"].status = "skipped"
      /\ [tried EXCEPT !.status = "submitted", !.next = "none"].status = "submitted"
      /\ [tried EXCEPT !.status = "skipped"].status = "skipped"
      /\ [tried EXCEPT !.status = "queued", !.next = "waiting"].status = "queued"
      /\ Fail(tried).status = "failed"
  <2> HIDE DEF tried
  <2> QED BY <1>1 DEF Row, Fail
<1> HIDE DEF tried
<1>3. Recorded(v, a) = CASE a = "unsendable" -> [v EXCEPT !.status = "skipped"]
        [] a = "accepted"   -> [tried EXCEPT !.status = "submitted", !.next = "none"]
        [] a = "duplicate"  -> [tried EXCEPT !.status = "skipped"]
        [] a = "retryable" /\ tried.attempts <= Backoffs
                            -> [tried EXCEPT !.status = "queued", !.next = "waiting"]
        [] OTHER            -> Fail(tried)
  BY Zenon DEF Recorded, tried
<1>4. CASE a = "unsendable"
  BY <1>2, <1>3, <1>4
<1>5. CASE a = "accepted"
  BY <1>2, <1>3, <1>5
<1>6. CASE a = "duplicate"
  BY <1>2, <1>3, <1>6
<1>7. CASE a = "retryable" /\ tried.attempts <= Backoffs
  BY <1>2, <1>3, <1>7
<1>8. CASE a \notin {"unsendable", "accepted", "duplicate"}
           /\ ~(a = "retryable" /\ tried.attempts <= Backoffs)
  BY <1>2, <1>3, <1>8
<1> QED BY <1>4, <1>5, <1>6, <1>7, <1>8

\* A webhook or a poll that changes the status column writes what it was told.
LEMMA AdvancedStatus ==
  ASSUME NEW c \in Row, NEW v \in Row, NEW st \in WebhookStatus
  PROVE  Flush(c, v, Advanced(v, st)).status \in {c.status, st}
<1>1. Advanced(v, st) = v \/ Advanced(v, st).status = st
  BY DEF Advanced, Fail, Row, WebhookStatus
<1> QED BY <1>1, FlushStatus

LEMMA PolledStatus ==
  ASSUME TypeOK, PollFlush, NEW l \in Logs
  PROVE  \/ row'[l].status = row[l].status
         \/ polled[l] # "no" /\ row'[l].status \in {"sent", "failed"}
<1>1. pollView[l] \in Row
  BY DEF TypeOK
<1>2. CASE polled[l] = "no"
  BY <1>2 DEF PollFlush
<1>3. CASE polled[l] # "no"
  <2>1. row'[l] = Flush(row[l], pollView[l], Polled(l))
    BY <1>3 DEF PollFlush
  <2>2. Polled(l) = pollView[l] \/ Polled(l).status \in {"sent", "failed"}
    BY <1>1 DEF Polled, Fail, Row
  <2> QED BY <1>3, <2>1, <2>2, FlushStatus
<1> QED BY <1>2, <1>3

-----------------------------------------------------------------------------
\* What a step of sender s does to the processes: the others keep their state.

SameProc(t) == /\ pc'[t] = pc[t] /\ cur'[t] = cur[t] /\ todo'[t] = todo[t]
               /\ view'[t] = view[t] /\ answer'[t] = answer[t]

OthersSame(s) == \A t \in Senders \ {s} : SameProc(t)

LEMMA DoneProc ==
  ASSUME SenderTypeOK, NEW s \in Senders, Done(s)
  PROVE  pc'[s] \in {"idle", "load"} /\ OthersSame(s)
  BY DEF SenderTypeOK, Done, Walk, Rest, Forget, OthersSame, SameProc

LEMMA CrashProc ==
  ASSUME SenderTypeOK, NEW s \in Senders, Crash(s)
  PROVE  pc'[s] = "idle" /\ cur'[s] = NoLog /\ todo'[s] = {} /\ OthersSame(s)
  BY DEF SenderTypeOK, Crash, Rest, Forget, OthersSame, SameProc

LEMMA WalkProc ==
  ASSUME SenderTypeOK, NEW s \in Senders, NEW S, Walk(s, S), UNCHANGED <<view, answer>>
  PROVE  pc'[s] = "load" /\ cur'[s] \in S /\ OthersSame(s)
  BY DEF SenderTypeOK, Walk, OthersSame, SameProc

\* A sender between load and commit loaded a queued row.
OpenViewsQueued ==
  \A s \in Senders : pc[s] \in {"call", "commit"} => view[s].status = "queued"

LEMMA OpenViewsStep ==
  ASSUME TypeOK, OpenViewsQueued, [Next]_vars PROVE OpenViewsQueued'
<1> USE DEF OpenViewsQueued
<1>1. SenderTypeOK
  BY DEF TypeOK
<1>2. ASSUME UNCHANGED procVars PROVE OpenViewsQueued'
  BY <1>2 DEF procVars
<1>3. ASSUME NEW s \in Senders, OthersSame(s), pc'[s] \notin {"call", "commit"}
      PROVE  OpenViewsQueued'
  BY <1>3 DEF OthersSame, SameProc
<1>4. CASE SenderNext
  <2>1. ASSUME NEW l \in Logs,
               \/ CreateByJob(l) \/ LoseTask(l) \/ BackoffElapses(l) \/ Ripen(l)
               \/ GrowStale(l) \/ LockExpires(l) \/ SendabilityChanges(l)
        PROVE  OpenViewsQueued'
    BY <1>2, <2>1 DEF CreateByJob, LoseTask, BackoffElapses, Ripen, GrowStale,
                      LockExpires, SendabilityChanges
  <2>2. ASSUME NEW s \in InlineSenders, NEW l \in Logs, CreateInline(s, l)
        PROVE  OpenViewsQueued'
    BY <1>1, <1>2, <1>3, <2>2, WalkProc DEF CreateInline, Senders, procVars
  <2>3. ASSUME NEW s \in InlineSenders, NEW l \in Logs, RetryLoad(s, l)
        PROVE  OpenViewsQueued'
    BY <1>1, <2>3 DEF RetryLoad, Senders, SenderTypeOK
  <2>4. ASSUME NEW s \in InlineSenders, DispatchInline(s) PROVE OpenViewsQueued'
    BY <1>1, <1>3, <2>4, WalkProc DEF DispatchInline, Senders
  <2>5. ASSUME NEW w \in CeleryWorkers, NEW l \in Logs, TakeTask(w, l)
        PROVE  OpenViewsQueued'
    BY <1>1, <1>3, <2>5, WalkProc DEF TakeTask, Senders
  <2>6. ASSUME NEW w \in CeleryWorkers, NEW l \in Logs, SkipTask(w, l)
        PROVE  OpenViewsQueued'
    BY <1>2, <2>6 DEF SkipTask
  <2>7. ASSUME NEW s \in Senders, SendStep(s) PROVE OpenViewsQueued'
    <3>1. CASE LoadNotQueued(s) \/ CommitAnswer(s)
      BY <1>1, <1>3, <3>1, DoneProc DEF LoadNotQueued, CommitAnswer
    <3>2. CASE LoadUnsendable(s) \/ LoadSendable(s)
      BY <1>1, <3>2 DEF LoadUnsendable, LoadSendable, SenderTypeOK
    <3>3. CASE CannotDecrypt(s) \/ CallProvider(s)
      BY <1>1, <3>3 DEF CannotDecrypt, CallProvider, SenderTypeOK
    <3>4. CASE RetryCommit(s)
      BY <1>1, <3>4 DEF RetryCommit, Forget, SenderTypeOK
    <3> QED BY <2>7, <3>1, <3>2, <3>3, <3>4 DEF SendStep
  <2>8. ASSUME NEW s \in Senders, SendError(s) PROVE OpenViewsQueued'
    BY <1>1, <1>3, <2>8, DoneProc DEF SendError
  <2>9. ASSUME NEW s \in Senders, Crash(s) PROVE OpenViewsQueued'
    BY <1>1, <1>3, <2>9, CrashProc
  <2>10. CASE DispatchByBeat \/ AccountChanges
    BY <1>2, <2>10 DEF DispatchByBeat, AccountChanges
  <2> QED BY <1>4, <2>1, <2>2, <2>3, <2>4, <2>5, <2>6, <2>7, <2>8, <2>9, <2>10
          DEF SenderNext
<1>5. CASE FeedNext
  BY <1>2, <1>5 DEF FeedNext, PollLoad, PollCommit, PollCrash, PollAsk, PollAuthError,
                    HookLoad, HookCommit, HookError, senderVars
<1>6. CASE UNCHANGED vars
  BY <1>2, <1>6 DEF vars, senderVars
<1> QED BY <1>4, <1>5, <1>6 DEF Next

\* Every way a step changes the status of a log.
StatusChange(l) ==
  \/ row'[l].status = row[l].status
  \/ row[l].status = "absent" /\ row'[l].status \in {"queued", "skipped"}
  \/ \E s \in Senders : /\ CommitAnswer(s) /\ cur[s] = l
                        /\ row'[l].status \in {"submitted", "skipped", "failed"}
                        /\ row'[l].status = "submitted" <=> answer[s] = "accepted"
  \/ \E s \in Senders : /\ RetryCommit(s) /\ cur[s] = l
                        /\ row'[l].status = "queued"
  \/ polled[l] # "no" /\ row'[l].status \in {"sent", "failed"}
  \/ \E h \in Handlers : /\ HookCommit(h) /\ event[h] # NoEvent /\ event[h][1] = l
                         /\ row'[l].status = event[h][2]

LEMMA StatusStep ==
  ASSUME TypeOK, OpenViewsQueued, Next, NEW l \in Logs PROVE StatusChange(l)
<1>1. SenderTypeOK /\ row[l] \in Row
  BY DEF TypeOK, SenderTypeOK
<1>2. ASSUME UNCHANGED row PROVE StatusChange(l)
  BY <1>2 DEF StatusChange
<1>3. CASE SenderNext
  <2>1. ASSUME NEW k \in Logs, Insert(k) PROVE StatusChange(l)
    BY <1>1, <2>1 DEF Insert, StatusChange, SenderTypeOK, Row
  <2>2. ASSUME NEW k \in Logs, BackoffElapses(k) PROVE StatusChange(l)
    BY <1>1, <2>2 DEF BackoffElapses, StatusChange, SenderTypeOK, Row
  <2>3. ASSUME NEW s \in Senders, CommitAnswer(s) PROVE StatusChange(l)
    <3>1. /\ cur[s] \in Logs /\ row[cur[s]] \in Row
          /\ view[s] \in Row /\ view[s].status = "queued"
      BY <1>1, <2>3 DEF CommitAnswer, SenderTypeOK, OpenViewsQueued
    <3>2. row' = [row EXCEPT ![cur[s]] = FlushAnswer(row[cur[s]], view[s], answer[s])]
      BY <2>3 DEF CommitAnswer
    <3>3. CASE cur[s] # l
      BY <1>1, <3>2, <3>3 DEF StatusChange, SenderTypeOK
    <3>4. CASE cur[s] = l
      <4>1. row'[l].status = FlushAnswer(row[l], view[s], answer[s]).status
        BY <1>1, <3>2, <3>4 DEF SenderTypeOK
      <4>2. row'[l].status = IF Recorded(view[s], answer[s]).status = "queued"
                             THEN row[l].status ELSE Recorded(view[s], answer[s]).status
        BY <3>1, <3>4, <4>1, FlushAnswerStatus
      <4>3. /\ Recorded(view[s], answer[s]).status
                 \in {"queued", "submitted", "skipped", "failed"}
            /\ Recorded(view[s], answer[s]).status = "submitted" <=> answer[s] = "accepted"
        BY <3>1, RecordedStatus
      <4> QED BY <2>3, <3>4, <4>2, <4>3 DEF StatusChange
    <3> QED BY <3>3, <3>4
  <2>4. ASSUME NEW s \in Senders, RetryCommit(s) PROVE StatusChange(l)
    <3>1. /\ cur[s] \in Logs /\ view[s] \in Row
          /\ row' = [row EXCEPT ![cur[s]] =
                       Flush(row[cur[s]], view[s], Requeued(view[s]))]
      BY <1>1, <2>4 DEF RetryCommit, SenderTypeOK
    <3>2. CASE cur[s] # l
      BY <1>1, <3>1, <3>2 DEF StatusChange, SenderTypeOK
    <3>3. CASE cur[s] = l
      <4>1. row'[l].status = Flush(row[l], view[s], Requeued(view[s])).status
        BY <1>1, <3>1, <3>3 DEF SenderTypeOK
      <4>2. Requeued(view[s]).status = "queued"
        BY <3>1 DEF Requeued, Row
      <4>3. row'[l].status \in {row[l].status, "queued"}
        BY <4>1, <4>2, FlushStatus
      <4> QED BY <2>4, <3>3, <4>3 DEF StatusChange
    <3> QED BY <3>2, <3>3
  <2>5. \/ UNCHANGED row
        \/ \E k \in Logs : Insert(k) \/ BackoffElapses(k)
        \/ \E s \in Senders : CommitAnswer(s) \/ RetryCommit(s)
    BY <1>3 DEF SenderNext, SendStep, CreateByJob, LoseTask, Ripen, GrowStale, LockExpires,
       SendabilityChanges, CreateInline, RetryLoad, DispatchInline, TakeTask, SkipTask,
       LoadNotQueued, LoadUnsendable, LoadSendable, CannotDecrypt, CallProvider,
       SendError, Crash, LoseAnswer, DispatchByBeat, AccountChanges, dbVars
  <2> QED BY <1>2, <2>1, <2>2, <2>3, <2>4, <2>5
<1>4. CASE FeedNext
  <2>1. ASSUME PollFlush PROVE StatusChange(l)
    BY <2>1, PolledStatus DEF StatusChange
  <2>2. ASSUME NEW h \in Handlers, HookCommit(h) PROVE StatusChange(l)
    <3>1. /\ event[h] # NoEvent /\ event[h][1] \in Logs /\ event[h][2] \in WebhookStatus
          /\ hookView[h] \in Row
          /\ row' = [row EXCEPT ![event[h][1]] =
                 Flush(row[event[h][1]], hookView[h], Advanced(hookView[h], event[h][2]))]
      BY <2>2 DEF HookCommit, TypeOK
    <3>2. CASE event[h][1] # l
      BY <1>1, <3>1, <3>2 DEF StatusChange, SenderTypeOK
    <3>3. CASE event[h][1] = l
      <4>1. row'[l] = Flush(row[l], hookView[h], Advanced(hookView[h], event[h][2]))
        BY <1>1, <3>1, <3>3 DEF SenderTypeOK
      <4>2. row'[l].status \in {row[l].status, event[h][2]}
        BY <1>1, <3>1, <4>1, AdvancedStatus
      <4> QED BY <2>2, <3>1, <3>3, <4>2 DEF StatusChange
    <3> QED BY <3>2, <3>3
  <2>3. UNCHANGED row \/ PollFlush \/ \E h \in Handlers : HookCommit(h)
    BY <1>4 DEF FeedNext, PollLoad, PollCommit, PollCrash, PollAsk, PollAuthError,
       HookLoad, HookError, senderVars, dbVars
  <2> QED BY <1>2, <2>1, <2>2, <2>3
<1> QED BY <1>3, <1>4 DEF Next

-----------------------------------------------------------------------------

LEMMA OpenViewsInvariant == Spec => [](TypeOK /\ OpenViewsQueued)
<1>1. Init => OpenViewsQueued
  BY DEF Init, SenderInit, OpenViewsQueued
<1>2. TypeOK /\ OpenViewsQueued /\ [Next]_vars => OpenViewsQueued'
  BY OpenViewsStep
<1> QED BY <1>1, <1>2, TypeCorrect, PTL DEF Spec

\* For any number of workers, inline senders and handlers, with any crashes and
\* expired locks: a log that left the queue re-enters it only by a retry from
\* the API.  A late "retryable" answer cannot requeue it, because send_log then
\* leaves the status column as it loaded it and the UPDATE does not name it.
THEOREM RequeuedByHand == Spec => RequeuedByHandOnly
<1>1. ASSUME TypeOK, OpenViewsQueued, [Next]_vars
      PROVE  [\A l \in Logs :
                row'[l].status = "queued" /\ row[l].status \notin {"absent", "queued"}
                  => retries'[l] = retries[l] + 1]_senderVars
  <2>1. CASE UNCHANGED vars
    BY <2>1 DEF vars
  <2>2. CASE Next
    <3>1. SUFFICES ASSUME NEW l \in Logs, row'[l].status = "queued",
                          row[l].status \notin {"absent", "queued"}
                   PROVE  retries'[l] = retries[l] + 1
      OBVIOUS
    <3>2. PICK s \in Senders : RetryCommit(s) /\ cur[s] = l
      BY <1>1, <2>2, <3>1, StatusStep DEF StatusChange, TypeOK, WebhookStatus
    <3> QED BY <1>1, <3>2 DEF RetryCommit, TypeOK, SenderTypeOK
  <2> QED BY <1>1, <2>1, <2>2
<1> QED BY <1>1, OpenViewsInvariant, PTL DEF Spec, RequeuedByHandOnly

-----------------------------------------------------------------------------
\* Who lowers a status holds an old copy.

\* A retry holds a row that was failed, the poll rows that were submitted.
RetriesSawFailed == \A s \in Senders : pc[s] = "requeue" => view[s].status = "failed"
PollSawSubmitted == \A l \in Logs : polled[l] # "no" => pollView[l].status = "submitted"

LEMMA RetriesSawFailedStep ==
  ASSUME TypeOK, RetriesSawFailed, [Next]_vars PROVE RetriesSawFailed'
<1> USE DEF RetriesSawFailed
<1>1. SenderTypeOK
  BY DEF TypeOK
<1>2. ASSUME UNCHANGED procVars PROVE RetriesSawFailed'
  BY <1>2 DEF procVars
<1>3. ASSUME NEW s \in Senders, OthersSame(s), pc'[s] # "requeue"
      PROVE  RetriesSawFailed'
  BY <1>3 DEF OthersSame, SameProc
<1>4. CASE SenderNext
  <2>1. ASSUME NEW l \in Logs,
               \/ CreateByJob(l) \/ LoseTask(l) \/ BackoffElapses(l) \/ Ripen(l)
               \/ GrowStale(l) \/ LockExpires(l) \/ SendabilityChanges(l)
        PROVE  RetriesSawFailed'
    BY <1>2, <2>1 DEF CreateByJob, LoseTask, BackoffElapses, Ripen, GrowStale,
                      LockExpires, SendabilityChanges
  <2>2. ASSUME NEW s \in InlineSenders, NEW l \in Logs, CreateInline(s, l)
        PROVE  RetriesSawFailed'
    BY <1>1, <1>2, <1>3, <2>2, WalkProc DEF CreateInline, Senders, procVars
  <2>3. ASSUME NEW s \in InlineSenders, NEW l \in Logs, RetryLoad(s, l)
        PROVE  RetriesSawFailed'
    BY <1>1, <2>3 DEF RetryLoad, Senders, SenderTypeOK
  <2>4. ASSUME NEW s \in InlineSenders, DispatchInline(s) PROVE RetriesSawFailed'
    BY <1>1, <1>3, <2>4, WalkProc DEF DispatchInline, Senders
  <2>5. ASSUME NEW w \in CeleryWorkers, NEW l \in Logs, TakeTask(w, l)
        PROVE  RetriesSawFailed'
    BY <1>1, <1>3, <2>5, WalkProc DEF TakeTask, Senders
  <2>6. ASSUME NEW w \in CeleryWorkers, NEW l \in Logs, SkipTask(w, l)
        PROVE  RetriesSawFailed'
    BY <1>2, <2>6 DEF SkipTask
  <2>7. ASSUME NEW s \in Senders, SendStep(s) PROVE RetriesSawFailed'
    <3>1. CASE LoadNotQueued(s) \/ CommitAnswer(s)
      BY <1>1, <1>3, <3>1, DoneProc DEF LoadNotQueued, CommitAnswer
    <3>2. CASE LoadUnsendable(s) \/ LoadSendable(s)
      BY <1>1, <3>2 DEF LoadUnsendable, LoadSendable, SenderTypeOK
    <3>3. CASE CannotDecrypt(s) \/ CallProvider(s)
      BY <1>1, <3>3 DEF CannotDecrypt, CallProvider, SenderTypeOK
    <3>4. CASE RetryCommit(s)
      BY <1>1, <3>4 DEF RetryCommit, Forget, SenderTypeOK
    <3> QED BY <2>7, <3>1, <3>2, <3>3, <3>4 DEF SendStep
  <2>8. ASSUME NEW s \in Senders, SendError(s) PROVE RetriesSawFailed'
    BY <1>1, <1>3, <2>8, DoneProc DEF SendError
  <2>9. ASSUME NEW s \in Senders, Crash(s) PROVE RetriesSawFailed'
    BY <1>1, <1>3, <2>9, CrashProc
  <2>10. CASE DispatchByBeat \/ AccountChanges
    BY <1>2, <2>10 DEF DispatchByBeat, AccountChanges
  <2> QED BY <1>4, <2>1, <2>2, <2>3, <2>4, <2>5, <2>6, <2>7, <2>8, <2>9, <2>10
          DEF SenderNext
<1>5. CASE FeedNext
  BY <1>2, <1>5 DEF FeedNext, PollLoad, PollCommit, PollCrash, PollAsk, PollAuthError,
                    HookLoad, HookCommit, HookError, senderVars
<1>6. CASE UNCHANGED vars
  BY <1>2, <1>6 DEF vars, senderVars
<1> QED BY <1>4, <1>5, <1>6 DEF Next

LEMMA PollSawSubmittedStep ==
  ASSUME TypeOK, PollSawSubmitted, [Next]_vars PROVE PollSawSubmitted'
<1> USE DEF PollSawSubmitted
<1>1. CASE UNCHANGED pollVars
  BY <1>1 DEF pollVars
<1>2. CASE PollForget
  BY <1>2 DEF PollForget
<1>3. CASE PollLoad
  BY <1>3 DEF PollLoad
<1>4. ASSUME NEW l \in Logs, PollAsk(l) PROVE PollSawSubmitted'
  BY <1>4 DEF PollAsk, TypeOK
<1>5. \/ UNCHANGED pollVars \/ PollForget \/ PollLoad \/ \E l \in Logs : PollAsk(l)
  BY DEF Next, FeedNext, PollCommit, PollCrash, PollAuthError, HookLoad, HookCommit,
         HookError, feedVars, vars
<1> QED BY <1>1, <1>2, <1>3, <1>4, <1>5

LEMMA CopiesInvariant ==
  Spec => [](TypeOK /\ OpenViewsQueued /\ RetriesSawFailed /\ PollSawSubmitted)
<1>1. Init => RetriesSawFailed /\ PollSawSubmitted
  BY DEF Init, SenderInit, RetriesSawFailed, PollSawSubmitted
<1>2. TypeOK /\ RetriesSawFailed /\ [Next]_vars => RetriesSawFailed'
  BY RetriesSawFailedStep
<1>3. TypeOK /\ PollSawSubmitted /\ [Next]_vars => PollSawSubmitted'
  BY PollSawSubmittedStep
<1> QED BY <1>1, <1>2, <1>3, OpenViewsInvariant, PTL DEF Spec

\* A webhook whose copy has the status of the row does not lower it.
LEMMA HookOnCurrentCopy ==
  ASSUME TypeOK, NEW h \in Handlers, HookCommit(h), NEW l \in Logs, event[h][1] = l,
         hookView[h].status = row[l].status, row[l].status \in DOMAIN STATUS_ORDER,
         row'[l].status \in DOMAIN STATUS_ORDER
  PROVE  ~ STATUS_ORDER[row'[l].status] < STATUS_ORDER[row[l].status]
<1> DEFINE st == event[h][2]  v == hookView[h]
<1>1. st \in WebhookStatus /\ v \in Row /\ row[l] \in Row
      /\ row'[l] = Flush(row[l], v, Advanced(v, st))
  BY DEF HookCommit, TypeOK, SenderTypeOK
<1>2. row'[l].status \in {row[l].status, Advanced(v, st).status}
  BY <1>1, FlushStatus
<1>3. \A s \in DOMAIN STATUS_ORDER : STATUS_ORDER[s] \in Nat
  BY DEF STATUS_ORDER
<1>4. CASE row'[l].status = row[l].status
  BY <1>3, <1>4
<1>5. CASE row'[l].status # row[l].status
  <2>1. row'[l].status = Advanced(v, st).status /\ Advanced(v, st) # v
    BY <1>2, <1>5
  <2>2. Advances(v, st)
    <3> HIDE DEF v, st
    <3>1. ~ Advances(v, st) => Advanced(v, st) = v
      BY DEF Advanced
    <3> QED BY <2>1, <3>1
  <2>3. st # "failed"
    <3>1. ASSUME st = "failed" PROVE FALSE
      <4>1. Advanced(v, st).status = "failed"
        BY <1>1, <2>2, <3>1 DEF Advanced, Fail, Row
      <4> QED BY <2>1, <4>1 DEF STATUS_ORDER
    <3> QED BY <3>1
  <2>4. Advanced(v, st).status = st /\ STATUS_ORDER[st] > STATUS_ORDER[v.status]
    BY <1>1, <2>2, <2>3 DEF Advanced, Advances, Row
  <2>5. STATUS_ORDER[st] \in Nat /\ STATUS_ORDER[v.status] \in Nat
    BY <1>3, <2>1, <2>4
  <2> QED BY <2>1, <2>4, <2>5
<1> QED BY <1>4, <1>5

\* For any number of senders, handlers and logs: a status only falls at the commit of a
\* process whose copy of the row is older than the row.
THEOREM BackwardsFromStaleCopies == Spec => BackwardsOnlyFromStaleCopy
<1> DEFINE
  Falls(l) == /\ {row[l].status, row'[l].status} \subseteq DOMAIN STATUS_ORDER
              /\ STATUS_ORDER[row'[l].status] < STATUS_ORDER[row[l].status]
  Explained(l) ==
    \/ \E s \in Senders : /\ cur[s] = l /\ pc[s] \in {"commit", "requeue"}
                          /\ view[s].status # row[l].status
    \/ polled[l] # "no" /\ pollView[l].status # row[l].status
    \/ \E h \in Handlers : event[h][1] = l /\ hookView[h].status # row[l].status
<1>1. ASSUME TypeOK, OpenViewsQueued, RetriesSawFailed, PollSawSubmitted, Next,
             NEW l \in Logs, Falls(l)
      PROVE  Explained(l)
  <2>1. STATUS_ORDER.queued = 0 /\ STATUS_ORDER.submitted = 1 /\ STATUS_ORDER.sent = 2
        /\ DOMAIN STATUS_ORDER = {"queued", "submitted", "sent", "delivered", "read"}
        /\ \A s \in DOMAIN STATUS_ORDER : STATUS_ORDER[s] \in Nat
    BY DEF STATUS_ORDER
  <2>2. row'[l].status # row[l].status /\ row[l].status # "absent"
    BY <1>1, <2>1
  <2>3. CASE \E s \in Senders : CommitAnswer(s) /\ cur[s] = l
                                /\ row'[l].status \in {"submitted", "skipped", "failed"}
    <3>1. PICK s \in Senders : CommitAnswer(s) /\ cur[s] = l
                               /\ row'[l].status \in {"submitted", "skipped", "failed"}
      BY <2>3
    <3>2. pc[s] = "commit" /\ view[s].status = "queued"
      BY <1>1, <3>1 DEF CommitAnswer, OpenViewsQueued
    <3>3. row[l].status # "queued"
      BY <1>1, <2>1, <3>1
    <3> QED BY <3>1, <3>2, <3>3
  <2>4. CASE \E s \in Senders : RetryCommit(s) /\ cur[s] = l
    <3>1. PICK s \in Senders : RetryCommit(s) /\ cur[s] = l
      BY <2>4
    <3>2. pc[s] = "requeue" /\ view[s].status = "failed"
      BY <1>1, <3>1 DEF RetryCommit, RetriesSawFailed
    <3> QED BY <1>1, <2>1, <3>1, <3>2
  <2>5. CASE polled[l] # "no" /\ row'[l].status \in {"sent", "failed"}
    <3>1. row'[l].status = "sent" /\ pollView[l].status = "submitted"
      BY <1>1, <2>1, <2>5 DEF PollSawSubmitted
    <3>2. row[l].status # "submitted"
      BY <1>1, <2>1, <3>1
    <3> QED BY <2>5, <3>1, <3>2
  <2>6. CASE \E h \in Handlers : HookCommit(h) /\ event[h][1] = l
    <3>1. PICK h \in Handlers : HookCommit(h) /\ event[h][1] = l
      BY <2>6
    <3>2. hookView[h].status # row[l].status
      BY <1>1, <3>1, HookOnCurrentCopy
    <3> QED BY <3>1, <3>2
  <2> QED BY <1>1, <2>2, <2>3, <2>4, <2>5, <2>6, StatusStep DEF StatusChange
<1>2. ASSUME TypeOK, OpenViewsQueued, RetriesSawFailed, PollSawSubmitted, [Next]_vars
      PROVE  [\A l \in Logs :
                /\ {row[l].status, row'[l].status} \subseteq DOMAIN STATUS_ORDER
                /\ STATUS_ORDER[row'[l].status] < STATUS_ORDER[row[l].status]
                => \/ \E s \in Senders : /\ cur[s] = l /\ pc[s] \in {"commit", "requeue"}
                                         /\ view[s].status # row[l].status
                   \/ polled[l] # "no" /\ pollView[l].status # row[l].status
                   \/ \E h \in Handlers : /\ event[h][1] = l
                                          /\ hookView[h].status # row[l].status]_vars
  BY <1>1, <1>2
<1> QED BY <1>2, CopiesInvariant, PTL DEF Spec, BackwardsOnlyFromStaleCopy

-----------------------------------------------------------------------------
\* The send lock.

\* A worker has one log at a time, never a list, and serves no retries.
OneTaskEach == \A w \in CeleryWorkers : todo[w] = {} /\ pc[w] # "requeue"

\* A step that keeps the keys and the workers keeps the exclusion.
LEMMA SameWorkersExclude ==
  ASSUME WorkersExclude, OneTaskEach, \A l \in Logs : lock'[l] = lock[l],
         \A w \in CeleryWorkers : SameProc(w)
  PROVE  (WorkersExclude /\ OneTaskEach)'
  BY DEF WorkersExclude, OneTaskEach, SameProc

\* A worker that goes to rest may take its key away: nobody else works under it.
LEMMA RestingWorkerExcludes ==
  ASSUME SenderTypeOK, WorkersExclude, OneTaskEach, NEW s \in CeleryWorkers,
         OthersSame(s), pc'[s] = "idle", cur'[s] = NoLog, todo'[s] = {},
         \A l \in Logs : l # cur[s] => lock'[l] = lock[l]
  PROVE  (WorkersExclude /\ OneTaskEach)'
<1>1. NoLog \notin Logs
  BY LogsAssumption DEF NoLog
<1>2. \A w \in CeleryWorkers : w = s \/ SameProc(w)
  BY DEF OthersSame, Senders
<1> QED BY <1>1, <1>2 DEF WorkersExclude, OneTaskEach, SameProc

LEMMA DoneExcludes ==
  ASSUME SenderTypeOK, WorkersExclude, OneTaskEach, NEW s \in Senders, Done(s)
  PROVE  (WorkersExclude /\ OneTaskEach)'
<1>1. OthersSame(s)
  BY DoneProc
<1>2. CASE s \in CeleryWorkers
  <2>1. todo[s] = {}
    BY <1>2 DEF OneTaskEach
  <2>2. pc'[s] = "idle" /\ cur'[s] = NoLog /\ todo'[s] = {}
    BY <2>1 DEF Done, Rest, SenderTypeOK
  <2>3. \A l \in Logs : l # cur[s] => lock'[l] = lock[l]
    BY DEF Done, SenderTypeOK
  <2> QED BY <1>1, <1>2, <2>2, <2>3, RestingWorkerExcludes
<1>3. CASE s \notin CeleryWorkers
  <2>1. \A l \in Logs : lock'[l] = lock[l]
    BY <1>3 DEF Done, SenderTypeOK
  <2>2. \A w \in CeleryWorkers : SameProc(w)
    BY <1>1, <1>3 DEF OthersSame, Senders
  <2> QED BY <2>1, <2>2, SameWorkersExclude
<1> QED BY <1>2, <1>3

LEMMA ExcludeStep ==
  ASSUME LockOutlivesSend, TypeOK, WorkersExclude, OneTaskEach, [Next]_vars
  PROVE  (WorkersExclude /\ OneTaskEach)'
<1> DEFINE Goal == (WorkersExclude /\ OneTaskEach)'
<1>1. SenderTypeOK
  BY DEF TypeOK
<1>2. ASSUME UNCHANGED <<lock, procVars>> PROVE Goal
  BY <1>2, SameWorkersExclude DEF procVars, SameProc
<1>3. ASSUME NEW s \in Senders \ CeleryWorkers, OthersSame(s), UNCHANGED lock
      PROVE  Goal
  BY <1>3, SameWorkersExclude DEF OthersSame, Senders
<1>4. CASE SenderNext
  <2>1. ASSUME NEW l \in Logs,
               \/ CreateByJob(l) \/ LoseTask(l) \/ BackoffElapses(l) \/ Ripen(l)
               \/ GrowStale(l) \/ SendabilityChanges(l)
        PROVE  Goal
    BY <1>2, <2>1 DEF CreateByJob, LoseTask, BackoffElapses, Ripen, GrowStale,
                      SendabilityChanges, redisVars
  <2>2. ASSUME NEW l \in Logs, LockExpires(l) PROVE Goal
    BY <1>1, <2>2 DEF LockExpires, procVars, WorkersExclude, OneTaskEach, SenderTypeOK
  <2>3. ASSUME NEW s \in InlineSenders,
               \/ \E l \in Logs : CreateInline(s, l) \/ RetryLoad(s, l)
               \/ DispatchInline(s)
        PROVE  Goal
    <3>1. s \in Senders \ CeleryWorkers
      BY SendersAssumption DEF Senders
    <3>2. UNCHANGED lock
      BY <2>3 DEF CreateInline, RetryLoad, DispatchInline, redisVars
    <3>3. UNCHANGED procVars \/ OthersSame(s)
      <4>1. ASSUME NEW l \in Logs, CreateInline(s, l)
            PROVE  UNCHANGED procVars \/ OthersSame(s)
        BY <1>1, <3>1, <4>1, WalkProc DEF CreateInline, procVars
      <4>2. ASSUME NEW l \in Logs, RetryLoad(s, l) PROVE OthersSame(s)
        BY <1>1, <3>1, <4>2 DEF RetryLoad, SenderTypeOK, OthersSame, SameProc
      <4>3. CASE DispatchInline(s)
        BY <1>1, <3>1, <4>3, WalkProc DEF DispatchInline
      <4> QED BY <2>3, <4>1, <4>2, <4>3
    <3> QED BY <1>2, <1>3, <3>1, <3>2, <3>3
  <2>4. ASSUME NEW w \in CeleryWorkers, NEW l \in Logs, TakeTask(w, l) PROVE Goal
    <3>1. /\ ~lock[l] /\ lock' = [lock EXCEPT ![l] = TRUE]
          /\ cur'[w] = l /\ todo'[w] = {} /\ pc'[w] = "load"
      BY <1>1, <2>4 DEF TakeTask, Walk, SenderTypeOK, Senders
    <3>2. \A v \in CeleryWorkers : v = w \/ SameProc(v)
      BY <1>1, <2>4, WalkProc DEF TakeTask, OthersSame, Senders
    <3> QED BY <1>1, <3>1, <3>2 DEF WorkersExclude, OneTaskEach, SameProc, SenderTypeOK
  <2>5. ASSUME NEW w \in CeleryWorkers, NEW l \in Logs, SkipTask(w, l) PROVE Goal
    BY <1>2, <2>5 DEF SkipTask
  <2>6. ASSUME NEW s \in Senders, SendStep(s) PROVE Goal
    <3>1. CASE LoadNotQueued(s) \/ CommitAnswer(s)
      BY <1>1, <3>1, DoneExcludes DEF LoadNotQueued, CommitAnswer
    <3>2. CASE LoadUnsendable(s) \/ LoadSendable(s) \/ CannotDecrypt(s) \/ CallProvider(s)
      <4>1. UNCHANGED <<cur, todo, lock>>
        BY <3>2 DEF LoadUnsendable, LoadSendable, CannotDecrypt, CallProvider, redisVars
      <4>2. \A w \in CeleryWorkers : pc'[w] # "requeue"
        BY <1>1, <3>2 DEF LoadUnsendable, LoadSendable, CannotDecrypt, CallProvider,
                          OneTaskEach, SenderTypeOK, Senders
      <4> QED BY <4>1, <4>2 DEF WorkersExclude, OneTaskEach
    <3>3. CASE RetryCommit(s)
      BY <1>1, <1>3, <3>3 DEF RetryCommit, Forget, OthersSame, SameProc, OneTaskEach,
                              SenderTypeOK, redisVars
    <3> QED BY <2>6, <3>1, <3>2, <3>3 DEF SendStep
  <2>7. ASSUME NEW s \in Senders, SendError(s) PROVE Goal
    BY <1>1, <2>7, DoneExcludes DEF SendError
  <2>8. ASSUME NEW s \in Senders, Crash(s) PROVE Goal
    BY <1>1, <1>3, <2>8, CrashProc, RestingWorkerExcludes DEF Crash
  <2>9. CASE DispatchByBeat \/ AccountChanges
    BY <1>2, <2>9 DEF DispatchByBeat, AccountChanges, redisVars
  <2> QED BY <1>4, <2>1, <2>2, <2>3, <2>4, <2>5, <2>6, <2>7, <2>8, <2>9 DEF SenderNext
<1>5. CASE FeedNext
  BY <1>2, <1>5 DEF FeedNext, PollLoad, PollCommit, PollCrash, PollAsk, PollAuthError,
                    HookLoad, HookCommit, HookError, senderVars, redisVars
<1>6. CASE UNCHANGED vars
  BY <1>2, <1>6 DEF vars, senderVars, redisVars
<1> QED BY <1>4, <1>5, <1>6 DEF Next

LEMMA ExcludeInvariant ==
  ASSUME LockOutlivesSend PROVE Spec => [](TypeOK /\ WorkersExclude /\ OneTaskEach)
<1>1. Init => WorkersExclude /\ OneTaskEach
  BY LogsAssumption DEF Init, SenderInit, WorkersExclude, OneTaskEach, NoLog, Senders
<1>2. TypeOK /\ WorkersExclude /\ OneTaskEach /\ [Next]_vars
        => (WorkersExclude /\ OneTaskEach)'
  BY ExcludeStep
<1> QED BY <1>1, <1>2, TypeCorrect, PTL DEF Spec

\* For any number of Celery workers, beside any number of inline senders: as
\* long as no send outlives its key, no two workers work on the same log,
\* although the key names no owner and every worker deletes it blindly.
THEOREM WorkersExcludeHolds == ASSUME LockOutlivesSend PROVE Spec => []WorkersExclude
  BY ExcludeInvariant, PTL

-----------------------------------------------------------------------------
\* No false delivery.

Shown == {"submitted", "sent", "delivered", "read"}

\* Whatever can move a log to a delivery status was set going by an acceptance.
AcceptedFirst ==
  /\ \A l \in Logs : row[l].status \in Shown \/ polled[l] # "no" => accepted[l] > 0
  /\ \A s \in Senders : HoldsAcceptance(s) => accepted[cur[s]] > 0
  /\ \A h \in Handlers : event[h] # NoEvent => accepted[event[h][1]] > 0

LEMMA AcceptedGrows ==
  ASSUME TypeOK, [Next]_vars, NEW l \in Logs PROVE accepted'[l] >= accepted[l]
<1>1. ASSUME NEW s \in Senders, CallProvider(s) PROVE accepted'[l] >= accepted[l]
  BY <1>1 DEF CallProvider, TypeOK, SenderTypeOK
<1>2. accepted' = accepted \/ \E s \in Senders : CallProvider(s)
  BY DEF Next, SenderNext, SendStep, CreateByJob, LoseTask, Ripen, GrowStale, LockExpires,
     SendabilityChanges, CreateInline, RetryLoad, DispatchInline, TakeTask, SkipTask,
     LoadNotQueued, LoadUnsendable, LoadSendable, CannotDecrypt, CommitAnswer, RetryCommit,
     SendError, Crash, LoseAnswer, DispatchByBeat, AccountChanges, BackoffElapses,
     FeedNext, PollLoad, PollCommit, PollCrash, PollAsk, PollAuthError,
     HookLoad, HookCommit, HookError, histVars, senderVars, vars
<1> QED BY <1>1, <1>2 DEF TypeOK, SenderTypeOK

\* A sender comes to hold an acceptance only by calling the provider.
LEMMA NewAcceptance ==
  ASSUME TypeOK, [Next]_vars, NEW t \in Senders, HoldsAcceptance(t)'
  PROVE  \/ HoldsAcceptance(t) /\ cur'[t] = cur[t]
         \/ cur'[t] \in Logs /\ accepted'[cur'[t]] > 0
<1> USE DEF HoldsAcceptance
<1>1. SenderTypeOK
  BY DEF TypeOK
<1>2. ASSUME UNCHANGED <<pc, cur, answer>> PROVE HoldsAcceptance(t) /\ cur'[t] = cur[t]
  BY <1>2
<1>3. ASSUME NEW s \in Senders, OthersSame(s), pc'[s] # "commit"
      PROVE  HoldsAcceptance(t) /\ cur'[t] = cur[t]
  BY <1>3 DEF OthersSame, SameProc
<1>4. CASE SenderNext
  <2>1. ASSUME NEW l \in Logs,
               \/ CreateByJob(l) \/ LoseTask(l) \/ BackoffElapses(l) \/ Ripen(l)
               \/ GrowStale(l) \/ LockExpires(l) \/ SendabilityChanges(l)
        PROVE  HoldsAcceptance(t) /\ cur'[t] = cur[t]
    BY <1>2, <2>1 DEF CreateByJob, LoseTask, BackoffElapses, Ripen, GrowStale,
                      LockExpires, SendabilityChanges, procVars
  <2>2. ASSUME NEW s \in InlineSenders, NEW l \in Logs, CreateInline(s, l)
        PROVE  HoldsAcceptance(t) /\ cur'[t] = cur[t]
    BY <1>1, <1>2, <1>3, <2>2, WalkProc DEF CreateInline, Senders
  <2>3. ASSUME NEW s \in InlineSenders, NEW l \in Logs, RetryLoad(s, l)
        PROVE  HoldsAcceptance(t) /\ cur'[t] = cur[t]
    BY <1>1, <2>3 DEF RetryLoad, Senders, SenderTypeOK
  <2>4. ASSUME NEW s \in InlineSenders, DispatchInline(s)
        PROVE  HoldsAcceptance(t) /\ cur'[t] = cur[t]
    BY <1>1, <1>3, <2>4, WalkProc DEF DispatchInline, Senders
  <2>5. ASSUME NEW w \in CeleryWorkers, NEW l \in Logs, TakeTask(w, l)
        PROVE  HoldsAcceptance(t) /\ cur'[t] = cur[t]
    BY <1>1, <1>3, <2>5, WalkProc DEF TakeTask, Senders
  <2>6. ASSUME NEW w \in CeleryWorkers, NEW l \in Logs, SkipTask(w, l)
        PROVE  HoldsAcceptance(t) /\ cur'[t] = cur[t]
    BY <1>2, <2>6 DEF SkipTask, procVars
  <2>7. ASSUME NEW s \in Senders, SendStep(s)
        PROVE  \/ HoldsAcceptance(t) /\ cur'[t] = cur[t]
               \/ cur'[t] \in Logs /\ accepted'[cur'[t]] > 0
    <3>1. CASE LoadNotQueued(s) \/ CommitAnswer(s)
      BY <1>1, <1>3, <3>1, DoneProc DEF LoadNotQueued, CommitAnswer
    <3>2. CASE LoadUnsendable(s) \/ LoadSendable(s) \/ CannotDecrypt(s)
      BY <1>1, <3>2 DEF LoadUnsendable, LoadSendable, CannotDecrypt, SenderTypeOK
    <3>3. CASE CallProvider(s)
      <4>1. CASE t # s
        BY <1>1, <3>3, <4>1 DEF CallProvider, SenderTypeOK
      <4>2. CASE t = s
        <5>1. cur'[t] = cur[s] /\ cur[s] \in Logs
          BY <1>1, <3>3, <4>2 DEF CallProvider, SenderTypeOK
        <5>2. accepted'[cur[s]] = accepted[cur[s]] + 1
          BY <1>1, <3>3, <4>2, <5>1 DEF CallProvider, SenderTypeOK
        <5> QED BY <1>1, <5>1, <5>2 DEF SenderTypeOK
      <4> QED BY <4>1, <4>2
    <3>4. CASE RetryCommit(s)
      BY <1>1, <3>4 DEF RetryCommit, Forget, SenderTypeOK
    <3> QED BY <2>7, <3>1, <3>2, <3>3, <3>4 DEF SendStep
  <2>8. ASSUME NEW s \in Senders, SendError(s)
        PROVE  HoldsAcceptance(t) /\ cur'[t] = cur[t]
    BY <1>1, <1>3, <2>8, DoneProc DEF SendError
  <2>9. ASSUME NEW s \in Senders, Crash(s)
        PROVE  HoldsAcceptance(t) /\ cur'[t] = cur[t]
    BY <1>1, <1>3, <2>9, CrashProc
  <2>10. CASE DispatchByBeat \/ AccountChanges
    BY <1>2, <2>10 DEF DispatchByBeat, AccountChanges, procVars
  <2> QED BY <1>4, <2>1, <2>2, <2>3, <2>4, <2>5, <2>6, <2>7, <2>8, <2>9, <2>10
          DEF SenderNext
<1>5. CASE FeedNext
  BY <1>2, <1>5 DEF FeedNext, PollLoad, PollCommit, PollCrash, PollAsk, PollAuthError,
                    HookLoad, HookCommit, HookError, senderVars, procVars
<1>6. CASE UNCHANGED vars
  BY <1>2, <1>6 DEF vars, senderVars, procVars
<1> QED BY <1>4, <1>5, <1>6 DEF Next

LEMMA AcceptedFirstStep ==
  ASSUME TypeOK, OpenViewsQueued, AcceptedFirst, [Next]_vars PROVE AcceptedFirst'
<1>1. /\ SenderTypeOK /\ SenderTypeOK'
      /\ \A l \in Logs : accepted[l] > 0 => accepted'[l] > 0
  <2>1. SenderTypeOK /\ TypeOK'
    BY TypeStep DEF TypeOK
  <2> QED BY <2>1, AcceptedGrows DEF TypeOK, SenderTypeOK
<1>2. ASSUME NEW l \in Logs, row'[l].status \in Shown \/ polled'[l] # "no"
      PROVE  accepted'[l] > 0
  <2>1. CASE polled'[l] # "no"
    <3>1. CASE PollLoad
      <4>1. row[l].status = "submitted"
        BY <2>1, <3>1 DEF PollLoad
      <4> QED BY <1>1, <4>1 DEF AcceptedFirst, Shown
    <3>2. CASE ~PollLoad
      <4>1. polled[l] # "no"
        BY <2>1, <3>2 DEF Next, FeedNext, PollAsk, PollAuthError, PollCommit, PollCrash,
           PollForget, HookLoad, HookCommit, HookError, vars, feedVars, pollVars, TypeOK
      <4> QED BY <1>1, <4>1 DEF AcceptedFirst
    <3> QED BY <3>1, <3>2
  <2>2. CASE row'[l].status \in Shown
    <3>1. CASE UNCHANGED vars
      BY <1>1, <2>2, <3>1 DEF AcceptedFirst, vars, senderVars, dbVars
    <3>2. CASE Next
      <4>1. StatusChange(l)
        BY <3>2, StatusStep
      <4>2. CASE row'[l].status = row[l].status
        BY <1>1, <2>2, <4>2 DEF AcceptedFirst
      <4>3. ASSUME NEW s \in Senders, CommitAnswer(s), cur[s] = l,
                   row'[l].status = "submitted" => answer[s] = "accepted",
                   row'[l].status \in {"submitted", "skipped", "failed"}
            PROVE  accepted'[l] > 0
        BY <1>1, <2>2, <4>3 DEF AcceptedFirst, HoldsAcceptance, CommitAnswer, Shown
      <4>4. CASE polled[l] # "no"
        BY <1>1, <4>4 DEF AcceptedFirst
      <4>5. ASSUME NEW h \in Handlers, event[h] # NoEvent, event[h][1] = l
            PROVE  accepted'[l] > 0
        BY <1>1, <4>5 DEF AcceptedFirst
      <4> QED BY <2>2, <4>1, <4>2, <4>3, <4>4, <4>5 DEF StatusChange, Shown
    <3> QED BY <3>1, <3>2
  <2> QED BY <1>2, <2>1, <2>2
<1>3. ASSUME NEW t \in Senders, HoldsAcceptance(t)' PROVE accepted'[cur'[t]] > 0
  <2>1. CASE HoldsAcceptance(t) /\ cur'[t] = cur[t]
    BY <1>1, <2>1 DEF AcceptedFirst, HoldsAcceptance, SenderTypeOK
  <2> QED BY <1>3, <2>1, NewAcceptance
<1>4. ASSUME NEW h \in Handlers, event'[h] # NoEvent PROVE accepted'[event'[h][1]] > 0
  <2>1. CASE event'[h] = event[h]
    BY <1>1, <1>4, <2>1 DEF AcceptedFirst, TypeOK
  <2>2. ASSUME NEW g \in Handlers, NEW l \in Logs, HookLoad(g, l) PROVE accepted'[event'[h][1]] > 0
    <3>1. CASE g = h
      BY <1>1, <2>2, <3>1 DEF HookLoad, TypeOK
    <3>2. CASE g # h
      BY <2>1, <2>2, <3>2 DEF HookLoad, TypeOK
    <3> QED BY <3>1, <3>2
  <2>3. ASSUME NEW g \in Handlers, HookForget(g) PROVE event'[h] = event[h]
    BY <1>4, <2>3 DEF HookForget, TypeOK
  <2>4. \/ UNCHANGED event
        \/ \E g \in Handlers, l \in Logs : HookLoad(g, l)
        \/ \E g \in Handlers : HookForget(g)
    BY DEF Next, FeedNext, PollLoad, PollAsk, PollAuthError, PollCommit, PollCrash,
           HookCommit, HookError, vars, feedVars, hookVars
  <2> QED BY <2>1, <2>2, <2>3, <2>4
<1> QED BY <1>2, <1>3, <1>4 DEF AcceptedFirst

\* For every deployment: a log is shown as submitted, sent, delivered or read
\* only if the provider took it, whatever races over its row.
THEOREM NoFalseDeliveryHolds == Spec => []NoFalseDelivery
<1>1. Init => AcceptedFirst
  BY DEF Init, SenderInit, AcceptedFirst, NoRow, Shown, HoldsAcceptance, NoEvent
<1>2. TypeOK /\ OpenViewsQueued /\ AcceptedFirst /\ [Next]_vars => AcceptedFirst'
  BY AcceptedFirstStep
<1>3. AcceptedFirst => NoFalseDelivery
  BY DEF AcceptedFirst, NoFalseDelivery, Shown
<1> QED BY <1>1, <1>2, <1>3, OpenViewsInvariant, PTL DEF Spec

-----------------------------------------------------------------------------
(* How often a message log is sent, whether or not the send lock outlives a send. *)

\* An acceptance that s has to write to log l.
Holds(s, l) == cur[s] = l /\ HoldsAcceptance(s)

\* Attempts under way.

\* The senders that are about to call the provider for log l.
Calling(l) == {s \in Senders : cur[s] = l /\ pc[s] = "call"}

\* Sender s is in an attempt of log l that its commit will count.
Attempts(s, l) ==
  /\ cur[s] = l
  /\ pc[s] \in {"call", "commit"}
  /\ pc[s] = "commit" => answer[s] # "unsendable"

\* The log has not left the queue since it was created or retried.
Fresh(l) == row[l].status \in {"absent", "queued"}

\* The attempts of log l begun so far are those its row counts, those begun
\* while another was open, those a fault cut short, and one under way.
BudgetOf(l) ==
  LET begun == calls[l] + Cardinality(Calling(l))
      spare == overlaps[l] + faults
  IN  /\ begun <= row[l].attempts + spare + 1
      /\ (\A s \in Senders : ~Attempts(s, l)) => begun <= row[l].attempts + spare
      /\ \A s \in Senders : Attempts(s, l) =>
           /\ begun <= view[s].attempts + spare + 1
           /\ view[s].attempts <= Backoffs + retries[l]
      /\ row[l].attempts <= Backoffs + retries[l] + 1
      /\ Fresh(l) => row[l].attempts <= Backoffs + retries[l]

\* Every acceptance of log l so far, and every one still to come from a sender
\* under way, is the first, lost, retried by hand or from an overlap; and the
\* first is still free while the log is queued and nobody sends it.
CopiesOf(l) ==
  LET spare == lost[l] + retries[l] + overlaps[l]
  IN  /\ accepted[l] + Cardinality(Calling(l)) <= spare + 1
      /\ Fresh(l) /\ Calling(l) = {} /\ (\A s \in Senders : ~Holds(s, l))
           => accepted[l] <= spare

Counted(l) == IsFiniteSet(Calling(l)) /\ BudgetOf(l) /\ CopiesOf(l)

CountInv == \A l \in Logs : Counted(l)

\* The types of what is counted.
LEMMA CountTypes ==
  ASSUME TypeOK, NEW l \in Logs, IsFiniteSet(Calling(l))
  PROVE  /\ calls[l] \in Nat /\ accepted[l] \in Nat /\ lost[l] \in Nat
         /\ retries[l] \in Nat /\ overlaps[l] \in Nat /\ faults \in Nat
         /\ row[l].attempts \in Nat /\ Backoffs \in Nat
         /\ Cardinality(Calling(l)) \in Nat
         /\ \A s \in Senders : view[s].attempts \in Nat
  BY FS_CardinalityType, BackoffsAssumption DEF TypeOK, SenderTypeOK, Row

-----------------------------------------------------------------------------
\* What a commit makes of the attempts column.

LEMMA RecordedAttempts ==
  ASSUME NEW v \in Row, NEW a, v.status = "queued"
  PROVE  /\ Recorded(v, a).attempts =
              IF a = "unsendable" THEN v.attempts ELSE v.attempts + 1
         /\ Recorded(v, a).status = "queued" => v.attempts + 1 <= Backoffs
<1> DEFINE tried == [v EXCEPT !.attempts = @ + 1]
<1>1. tried \in Row /\ tried.attempts = v.attempts + 1
  BY DEF Row
<1>2. /\ [v EXCEPT !.status = "skipped"].status = "skipped"
      /\ [v EXCEPT !.status = "skipped"].attempts = v.attempts
  BY DEF Row
<1> HIDE DEF tried
<1>3. /\ [tried EXCEPT !.status = "submitted", !.next = "none"].attempts = tried.attempts
      /\ [tried EXCEPT !.status = "submitted", !.next = "none"].status = "submitted"
      /\ [tried EXCEPT !.status = "skipped"].attempts = tried.attempts
      /\ [tried EXCEPT !.status = "skipped"].status = "skipped"
      /\ [tried EXCEPT !.status = "queued", !.next = "waiting"].attempts = tried.attempts
      /\ Fail(tried).attempts = tried.attempts
      /\ Fail(tried).status = "failed"
  BY <1>1 DEF Row, Fail
<1>4. Recorded(v, a) = CASE a = "unsendable" -> [v EXCEPT !.status = "skipped"]
        [] a = "accepted"   -> [tried EXCEPT !.status = "submitted", !.next = "none"]
        [] a = "duplicate"  -> [tried EXCEPT !.status = "skipped"]
        [] a = "retryable" /\ tried.attempts <= Backoffs
                            -> [tried EXCEPT !.status = "queued", !.next = "waiting"]
        [] OTHER            -> Fail(tried)
  BY Zenon DEF Recorded, tried
<1> QED BY <1>1, <1>2, <1>3, <1>4

LEMMA FlushAttempts ==
  ASSUME NEW c, NEW v, NEW o
  PROVE  Flush(c, v, o).attempts = IF o.attempts = v.attempts THEN c.attempts ELSE o.attempts
  BY DEF Flush, Changed

LEMMA FlushAnswerAttempts ==
  ASSUME NEW c \in Row, NEW v \in Row, NEW a, v.status = "queued"
  PROVE  FlushAnswer(c, v, a).attempts =
           IF a = "unsendable" THEN c.attempts ELSE v.attempts + 1
<1>1. Flush(c, v, Recorded(v, a)) \in Row
  BY RecordedType, FlushType
<1>2. FlushAnswer(c, v, a).attempts = Flush(c, v, Recorded(v, a)).attempts
  BY <1>1 DEF FlushAnswer, Row
<1>3. v.attempts \in Nat
  BY DEF Row
<1> QED BY <1>2, <1>3, FlushAttempts, RecordedAttempts

\* Only the commit of an attempt changes the number of attempts.
LEMMA AttemptsColumn ==
  ASSUME TypeOK, OpenViewsQueued, Next, NEW l \in Logs
  PROVE  \/ row'[l].attempts = row[l].attempts
         \/ \E s \in Senders : CommitAnswer(s) /\ cur[s] = l /\ answer[s] # "unsendable"
<1> DEFINE Goal == \/ row'[l].attempts = row[l].attempts
                   \/ \E s \in Senders : /\ CommitAnswer(s) /\ cur[s] = l
                                         /\ answer[s] # "unsendable"
<1>1. SenderTypeOK /\ row[l] \in Row /\ row \in [Logs -> Row]
  BY DEF TypeOK, SenderTypeOK
<1>2. CASE UNCHANGED row
  BY <1>2
<1>3. ASSUME NEW k \in Logs, Insert(k) \/ BackoffElapses(k) PROVE Goal
  BY <1>1, <1>3 DEF Insert, BackoffElapses, Row
<1>4. ASSUME NEW s \in Senders, CommitAnswer(s) PROVE Goal
  <2>1. /\ cur[s] \in Logs /\ row[cur[s]] \in Row
        /\ view[s] \in Row /\ view[s].status = "queued"
        /\ row' = [row EXCEPT ![cur[s]] = FlushAnswer(row[cur[s]], view[s], answer[s])]
    BY <1>1, <1>4 DEF CommitAnswer, SenderTypeOK, OpenViewsQueued
  <2>2. row'[l] = IF cur[s] = l THEN FlushAnswer(row[l], view[s], answer[s]) ELSE row[l]
    BY <1>1, <2>1
  <2> QED BY <1>4, <2>1, <2>2, FlushAnswerAttempts
<1>5. ASSUME NEW s \in Senders, RetryCommit(s) PROVE Goal
  <2>1. /\ cur[s] \in Logs /\ view[s] \in Row
        /\ row' = [row EXCEPT ![cur[s]] = Flush(row[cur[s]], view[s], Requeued(view[s]))]
    BY <1>1, <1>5 DEF RetryCommit, SenderTypeOK
  <2>2. Requeued(view[s]).attempts = view[s].attempts
    BY <2>1 DEF Requeued, Row
  <2>3. row'[l] = IF cur[s] = l THEN Flush(row[l], view[s], Requeued(view[s])) ELSE row[l]
    BY <1>1, <2>1
  <2> QED BY <2>2, <2>3, FlushAttempts
<1>6. CASE PollFlush
  <2>1. pollView[l] \in Row
    BY DEF TypeOK
  <2>2. Polled(l).attempts = pollView[l].attempts
    BY <2>1 DEF Polled, Fail, Row
  <2>3. row'[l] = IF polled[l] = "no" THEN row[l] ELSE Flush(row[l], pollView[l], Polled(l))
    BY <1>6 DEF PollFlush
  <2> QED BY <2>2, <2>3, FlushAttempts
<1>7. ASSUME NEW h \in Handlers, HookCommit(h) PROVE Goal
  <2>1. /\ event[h][1] \in Logs /\ hookView[h] \in Row
        /\ row' = [row EXCEPT ![event[h][1]] =
               Flush(row[event[h][1]], hookView[h], Advanced(hookView[h], event[h][2]))]
    BY <1>7 DEF HookCommit, TypeOK
  <2>2. Advanced(hookView[h], event[h][2]).attempts = hookView[h].attempts
    BY <2>1 DEF Advanced, Fail, Row
  <2>3. \/ row'[l] = row[l]
        \/ row'[l] = Flush(row[l], hookView[h], Advanced(hookView[h], event[h][2]))
    BY <1>1, <2>1
  <2> QED BY <2>2, <2>3, FlushAttempts
<1>8. \/ UNCHANGED row
      \/ \E k \in Logs : Insert(k) \/ BackoffElapses(k)
      \/ \E s \in Senders : CommitAnswer(s) \/ RetryCommit(s)
      \/ PollFlush
      \/ \E h \in Handlers : HookCommit(h)
  BY DEF Next, SenderNext, SendStep, CreateByJob, LoseTask, Ripen, GrowStale, LockExpires,
     SendabilityChanges, CreateInline, RetryLoad, DispatchInline, TakeTask, SkipTask,
     LoadNotQueued, LoadUnsendable, LoadSendable, CannotDecrypt, CallProvider,
     SendError, Crash, LoseAnswer, DispatchByBeat, AccountChanges, FeedNext, PollLoad,
     PollCommit, PollCrash, PollAsk, PollAuthError, HookLoad, HookError, senderVars, dbVars
<1> QED BY <1>2, <1>3, <1>4, <1>5, <1>6, <1>7, <1>8

-----------------------------------------------------------------------------
\* The steps that leave the counts of a log alone.

\* No attempt of log l begins, moves or ends, and the log enters the queue again
\* only with one more retry by hand.
Steady(l) ==
  /\ \A s \in Senders : SameProc(s) \/ (~Attempts(s, l) /\ ~Attempts(s, l)')
  /\ calls'[l] = calls[l] /\ accepted'[l] = accepted[l]
  /\ lost'[l] = lost[l] /\ overlaps'[l] = overlaps[l]
  /\ retries'[l] >= retries[l] /\ faults' >= faults
  /\ row'[l].attempts = row[l].attempts
  /\ Fresh(l)' => Fresh(l) \/ retries'[l] = retries[l] + 1

LEMMA SteadyCounts ==
  ASSUME TypeOK, TypeOK', NEW l \in Logs, Counted(l), Steady(l) PROVE Counted(l)'
<1>1. \A s \in Senders : /\ Attempts(s, l)' <=> Attempts(s, l)
                         /\ Attempts(s, l) => view'[s] = view[s]
  BY DEF Steady, SameProc, Attempts
<1>2. Calling(l)' = Calling(l)
  BY DEF Steady, SameProc, Attempts, Calling
<1>3. \A s \in Senders : Holds(s, l)' <=> Holds(s, l)
  BY DEF Steady, SameProc, Attempts, Holds, HoldsAcceptance
<1>4. IsFiniteSet(Calling(l)) /\ IsFiniteSet(Calling(l))'
  BY <1>2 DEF Counted
<1>5. /\ calls[l] \in Nat /\ accepted[l] \in Nat /\ lost[l] \in Nat
      /\ retries[l] \in Nat /\ overlaps[l] \in Nat /\ faults \in Nat
      /\ row[l].attempts \in Nat /\ Backoffs \in Nat
      /\ Cardinality(Calling(l)) \in Nat
      /\ \A s \in Senders : view[s].attempts \in Nat
  BY <1>4, CountTypes
<1>6. retries'[l] \in Nat /\ faults' \in Nat
  BY DEF TypeOK, SenderTypeOK
<1>7. BudgetOf(l)'
  BY <1>1, <1>2, <1>5, <1>6 DEF Counted, BudgetOf, Steady
<1>8. CopiesOf(l)'
  BY <1>2, <1>3, <1>5, <1>6 DEF Counted, CopiesOf, Steady
<1> QED BY <1>4, <1>7, <1>8 DEF Counted

\* The steps of a sender that change the counts of the log it works on.
Moves(s) ==
  \/ LoadSendable(s) \/ CannotDecrypt(s) \/ CallProvider(s)
  \/ CommitAnswer(s) /\ answer[s] # "unsendable"
  \/ Attempts(s, cur[s]) /\ (SendError(s) \/ Crash(s))

\* A sender's step touches the attempts of no log but the one it works on.
LEMMA OtherLogs ==
  ASSUME SenderTypeOK, NEW s \in Senders, OthersSame(s), NEW l \in Logs,
         ~Attempts(s, l), pc'[s] \in {"call", "commit"} => ~Attempts(s, l)'
  PROVE  \A t \in Senders : SameProc(t) \/ (~Attempts(t, l) /\ ~Attempts(t, l)')
<1>1. ~Attempts(s, l)'
  BY DEF Attempts
<1>2. \A t \in Senders : t = s \/ SameProc(t)
  BY DEF OthersSame
<1> QED BY <1>1, <1>2

\* The columns of a log that no sender commits in this step.
LEMMA SteadyRow ==
  ASSUME TypeOK, OpenViewsQueued, Next, NEW l \in Logs,
         \A s \in Senders : CommitAnswer(s) /\ cur[s] = l => answer[s] = "unsendable"
  PROVE  /\ row'[l].attempts = row[l].attempts
         /\ Fresh(l)' => Fresh(l) \/ retries'[l] = retries[l] + 1
<1>1. row'[l].attempts = row[l].attempts
  BY AttemptsColumn
<1>2. ASSUME Fresh(l)', ~Fresh(l) PROVE retries'[l] = retries[l] + 1
  <2>1. StatusChange(l)
    BY StatusStep
  <2>2. PICK s \in Senders : RetryCommit(s) /\ cur[s] = l
    BY <1>2, <2>1 DEF StatusChange, Fresh, TypeOK, WebhookStatus
  <2> QED BY <2>2 DEF RetryCommit, TypeOK, SenderTypeOK
<1> QED BY <1>1, <1>2

LEMMA StepKinds ==
  ASSUME TypeOK, OpenViewsQueued, Next, NEW l \in Logs
  PROVE  Steady(l) \/ \E s \in Senders : cur[s] = l /\ Moves(s)
<1>1. SenderTypeOK /\ TypeOK' /\ SenderTypeOK'
  BY TypeStep DEF TypeOK
<1> SUFFICES ASSUME \A s \in Senders : cur[s] = l => ~Moves(s) PROVE Steady(l)
  OBVIOUS
<1>2. /\ row'[l].attempts = row[l].attempts
      /\ Fresh(l)' => Fresh(l) \/ retries'[l] = retries[l] + 1
  BY SteadyRow DEF Moves
<1>3. /\ calls[l] \in Nat /\ accepted[l] \in Nat /\ lost[l] \in Nat
      /\ retries[l] \in Nat /\ overlaps[l] \in Nat /\ faults \in Nat
  BY <1>1 DEF SenderTypeOK
<1>4. ASSUME UNCHANGED <<calls, accepted, lost, overlaps>>,
             retries'[l] >= retries[l], faults' >= faults,
             \A t \in Senders : SameProc(t) \/ (~Attempts(t, l) /\ ~Attempts(t, l)')
      PROVE  Steady(l)
  BY <1>2, <1>4 DEF Steady
<1>5. ASSUME UNCHANGED <<procVars, calls, accepted, lost, overlaps, retries>>,
             faults' \in {faults, faults + 1}
      PROVE  Steady(l)
  <2>1. \A t \in Senders : SameProc(t)
    BY <1>5 DEF procVars, SameProc
  <2>2. retries'[l] >= retries[l] /\ faults' >= faults
    BY <1>3, <1>5
  <2> QED BY <1>4, <1>5, <2>1, <2>2
<1>6. ASSUME NEW s \in Senders, OthersSame(s), UNCHANGED histVars,
             ~Attempts(s, l), pc'[s] \in {"call", "commit"} => ~Attempts(s, l)'
      PROVE  Steady(l)
  BY <1>1, <1>3, <1>4, <1>6, OtherLogs DEF histVars
<1>7. CASE SenderNext /\ UNCHANGED feedVars
  <2>1. ASSUME NEW k \in Logs,
               \/ CreateByJob(k) \/ LoseTask(k) \/ BackoffElapses(k) \/ Ripen(k)
               \/ GrowStale(k) \/ LockExpires(k) \/ SendabilityChanges(k)
        PROVE  Steady(l)
    BY <1>5, <2>1 DEF CreateByJob, LoseTask, BackoffElapses, Ripen, GrowStale,
                      LockExpires, SendabilityChanges, histVars
  <2>2. ASSUME NEW s \in InlineSenders, NEW k \in Logs, CreateInline(s, k)
        PROVE  Steady(l)
    <3>1. CASE UNCHANGED <<pc, cur, todo>>
      BY <1>5, <2>2, <3>1 DEF CreateInline, histVars, procVars
    <3>2. CASE Walk(s, {k})
      BY <1>1, <1>6, <2>2, <3>2, WalkProc DEF CreateInline, Senders, Attempts
    <3> QED BY <2>2, <3>1, <3>2 DEF CreateInline
  <2>3. ASSUME NEW s \in InlineSenders, NEW k \in Logs, RetryLoad(s, k)
        PROVE  Steady(l)
    <3>1. s \in Senders /\ OthersSame(s) /\ pc'[s] = "requeue" /\ pc[s] = "idle"
      BY <1>1, <2>3 DEF RetryLoad, Senders, SenderTypeOK, OthersSame, SameProc
    <3> QED BY <1>6, <2>3, <3>1 DEF RetryLoad, Attempts
  <2>4. ASSUME NEW s \in InlineSenders, DispatchInline(s) PROVE Steady(l)
    BY <1>1, <1>6, <2>4, WalkProc DEF DispatchInline, Senders, Attempts
  <2>5. ASSUME NEW w \in CeleryWorkers, NEW k \in Logs, TakeTask(w, k)
        PROVE  Steady(l)
    BY <1>1, <1>6, <2>5, WalkProc DEF TakeTask, Senders, Attempts
  <2>6. ASSUME NEW w \in CeleryWorkers, NEW k \in Logs, SkipTask(w, k)
        PROVE  Steady(l)
    BY <1>5, <2>6 DEF SkipTask, histVars
  <2>7. ASSUME NEW s \in Senders, SendStep(s) PROVE Steady(l)
    <3>1. CASE LoadNotQueued(s)
      BY <1>1, <1>6, <3>1, DoneProc DEF LoadNotQueued, Attempts
    <3>2. CASE LoadUnsendable(s)
      <4>1. /\ OthersSame(s) /\ pc[s] = "load"
            /\ pc'[s] = "commit" /\ answer'[s] = "unsendable"
        BY <1>1, <3>2 DEF LoadUnsendable, SenderTypeOK, OthersSame, SameProc
      <4> QED BY <1>6, <3>2, <4>1 DEF LoadUnsendable, Attempts
    <3>3. CASE LoadSendable(s)
      <4>1. OthersSame(s) /\ cur'[s] = cur[s] /\ cur[s] # l /\ cur[s] \in Logs
        BY <1>1, <3>3 DEF LoadSendable, SenderTypeOK, OthersSame, SameProc, Moves
      <4>2. \A t \in Senders : SameProc(t) \/ (~Attempts(t, l) /\ ~Attempts(t, l)')
        BY <1>1, <4>1, OtherLogs DEF Attempts
      <4>3. overlaps'[l] = overlaps[l]
        BY <1>1, <3>3, <4>1 DEF LoadSendable, SenderTypeOK
      <4> QED BY <1>2, <1>3, <3>3, <4>2, <4>3 DEF LoadSendable, Steady
    <3>4. CASE CannotDecrypt(s)
      <4>1. OthersSame(s) /\ cur'[s] = cur[s] /\ cur[s] # l
        BY <1>1, <3>4 DEF CannotDecrypt, SenderTypeOK, OthersSame, SameProc, Moves
      <4> QED BY <1>6, <3>4, <4>1 DEF CannotDecrypt, Attempts
    <3>5. CASE CallProvider(s)
      <4>1. OthersSame(s) /\ cur'[s] = cur[s] /\ cur[s] # l /\ cur[s] \in Logs
        BY <1>1, <3>5 DEF CallProvider, SenderTypeOK, OthersSame, SameProc, Moves
      <4>2. \A t \in Senders : SameProc(t) \/ (~Attempts(t, l) /\ ~Attempts(t, l)')
        BY <1>1, <4>1, OtherLogs DEF Attempts
      <4>3. calls'[l] = calls[l] /\ accepted'[l] = accepted[l] /\ lost'[l] = lost[l]
        BY <1>1, <3>5, <4>1 DEF CallProvider, SenderTypeOK
      <4> QED BY <1>2, <1>3, <3>5, <4>2, <4>3 DEF CallProvider, Steady
    <3>6. CASE CommitAnswer(s)
      <4>1. OthersSame(s) /\ pc'[s] \in {"idle", "load"} /\ ~Attempts(s, l)
        BY <1>1, <3>6, DoneProc DEF CommitAnswer, Moves, Attempts
      <4> QED BY <1>6, <3>6, <4>1 DEF CommitAnswer
    <3>7. CASE RetryCommit(s)
      <4>1. /\ OthersSame(s) /\ pc'[s] = "load" /\ pc[s] = "requeue" /\ cur[s] \in Logs
            /\ retries' = [retries EXCEPT ![cur[s]] = @ + 1]
        BY <1>1, <3>7 DEF RetryCommit, Forget, SenderTypeOK, OthersSame, SameProc
      <4>2. retries'[l] >= retries[l]
        BY <1>1, <1>3, <4>1 DEF SenderTypeOK
      <4>3. \A t \in Senders : SameProc(t) \/ (~Attempts(t, l) /\ ~Attempts(t, l)')
        BY <1>1, <4>1, OtherLogs DEF Attempts
      <4> QED BY <1>3, <1>4, <3>7, <4>2, <4>3 DEF RetryCommit
    <3> QED BY <2>7, <3>1, <3>2, <3>3, <3>4, <3>5, <3>6, <3>7 DEF SendStep
  <2>8. ASSUME NEW s \in Senders, SendError(s) \/ Crash(s) PROVE Steady(l)
    <3>1. OthersSame(s) /\ pc'[s] \in {"idle", "load"}
      BY <1>1, <2>8, DoneProc, CrashProc DEF SendError
    <3>2. /\ LoseAnswer(s) /\ cur[s] \in Logs /\ faults' = faults + 1
          /\ UNCHANGED <<calls, accepted, retries, overlaps>>
          /\ lost' = IF HoldsAcceptance(s) THEN [lost EXCEPT ![cur[s]] = @ + 1] ELSE lost
      BY <1>1, <2>8 DEF SendError, Crash, LoseAnswer, SenderTypeOK
    <3>3. ~Attempts(s, l)
      BY <2>8, <3>2 DEF Moves, Attempts
    <3>4. \A t \in Senders : SameProc(t) \/ (~Attempts(t, l) /\ ~Attempts(t, l)')
      BY <1>1, <3>1, <3>3, OtherLogs
    <3>5. lost'[l] = lost[l]
      BY <1>1, <3>2, <3>3 DEF Attempts, HoldsAcceptance, SenderTypeOK
    <3> QED BY <1>2, <1>3, <3>2, <3>4, <3>5 DEF Steady
  <2>9. CASE DispatchByBeat \/ AccountChanges
    BY <1>5, <2>9 DEF DispatchByBeat, AccountChanges, histVars
  <2> QED BY <1>7, <2>1, <2>2, <2>3, <2>4, <2>5, <2>6, <2>7, <2>8, <2>9 DEF SenderNext
<1>8. CASE FeedNext
  BY <1>5, <1>8 DEF FeedNext, PollLoad, PollCommit, PollCrash, PollAsk, PollAuthError,
                    HookLoad, HookCommit, HookError, senderVars, histVars
<1> QED BY <1>7, <1>8 DEF Next
-----------------------------------------------------------------------------
\* The steps that count.

\* What a step of sender s makes of the set of those about to call for log l.
LEMMA CallingStep ==
  ASSUME SenderTypeOK, NEW s \in Senders, OthersSame(s), NEW l \in Logs,
         IsFiniteSet(Calling(l))
  PROVE  /\ s \notin Calling(l) /\ cur'[s] = l /\ pc'[s] = "call"
              => /\ IsFiniteSet(Calling(l))'
                 /\ Cardinality(Calling(l))' = Cardinality(Calling(l)) + 1
                 /\ Calling(l)' # {}
         /\ s \in Calling(l) /\ pc'[s] # "call"
              => /\ IsFiniteSet(Calling(l))'
                 /\ Cardinality(Calling(l))' = Cardinality(Calling(l)) - 1
                 /\ Calling(l)' = {} => Cardinality(Calling(l)) = 1
         /\ s \notin Calling(l) /\ pc'[s] # "call" => Calling(l)' = Calling(l)
<1>1. \A t \in Senders \ {s} : t \in Calling(l)' <=> t \in Calling(l)
  BY DEF OthersSame, SameProc, Calling
<1>2. ASSUME s \notin Calling(l), cur'[s] = l, pc'[s] = "call"
      PROVE  Calling(l)' = Calling(l) \cup {s}
  BY <1>1, <1>2 DEF Calling
<1>3. ASSUME pc'[s] # "call" PROVE Calling(l)' = Calling(l) \ {s}
  BY <1>1, <1>3 DEF Calling
<1>4. ASSUME s \in Calling(l), Calling(l) \ {s} = {} PROVE Cardinality(Calling(l)) = 1
  <2>1. Calling(l) = {s}
    BY <1>4
  <2> QED BY <2>1, FS_Singleton
<1>5. /\ IsFiniteSet(Calling(l) \cup {s})
      /\ s \notin Calling(l) => Cardinality(Calling(l) \cup {s}) = Cardinality(Calling(l)) + 1
  BY FS_AddElement
<1>6. /\ IsFiniteSet(Calling(l) \ {s})
      /\ s \in Calling(l) => Cardinality(Calling(l) \ {s}) = Cardinality(Calling(l)) - 1
  BY FS_RemoveElement
<1>7. ASSUME s \notin Calling(l), cur'[s] = l, pc'[s] = "call"
      PROVE  /\ IsFiniteSet(Calling(l))'
             /\ Cardinality(Calling(l))' = Cardinality(Calling(l)) + 1
             /\ Calling(l)' # {}
  BY <1>2, <1>5, <1>7
<1>8. ASSUME s \in Calling(l), pc'[s] # "call"
      PROVE  /\ IsFiniteSet(Calling(l))'
             /\ Cardinality(Calling(l))' = Cardinality(Calling(l)) - 1
             /\ Calling(l)' = {} => Cardinality(Calling(l)) = 1
  BY <1>3, <1>4, <1>6, <1>8
<1>9. ASSUME s \notin Calling(l), pc'[s] # "call" PROVE Calling(l)' = Calling(l)
  BY <1>3, <1>9
<1> QED BY <1>7, <1>8, <1>9

\* The attempts of the other senders go on as they were.
LEMMA OthersCount ==
  ASSUME NEW s \in Senders, OthersSame(s), NEW l, NEW t \in Senders \ {s}
  PROVE  /\ Attempts(t, l)' <=> Attempts(t, l)
         /\ Holds(t, l)' <=> Holds(t, l)
         /\ view'[t] = view[t]
  BY DEF OthersSame, SameProc, Attempts, Holds, HoldsAcceptance

\* An attempt begins: it is the only one, or it overlaps another.
LEMMA CountLoad ==
  ASSUME TypeOK, NEW s \in Senders, NEW l \in Logs, cur[s] = l, Counted(l),
         LoadSendable(s)
  PROVE  Counted(l)'
<1>1. SenderTypeOK /\ IsFiniteSet(Calling(l)) /\ BudgetOf(l) /\ CopiesOf(l)
  BY DEF TypeOK, Counted
<1>2. /\ calls[l] \in Nat /\ accepted[l] \in Nat /\ lost[l] \in Nat
      /\ retries[l] \in Nat /\ overlaps[l] \in Nat /\ faults \in Nat
      /\ row[l].attempts \in Nat /\ Backoffs \in Nat
      /\ Cardinality(Calling(l)) \in Nat
      /\ \A t \in Senders : view[t].attempts \in Nat
  BY <1>1, CountTypes
<1>3. /\ OthersSame(s) /\ cur'[s] = l /\ pc[s] = "load" /\ pc'[s] = "call"
      /\ view'[s] = row[l]
  BY <1>1 DEF LoadSendable, SenderTypeOK, OthersSame, SameProc
<1>4. /\ Fresh(l)
      /\ UNCHANGED <<row, calls, accepted, lost, retries, faults>>
      /\ overlaps'[l] = IF \E t \in Senders : IsOpen(t, l) THEN overlaps[l] + 1 ELSE overlaps[l]
  BY <1>1 DEF LoadSendable, Fresh, SenderTypeOK, dbVars
<1>5. s \notin Calling(l) /\ Attempts(s, l)'
  BY <1>3 DEF Calling, Attempts
<1>6. /\ IsFiniteSet(Calling(l))'
      /\ Cardinality(Calling(l))' = Cardinality(Calling(l)) + 1
      /\ Calling(l)' # {}
  BY <1>1, <1>3, <1>5, CallingStep
<1>7. \A t \in Senders \ {s} : /\ Attempts(t, l)' <=> Attempts(t, l)
                               /\ view'[t] = view[t]
  BY <1>3, OthersCount
<1>8. ASSUME NEW t \in Senders, ~IsOpen(t, l)
      PROVE  ~Attempts(t, l) /\ ~Holds(t, l) /\ t \notin Calling(l)
  BY <1>8 DEF IsOpen, Attempts, Holds, HoldsAcceptance, Calling
<1>9. CASE \E t \in Senders : IsOpen(t, l)
  <2>1. overlaps'[l] = overlaps[l] + 1
    BY <1>4, <1>9
  <2>2. BudgetOf(l)'
    BY <1>1, <1>2, <1>3, <1>4, <1>5, <1>6, <1>7, <2>1 DEF BudgetOf, Fresh
  <2>3. CopiesOf(l)'
    BY <1>1, <1>2, <1>4, <1>6, <2>1 DEF CopiesOf
  <2> QED BY <1>6, <2>2, <2>3 DEF Counted
<1>10. CASE \A t \in Senders : ~IsOpen(t, l)
  <2>1. overlaps'[l] = overlaps[l]
    BY <1>4, <1>10
  <2>2. \A t \in Senders : ~Attempts(t, l) /\ ~Holds(t, l)
    BY <1>8, <1>10
  <2>3. Calling(l) = {}
    BY <1>8, <1>10 DEF Calling
  <2>4. Cardinality(Calling(l)) = 0
    BY <2>3, FS_EmptySet
  <2>5. BudgetOf(l)'
    BY <1>1, <1>2, <1>3, <1>4, <1>5, <1>6, <1>7, <2>1, <2>2 DEF BudgetOf, Fresh
  <2>6. CopiesOf(l)'
    BY <1>1, <1>2, <1>4, <1>6, <2>1, <2>2, <2>3, <2>4 DEF CopiesOf
  <2> QED BY <1>6, <2>5, <2>6 DEF Counted
<1> QED BY <1>9, <1>10

\* An acceptance is lost at once, or the sender holds it.
LEMMA CallAnswers ==
  ASSUME TypeOK, NEW s \in Senders, NEW l \in Logs, cur[s] = l, CannotDecrypt(s) \/ CallProvider(s)
  PROVE  \/ accepted'[l] = accepted[l] /\ lost'[l] = lost[l]
         \/ accepted'[l] = accepted[l] + 1 /\ lost'[l] = lost[l] + 1
         \/ accepted'[l] = accepted[l] + 1 /\ lost'[l] = lost[l] /\ Holds(s, l)'
<1>1. SenderTypeOK
  BY DEF TypeOK
<1>2. CASE CannotDecrypt(s)
  BY <1>2 DEF CannotDecrypt, histVars
<1>3. CASE CallProvider(s)
  <2>1. PICK a \in {"accepted", "duplicate", "auth", "retryable", "rejected"},
             took \in BOOLEAN :
          /\ a = "accepted" => took
          /\ answer' = [answer EXCEPT ![s] = a]
          /\ accepted' = [accepted EXCEPT ![l] = IF took THEN @ + 1 ELSE @]
          /\ lost' = [lost EXCEPT ![l] = IF took /\ a # "accepted" THEN @ + 1 ELSE @]
    BY <1>3 DEF CallProvider
  <2>2. a = "accepted" => Holds(s, l)'
    BY <1>1, <1>3, <2>1 DEF CallProvider, Holds, HoldsAcceptance, SenderTypeOK
  <2> QED BY <1>1, <2>1, <2>2 DEF SenderTypeOK
<1> QED BY <1>2, <1>3

\* The attempt goes on to its commit, with or without a call.
LEMMA CountCall ==
  ASSUME TypeOK, NEW s \in Senders, NEW l \in Logs, cur[s] = l, Counted(l),
         CannotDecrypt(s) \/ CallProvider(s)
  PROVE  Counted(l)'
<1>1. SenderTypeOK /\ IsFiniteSet(Calling(l)) /\ BudgetOf(l) /\ CopiesOf(l)
  BY DEF TypeOK, Counted
<1>2. /\ calls[l] \in Nat /\ accepted[l] \in Nat /\ lost[l] \in Nat
      /\ retries[l] \in Nat /\ overlaps[l] \in Nat /\ faults \in Nat
      /\ row[l].attempts \in Nat /\ Backoffs \in Nat
      /\ Cardinality(Calling(l)) \in Nat
      /\ \A t \in Senders : view[t].attempts \in Nat
  BY <1>1, CountTypes
<1>3. /\ OthersSame(s) /\ cur'[s] = l /\ pc[s] = "call" /\ pc'[s] = "commit"
      /\ view'[s] = view[s] /\ answer'[s] # "unsendable"
  BY <1>1 DEF CannotDecrypt, CallProvider, SenderTypeOK, OthersSame, SameProc
<1>4. UNCHANGED <<row, retries, overlaps, faults>>
  BY DEF CannotDecrypt, CallProvider, dbVars, histVars
<1>5. s \in Calling(l) /\ Attempts(s, l) /\ Attempts(s, l)'
  BY <1>3 DEF Calling, Attempts
<1>6. /\ IsFiniteSet(Calling(l))'
      /\ Cardinality(Calling(l))' = Cardinality(Calling(l)) - 1
      /\ Calling(l)' = {} => Cardinality(Calling(l)) = 1
  BY <1>1, <1>3, <1>5, CallingStep
<1>7. \A t \in Senders : /\ Attempts(t, l)' <=> Attempts(t, l)
                         /\ view'[t] = view[t]
  BY <1>3, <1>5, OthersCount
<1>8. calls'[l] \in {calls[l], calls[l] + 1}
  BY <1>1 DEF CannotDecrypt, CallProvider, histVars, SenderTypeOK
<1>9. BudgetOf(l)'
  BY <1>1, <1>2, <1>4, <1>5, <1>6, <1>7, <1>8 DEF BudgetOf, Fresh
<1>10. \/ accepted'[l] = accepted[l] /\ lost'[l] = lost[l]
       \/ accepted'[l] = accepted[l] + 1 /\ lost'[l] = lost[l] + 1
       \/ accepted'[l] = accepted[l] + 1 /\ lost'[l] = lost[l] /\ Holds(s, l)'
  BY CallAnswers
<1>11. CopiesOf(l)'
  BY <1>1, <1>2, <1>4, <1>6, <1>10 DEF CopiesOf
<1> QED BY <1>6, <1>9, <1>11 DEF Counted

\* The commit of an attempt counts it on the row, over whatever the row counted.
LEMMA CountCommit ==
  ASSUME TypeOK, OpenViewsQueued, NEW s \in Senders, NEW l \in Logs, cur[s] = l,
         Counted(l), CommitAnswer(s), answer[s] # "unsendable"
  PROVE  Counted(l)'
<1>1. SenderTypeOK /\ IsFiniteSet(Calling(l)) /\ BudgetOf(l) /\ CopiesOf(l)
  BY DEF TypeOK, Counted
<1>2. /\ calls[l] \in Nat /\ accepted[l] \in Nat /\ lost[l] \in Nat
      /\ retries[l] \in Nat /\ overlaps[l] \in Nat /\ faults \in Nat
      /\ row[l].attempts \in Nat /\ Backoffs \in Nat
      /\ Cardinality(Calling(l)) \in Nat
      /\ \A t \in Senders : view[t].attempts \in Nat
  BY <1>1, CountTypes
<1>3. OthersSame(s) /\ pc[s] = "commit" /\ pc'[s] \in {"idle", "load"}
  BY <1>1, DoneProc DEF CommitAnswer
<1>4. UNCHANGED <<calls, accepted, lost, retries, overlaps, faults>>
  BY DEF CommitAnswer, histVars
<1>5. Attempts(s, l) /\ ~Attempts(s, l)' /\ s \notin Calling(l)
  BY <1>3 DEF Calling, Attempts
<1>6. Calling(l)' = Calling(l)
  BY <1>1, <1>3, <1>5, CallingStep
<1>7. \A t \in Senders \ {s} : /\ Attempts(t, l)' <=> Attempts(t, l)
                               /\ Holds(t, l)' <=> Holds(t, l)
                               /\ view'[t] = view[t]
  BY <1>3, OthersCount
<1>8. row[l] \in Row /\ view[s] \in Row /\ view[s].status = "queued"
  BY <1>1, <1>3 DEF SenderTypeOK, OpenViewsQueued
<1>9. row'[l] = FlushAnswer(row[l], view[s], answer[s])
  BY <1>1 DEF CommitAnswer, SenderTypeOK
<1>10. row'[l].attempts = view[s].attempts + 1
  BY <1>8, <1>9, FlushAnswerAttempts
<1>11. ASSUME Fresh(l)'
       PROVE  Fresh(l) /\ answer[s] # "accepted" /\ view[s].attempts + 1 <= Backoffs
  <2>1. /\ Recorded(view[s], answer[s]).status \in {"queued", "submitted", "skipped", "failed"}
        /\ Recorded(view[s], answer[s]).status = "submitted" <=> answer[s] = "accepted"
    BY <1>8, RecordedStatus
  <2>2. row'[l].status = IF Recorded(view[s], answer[s]).status = "queued"
                         THEN row[l].status ELSE Recorded(view[s], answer[s]).status
    BY <1>8, <1>9, FlushAnswerStatus
  <2>3. Recorded(view[s], answer[s]).status = "queued" /\ Fresh(l)
    BY <1>11, <2>1, <2>2 DEF Fresh
  <2> QED BY <1>8, <2>1, <2>3, RecordedAttempts
<1>12. BudgetOf(l)'
  BY <1>1, <1>2, <1>4, <1>5, <1>6, <1>7, <1>10, <1>11 DEF BudgetOf
<1>13. CopiesOf(l)'
  <2>1. ASSUME Fresh(l)', Calling(l)' = {}, \A t \in Senders : ~Holds(t, l)'
        PROVE  accepted[l] <= lost[l] + retries[l] + overlaps[l]
    <3>1. ~Holds(s, l)
      BY <1>11, <2>1 DEF Holds, HoldsAcceptance
    <3>2. \A t \in Senders : ~Holds(t, l)
      BY <1>7, <2>1, <3>1
    <3> QED BY <1>1, <1>6, <1>11, <2>1, <3>2 DEF CopiesOf
  <2> QED BY <1>1, <1>4, <1>6, <2>1 DEF CopiesOf
<1> QED BY <1>1, <1>6, <1>12, <1>13 DEF Counted

\* An attempt that a fault cuts short leaves the row as it was.
LEMMA CountLose ==
  ASSUME TypeOK, NEW s \in Senders, NEW l \in Logs, cur[s] = l, Counted(l),
         Attempts(s, l), SendError(s) \/ Crash(s)
  PROVE  Counted(l)'
<1>1. SenderTypeOK /\ IsFiniteSet(Calling(l)) /\ BudgetOf(l) /\ CopiesOf(l)
  BY DEF TypeOK, Counted
<1>2. /\ calls[l] \in Nat /\ accepted[l] \in Nat /\ lost[l] \in Nat
      /\ retries[l] \in Nat /\ overlaps[l] \in Nat /\ faults \in Nat
      /\ row[l].attempts \in Nat /\ Backoffs \in Nat
      /\ Cardinality(Calling(l)) \in Nat
      /\ \A t \in Senders : view[t].attempts \in Nat
  BY <1>1, CountTypes
<1>3. OthersSame(s) /\ pc'[s] \in {"idle", "load"}
  BY <1>1, DoneProc, CrashProc DEF SendError
<1>4. /\ UNCHANGED <<row, calls, accepted, retries, overlaps>> /\ faults' = faults + 1
      /\ lost'[l] = IF Holds(s, l) THEN lost[l] + 1 ELSE lost[l]
  BY <1>1 DEF SendError, Crash, LoseAnswer, Holds, dbVars, SenderTypeOK
<1>5. ~Attempts(s, l)' /\ ~Holds(s, l)'
  BY <1>3 DEF Attempts, Holds, HoldsAcceptance
<1>6. \A t \in Senders \ {s} : /\ Attempts(t, l)' <=> Attempts(t, l)
                               /\ Holds(t, l)' <=> Holds(t, l)
                               /\ view'[t] = view[t]
  BY <1>3, OthersCount
<1>7. CASE pc[s] = "call"
  <2>1. s \in Calling(l) /\ ~Holds(s, l)
    BY <1>7 DEF Calling, Holds, HoldsAcceptance
  <2>2. /\ IsFiniteSet(Calling(l))'
        /\ Cardinality(Calling(l))' = Cardinality(Calling(l)) - 1
        /\ Calling(l)' = {} => Cardinality(Calling(l)) = 1
    BY <1>1, <1>3, <2>1, CallingStep
  <2>3. BudgetOf(l)'
    BY <1>1, <1>2, <1>4, <1>5, <1>6, <2>2 DEF BudgetOf, Fresh
  <2>4. CopiesOf(l)'
    BY <1>1, <1>2, <1>4, <2>1, <2>2 DEF CopiesOf
  <2> QED BY <2>2, <2>3, <2>4 DEF Counted
<1>8. CASE pc[s] = "commit"
  <2>1. Calling(l)' = Calling(l)
    BY <1>1, <1>3, <1>8, CallingStep DEF Calling
  <2>2. BudgetOf(l)'
    BY <1>1, <1>2, <1>4, <1>5, <1>6, <2>1 DEF BudgetOf, Fresh
  <2>3. CopiesOf(l)'
    <3>1. CASE Holds(s, l)
      BY <1>1, <1>2, <1>4, <2>1, <3>1, FS_EmptySet DEF CopiesOf
    <3>2. CASE ~Holds(s, l)
      BY <1>1, <1>2, <1>4, <1>6, <2>1, <3>2 DEF CopiesOf, Fresh
    <3> QED BY <3>1, <3>2
  <2> QED BY <1>1, <2>1, <2>2, <2>3 DEF Counted
<1> QED BY <1>7, <1>8 DEF Attempts

LEMMA CountStep ==
  ASSUME TypeOK, OpenViewsQueued, CountInv, [Next]_vars PROVE CountInv'
<1> SUFFICES ASSUME NEW l \in Logs PROVE Counted(l)'
  BY DEF CountInv
<1>1. Counted(l) /\ TypeOK'
  BY TypeStep DEF CountInv
<1>2. CASE Steady(l)
  BY <1>1, <1>2, SteadyCounts
<1>3. ASSUME NEW s \in Senders, cur[s] = l, Moves(s) PROVE Counted(l)'
  BY <1>1, <1>3, CountLoad, CountCall, CountCommit, CountLose DEF Moves
<1>4. CASE UNCHANGED vars
  <2>1. \A s \in Senders : SameProc(s)
    BY <1>4 DEF vars, senderVars, procVars, SameProc
  <2>2. /\ retries'[l] \in Nat /\ retries[l] \in Nat
        /\ faults' \in Nat /\ faults \in Nat
    BY <1>1 DEF TypeOK, SenderTypeOK
  <2>3. Steady(l)
    BY <1>4, <2>1, <2>2 DEF vars, senderVars, histVars, dbVars, Steady, Fresh
  <2> QED BY <1>2, <2>3
<1> QED BY <1>2, <1>3, <1>4, StepKinds

LEMMA CountInvariant == Spec => [](TypeOK /\ CountInv)
<1>1. Init => CountInv
  <2> SUFFICES ASSUME Init, NEW l \in Logs PROVE Counted(l)
    BY DEF CountInv
  <2>1. Calling(l) = {}
    BY DEF Init, SenderInit, Calling
  <2>2. IsFiniteSet(Calling(l)) /\ Cardinality(Calling(l)) = 0
    BY <2>1, FS_EmptySet
  <2>3. \A s \in Senders : ~Attempts(s, l)
    BY DEF Init, SenderInit, Attempts
  <2>4. /\ row[l].attempts = 0 /\ calls[l] = 0 /\ accepted[l] = 0 /\ lost[l] = 0
        /\ retries[l] = 0 /\ overlaps[l] = 0 /\ faults = 0 /\ Backoffs \in Nat
    BY BackoffsAssumption DEF Init, SenderInit, NoRow
  <2>5. BudgetOf(l)
    BY <2>2, <2>3, <2>4 DEF BudgetOf
  <2>6. CopiesOf(l)
    BY <2>2, <2>4 DEF CopiesOf
  <2> QED BY <2>2, <2>5, <2>6 DEF Counted
<1>2. TypeOK /\ OpenViewsQueued /\ CountInv /\ [Next]_vars => CountInv'
  BY CountStep
<1> QED BY <1>1, <1>2, OpenViewsInvariant, PTL DEF Spec

\* For every deployment, whatever overlaps, crashes or expires: the provider is
\* called for a log at most 1 + Backoffs times, once more per retry by hand, per
\* overlapping send and per fault.  send_log's own counter, which a late commit
\* can even set back, still bounds it.
THEOREM RetryBudgetHolds == Spec => []RetryBudget
<1>1. ASSUME TypeOK, CountInv PROVE RetryBudget
  <2> SUFFICES ASSUME NEW l \in Logs
               PROVE  calls[l] <= Backoffs + 1 + overlaps[l] + retries[l] + faults
    BY DEF RetryBudget
  <2>1. IsFiniteSet(Calling(l)) /\ BudgetOf(l)
    BY <1>1 DEF CountInv, Counted
  <2>2. /\ calls[l] \in Nat /\ retries[l] \in Nat /\ overlaps[l] \in Nat /\ faults \in Nat
        /\ row[l].attempts \in Nat /\ Backoffs \in Nat
        /\ Cardinality(Calling(l)) \in Nat
        /\ \A s \in Senders : view[s].attempts \in Nat
    BY <1>1, <2>1, CountTypes
  <2> QED BY <2>1, <2>2 DEF BudgetOf
<1> QED BY <1>1, CountInvariant, PTL

\* For every deployment: the recipient gets a message more than once only for an
\* acceptance that never reached the row, a retry by hand or an overlapping send.
THEOREM DuplicatesExplainedHolds == Spec => []DuplicatesExplained
<1>1. ASSUME TypeOK, CountInv PROVE DuplicatesExplained
  <2> SUFFICES ASSUME NEW l \in Logs
               PROVE  accepted[l] <= 1 + lost[l] + retries[l] + overlaps[l]
    BY DEF DuplicatesExplained
  <2>1. IsFiniteSet(Calling(l)) /\ CopiesOf(l)
    BY <1>1 DEF CountInv, Counted
  <2>2. /\ accepted[l] \in Nat /\ lost[l] \in Nat /\ retries[l] \in Nat
        /\ overlaps[l] \in Nat /\ Cardinality(Calling(l)) \in Nat
    BY <1>1, <2>1, CountTypes
  <2> QED BY <2>1, <2>2 DEF CopiesOf
<1> QED BY <1>1, CountInvariant, PTL

-----------------------------------------------------------------------------
(* The ledger of acceptances of the logs that no two senders have worked on at once. *)

Pending == {"absent", "queued", "skipped"}

\* Of the acceptances of a log at most one is neither lost nor answered by a retry.  None
\* is while the log is pending or a sender may still send it, unless a sender holds it.
LedgerOf(l) ==
  /\ accepted[l] <= lost[l] + retries[l] + 1
  /\ /\ \A s \in Senders : ~Holds(s, l)
     /\ row[l].status \in Pending \/ \E s \in Senders : IsOpen(s, l)
     => accepted[l] <= lost[l] + retries[l]

Ledger == Crossing \subseteq crossed /\ \A l \in Logs \ crossed : LedgerOf(l)

\* A log that is loaded by a sender is queued.
LEMMA OpensQueued ==
  ASSUME TypeOK, Next, NEW l \in Logs, row[l].status # "queued"
  PROVE  \A t \in Senders : IsOpen(t, l)' => IsOpen(t, l)
<1> DEFINE Goal == \A t \in Senders : IsOpen(t, l)' => IsOpen(t, l)
<1> USE DEF IsOpen
<1>1. SenderTypeOK
  BY DEF TypeOK
<1>2. ASSUME UNCHANGED procVars PROVE Goal
  BY <1>2 DEF procVars
<1>3. ASSUME NEW s \in Senders, OthersSame(s), pc'[s] \notin {"call", "commit"} PROVE Goal
  BY <1>3 DEF OthersSame, SameProc
<1>4. CASE SenderNext
  <2>1. ASSUME NEW k \in Logs,
               \/ CreateByJob(k) \/ LoseTask(k) \/ BackoffElapses(k) \/ Ripen(k)
               \/ GrowStale(k) \/ LockExpires(k) \/ SendabilityChanges(k)
        PROVE  Goal
    BY <1>2, <2>1 DEF CreateByJob, LoseTask, BackoffElapses, Ripen, GrowStale,
                      LockExpires, SendabilityChanges
  <2>2. ASSUME NEW s \in InlineSenders, NEW k \in Logs, CreateInline(s, k) PROVE Goal
    BY <1>1, <1>2, <1>3, <2>2, WalkProc DEF CreateInline, Senders, procVars
  <2>3. ASSUME NEW s \in InlineSenders, NEW k \in Logs, RetryLoad(s, k) PROVE Goal
    BY <1>1, <2>3 DEF RetryLoad, Senders, SenderTypeOK
  <2>4. ASSUME NEW s \in InlineSenders, DispatchInline(s) PROVE Goal
    BY <1>1, <1>3, <2>4, WalkProc DEF DispatchInline, Senders
  <2>5. ASSUME NEW w \in CeleryWorkers, NEW k \in Logs, TakeTask(w, k) PROVE Goal
    BY <1>1, <1>3, <2>5, WalkProc DEF TakeTask, Senders
  <2>6. ASSUME NEW w \in CeleryWorkers, NEW k \in Logs, SkipTask(w, k) PROVE Goal
    BY <1>2, <2>6 DEF SkipTask
  <2>7. ASSUME NEW s \in Senders, SendStep(s) PROVE Goal
    <3>1. CASE LoadNotQueued(s) \/ CommitAnswer(s)
      BY <1>1, <1>3, <3>1, DoneProc DEF LoadNotQueued, CommitAnswer
    <3>2. CASE LoadUnsendable(s) \/ LoadSendable(s)
      <4>1. cur[s] # l /\ cur' = cur
        BY <3>2 DEF LoadUnsendable, LoadSendable
      <4>2. \A t \in Senders \ {s} : pc'[t] = pc[t]
        BY <1>1, <3>2 DEF LoadUnsendable, LoadSendable, SenderTypeOK
      <4> QED BY <4>1, <4>2
    <3>3. CASE CannotDecrypt(s) \/ CallProvider(s)
      BY <1>1, <3>3 DEF CannotDecrypt, CallProvider, SenderTypeOK
    <3>4. CASE RetryCommit(s)
      BY <1>1, <3>4 DEF RetryCommit, Forget, SenderTypeOK
    <3> QED BY <2>7, <3>1, <3>2, <3>3, <3>4 DEF SendStep
  <2>8. ASSUME NEW s \in Senders, SendError(s) PROVE Goal
    BY <1>1, <1>3, <2>8, DoneProc DEF SendError
  <2>9. ASSUME NEW s \in Senders, Crash(s) PROVE Goal
    BY <1>1, <1>3, <2>9, CrashProc
  <2>10. CASE DispatchByBeat \/ AccountChanges
    BY <1>2, <2>10 DEF DispatchByBeat, AccountChanges
  <2> QED BY <1>4, <2>1, <2>2, <2>3, <2>4, <2>5, <2>6, <2>7, <2>8, <2>9, <2>10
          DEF SenderNext
<1>5. CASE FeedNext
  BY <1>2, <1>5 DEF FeedNext, PollLoad, PollCommit, PollCrash, PollAsk, PollAuthError,
                    HookLoad, HookCommit, HookError, senderVars
<1> QED BY <1>4, <1>5 DEF Next

\* A step that neither calls nor ends an attempt of the log.
LEMMA LedgerSteady ==
  ASSUME TypeOK, OpenViewsQueued, Next, TypeOK', NEW l \in Logs, LedgerOf(l), Steady(l)
  PROVE  LedgerOf(l)'
<1>1. /\ accepted'[l] = accepted[l] /\ lost'[l] = lost[l] /\ retries'[l] >= retries[l]
      /\ accepted[l] \in Nat /\ lost[l] \in Nat /\ retries[l] \in Nat /\ retries'[l] \in Nat
  BY DEF Steady, TypeOK, SenderTypeOK
<1>2. \A s \in Senders : Holds(s, l)' <=> Holds(s, l)
  BY DEF Steady, SameProc, Attempts, Holds, HoldsAcceptance
<1>3. ASSUME \A s \in Senders : ~Holds(s, l)',
             row'[l].status \in Pending \/ \E s \in Senders : IsOpen(s, l)'
      PROVE  accepted[l] <= lost[l] + retries'[l]
  <2>1. CASE row[l].status \in Pending \/ \E s \in Senders : IsOpen(s, l)
    <3>1. accepted[l] <= lost[l] + retries[l]
      BY <1>2, <1>3, <2>1 DEF LedgerOf
    <3> QED BY <1>1, <3>1
  <2>2. CASE row[l].status \notin Pending /\ \A s \in Senders : ~IsOpen(s, l)
    <3>1. \A s \in Senders : ~IsOpen(s, l)'
      BY <2>2, OpensQueued DEF Pending
    <3>2. row'[l].status \in Pending /\ StatusChange(l)
      BY <1>3, <3>1, StatusStep
    <3>3. PICK s \in Senders : RetryCommit(s) /\ cur[s] = l
      BY <2>2, <3>2 DEF StatusChange, Pending, TypeOK, WebhookStatus, CommitAnswer, IsOpen
    <3>4. retries'[l] = retries[l] + 1
      BY <3>3 DEF RetryCommit, TypeOK, SenderTypeOK
    <3> QED BY <1>1, <3>4 DEF LedgerOf
  <2> QED BY <2>1, <2>2
<1> QED BY <1>1, <1>3 DEF LedgerOf

\* A step of the one sender that works on the log.
LEMMA LedgerMove ==
  ASSUME TypeOK, OpenViewsQueued, NEW l \in Logs, l \notin Crossing, l \notin Crossing', LedgerOf(l),
         NEW s \in Senders, cur[s] = l, Moves(s)
  PROVE  LedgerOf(l)'
<1>1. SenderTypeOK /\ accepted[l] \in Nat /\ lost[l] \in Nat /\ retries[l] \in Nat
  BY DEF TypeOK, SenderTypeOK
<1>2. ASSUME NEW t \in Senders \ {s}, OthersSame(s)
      PROVE  (IsOpen(t, l)' <=> IsOpen(t, l)) /\ (Holds(t, l)' <=> Holds(t, l))
  BY <1>2 DEF OthersSame, SameProc, IsOpen, Holds, HoldsAcceptance
<1>3. \A t \in Senders : Holds(t, l) => IsOpen(t, l)
  BY DEF Holds, HoldsAcceptance, IsOpen
<1>4. \A t, u \in Senders : /\ IsOpen(t, l) /\ IsOpen(u, l) => t = u
                            /\ IsOpen(t, l)' /\ IsOpen(u, l)' => t = u
  BY DEF Crossing
<1>5. CASE LoadSendable(s)
  <2>1. /\ OthersSame(s) /\ IsOpen(s, l)' /\ ~Holds(s, l) /\ row[l].status = "queued"
        /\ UNCHANGED <<accepted, lost, retries>>
    BY <1>1, <1>5 DEF LoadSendable, OthersSame, SameProc, SenderTypeOK, IsOpen, Holds, HoldsAcceptance
  <2>2. \A t \in Senders : ~Holds(t, l)
    BY <1>2, <1>3, <1>4, <2>1
  <2> QED BY <1>1, <2>1, <2>2 DEF LedgerOf, Pending
<1>6. CASE CannotDecrypt(s) \/ CallProvider(s)
  <2>1. /\ OthersSame(s) /\ IsOpen(s, l) /\ ~Holds(s, l) /\ IsOpen(s, l)'
        /\ UNCHANGED retries
    BY <1>1, <1>6 DEF CannotDecrypt, CallProvider, OthersSame, SameProc, SenderTypeOK, IsOpen, Holds,
                      HoldsAcceptance, histVars
  <2>2. accepted[l] <= lost[l] + retries[l]
    BY <1>3, <1>4, <2>1 DEF LedgerOf
  <2>3. \/ accepted'[l] = accepted[l] /\ lost'[l] = lost[l]
        \/ accepted'[l] = accepted[l] + 1 /\ lost'[l] = lost[l] + 1
        \/ accepted'[l] = accepted[l] + 1 /\ lost'[l] = lost[l] /\ Holds(s, l)'
    BY <1>6, CallAnswers
  <2> QED BY <1>1, <2>1, <2>2, <2>3 DEF LedgerOf
<1>7. CASE CommitAnswer(s)
  <2>1. /\ IsOpen(s, l) /\ OthersSame(s) /\ pc'[s] \in {"idle", "load"}
        /\ UNCHANGED <<accepted, lost, retries>>
    BY <1>1, <1>7, DoneProc DEF CommitAnswer, IsOpen, histVars
  <2>2. \A t \in Senders : ~IsOpen(t, l)'
    BY <1>2, <1>4, <2>1 DEF IsOpen
  <2>3. CASE ~Holds(s, l)
    <3>1. accepted[l] <= lost[l] + retries[l]
      BY <1>3, <1>4, <2>1, <2>3 DEF LedgerOf
    <3> QED BY <1>1, <2>1, <3>1 DEF LedgerOf
  <2>4. CASE Holds(s, l)
    <3>1. /\ row[l] \in Row /\ view[s] \in Row /\ view[s].status = "queued"
          /\ row'[l] = FlushAnswer(row[l], view[s], "accepted")
      BY <1>1, <1>7, <2>4 DEF CommitAnswer, SenderTypeOK, Holds, HoldsAcceptance, OpenViewsQueued
    <3>2. Recorded(view[s], "accepted").status = "submitted"
      BY <3>1, RecordedStatus
    <3>3. row'[l].status = "submitted"
      BY <3>1, <3>2, FlushAnswerStatus
    <3> QED BY <2>1, <2>2, <3>3 DEF LedgerOf, Pending
  <2> QED BY <2>3, <2>4
<1>8. CASE Attempts(s, l) /\ (SendError(s) \/ Crash(s))
  <2>1. /\ IsOpen(s, l) /\ UNCHANGED <<accepted, retries>>
        /\ lost'[l] = IF Holds(s, l) THEN lost[l] + 1 ELSE lost[l]
    BY <1>1, <1>8 DEF Attempts, IsOpen, SendError, Crash, LoseAnswer, Holds, SenderTypeOK
  <2>2. CASE Holds(s, l)
    BY <1>1, <2>1, <2>2 DEF LedgerOf
  <2>3. CASE ~Holds(s, l)
    <3>1. accepted[l] <= lost[l] + retries[l]
      BY <1>3, <1>4, <2>1, <2>3 DEF LedgerOf
    <3> QED BY <1>1, <2>1, <2>3, <3>1 DEF LedgerOf
  <2> QED BY <2>2, <2>3
<1> QED BY <1>5, <1>6, <1>7, <1>8 DEF Moves

LEMMA LedgerStep ==
  ASSUME TypeOK, OpenViewsQueued, Ledger, [Next]_vars PROVE Ledger'
<1>1. CASE Next
  <2>1. crossed' = crossed \cup Crossing' /\ Crossing \subseteq crossed
    BY <1>1 DEF Next, Ledger
  <2>2. ASSUME NEW l \in Logs \ crossed' PROVE LedgerOf(l)'
    <3>1. l \notin Crossing /\ l \notin Crossing' /\ LedgerOf(l) /\ TypeOK'
      BY <2>1, <2>2, TypeStep DEF Ledger
    <3>2. Steady(l) \/ \E s \in Senders : cur[s] = l /\ Moves(s)
      BY <1>1, <2>2, StepKinds
    <3> QED BY <1>1, <2>2, <3>1, <3>2, LedgerSteady, LedgerMove
  <2> QED BY <2>1, <2>2 DEF Ledger
<1>2. CASE UNCHANGED vars
  BY <1>2 DEF vars, senderVars, procVars, dbVars, histVars, Ledger, LedgerOf, Crossing, Holds,
              HoldsAcceptance, IsOpen
<1> QED BY <1>1, <1>2

\* For every deployment, whatever crashes, expires or is retried: on a log that no two
\* senders have had loaded at once, an acceptance that was not lost stands on the row, and
\* neither the poll nor late events take it off again.
THEOREM AcceptedOnce == Spec => []AcceptanceRecorded
<1>1. Init => Ledger
  BY DEF Init, SenderInit, Ledger, LedgerOf, Crossing, IsOpen, Holds, HoldsAcceptance
<1>2. TypeOK /\ OpenViewsQueued /\ Ledger /\ [Next]_vars => Ledger'
  BY LedgerStep
<1>3. ASSUME TypeOK, Ledger PROVE AcceptanceRecorded
  <2>1. SUFFICES ASSUME NEW l \in Logs \ crossed, accepted[l] > lost[l] + retries[l],
                        \A s \in Senders : ~Holds(s, l)
                 PROVE  row[l].status \notin Pending
    BY DEF AcceptanceRecorded, Holds, Pending
  <2>2. accepted[l] \in Nat /\ lost[l] \in Nat /\ retries[l] \in Nat /\ LedgerOf(l)
    BY <1>3 DEF TypeOK, SenderTypeOK, Ledger
  <2> QED BY <2>1, <2>2 DEF LedgerOf
<1> QED BY <1>1, <1>2, <1>3, OpenViewsInvariant, PTL DEF Spec
=============================================================================
