---------------------------- MODULE AiSchedules ----------------------------
(* What the assistant does by itself (ai_chat_layer/scheduler.py): reports  *)
(* on a cron schedule and anomaly alerts with a cooldown.  Unless its owner *)
(* is a super administrator an item waits for an approval; Celery Beat      *)
(* starts a run per kind and interval, kept apart by a Redis lock that      *)
(* lives a little less than the interval, and every item of a run is one    *)
(* turn of the assistant.                                                   *)
EXTENDS Naturals, FiniteSets
CONSTANTS Reports, Alerts,      \* the items: ai_scheduled_query, ai_anomaly_subscription
          Runners,              \* Celery worker processes
          Period,               \* intervals between occurrences, and the cooldown
          Horizon,              \* a bound: the last interval
          MaxResumes            \* a bound on the times owners resume an item
\* Two tables, and a cron expression that has a next occurrence.
ASSUME ItemsAssumption == Reports \cap Alerts = {} /\ Period \in Nat \ {0} /\ Horizon \in Nat
Items == Reports \cup Alerts
Never == Horizon + Period + 1   \* next_run_at IS NULL
NoRun == [items |-> {}, base |-> 0, todo |-> {}, doing |-> {}]
VARIABLES item,       \* [Items -> [state, own, active, due]]: the rows
          approval,   \* the status of each item's ai_approval row
          verdicts,   \* decisions whose request has read the approval as pending
          now, lock, run,
          resumes,
          answered,      \* the occurrences of each item that were answered
          doubled,    \* the items of which one was answered twice
          outlived,   \* runs over these items lasted beyond their lock
          unrecorded, \* items whose turn was not recorded after it answered
          bypass      \* the items made active with no approval then pending
schedulesVars == <<item, approval, verdicts, now, lock, run, resumes,
                   answered, doubled, outlived, unrecorded, bypass>>
rowsVars == <<item, approval, verdicts, resumes, bypass>>
runsVars == <<lock, run, answered, doubled, outlived, unrecorded>>
-----------------------------------------------------------------------------
\* Mutant: an occurrence at t itself counts as the next.
NextOrSame(t) == (t \div Period) * Period
_next_run_at(t) == ((t \div Period) + 1) * Period

SchedulesInit ==
  /\ item \in [Items -> [state : {"new"}, own : BOOLEAN, active : {FALSE}, due : {Never}]]
  /\ approval = [i \in Items |-> "none"] /\ verdicts = [i \in Items |-> {}]
  /\ now = 0 /\ lock = {} /\ run = [w \in Runners |-> NoRun] /\ resumes = 0
  /\ answered = [i \in Items |-> {}]
  /\ doubled = {} /\ outlived = {} /\ unrecorded = {} /\ bypass = {}

Present(i) == item[i].state \in {"asking", "kept"}
AwaitsApproval(i) == approval[i] = "pending"
\* Active from now on: a report is due at its next occurrence, an alert
\* whenever its cooldown allows.
Activated(i) == [item[i] EXCEPT !.active = TRUE,
                                !.due = IF i \in Reports THEN _next_run_at(now) ELSE @]
-----------------------------------------------------------------------------
\* A super administrator's item is active at once; another one is committed
\* inactive first and its approval is asked for in a second transaction,
\* before which the process may die.
create(i) ==
  /\ item[i].state = "new"
  /\ LET due == IF i \in Reports THEN Never ELSE 0
         row == [item[i] EXCEPT !.state = "asking", !.due = due]
     IN item' = [item EXCEPT ![i] = IF ~row.own THEN row
          ELSE [Activated(i) EXCEPT !.state = "kept",
                                    !.due = IF i \in Reports THEN @ ELSE 0]]
  /\ UNCHANGED <<approval, verdicts, resumes, bypass>>
AskApproval(i) == /\ item[i].state = "asking" /\ item' = [item EXCEPT ![i].state = "kept"]
                  /\ approval' = [approval EXCEPT ![i] = "pending"]
                  /\ UNCHANGED <<verdicts, resumes, bypass>>
AskNothing(i) == /\ item[i].state = "asking" /\ item' = [item EXCEPT ![i].state = "kept"]
                 /\ UNCHANGED <<approval, verdicts, resumes, bypass>>

\* Mutant: a pending approval does not hold the owner back.
MayResumeAnyTime(i) == TRUE
MayResume(i) == ~AwaitsApproval(i)
resume(i) == /\ Present(i) /\ resumes < MaxResumes /\ MayResume(i)
             /\ item' = [item EXCEPT ![i] = Activated(i)] /\ resumes' = resumes + 1
             /\ bypass' = IF item[i].own \/ approval[i] = "approved" THEN bypass
                          ELSE bypass \cup {<<i, approval[i]>>}
             /\ UNCHANGED <<approval, verdicts>>
pause(i) == /\ Present(i) /\ item[i].active /\ item' = [item EXCEPT ![i].active = FALSE]
            /\ UNCHANGED <<approval, verdicts, resumes, bypass>>
\* A pending approval expires with the row.
delete(i) == /\ item[i].state = "kept" /\ item' = [item EXCEPT ![i].state = "gone"]
             /\ approval' = [approval EXCEPT ![i] = IF AwaitsApproval(i) THEN "expired" ELSE @]
             /\ UNCHANGED <<verdicts, resumes, bypass>>

\* An approver's request reads the approval, then writes it by its key.  The
\* update of an item deleted meanwhile finds no row and undoes the decision.
decide(i, v) == /\ AwaitsApproval(i) /\ v \notin verdicts[i]
                /\ verdicts' = [verdicts EXCEPT ![i] = @ \cup {v}]
                /\ UNCHANGED <<item, approval, resumes, bypass>>
Decided(i, v) ==
  /\ v \in verdicts[i] /\ verdicts' = [verdicts EXCEPT ![i] = @ \ {v}]
  /\ \/ v = "approved" /\ item[i].state = "gone" /\ UNCHANGED <<item, approval, bypass>>
     \/ /\ v = "approved" => item[i].state # "gone"
        /\ approval' = [approval EXCEPT ![i] = v]
        /\ item' = [item EXCEPT ![i] = IF v = "approved" THEN Activated(i) ELSE @]
        /\ bypass' = IF AwaitsApproval(i) THEN bypass ELSE bypass \cup {<<i, "contested">>}
  /\ UNCHANGED resumes
-----------------------------------------------------------------------------
Due(i) == item[i].state # "new" /\ Present(i) /\ item[i].active /\ item[i].due <= now
SetRun(w, r) == run' = [run EXCEPT ![w] = r]
\* A run reads its rows once: at most 50 due reports, or all active alerts.
Start(w, K) ==
  /\ run[w] = NoRun /\ K \notin lock /\ {i \in K : Due(i)} # {}
  /\ lock' = lock \cup {K}
  /\ SetRun(w, [items |-> K, base |-> now, doing |-> {},
                todo |-> {[of |-> i, due |-> item[i].due] : i \in {i \in K : Due(i)}}])
  /\ UNCHANGED <<answered, doubled, outlived, unrecorded>>

\* The turn for one item, up to its reply.  An alert's cooldown is looked at
\* again; that the item is still active is not.
Cool(w, t) == t.of \in Reports \/ item[t.of].due <= run[w].base
Occurrence(t) == IF t.of \in Reports THEN t.due ELSE item[t.of].due
RunTurn(w, t) ==
  /\ t \in run[w].todo /\ run[w].doing = {} /\ Present(t.of) /\ Cool(w, t)
  /\ SetRun(w, [run[w] EXCEPT !.todo = @ \ {t}, !.doing = {t.of}])
  /\ answered' = [answered EXCEPT ![t.of] = @ \cup {Occurrence(t)}]
  /\ doubled' = IF Occurrence(t) \in answered[t.of] THEN doubled \cup {t.of} ELSE doubled
  /\ UNCHANGED <<lock, outlived, unrecorded>>
\* An alert in its cooldown, one with nothing to report, an owner who left.
PassOver(w, t) == /\ t \in run[w].todo /\ run[w].doing = {}
                  /\ SetRun(w, [run[w] EXCEPT !.todo = @ \ {t}])
                  /\ UNCHANGED <<lock, answered, doubled, outlived, unrecorded>>
\* The row of an item deleted meanwhile cannot be refreshed: the run ends.
RunStops(w, t) == /\ t \in run[w].todo /\ run[w].doing = {} /\ ~Present(t.of)
                 /\ SetRun(w, NoRun) /\ lock' = lock \ {run[w].items}
                 /\ UNCHANGED <<answered, doubled, outlived, unrecorded>>

\* The occurrence is recorded by the time the run began.
Advanced(i, base) ==
  [item[i] EXCEPT !.due = IF i \in Reports THEN _next_run_at(base) ELSE base + Period]
Record(w, i) == /\ i \in run[w].doing /\ SetRun(w, [run[w] EXCEPT !.doing = {}])
                /\ item' = [item EXCEPT ![i] = IF Present(i) THEN Advanced(i, run[w].base) ELSE @]
                /\ UNCHANGED <<lock, answered, doubled, outlived, unrecorded>>
\* The quota's commit or the record itself fails once the reply is posted.
RecordFails(w, i) == /\ i \in run[w].doing /\ SetRun(w, [run[w] EXCEPT !.doing = {}])
                     /\ unrecorded' = unrecorded \cup {i}
                     /\ UNCHANGED <<lock, answered, doubled, outlived>>
\* Whoever ends deletes the lock of its kind, another run's too.
End(w) == /\ run[w] # NoRun /\ run[w].todo = {} /\ run[w].doing = {}
          /\ SetRun(w, NoRun) /\ lock' = lock \ {run[w].items}
          /\ UNCHANGED <<answered, doubled, outlived, unrecorded>>
RunKilled(w) == /\ run[w] # NoRun /\ SetRun(w, NoRun) /\ unrecorded' = unrecorded \cup run[w].doing
             /\ UNCHANGED <<lock, answered, doubled, outlived>>
\* An interval passes, and with it the life of every lock.
Interval == /\ now < Horizon /\ now' = now + 1 /\ lock' = {}
            /\ outlived' = outlived \cup UNION {run[w].items : w \in Runners}
            /\ UNCHANGED <<rowsVars, run, answered, doubled, unrecorded>>

RowsStep == \E i \in Items : \/ create(i) \/ AskApproval(i) \/ AskNothing(i)
                             \/ resume(i) \/ pause(i) \/ delete(i)
                             \/ \E v \in {"approved", "declined"} : decide(i, v) \/ Decided(i, v)
RunsStep == \E w \in Runners :
              \/ \E K \in {Reports, Alerts} : Start(w, K)
              \/ \E t \in run[w].todo : RunTurn(w, t) \/ PassOver(w, t) \/ RunStops(w, t)
              \/ End(w) \/ RunKilled(w) \/ \E i \in run[w].doing : RecordFails(w, i)
RecordStep == \E w \in Runners : \E i \in run[w].doing :
                Record(w, i) /\ UNCHANGED <<approval, verdicts, resumes, bypass, now>>
SchedulesNext == \/ RowsStep /\ UNCHANGED <<runsVars, now>>
                 \/ RunsStep /\ UNCHANGED <<rowsVars, now>>
                 \/ RecordStep \/ Interval
SchedulesSpec == SchedulesInit /\ [][SchedulesNext]_schedulesVars
-----------------------------------------------------------------------------
(* An item that needs an approval and is active without one was resumed by  *)
(* its owner before the approval was asked for or after it was declined, or *)
(* two approvers decided at once: never while the approval is pending.      *)
ActiveExplained ==
  \A i \in Items : Present(i) /\ item[i].active /\ ~item[i].own /\ approval[i] # "approved"
    => \E why \in {"none", "declined", "contested"} : <<i, why>> \in bypass
(* An occurrence is answered twice only when a run outlived the lock of its *)
(* kind or the answer could not be recorded: pausing, resuming, deciding    *)
(* and the runs of other items never repeat one.                            *)
FiresExplained == \A i \in doubled : i \in outlived \cup unrecorded
=============================================================================
