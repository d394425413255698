--------------------------- MODULE NotifSchedules --------------------------
(* Scheduled notifications: the requests that create, edit and cancel them, *)
(* and the ticks that fire them, by Celery Beat (celery_tasks.py) and by    *)
(* the fallback loop (scheduler.py), under one Redis key with a TTL.        *)
EXTENDS Naturals, FiniteSets

CONSTANTS Schedules, Ticks, Clerks, LastDay, MaxEdits1, MaxTickFaults
ASSUME SchedulesAssumption == LastDay \in Nat /\ IsFiniteSet(Ticks)

VARIABLES plan1,     \* [status, at, repeat] of each schedule
          day,
          key,       \* notif:lock:scheduled exists
          tick,      \* what each tick is doing
          clerk,     \* what each request has loaded
          fired,     \* notifications created for the present occurrence
          halted,    \* since its cancellation was confirmed: ticks that held it then, firings
          excused,   \* occurrences sent again after an expired key or a lost commit
          keyless,   \* ticks whose key expired, or was deleted, under them
          edits1, tickFaults
schedVars == <<plan1, day, key, tick, clerk, fired, halted, excused, keyless, edits1, tickFaults>>

NoRow1 == [status |-> "none", at |-> 0, repeat |-> "once"]
Asleep == [at |-> "idle"]
NotHalted == [yes |-> FALSE, holders |-> 0, fires |-> 0]

SchedInit ==
  /\ plan1 = [s \in Schedules |-> NoRow1]
  /\ day = 0 /\ key = FALSE
  /\ tick = [t \in Ticks |-> Asleep] /\ clerk = [c \in Clerks |-> Asleep]
  /\ fired = [s \in Schedules |-> 0]
  /\ halted = [s \in Schedules |-> NotHalted]
  /\ excused = {} /\ keyless = {} /\ edits1 = 0 /\ tickFaults = 0

Ticking(t, next) == tick' = [tick EXCEPT ![t] = next]

DayPasses == /\ day < LastDay /\ day' = day + 1
             /\ UNCHANGED <<plan1, key, tick, clerk, fired, halted, excused, keyless, edits1, tickFaults>>

\* create_schedule, after the target has been resolved once.
CreateSchedule(s) ==
  \E d \in day .. LastDay, r \in {"once", "daily"} :
    /\ plan1[s] = NoRow1
    /\ plan1' = [plan1 EXCEPT ![s] = [status |-> "pending", at |-> d, repeat |-> r]]
    /\ UNCHANGED <<day, key, tick, clerk, fired, halted, excused, keyless, edits1, tickFaults>>

\* edit_schedule and cancel_schedule load a pending row; nothing locks it.
RequestLoad1(c, s) ==
  \E op \in {"cancel", "edit"}, d \in day .. LastDay :
    /\ clerk[c] = Asleep /\ edits1 < MaxEdits1 /\ plan1[s].status = "pending"
    /\ op = "cancel" => d = day
    /\ clerk' = [clerk EXCEPT ![c] = [at |-> op, row |-> s, day |-> d, was |-> plan1[s]]]
    /\ edits1' = edits1 + 1
    /\ UNCHANGED <<plan1, day, key, tick, fired, halted, excused, keyless, tickFaults>>

\* The commit writes the columns that differ from what was loaded.  An edit of the time
\* starts an occurrence anew.
EditCommit(c) ==
  LET q == clerk[c] s == q.row moved == q.day # q.was.at IN
    /\ q.at = "edit"
    /\ plan1' = [plan1 EXCEPT ![s].at = IF moved THEN q.day ELSE @]
    /\ fired' = [fired EXCEPT ![s] = IF moved THEN 0 ELSE @]
    /\ excused' = IF moved THEN excused \ {s} ELSE excused
    /\ clerk' = [clerk EXCEPT ![c] = Asleep]
    /\ UNCHANGED <<day, key, tick, halted, keyless, edits1, tickFaults>>

CancelCommit(c) ==
  LET s == clerk[c].row IN
    /\ clerk[c].at = "cancel"
    /\ plan1' = [plan1 EXCEPT ![s].status = "cancelled"]
    /\ halted' = [halted EXCEPT ![s] =
         IF @.yes THEN @ ELSE [yes |-> TRUE, fires |-> 0, holders |-> Cardinality(
           {t \in Ticks : tick[t].at \in {"fire", "mark"} /\ s \in tick[t].todo})]]
    /\ clerk' = [clerk EXCEPT ![c] = Asleep]
    /\ UNCHANGED <<day, key, tick, fired, excused, keyless, edits1, tickFaults>>

\* acquire_scheduler_lock; whoever does not get the key skips the tick.
Acquire(t) ==
  /\ tick[t] = Asleep /\ ~key
  /\ key' = TRUE /\ Ticking(t, [at |-> "load"])
  /\ UNCHANGED <<plan1, day, clerk, fired, halted, excused, keyless, edits1, tickFaults>>

\* Mutant: whatever is due is fired, whatever has become of it.
DueWhatever == {s \in Schedules : plan1[s] # NoRow1 /\ plan1[s].at =< day}

\* get_pending_schedules.
Pending == {s \in Schedules : plan1[s].status = "pending" /\ plan1[s].at =< day}

LoadPending(t) ==
  /\ tick[t].at = "load"
  /\ Ticking(t, [at |-> "fire", todo |-> Pending])
  /\ excused' = IF keyless # {} THEN excused \cup Pending ELSE excused
  /\ UNCHANGED <<plan1, day, key, clerk, fired, halted, keyless, edits1, tickFaults>>

\* create_notification and the publications; its commit expires the loaded rows, so the
\* schedule is read afresh here, but its status is not looked at.
Fire(t, s) ==
  /\ tick[t].at = "fire" /\ s \in tick[t].todo
  /\ fired' = [fired EXCEPT ![s] = @ + 1]
  /\ excused' = IF keyless # {} THEN excused \cup {s} ELSE excused
  /\ halted' = [halted EXCEPT ![s].fires = IF halted[s].yes THEN @ + 1 ELSE @]
  /\ Ticking(t, [at |-> "mark", row |-> s, was |-> plan1[s], todo |-> tick[t].todo \ {s}])
  /\ UNCHANGED <<plan1, day, key, clerk, keyless, edits1, tickFaults>>

\* Mutant: a schedule that is sent once stays pending.
MarkedOnce(was) == was

\* What the tick makes of the row it has read: sent, or the next day until repeat_until.
Marked(was) ==
  IF was.repeat = "once" THEN [was EXCEPT !.status = "sent"]
  ELSE [was EXCEPT !.at = @ + 1, !.status = IF was.at + 1 > LastDay THEN "sent" ELSE @]

MarkFired(t) ==
  LET job == tick[t] s == job.row IN
    /\ job.at = "mark"
    /\ plan1' = [plan1 EXCEPT ![s].status = IF Marked(job.was).status = job.was.status THEN @
                                            ELSE Marked(job.was).status,
                              ![s].at = IF Marked(job.was).at = job.was.at THEN @ ELSE Marked(job.was).at]
    /\ fired' = [fired EXCEPT ![s] = IF Marked(job.was).at # job.was.at THEN 0 ELSE @]
    /\ Ticking(t, [at |-> "fire", todo |-> job.todo])
    /\ UNCHANGED <<day, key, clerk, halted, excused, keyless, edits1, tickFaults>>

\* A commit that fails: Celery rolls back and goes on; the loop's session is broken and
\* the rest of its tick fails with it.
MarkFails(t) ==
  /\ tick[t].at = "mark" /\ tickFaults < MaxTickFaults
  /\ \E rest \in {tick[t].todo, {}} :
    /\ excused' = excused \cup {tick[t].row}
    /\ Ticking(t, [at |-> "fire", todo |-> rest])
    /\ tickFaults' = tickFaults + 1
    /\ UNCHANGED <<plan1, day, key, clerk, fired, halted, keyless, edits1>>

\* TargetValidationError: the schedule is passed over and stays pending.
Unresolved(t, s) ==
  /\ tick[t].at = "fire" /\ s \in tick[t].todo
  /\ Ticking(t, [at |-> "fire", todo |-> tick[t].todo \ {s}])
  /\ UNCHANGED <<plan1, day, key, clerk, fired, halted, excused, keyless, edits1, tickFaults>>

\* release_scheduler_lock deletes the key, whoever's it is.
Release(t) ==
  /\ tick[t].at = "fire" /\ tick[t].todo = {}
  /\ key' = FALSE /\ keyless' = {u \in Ticks \ {t} : tick[u] # Asleep} /\ Ticking(t, Asleep)
  /\ UNCHANGED <<plan1, day, clerk, fired, halted, excused, edits1, tickFaults>>

\* The process dies; its key stays until the TTL.
TickCrash(t) ==
  /\ tick[t] # Asleep /\ tickFaults < MaxTickFaults
  /\ excused' = IF tick[t].at = "mark" THEN excused \cup {tick[t].row} ELSE excused
  /\ keyless' = keyless \ {t} /\ Ticking(t, Asleep) /\ tickFaults' = tickFaults + 1
  /\ UNCHANGED <<plan1, day, key, clerk, fired, halted, edits1>>

\* After 55 s the key is gone, whether or not its tick has ended.
KeyExpires ==
  /\ key /\ key' = FALSE
  /\ keyless' = {t \in Ticks : tick[t] # Asleep}
  /\ UNCHANGED <<plan1, day, tick, clerk, fired, halted, excused, edits1, tickFaults>>

SchedNext ==
  \/ DayPasses \/ KeyExpires
  \/ \E s \in Schedules : CreateSchedule(s)
  \/ \E c \in Clerks : EditCommit(c) \/ CancelCommit(c) \/ \E s \in Schedules : RequestLoad1(c, s)
  \/ \E t \in Ticks : \/ Acquire(t) \/ LoadPending(t) \/ MarkFired(t) \/ MarkFails(t)
                      \/ Release(t) \/ TickCrash(t)
                      \/ \E s \in Schedules : Fire(t, s) \/ Unresolved(t, s)

SchedSpec == SchedInit /\ [][SchedNext]_schedVars
-----------------------------------------------------------------------------
\* scheduler.py: "no double execution": an occurrence of a schedule becomes one
\* notification, unless a tick outlived its key or the commit after the sending was lost.
FiredOnceExplained ==
  \A s \in Schedules : fired[s] > 1 => s \in excused

\* A schedule whose cancellation was confirmed is fired at most by the ticks that had
\* loaded it before, and never becomes pending again.
CancelHolds ==
  \A s \in Schedules :
    halted[s].yes => halted[s].fires =< halted[s].holders /\ plan1[s].status # "pending"
=============================================================================
