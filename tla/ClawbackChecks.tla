--------------------------- MODULE ClawbackChecks --------------------------
(* The life of the health checks and the reminders about them over a few    *)
(* days: the reminder pass of clawback_engine.py (fetch, evaluate, plan, one *)
(* commit per message), the Today page that creates checks as well, the      *)
(* recruiter's answer (health_checks_api.py), the state-change event of the  *)
(* job service and mark_missed.  Each reads a row and commits later, so each *)
(* is two steps wherever the code does something else in between.            *)
EXTENDS ClawbackRules, Functions, FiniteSetsExt

CONSTANTS Clawbacks,     \* candidate jobs, in the order the job service lists them
          Rules,         \* the org's active rules
          FirstItem,     \* [Clawbacks -> item]: what the job service says at first
          LaterItems,    \* [Clawbacks -> SUBSET item]: what it may say later
          WorkingDays, Days, Hours,
          Cutoff,        \* missed_check_cutoff_time
          QuietStart, QuietEnd,
          PartSize,      \* candidates that fit into one list message
          MaxMoves, MaxFaults

ASSUME ChecksAssumption ==
  /\ PartSize \in Nat \ {0}
  /\ Days \subseteq Nat /\ \E first, last \in Days : Days = first .. last
  /\ Hours # {} /\ Hours \subseteq Nat
  /\ Clawbacks \in Seq(Range(Clawbacks)) /\ IsInjective(Clawbacks)
  /\ \A c \in Range(Clawbacks) : IsFiniteSet(LaterItems[c])
  /\ IsFiniteSet(Rules) /\ \A r \in Rules : {r.id, r.priority, r.send} \subseteq Int

VARIABLES clock,     \* [day, hour]: local time
          item,      \* the job service's records
          dropped,   \* clawbacks the job service has closed
          events,    \* clawback_state_changed events on their way
          combine,   \* the toggle system:recruiter_summary
          check,     \* check[c][d]: the row on (c, d); "dropped" and "moved" are
                     \* status cancelled with that cancelled_reason
          told,      \* rows of the message log: day, key, and whom the text is about
          pass,      \* the reminder pass
          handler,   \* the event handler
          answer,    \* the row a recruiter's request has loaded
          moves, faults, crashed, moved  \* bounds and history
checksVars == <<clock, item, dropped, events, combine, check, told, pass, handler, answer,
                moves, faults, crashed, moved>>
rowVars == <<check, told>>
procVars == <<pass, handler, answer>>
worldVars == <<item, dropped, events, combine, moves, moved>>

Cancelled == {"dropped", "moved"}

Idle == [pc |-> "idle", items |-> <<>>, bare |-> {}, entries |-> <<>>, todo |-> <<>>, day |-> 0]
NoHandler == [c |-> "none", change |-> "none", pending |-> {}, today |-> 0]
NoAnswer == [c |-> "none", day |-> 0, was |-> "none"]

ChecksInit ==
  /\ clock = [day |-> Min(Days), hour |-> Min(Hours)]
  /\ item = [c \in Range(Clawbacks) |-> FirstItem[c]]
  /\ dropped = {} /\ events = {} /\ combine = TRUE
  /\ check = [c \in Range(Clawbacks) |-> [d \in Days |-> "none"]]
  /\ told = {}
  /\ pass = Idle /\ handler = NoHandler /\ answer = NoAnswer
  /\ moves = 0 /\ faults = 0 /\ crashed = {} /\ moved = {}

-----------------------------------------------------------------------------
(* The world around the engine *)

ClockTicks ==
  /\ \/ \E h \in Hours : /\ h > clock.hour
                         /\ ~\E g \in Hours : clock.hour < g /\ g < h
                         /\ clock' = [clock EXCEPT !.hour = h]
     \/ /\ clock.hour = Max(Hours) /\ clock.day # Max(Days)
        /\ clock' = [day |-> clock.day + 1, hour |-> Min(Hours)]
  /\ UNCHANGED <<rowVars, procVars, worldVars, faults, crashed>>

\* The job service changes the dates or the recruiter of a clawback, and says so.
ItemMoves(c) ==
  /\ moves < MaxMoves /\ c \notin dropped
  /\ \E i \in LaterItems[c] \ {item[c]} : item' = [item EXCEPT ![c] = i]
  /\ events' = events \cup {[c |-> c, change |-> "moved"]}
  /\ moves' = moves + 1 /\ moved' = moved \cup {c}
  /\ UNCHANGED <<clock, dropped, combine, rowVars, procVars, faults, crashed>>

\* The clawback ends: completed, rejected or dropped.
ItemDrops(c) ==
  /\ moves < MaxMoves /\ c \notin dropped
  /\ dropped' = dropped \cup {c}
  /\ events' = events \cup {[c |-> c, change |-> "dropped"]}
  /\ moves' = moves + 1
  /\ UNCHANGED <<clock, item, combine, moved, rowVars, procVars, faults, crashed>>

\* toggle of system:recruiter_summary
SettingToggles ==
  /\ moves < MaxMoves
  /\ combine' = ~combine /\ moves' = moves + 1
  /\ UNCHANGED <<clock, item, dropped, events, moved, rowVars, procVars, faults, crashed>>

\* fetch_active_clawbacks: open clawbacks only.
Fetched == [c \in Range(Clawbacks) \ dropped |-> item[c]]

-----------------------------------------------------------------------------
(* The reminder pass *)

\* rule_due for every clawback the job service may report.
Items == {FirstItem[c] : c \in Range(Clawbacks)} \cup UNION {LaterItems[c] : c \in Range(Clawbacks)}
DueRule == [i \in Items |-> [d \in Days |-> RuleDue(Rules, i, d, WorkingDays)]]

\* Entries a pass finds on items at time t: the rule is due and its time reached.
DueAt(items, t) ==
  {c \in DOMAIN items :
     /\ AnchorAndDay(items[c], t.day) # NoAnchor
     /\ LET r == DueRule[items[c]][t.day] IN r # NoRule /\ t.hour >= r.send}

\* ensure_health_check for a set of clawbacks: insert unless (c, day) has a row.
Ensure(chk, S, items, day) ==
  [c \in DOMAIN chk |->
     IF /\ c \in S /\ items[c].cooling > 0 /\ chk[c][day] = "none"
        /\ DueRule[items[c]][day].checks
     THEN [chk[c] EXCEPT ![day] = "pending"] ELSE chk[c]]

Entry(c, i, day) ==
  [c |-> c, recruiter |-> i.recruiter, rule |-> DueRule[i][day].id,
   kind |-> IF AnchorAndDay(i, day).anchor = "cooling_end" THEN "final_validation" ELSE "reminder"]

CanSend(t) == IsWorkingDay(t.day, WorkingDays) /\ ~InQuietHours(t.hour, QuietStart, QuietEnd)

Key(e) == <<e.kind, e.rule, e.c, e.recruiter>>
\* Mutant: the parts of a list share one key.
BatchKeySame(r, part) == <<"batch_reminder", 1, "none", r>>

BatchKey(r, part) == <<"batch_reminder", part, "none", r>>

BareKey(e) == <<"reminder", e.rule, e.c, e.recruiter>>
Sent(d) == {m.key : m \in {n \in told : n.day = d}}

\* Mutant: today's list is not looked for, only the messages of the entry itself.
FreshByKey(entries, sent) == Pick(entries, {i \in DOMAIN entries : Key(entries[i]) \notin sent})

\* What is left for this pass: neither told alone today nor of a recruiter who has the list.
Fresh(entries, sent) ==
  Pick(entries, {i \in DOMAIN entries : /\ Key(entries[i]) \notin sent
                                        /\ BatchKey(entries[i].recruiter, 1) \notin sent})

Message(key, about) == [key |-> key, about |-> about]
About(entries) == {entries[i].c : i \in 1 .. Len(entries)}

\* plan_recruiter_messages and the loop over its result, for one recruiter.
MessagesFor(entries, r) ==
  LET es == Pick(entries, {i \in DOMAIN entries : entries[i].recruiter = r})
      parts == Parts(es, PartSize) IN
  IF r = "none" THEN [p \in DOMAIN es |-> Message(Key(es[p]), {})]
  ELSE IF es # <<>> /\ combine
  THEN [p \in DOMAIN parts |-> Message(BatchKey(r, p), About(parts[p]))]
  ELSE [p \in DOMAIN es |-> Message(Key(es[p]), {es[p].c})]

Recruiters == {i.recruiter : i \in Items}

Plan(entries) == FoldSet(LAMBDA r, acc : acc \o MessagesFor(entries, r), <<>>, Recruiters)

PassFetch ==
  /\ pass.pc = "idle"
  /\ pass' = [Idle EXCEPT !.pc = "fetched", !.items = Fetched]
  /\ UNCHANGED <<clock, rowVars, handler, answer, worldVars, faults, crashed>>

\* One transaction: checks for the due clawbacks; a cancelled check drops its entry.
\* Outside sending hours the pass ends here.
PassEvaluate ==
  /\ pass.pc = "fetched"
  /\ LET due == DueAt(pass.items, clock)
         entries == Pick(Clawbacks, {i \in DOMAIN Clawbacks : LET c == Clawbacks[i] IN
                      /\ c \in due /\ pass.items[c].cooling > 0
                      /\ check'[c][clock.day] \notin Cancelled}) IN
     /\ check' = Ensure(check, due, pass.items, clock.day)
     /\ pass' = IF CanSend(clock)
                THEN [pass EXCEPT !.pc = "evaluated", !.day = clock.day,
                        !.bare = {Entry(c, pass.items[c], clock.day) :
                                    c \in {c \in due : pass.items[c].cooling = 0}},
                        !.entries = [i \in DOMAIN entries |->
                                       Entry(entries[i], pass.items[entries[i]], clock.day)]]
                ELSE Idle
  /\ UNCHANGED <<clock, told, handler, answer, worldVars, faults, crashed>>

\* Clawbacks of a recruiter without a cooling period are logged as skipped, unless they
\* have a row of that key; then the messages are planned.
PassPlan ==
  /\ pass.pc = "evaluated"
  /\ pass' = [pass EXCEPT !.pc = "sending",
                          !.todo = Plan(Fresh(pass.entries, Sent(pass.day)))]
  /\ told' = told \cup {[day |-> pass.day, key |-> BareKey(e), about |-> {}] :
                          e \in {b \in pass.bare : b.recruiter # "none" /\ BareKey(b) \notin Sent(pass.day)}}
  /\ UNCHANGED <<clock, check, handler, answer, worldVars, faults, crashed>>

\* create_log ignores a key that exists; each message has its own commit.
PassSend ==
  /\ pass.pc = "sending" /\ pass.todo # <<>>
  /\ LET m == Head(pass.todo) IN
     told' = IF m.key \in Sent(pass.day) THEN told
             ELSE told \cup {[day |-> pass.day, key |-> m.key, about |-> m.about]}
  /\ pass' = [pass EXCEPT !.todo = Tail(@)]
  /\ UNCHANGED <<clock, check, handler, answer, worldVars, faults, crashed>>

PassEnd ==
  /\ pass.pc = "sending" /\ pass.todo = <<>>
  /\ pass' = Idle
  /\ UNCHANGED <<clock, rowVars, handler, answer, worldVars, faults, crashed>>

\* The process dies, or an exception rolls the rest of the org back.
PassCrash ==
  /\ pass.pc # "idle" /\ faults < MaxFaults
  /\ faults' = faults + 1
  /\ crashed' = IF pass.pc = "fetched" THEN crashed ELSE crashed \cup {pass.day}
  /\ pass' = Idle
  /\ UNCHANGED <<clock, rowVars, handler, answer, worldVars>>

-----------------------------------------------------------------------------
(* The other writers of a check *)

\* build_today: due_today makes the checks of the whole day, whatever the send time of
\* the rule.  The fetch before it is not a step of its own: PassFetch has that race.
PageOpens ==
  /\ check' = Ensure(check, DueAt(Fetched, [clock EXCEPT !.hour = 24]), Fetched, clock.day)
  /\ check' # check
  /\ UNCHANGED <<clock, told, procVars, worldVars, faults, crashed>>

\* record_health_check: any status but cancelled may become done.
AnswerLoad(c, d) ==
  /\ answer = NoAnswer
  /\ check[c][d] \notin Cancelled \cup {"none", "done"}
  /\ answer' = [c |-> c, day |-> d, was |-> check[c][d]]
  /\ UNCHANGED <<clock, rowVars, pass, handler, worldVars, faults, crashed>>

AnswerCommit ==
  /\ answer # NoAnswer
  /\ check' = [check EXCEPT ![answer.c][answer.day] = "done"]
  /\ answer' = NoAnswer
  /\ UNCHANGED <<clock, told, pass, handler, worldVars, faults, crashed>>

\* handle_clawback_state_changed: the pending rows are loaded ...
HandlerLoad(e) ==
  /\ handler = NoHandler /\ e \in events
  /\ handler' = [c |-> e.c, change |-> e.change,
                 pending |-> {d \in Days : check[e.c][d] = "pending"}, today |-> clock.day]
  /\ events' = events \ {e}
  /\ UNCHANGED <<clock, item, dropped, combine, moves, moved, rowVars, pass, answer, faults, crashed>>

\* ... and, for a move, looked at again once the job service has answered; a failed
\* look-up keeps none.  A kept row is the one match_rule finds a rule with a check for.
Kept(c, d) ==
  LET r == RuleOfDay(Rules, item[c], d) IN c \notin dropped /\ r # NoRule /\ r.checks

Withdrawn(found) ==
  IF handler.change = "dropped" THEN handler.pending
  ELSE {d \in handler.pending : d >= handler.today /\ ~(found /\ Kept(handler.c, d))}

HandlerCommit ==
  /\ handler # NoHandler
  /\ \E found \in BOOLEAN :
       /\ ~found => handler.change = "moved" /\ faults < MaxFaults
       /\ faults' = IF found THEN faults ELSE faults + 1
       /\ check' = [check EXCEPT ![handler.c] =
                      [d \in Days |-> IF d \in Withdrawn(found) THEN handler.change ELSE @[d]]]
  /\ handler' = NoHandler
  /\ UNCHANGED <<clock, told, pass, answer, worldVars, crashed>>

\* Mutant: every check of a past day is missed, answered or not.
MarkMissedAll ==
  /\ check' = [c \in DOMAIN check |-> [d \in Days |->
       IF check[c][d] \in {"pending", "done"}
          /\ (d < clock.day \/ (d = clock.day /\ clock.hour >= Cutoff))
       THEN "missed" ELSE check[c][d]]]
  /\ check' # check
  /\ UNCHANGED <<clock, told, procVars, worldVars, faults, crashed>>

\* Mutant: the hour of the cutoff itself is too early.
MarkMissedLate ==
  /\ check' = [c \in DOMAIN check |-> [d \in Days |->
       IF check[c][d] = "pending" /\ (d < clock.day \/ (d = clock.day /\ clock.hour > Cutoff))
       THEN "missed" ELSE check[c][d]]]
  /\ check' # check
  /\ UNCHANGED <<clock, told, procVars, worldVars, faults, crashed>>

\* mark_missed: one UPDATE of all pending rows up to the last day whose cutoff has passed.
MarkMissed ==
  /\ check' = [c \in DOMAIN check |-> [d \in Days |->
       IF check[c][d] = "pending" /\ (d < clock.day \/ (d = clock.day /\ clock.hour >= Cutoff))
       THEN "missed" ELSE check[c][d]]]
  /\ check' # check
  /\ UNCHANGED <<clock, told, procVars, worldVars, faults, crashed>>

-----------------------------------------------------------------------------
ChecksNext ==
  \/ ClockTicks \/ SettingToggles \/ MarkMissed
  \/ PassFetch \/ PassEvaluate \/ PassPlan \/ PassSend \/ PassEnd \/ PassCrash
  \/ PageOpens \/ AnswerCommit \/ HandlerCommit
  \/ \E c \in Range(Clawbacks) :
       ItemMoves(c) \/ ItemDrops(c) \/ (\E d \in Days : AnswerLoad(c, d))
  \/ \E e \in events : HandlerLoad(e)
ChecksSpec == ChecksInit /\ [][ChecksNext]_checksVars

\* Beat runs mark_missed every hour, for ever; time passes.
ChecksFairness == WF_checksVars(ClockTicks) /\ WF_checksVars(MarkMissed)

\* However the summary toggle, crashes and later passes fall, nobody is told about
\* one clawback twice a day, alone and in a list or in two lists, unless the
\* clawback itself changed and so is due under another key.
TwiceOnlyIfMoved ==
  \A m, n \in told : m # n /\ m.day = n.day => m.about \cap n.about \subseteq moved

\* When a pass has sent its last message, every due clawback has been told about
\* today.  Left out are only those that joined a list that had already gone out:
\* because their send time is later, they changed, or a pass died half way.
SilentOnlyIfLate ==
  pass.pc = "sending" /\ pass.todo = <<>> =>
    \A e \in Range(pass.entries) :
      \/ e.recruiter = "none"
      \/ \E m \in told : m.day = pass.day /\ e.c \in m.about
      \/ pass.day \in crashed \/ e.c \in moved
      \/ \E r, q \in Rules : r.id = e.rule /\ q.send < r.send

\* An answer is never lost and a cancelled check never comes back, except through a
\* copy that was read before: the event handler's list of pending rows or the
\* request's own row.
SettledStays ==
  [][\A c \in Range(Clawbacks), d \in Days :
       /\ check[c][d] = "done" /\ check'[c][d] # "done" =>
            handler.c = c /\ d \in handler.pending /\ handler' = NoHandler
       /\ check[c][d] \in Cancelled /\ check'[c][d] # check[c][d] =>
            answer = [c |-> c, day |-> d, was |-> answer.was] \/ handler.c = c]_checksVars

\* Every pending check is answered, cancelled or missed in the end.
PendingEnds ==
  \A c \in Range(Clawbacks), d \in Days : check[c][d] = "pending" ~> check[c][d] # "pending"

\* handle_clawback_state_changed says that "the next run recreates the right one":
\* a run that knows the present dates leaves no due check cancelled by a move.
RefreshRecreates ==
  [][pass.pc = "fetched" /\ pass'.pc = "evaluated" =>
       \A c \in DueAt(pass.items, clock) :
         pass.items[c] = item[c] /\ pass.items[c].cooling > 0
           /\ DueRule[item[c]][clock.day].checks
             => check'[c][clock.day] # "moved"]_checksVars
=============================================================================
