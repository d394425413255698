--------------------------- MODULE NotifProofs ---------------------------
(* What holds of notifications for every directory of people, target,       *)
(* schedule, tick, request and banner: they stay within their tenant, an    *)
(* occurrence of a schedule becomes one notification, a cancellation holds. *)
EXTENDS Audience, NotifSchedules, NotifFeed, FiniteSetTheorems, TLAPS

(* Who is told (Audience) *)

\* A refused target has nobody; the others name people of the organisation.
LEMMA NamedWithin == ASSUME NEW t \in AllTargets, NEW org, ~Refused(t, org)
                     PROVE Named(t, org) \subseteq Within(org)
BY DEF AllTargets, Refused, Named, HeldBy

LEMMA RecipientsWithin == ASSUME NEW t \in AllTargets, NEW org
                          PROVE Recipients(t, org) \subseteq Within(org)
<1>1. CASE Refused(t, org)
  BY <1>1 DEF Recipients
<1>2. CASE ~Refused(t, org)
  BY <1>2, NamedWithin DEF Recipients, HeldBy
<1> QED BY <1>1, <1>2

\* What does not span a tenant reaches those it names and administrators.
LEMMA RecipientsNamed ==
  ASSUME NEW t \in AllTargets, NEW org, t.type \notin OrgScoped, NEW u \in Recipients(t, org)
  PROVE directory[u].role \in AdminRoles \/ u \in t.users \cup assigned
BY DEF AllTargets, Recipients, Named, HeldBy, OrgScoped

\* A notification whose recipients were resolved within its own organisation, or a
\* schedule's; and the sockets it is pushed to.
Resolved == \/ notice = NoNotice
            \/ /\ notice.via \in {"request", "event", "banner"} /\ notice.target \in AllTargets
               /\ notice.people = Recipients(notice.target, notice.org)
               /\ notice.sockets = Pushed(notice.target, notice.org, notice.look, notice.people)
               /\ notice.via \in {"event", "banner"} => PrimaryAllowed(notice.target, notice.org)
            \/ /\ notice.via \in {"loop", "celery"} /\ notice.target \in AllTargets
               /\ notice.via = "loop" => notice.people = Recipients(notice.target, notice.org)
               /\ notice.sockets = PushedBySchedule(notice.target, notice.look, notice.people)

LEMMA TargetsAreTargets == Targets \subseteq AllTargets
<1> SUFFICES ASSUME NEW t \in Targets PROVE t \in AllTargets
  OBVIOUS
<1>1. CASE t = [type |-> "all", users |-> {}, roles |-> {}] \/ t = [type |-> "job", users |-> {}, roles |-> {}]
  BY <1>1 DEF AllTargets
<1>2. ASSUME NEW U \in SUBSET Folk, t = [type |-> "user", users |-> U, roles |-> {}] PROVE t \in AllTargets
  BY <1>2 DEF AllTargets
<1>3. ASSUME NEW R \in SUBSET Roles, t = [type |-> "role", users |-> {}, roles |-> R] PROVE t \in AllTargets
  BY <1>3 DEF AllTargets
<1> QED BY <1>1, <1>2, <1>3 DEF Targets

LEMMA SamePeople == ASSUME UNCHANGED <<directory, assigned>>, NEW t, NEW org
                    PROVE  Recipients(t, org)' = Recipients(t, org) /\ Live' = Live
BY DEF Recipients, Refused, Named, HeldBy, Within, Live

LEMMA CreatedResolved ==
  ASSUME NEW via \in {"request", "event", "banner"}, NEW t \in AllTargets, NEW org, NEW look,
         UNCHANGED <<directory, assigned>>, Created(via, t, org, look),
         via \in {"event", "banner"} => PrimaryAllowed(t, org)
  PROVE Resolved'
<1>0. PICK people : people = Recipients(t, org)
  OBVIOUS
<1>1. Recipients(t, org)' = people /\ Live' = Live
  BY <1>0, SamePeople
<1>2. /\ notice'.via = via /\ notice'.target = t /\ notice'.org = org /\ notice'.look = look
      /\ notice'.people = people /\ notice'.sockets = Pushed(t, org, look, people)
  BY <1>0 DEF Created, Notice
<1>3. Pushed(t, org, look, people)' = Pushed(t, org, look, people)
  BY <1>1 DEF Pushed
<1>4. PrimaryAllowed(t, org)' = PrimaryAllowed(t, org)
  BY DEF PrimaryAllowed
<1> QED BY <1>1, <1>2, <1>3, <1>4 DEF Resolved

LEMMA FiredResolved ==
  ASSUME NEW via \in {"loop", "celery"}, NEW t \in AllTargets, NEW org, NEW look, NEW people,
         Fired(via, t, org, look, people), via = "loop" => people = Recipients(t, org)
  PROVE Resolved'
<1>1. UNCHANGED <<directory, assigned>>
  BY DEF Fired, Undecided
<1>2. Recipients(t, org)' = Recipients(t, org) /\ Live' = Live
  BY <1>1, SamePeople
<1>3. /\ notice'.via = via /\ notice'.target = t /\ notice'.org = org /\ notice'.look = look
      /\ notice'.people = people /\ notice'.sockets = PushedBySchedule(t, look, people)
  BY DEF Fired, Notice
<1>4. PushedBySchedule(t, look, people)' = PushedBySchedule(t, look, people)
  BY <1>2 DEF PushedBySchedule
<1> QED BY <1>2, <1>3, <1>4 DEF Resolved

LEMMA NextResolved == Resolved /\ [AudienceNext]_audienceVars => Resolved'
<1> SUFFICES ASSUME Resolved, [AudienceNext]_audienceVars PROVE Resolved'
  OBVIOUS
<1>1. CASE UNCHANGED audienceVars
  BY <1>1 DEF audienceVars, Resolved, PrimaryAllowed, Recipients, Refused, Named, HeldBy, Within, Live, Pushed,
              PushedBySchedule
<1>2. ASSUME NEW t \in Targets, NEW org, NEW look, SendByHand(t, org, look) PROVE Resolved'
  BY <1>2, CreatedResolved, TargetsAreTargets DEF SendByHand, Undecided
<1>3. ASSUME NEW t \in Targets, NEW org, NEW look, FireByLoop(t, org, look) PROVE Resolved'
  BY <1>3, FiredResolved, TargetsAreTargets DEF FireByLoop
<1>4. ASSUME NEW t \in Targets, NEW org, NEW look, FireByCelery(t, org, look) PROVE Resolved'
  BY <1>4, FiredResolved, TargetsAreTargets DEF FireByCelery
<1>5. ASSUME NEW cfg \in EventConfigs, NEW org, HandleEvent(cfg, org) PROVE Resolved'
  BY <1>5, CreatedResolved, ConfigsAreTargets DEF HandleEvent, Undecided
<1>6. ASSUME NEW cfg \in EventConfigs, AlsoBanner(cfg) PROVE Resolved'
  BY <1>6, CreatedResolved, ConfigsAreTargets DEF AlsoBanner
<1> QED BY <1>1, <1>2, <1>3, <1>4, <1>5, <1>6 DEF AudienceNext

LEMMA ResolvedSafe == Resolved => StaysInTenant
<1> SUFFICES ASSUME Resolved PROVE StaysInTenant
  OBVIOUS
<1>1. CASE notice = NoNotice
  BY <1>1 DEF StaysInTenant, NoNotice
<1>2. CASE /\ notice.via \in {"request", "event", "banner"} /\ notice.target \in AllTargets
           /\ notice.people = Recipients(notice.target, notice.org)
           /\ notice.sockets = Pushed(notice.target, notice.org, notice.look, notice.people)
           /\ notice.via \in {"event", "banner"} => PrimaryAllowed(notice.target, notice.org)
  <2>1. ASSUME notice.org # NoOrg PROVE InTenant(notice.people \cup notice.sockets)
    BY <1>2, <2>1, RecipientsWithin DEF Within, InTenant, Pushed
  <2>2. ASSUME notice.via \in {"event", "banner"}, notice.org = NoOrg, NEW u \in notice.people
        PROVE directory[u].role \in AdminRoles \/ u \in notice.target.users \cup assigned
    BY <1>2, <2>2, RecipientsNamed DEF PrimaryAllowed
  <2> QED BY <1>2, <2>1, <2>2 DEF StaysInTenant
<1>3. CASE /\ notice.via \in {"loop", "celery"} /\ notice.target \in AllTargets
           /\ notice.via = "loop" => notice.people = Recipients(notice.target, notice.org)
           /\ notice.sockets = PushedBySchedule(notice.target, notice.look, notice.people)
  <2>1. ASSUME notice.via = "loop", notice.org # NoOrg PROVE InTenant(notice.people)
    BY <1>3, <2>1, RecipientsWithin DEF Within, InTenant
  <2> QED BY <1>3, <2>1 DEF StaysInTenant, PushedBySchedule
<1> QED BY <1>1, <1>2, <1>3 DEF Resolved

(* Whatever the directory, the assignments, the target and the path, rows and *)
(* sockets of a request's or an event's notification stay in its tenant, as do *)
(* the rows of a schedule the loop fires.                                     *)
THEOREM TenantIsolation == AudienceSpec => []StaysInTenant
<1>1. AudienceInit => Resolved
  BY DEF AudienceInit, Resolved
<1> QED BY <1>1, NextResolved, ResolvedSafe, PTL DEF AudienceSpec
-----------------------------------------------------------------------------
(* Schedules (NotifSchedules) *)
USE SchedulesAssumption

SchedStatuses == {"none", "pending", "sent", "cancelled"}
SchedRows == [status : SchedStatuses, at : Nat, repeat : {"once", "daily"}]
Loading == [at : {"load"}]
Firing == [at : {"fire"}, todo : SUBSET Schedules]
Marking == [at : {"mark"}, row : Schedules, was : SchedRows, todo : SUBSET Schedules]
Loaded == [at : {"cancel", "edit"}, row : Schedules, day : Nat, was : SchedRows]
SchedTypeOK == /\ plan1 \in [Schedules -> SchedRows] /\ day \in Nat /\ key \in BOOLEAN
               /\ tick \in [Ticks -> {Asleep} \cup Loading \cup Firing \cup Marking]
               /\ clerk \in [Clerks -> {Asleep} \cup Loaded]
               /\ fired \in [Schedules -> Nat]
               /\ halted \in [Schedules -> [yes : BOOLEAN, holders : Nat, fires : Nat]]
               /\ excused \subseteq Schedules /\ keyless \subseteq Ticks

\* Tick t will still fire s; it has just fired s.
Has(t, s) == tick[t].at \in {"fire", "mark"} /\ s \in tick[t].todo
StandsAt(t, s) == tick[t].at = "mark" /\ tick[t].row = s

\* Two ticks run together only when one of them has lost its key.
Awake(t) == tick[t].at # "idle"
OneHolder == /\ \A t \in keyless : Awake(t)
             /\ \A t \in Ticks \ keyless : Awake(t) =>
                  key /\ \A u \in Ticks \ keyless : Awake(u) => t = u
\* A schedule somebody works on is in the table, and is not pending again once it was not.
HasRow(s) == plan1[s].status # "none"
RowsKnown == /\ \A t \in Ticks, s \in Schedules : Has(t, s) \/ StandsAt(t, s) => HasRow(s)
             /\ \A t \in Ticks, s \in Schedules : StandsAt(t, s) =>
                  /\ tick[t].was.status # "none"
                  /\ plan1[s].status = "pending" => tick[t].was.status = "pending"
             /\ \A c \in Clerks : clerk[c].at # "idle" => HasRow(clerk[c].row)
             /\ \A s \in Schedules : fired[s] > 0 => HasRow(s)
\* Nobody is about to fire again what was fired, and what is fired and pending is being marked.
OneFiring ==
  \A s \in Schedules : fired[s] > 0 /\ s \notin excused =>
    /\ fired[s] = 1
    /\ \A t \in Ticks : ~Has(t, s)
    /\ plan1[s].status = "pending" => \E t \in Ticks : StandsAt(t, s)
\* The ticks that hold a cancelled schedule and its firings since are those of the cancellation.
Holders(s) == {t \in Ticks : tick[t].at \in {"fire", "mark"} /\ s \in tick[t].todo}
Halts == \A s \in Schedules : halted[s].yes =>
           /\ halted[s].fires + Cardinality(Holders(s)) <= halted[s].holders
           /\ plan1[s].status \in {"sent", "cancelled"}
SchedInv == SchedTypeOK /\ OneHolder /\ RowsKnown /\ OneFiring /\ Halts

LEMMA HoldersFinite == ASSUME NEW s PROVE IsFiniteSet(Holders(s)) /\ Cardinality(Holders(s)) \in Nat
<1>1. Holders(s) \subseteq Ticks
  BY DEF Holders
<1> QED BY <1>1, FS_Subset, FS_CardinalityType

\* A step after which no tick holds a halted schedule that did not, and that fires nothing.
LEMMA HaltsKept ==
  ASSUME SchedInv, UNCHANGED halted, \A s \in Schedules : halted[s].yes =>
           Holders(s)' \subseteq Holders(s) /\ plan1'[s].status \in {"sent", "cancelled"}
  PROVE  Halts'
<1> SUFFICES ASSUME NEW s \in Schedules, halted[s].yes
             PROVE  halted[s].fires + Cardinality(Holders(s)') <= halted[s].holders
  BY DEF Halts
<1>1. Cardinality(Holders(s)') \in Nat /\ Cardinality(Holders(s)') <= Cardinality(Holders(s))
  BY HoldersFinite, FS_Subset, FS_CardinalityType
<1>2. halted[s].fires \in Nat /\ halted[s].holders \in Nat /\ Cardinality(Holders(s)) \in Nat
  BY HoldersFinite DEF SchedInv, SchedTypeOK
<1>3. halted[s].fires + Cardinality(Holders(s)) <= halted[s].holders
  BY DEF SchedInv, Halts
<1> QED BY <1>1, <1>2, <1>3

LEMMA SchedInitInv == SchedInit => SchedInv
<1> SUFFICES ASSUME SchedInit PROVE SchedInv
  OBVIOUS
<1>1. SchedTypeOK
  BY DEF SchedInit, SchedTypeOK, SchedRows, SchedStatuses, NoRow1, NotHalted
<1>2. OneHolder /\ RowsKnown /\ OneFiring
  BY DEF SchedInit, OneHolder, RowsKnown, OneFiring, Awake, Asleep, Has, StandsAt
<1>3. Halts
  BY DEF SchedInit, Halts, NotHalted
<1> QED BY <1>1, <1>2, <1>3 DEF SchedInv

LEMMA CreateInv == ASSUME SchedInv, NEW s \in Schedules, CreateSchedule(s) PROVE SchedInv'
<1>1. PICK d \in day .. LastDay, r \in {"once", "daily"} :
        /\ plan1[s] = NoRow1
        /\ plan1' = [plan1 EXCEPT ![s] = [status |-> "pending", at |-> d, repeat |-> r]]
        /\ UNCHANGED <<day, key, tick, clerk, fired, halted, excused, keyless, edits1, tickFaults>>
  BY DEF CreateSchedule
<1>2. ~HasRow(s) /\ plan1[s].status = "none"
  BY <1>1 DEF HasRow, NoRow1
<1>3. SchedTypeOK'
  BY <1>1 DEF SchedInv, SchedTypeOK, SchedRows, SchedStatuses
<1>4. \A q \in Schedules : plan1'[q].status = IF q = s THEN "pending" ELSE plan1[q].status
  BY <1>1 DEF SchedInv, SchedTypeOK
<1>5. OneHolder'
  BY <1>1 DEF SchedInv, OneHolder, Awake
<1>6. RowsKnown'
  BY <1>1, <1>2, <1>4 DEF SchedInv, RowsKnown, Has, StandsAt, HasRow
<1>7. OneFiring'
  BY <1>1, <1>2, <1>4 DEF SchedInv, SchedTypeOK, RowsKnown, OneFiring, Has, StandsAt, HasRow
<1>8. Halts'
  BY <1>1, <1>2, <1>4, HaltsKept DEF SchedInv, Halts, Holders
<1> QED BY <1>3, <1>5, <1>6, <1>7, <1>8 DEF SchedInv

LEMMA LoadRequestInv == ASSUME SchedInv, NEW c \in Clerks, NEW s \in Schedules, RequestLoad1(c, s) PROVE SchedInv'
<1>1. PICK op \in {"cancel", "edit"}, d \in day .. LastDay :
        clerk' = [clerk EXCEPT ![c] = [at |-> op, row |-> s, day |-> d, was |-> plan1[s]]]
  BY DEF RequestLoad1
<1>2. plan1[s].status = "pending" /\ UNCHANGED <<plan1, day, key, tick, fired, halted, excused, keyless>>
  BY DEF RequestLoad1
<1>3. SchedTypeOK'
  BY <1>1, <1>2 DEF SchedInv, SchedTypeOK, Loaded
<1>4. OneHolder' /\ OneFiring'
  BY <1>2 DEF SchedInv, OneHolder, Awake, OneFiring, Has, StandsAt
<1>5. RowsKnown'
  BY <1>1, <1>2 DEF SchedInv, SchedTypeOK, RowsKnown, Has, StandsAt, HasRow
<1>6. Halts'
  BY <1>2, HaltsKept DEF SchedInv, Halts, Holders
<1> QED BY <1>3, <1>4, <1>5, <1>6 DEF SchedInv

LEMMA EditInv == ASSUME SchedInv, NEW c \in Clerks, EditCommit(c) PROVE SchedInv'
<1> DEFINE s == clerk[c].row
           moved == clerk[c].day # clerk[c].was.at
<1>1. clerk[c] \in Loaded /\ s \in Schedules
  BY DEF SchedInv, SchedTypeOK, EditCommit, Asleep, Loaded
<1>2. /\ plan1' = [plan1 EXCEPT ![s].at = IF moved THEN clerk[c].day ELSE @]
      /\ fired' = [fired EXCEPT ![s] = IF moved THEN 0 ELSE @]
      /\ excused' = IF moved THEN excused \ {s} ELSE excused
      /\ clerk' = [clerk EXCEPT ![c] = Asleep]
      /\ UNCHANGED <<day, key, tick, halted, keyless>>
  BY DEF EditCommit
<1>3. clerk[c].day \in Nat
  BY <1>1 DEF Loaded
<1> HIDE DEF s, moved
<1>4. SchedTypeOK'
  BY <1>1, <1>2, <1>3 DEF SchedInv, SchedTypeOK, SchedRows
<1>5. \A q \in Schedules : plan1'[q].status = plan1[q].status
  BY <1>1, <1>2 DEF SchedInv, SchedTypeOK, SchedRows
<1>6. \A q \in Schedules : (fired'[q] = fired[q] /\ (q \in excused' <=> q \in excused)) \/ fired'[q] = 0
  BY <1>1, <1>2 DEF SchedInv, SchedTypeOK
<1>7. OneHolder'
  BY <1>2 DEF SchedInv, OneHolder, Awake
<1>8. RowsKnown'
  BY <1>2, <1>5, <1>6 DEF SchedInv, SchedTypeOK, RowsKnown, Has, StandsAt, HasRow, Asleep
<1>9. OneFiring'
  BY <1>2, <1>5, <1>6 DEF SchedInv, OneFiring, Has, StandsAt
<1>10. Halts'
  BY <1>2, <1>5, HaltsKept DEF SchedInv, Halts, Holders
<1> QED BY <1>4, <1>7, <1>8, <1>9, <1>10 DEF SchedInv

LEMMA CancelInv == ASSUME SchedInv, NEW c \in Clerks, CancelCommit(c) PROVE SchedInv'
<1> DEFINE s == clerk[c].row
<1>1. clerk[c] \in Loaded /\ s \in Schedules
  BY DEF SchedInv, SchedTypeOK, CancelCommit, Asleep, Loaded
<1>2. /\ plan1' = [plan1 EXCEPT ![s].status = "cancelled"]
      /\ halted' = [halted EXCEPT ![s] = IF halted[s].yes THEN halted[s]
                      ELSE [yes |-> TRUE, fires |-> 0, holders |-> Cardinality(Holders(s))]]
      /\ clerk' = [clerk EXCEPT ![c] = Asleep]
      /\ UNCHANGED <<day, key, tick, fired, excused, keyless>>
  BY <1>1 DEF CancelCommit, Holders, SchedInv, SchedTypeOK
<1> HIDE DEF s
<1>3. Cardinality(Holders(s)) \in Nat
  BY HoldersFinite
<1>4. SchedTypeOK'
  BY <1>1, <1>2, <1>3 DEF SchedInv, SchedTypeOK, SchedRows, SchedStatuses
<1>5. \A q \in Schedules : plan1'[q].status = IF q = s THEN "cancelled" ELSE plan1[q].status
  BY <1>1, <1>2 DEF SchedInv, SchedTypeOK, SchedRows
<1>6. OneHolder'
  BY <1>2 DEF SchedInv, OneHolder, Awake
<1>7. RowsKnown'
  BY <1>2, <1>5 DEF SchedInv, SchedTypeOK, RowsKnown, Has, StandsAt, HasRow, Asleep
<1>8. OneFiring'
  BY <1>2, <1>5 DEF SchedInv, OneFiring, Has, StandsAt
<1>9. Halts'
  <2> SUFFICES ASSUME NEW q \in Schedules, halted'[q].yes
               PROVE  /\ halted'[q].fires + Cardinality(Holders(q)') <= halted'[q].holders
                      /\ plan1'[q].status \in {"sent", "cancelled"}
    BY DEF Halts
  <2>1. Holders(q)' = Holders(q) /\ Cardinality(Holders(q)) \in Nat
    BY <1>2, HoldersFinite DEF Holders
  <2>2. halted'[q] = IF q = s /\ ~halted[s].yes
                     THEN [yes |-> TRUE, fires |-> 0, holders |-> Cardinality(Holders(s))] ELSE halted[q]
    BY <1>1, <1>2 DEF SchedInv, SchedTypeOK
  <2> QED BY <1>5, <2>1, <2>2 DEF SchedInv, Halts
<1> QED BY <1>4, <1>6, <1>7, <1>8, <1>9 DEF SchedInv

\* The day, the key and what a tick without a schedule does concern OneHolder alone.
LEMMA DayInv == ASSUME SchedInv, DayPasses PROVE SchedInv'
<1>1. day' \in Nat /\ UNCHANGED <<plan1, key, tick, clerk, fired, halted, excused, keyless>>
  BY DEF DayPasses, SchedInv, SchedTypeOK
<1>2. SchedTypeOK' /\ OneHolder' /\ RowsKnown' /\ OneFiring'
  BY <1>1 DEF SchedInv, SchedTypeOK, OneHolder, Awake, RowsKnown, OneFiring, Has, StandsAt, HasRow
<1>3. Halts'
  BY <1>1, HaltsKept DEF SchedInv, Halts, Holders
<1> QED BY <1>2, <1>3 DEF SchedInv

LEMMA ExpiryInv == ASSUME SchedInv, KeyExpires PROVE SchedInv'
<1>1. /\ key' = FALSE /\ keyless' = {t \in Ticks : tick[t] # Asleep}
      /\ UNCHANGED <<plan1, day, tick, clerk, fired, halted, excused>>
  BY DEF KeyExpires
<1>2. \A t \in Ticks : Awake(t) <=> tick[t] # Asleep
  BY DEF SchedInv, SchedTypeOK, Awake, Asleep, Loading, Firing, Marking
<1>3. OneHolder'
  BY <1>1, <1>2 DEF OneHolder, Awake
<1>4. SchedTypeOK'
  BY <1>1 DEF SchedInv, SchedTypeOK
<1>5. RowsKnown' /\ OneFiring'
  BY <1>1 DEF SchedInv, RowsKnown, OneFiring, Has, StandsAt, HasRow
<1>6. Halts'
  BY <1>1, HaltsKept DEF SchedInv, Halts, Holders
<1> QED BY <1>3, <1>4, <1>5, <1>6 DEF SchedInv

LEMMA AcquireInv == ASSUME SchedInv, NEW t \in Ticks, Acquire(t) PROVE SchedInv'
<1>1. /\ tick[t] = Asleep /\ ~key /\ key' = TRUE /\ tick' = [tick EXCEPT ![t] = [at |-> "load"]]
      /\ UNCHANGED <<plan1, day, clerk, fired, halted, excused, keyless>>
  BY DEF Acquire, Ticking
<1>2. \A u \in Ticks : tick'[u] = IF u = t THEN [at |-> "load"] ELSE tick[u]
  BY <1>1 DEF SchedInv, SchedTypeOK
<1>3. SchedTypeOK'
  BY <1>1 DEF SchedInv, SchedTypeOK, Loading
<1>4. OneHolder'
  BY <1>1, <1>2 DEF SchedInv, SchedTypeOK, OneHolder, Awake
<1>5. \A u \in Ticks, s \in Schedules : (Has(u, s)' <=> Has(u, s)) /\ (StandsAt(u, s)' <=> StandsAt(u, s))
  BY <1>1, <1>2 DEF Has, StandsAt, Asleep
<1>6. RowsKnown'
  BY <1>1, <1>2, <1>5 DEF SchedInv, RowsKnown, HasRow, StandsAt
<1>7. OneFiring'
  BY <1>1, <1>5 DEF SchedInv, OneFiring
<1>8. \A s : Holders(s)' \subseteq Holders(s)
  BY <1>2 DEF Holders
<1>9. Halts'
  BY <1>1, <1>8, HaltsKept DEF SchedInv, Halts
<1> QED BY <1>3, <1>4, <1>6, <1>7, <1>9 DEF SchedInv

LEMMA LoadInv == ASSUME SchedInv, NEW t \in Ticks, LoadPending(t) PROVE SchedInv'
<1>1. /\ tick[t].at = "load" /\ tick' = [tick EXCEPT ![t] = [at |-> "fire", todo |-> Pending]]
      /\ excused' = IF keyless # {} THEN excused \cup Pending ELSE excused
      /\ UNCHANGED <<plan1, day, key, clerk, fired, halted, keyless>>
  BY DEF LoadPending, Ticking
<1>2. Pending \subseteq Schedules /\ \A s \in Pending : plan1[s].status = "pending"
  BY DEF Pending
<1>3. \A u \in Ticks : tick'[u] = IF u = t THEN [at |-> "fire", todo |-> Pending] ELSE tick[u]
  BY <1>1 DEF SchedInv, SchedTypeOK
<1>4. SchedTypeOK'
  BY <1>1, <1>2 DEF SchedInv, SchedTypeOK, Firing
<1>5. OneHolder'
  BY <1>1, <1>3 DEF SchedInv, SchedTypeOK, OneHolder, Awake
<1>6. \A u \in Ticks, s \in Schedules :
         (Has(u, s)' <=> (Has(u, s) \/ (u = t /\ s \in Pending))) /\ (StandsAt(u, s)' <=> StandsAt(u, s))
  BY <1>1, <1>3 DEF Has, StandsAt
<1>7. RowsKnown'
  BY <1>1, <1>2, <1>3, <1>6 DEF SchedInv, RowsKnown, HasRow, StandsAt
<1>8. OneFiring'
  <2> SUFFICES ASSUME NEW s \in Schedules, fired[s] > 0, s \notin excused'
               PROVE  /\ fired[s] = 1 /\ \A u \in Ticks : ~Has(u, s)'
                      /\ plan1[s].status = "pending" => \E u \in Ticks : StandsAt(u, s)'
    BY <1>1 DEF OneFiring
  <2>1. /\ fired[s] = 1 /\ \A u \in Ticks : ~Has(u, s)
        /\ plan1[s].status = "pending" => \E u \in Ticks : StandsAt(u, s)
    BY <1>1 DEF SchedInv, OneFiring
  <2>2. s \notin Pending
    <3> SUFFICES ASSUME s \in Pending PROVE FALSE
      OBVIOUS
    <3>1. PICK u \in Ticks : StandsAt(u, s)
      BY <1>2, <2>1
    <3>2. u # t /\ Awake(u) /\ Awake(t)
      BY <1>1, <3>1 DEF StandsAt, Awake
    <3>3. keyless = {}
      BY <1>1
    <3> QED BY <3>2, <3>3 DEF SchedInv, OneHolder
  <2> QED BY <1>6, <2>1, <2>2
<1>9. \A s \in Schedules : halted[s].yes => Holders(s)' \subseteq Holders(s)
  <2> SUFFICES ASSUME NEW s \in Schedules, halted[s].yes PROVE Holders(s)' \subseteq Holders(s)
    OBVIOUS
  <2>1. s \notin Pending
    BY <1>2 DEF SchedInv, Halts
  <2> QED BY <1>3, <2>1 DEF Holders
<1>10. Halts'
  BY <1>1, <1>9, HaltsKept DEF SchedInv, Halts
<1> QED BY <1>4, <1>5, <1>7, <1>8, <1>10 DEF SchedInv

LEMMA FireInv == ASSUME SchedInv, NEW t \in Ticks, NEW s \in Schedules, Fire(t, s) PROVE SchedInv'
<1> DEFINE next == [at |-> "mark", row |-> s, was |-> plan1[s], todo |-> tick[t].todo \ {s}]
<1>1. /\ tick[t].at = "fire" /\ s \in tick[t].todo
      /\ fired' = [fired EXCEPT ![s] = @ + 1]
      /\ excused' = IF keyless # {} THEN excused \cup {s} ELSE excused
      /\ halted' = [halted EXCEPT ![s].fires = IF halted[s].yes THEN @ + 1 ELSE @]
      /\ tick' = [tick EXCEPT ![t] = next]
      /\ UNCHANGED <<plan1, day, key, clerk, keyless>>
  BY DEF Fire, Ticking
<1>2. tick[t] \in Firing
  BY <1>1 DEF SchedInv, SchedTypeOK, Asleep, Loading, Marking
<1>3. next \in Marking
  BY <1>2 DEF Firing, Marking, SchedInv, SchedTypeOK
<1>4. next.at = "mark" /\ next.row = s /\ next.was = plan1[s] /\ next.todo = tick[t].todo \ {s}
  OBVIOUS
<1> HIDE DEF next
<1>5. \A u \in Ticks : tick'[u] = IF u = t THEN next ELSE tick[u]
  BY <1>1 DEF SchedInv, SchedTypeOK
<1>6. \A q \in Schedules : fired'[q] = IF q = s THEN fired[q] + 1 ELSE fired[q]
  BY <1>1 DEF SchedInv, SchedTypeOK
<1>7. \A q \in Schedules : /\ halted'[q].yes = halted[q].yes /\ halted'[q].holders = halted[q].holders
                           /\ halted'[q].fires = IF q = s /\ halted[q].yes THEN halted[q].fires + 1 ELSE halted[q].fires
  BY <1>1 DEF SchedInv, SchedTypeOK
<1>8. SchedTypeOK'
  BY <1>1, <1>3 DEF SchedInv, SchedTypeOK
<1>9. OneHolder'
  BY <1>1, <1>4, <1>5 DEF SchedInv, SchedTypeOK, OneHolder, Awake
<1>10. \A u \in Ticks, q \in Schedules :
          /\ Has(u, q)' <=> Has(u, q) /\ ~(u = t /\ q = s)
          /\ StandsAt(u, q)' <=> StandsAt(u, q) \/ (u = t /\ q = s)
  BY <1>1, <1>4, <1>5 DEF Has, StandsAt
<1>11. Has(t, s) /\ HasRow(s)
  BY <1>1 DEF Has, SchedInv, RowsKnown
<1>12. RowsKnown'
  <2>1. \A u \in Ticks, q \in Schedules : Has(u, q)' \/ StandsAt(u, q)' => HasRow(q)'
    BY <1>1, <1>10, <1>11 DEF SchedInv, RowsKnown, HasRow
  <2>2. \A u \in Ticks, q \in Schedules : StandsAt(u, q)' =>
          /\ tick'[u].was.status # "none"
          /\ plan1'[q].status = "pending" => tick'[u].was.status = "pending"
    BY <1>1, <1>4, <1>5, <1>11 DEF SchedInv, RowsKnown, HasRow, StandsAt
  <2>3. \A c \in Clerks : clerk'[c].at # "idle" => HasRow(clerk[c].row)'
    BY <1>1 DEF SchedInv, RowsKnown, HasRow
  <2>4. \A q \in Schedules : fired'[q] > 0 => HasRow(q)'
    BY <1>1, <1>6, <1>11 DEF SchedInv, SchedTypeOK, RowsKnown, HasRow
  <2> QED BY <1>1, <2>1, <2>2, <2>3, <2>4 DEF RowsKnown
<1>13. OneFiring'
  <2> SUFFICES ASSUME NEW q \in Schedules, fired'[q] > 0, q \notin excused'
               PROVE  /\ fired'[q] = 1 /\ \A u \in Ticks : ~Has(u, q)'
                      /\ plan1[q].status = "pending" => \E u \in Ticks : StandsAt(u, q)'
    BY <1>1 DEF OneFiring
  <2>1. CASE q # s
    BY <1>1, <1>6, <1>10, <2>1 DEF SchedInv, OneFiring
  <2>2. CASE q = s
    <3>1. keyless = {} /\ s \notin excused
      BY <1>1, <2>2
    <3>2. \A u \in Ticks : Has(u, s) => u = t
      BY <1>1, <3>1 DEF SchedInv, OneHolder, Has, Awake
    <3>3. fired[s] = 0
      BY <1>11, <3>1 DEF SchedInv, SchedTypeOK, OneFiring
    <3> QED BY <1>6, <1>10, <2>2, <3>2, <3>3
  <2> QED BY <2>1, <2>2
<1>14. Halts'
  <2> SUFFICES ASSUME NEW q \in Schedules, halted[q].yes
               PROVE  halted'[q].fires + Cardinality(Holders(q)') <= halted'[q].holders
    BY <1>1, <1>7 DEF Halts, SchedInv
  <2>1. halted[q].fires + Cardinality(Holders(q)) <= halted[q].holders
    BY DEF SchedInv, Halts
  <2>2. IsFiniteSet(Holders(q)) /\ Cardinality(Holders(q)) \in Nat
    BY HoldersFinite
  <2>3. halted[q].fires \in Nat /\ halted[q].holders \in Nat
    BY DEF SchedInv, SchedTypeOK
  <2>4. CASE q # s
    <3>1. Holders(q)' = Holders(q)
      BY <1>1, <1>4, <1>5, <2>4 DEF Holders
    <3> QED BY <1>7, <2>1, <2>4, <3>1
  <2>5. CASE q = s
    <3>1. t \in Holders(q) /\ Holders(q)' = Holders(q) \ {t}
      BY <1>1, <1>4, <1>5, <2>5 DEF Holders
    <3>2. Cardinality(Holders(q)') = Cardinality(Holders(q)) - 1
      BY <2>2, <3>1, FS_RemoveElement
    <3> QED BY <1>7, <2>1, <2>2, <2>3, <2>5, <3>2
  <2> QED BY <2>4, <2>5
<1> QED BY <1>8, <1>9, <1>12, <1>13, <1>14 DEF SchedInv

\* A tick goes on with no more than it had, and what it had just fired is marked, excused or as before.
LEMMA GoOnInv ==
  ASSUME SchedInv, NEW t \in Ticks, NEW next \in Firing, tick[t].at \in {"fire", "mark"}, next.todo \subseteq tick[t].todo,
         tick' = [tick EXCEPT ![t] = next], UNCHANGED <<day, key, clerk, halted, keyless>>,
         plan1' \in [Schedules -> SchedRows], fired' \in [Schedules -> Nat],
         excused \subseteq excused', excused' \subseteq Schedules,
         \A q \in Schedules : fired'[q] \in {0, fired[q]},
         \A q \in Schedules : \/ plan1'[q].status = plan1[q].status
                              \/ plan1'[q].status = "sent" /\ StandsAt(t, q),
         \A q \in Schedules : StandsAt(t, q) => q \in excused' \/ fired'[q] = 0 \/ plan1'[q].status # "pending"
  PROVE  SchedInv'
<1>1. next.at = "fire" /\ \A u \in Ticks : tick'[u] = IF u = t THEN next ELSE tick[u]
  BY DEF SchedInv, SchedTypeOK, Firing
<1>2. SchedTypeOK'
  BY DEF SchedInv, SchedTypeOK
<1>3. OneHolder'
  BY <1>1 DEF SchedInv, SchedTypeOK, OneHolder, Awake
<1>4. \A u \in Ticks, q \in Schedules :
         (Has(u, q)' => Has(u, q)) /\ (StandsAt(u, q)' <=> StandsAt(u, q) /\ u # t)
  BY <1>1 DEF Has, StandsAt
<1>5. \A q \in Schedules : HasRow(q) => HasRow(q)'
  BY DEF HasRow
<1>6. RowsKnown'
  <2>1. \A u \in Ticks, q \in Schedules : Has(u, q)' \/ StandsAt(u, q)' => HasRow(q)'
    BY <1>4, <1>5 DEF SchedInv, RowsKnown
  <2>2. \A u \in Ticks, q \in Schedules : StandsAt(u, q)' =>
          /\ tick'[u].was.status # "none"
          /\ plan1'[q].status = "pending" => tick'[u].was.status = "pending"
    BY <1>1, <1>4 DEF SchedInv, RowsKnown
  <2>3. \A c \in Clerks : clerk'[c].at # "idle" => HasRow(clerk[c].row)'
    BY <1>5 DEF SchedInv, SchedTypeOK, RowsKnown, Asleep, Loaded
  <2>4. \A q \in Schedules : fired'[q] > 0 => HasRow(q)'
    BY <1>5 DEF SchedInv, SchedTypeOK, RowsKnown
  <2> QED BY <2>1, <2>2, <2>3, <2>4 DEF RowsKnown
<1>7. OneFiring'
  <2> SUFFICES ASSUME NEW q \in Schedules, fired'[q] > 0, q \notin excused'
               PROVE  /\ fired'[q] = 1 /\ \A u \in Ticks : ~Has(u, q)'
                      /\ plan1'[q].status = "pending" => \E u \in Ticks : StandsAt(u, q)'
    BY DEF OneFiring
  <2>1. /\ fired[q] = 1 /\ \A u \in Ticks : ~Has(u, q)
        /\ plan1[q].status = "pending" => \E u \in Ticks : StandsAt(u, q)
    BY DEF SchedInv, SchedTypeOK, OneFiring
  <2> QED BY <1>4, <2>1
<1>8. \A q \in Schedules : Holders(q)' \subseteq Holders(q)
  BY <1>1 DEF Holders
<1>9. Halts'
  BY <1>8, HaltsKept DEF SchedInv, Halts
<1> QED BY <1>2, <1>3, <1>6, <1>7, <1>9 DEF SchedInv

LEMMA MarkInv == ASSUME SchedInv, NEW t \in Ticks, MarkFired(t) PROVE SchedInv'
<1> DEFINE s == tick[t].row
           was == tick[t].was
           next == [at |-> "fire", todo |-> tick[t].todo]
<1>1. tick[t] \in Marking /\ s \in Schedules /\ was \in SchedRows /\ next \in Firing /\ StandsAt(t, s)
  BY DEF MarkFired, SchedInv, SchedTypeOK, Asleep, Loading, Firing, Marking, StandsAt
<1>2. /\ plan1' = [plan1 EXCEPT ![s].status = IF Marked(was).status = was.status THEN @ ELSE Marked(was).status,
                                ![s].at = IF Marked(was).at = was.at THEN @ ELSE Marked(was).at]
      /\ fired' = [fired EXCEPT ![s] = IF Marked(was).at # was.at THEN 0 ELSE @]
      /\ tick' = [tick EXCEPT ![t] = next]
      /\ UNCHANGED <<day, key, clerk, halted, excused, keyless>>
  BY DEF MarkFired, Ticking
<1>3. tick[t].at = "mark" /\ next.todo = tick[t].todo /\ \A q \in Schedules : StandsAt(t, q) <=> q = s
  BY <1>1 DEF StandsAt
<1>4. plan1[s].status = "pending" => was.status = "pending"
  BY <1>1 DEF SchedInv, RowsKnown
<1> HIDE DEF next, s, was
<1>5. Marked(was) \in SchedRows /\ Marked(was).status \in {was.status, "sent"}
  <2>1. CASE was.repeat = "once"
    <3>1. Marked(was) = [was EXCEPT !.status = "sent"]
      BY <2>1 DEF Marked
    <3> QED BY <1>1, <3>1 DEF SchedRows, SchedStatuses
  <2>2. CASE was.repeat # "once"
    <3> DEFINE st == IF was.at + 1 > LastDay THEN "sent" ELSE was.status
    <3>1. Marked(was) = [was EXCEPT !.at = @ + 1, !.status = st]
      BY <2>2 DEF Marked
    <3>2. st \in {was.status, "sent"}
      OBVIOUS
    <3> HIDE DEF st
    <3>3. was.at + 1 \in Nat /\ st \in SchedStatuses
      BY <1>1, <3>2 DEF SchedRows, SchedStatuses
    <3>4. [was EXCEPT !.at = was.at + 1, !.status = st] \in SchedRows
      BY ONLY <1>1, <3>3 DEF SchedRows
    <3>5. [was EXCEPT !.at = was.at + 1, !.status = st].status = st
      BY ONLY <1>1, <3>3 DEF SchedRows
    <3> QED BY <3>1, <3>2, <3>4, <3>5
  <2> QED BY <2>1, <2>2
<1>6. Marked(was).at = was.at => Marked(was).status = "sent"
  BY <1>1 DEF Marked, SchedRows
<1>7. /\ plan1' \in [Schedules -> SchedRows] /\ fired' \in [Schedules -> Nat]
      /\ \A q \in Schedules : plan1'[q].status = IF q = s /\ Marked(was).status # was.status THEN "sent" ELSE plan1[q].status
      /\ \A q \in Schedules : fired'[q] = IF q = s /\ Marked(was).at # was.at THEN 0 ELSE fired[q]
  BY <1>1, <1>2, <1>5 DEF SchedInv, SchedTypeOK, SchedRows
<1>8. fired'[s] = 0 \/ plan1'[s].status # "pending"
  BY <1>1, <1>4, <1>5, <1>6, <1>7
<1>9. \A q \in Schedules : /\ fired'[q] \in {0, fired[q]}
                           /\ plan1'[q].status = plan1[q].status \/ (plan1'[q].status = "sent" /\ StandsAt(t, q))
                           /\ StandsAt(t, q) => q \in excused' \/ fired'[q] = 0 \/ plan1'[q].status # "pending"
  BY <1>3, <1>7, <1>8
<1>10. excused' = excused /\ excused \subseteq Schedules
  BY <1>2 DEF SchedInv, SchedTypeOK
<1> QED BY <1>1, <1>2, <1>3, <1>7, <1>9, <1>10, GoOnInv

LEMMA MarkFailsInv == ASSUME SchedInv, NEW t \in Ticks, MarkFails(t) PROVE SchedInv'
<1>1. PICK rest \in {tick[t].todo, {}} :
        /\ excused' = excused \cup {tick[t].row}
        /\ tick' = [tick EXCEPT ![t] = [at |-> "fire", todo |-> rest]]
        /\ UNCHANGED <<plan1, day, key, clerk, fired, halted, keyless>>
  BY DEF MarkFails, Ticking
<1>2. tick[t] \in Marking
  BY DEF MarkFails, SchedInv, SchedTypeOK, Asleep, Loading, Firing
<1>3. [at |-> "fire", todo |-> rest] \in Firing /\ rest \subseteq tick[t].todo /\ tick[t].row \in Schedules
  BY <1>2 DEF Firing, Marking
<1>4. tick[t].at = "mark" /\ \A q \in Schedules : StandsAt(t, q) => q \in excused'
  BY <1>1, <1>2 DEF Marking, StandsAt
<1> DEFINE next == [at |-> "fire", todo |-> rest]
<1>5. next.todo = rest
  OBVIOUS
<1> HIDE DEF next
<1> QED BY <1>1, <1>3, <1>4, <1>5, GoOnInv DEF SchedInv, SchedTypeOK, next

LEMMA UnresolvedInv == ASSUME SchedInv, NEW t \in Ticks, NEW s \in Schedules, Unresolved(t, s) PROVE SchedInv'
<1> DEFINE next == [at |-> "fire", todo |-> tick[t].todo \ {s}]
<1>1. /\ tick[t].at = "fire" /\ tick' = [tick EXCEPT ![t] = next]
      /\ UNCHANGED <<plan1, day, key, clerk, fired, halted, excused, keyless>>
  BY DEF Unresolved, Ticking
<1>2. next \in Firing /\ next.todo \subseteq tick[t].todo
  BY <1>1 DEF Firing, SchedInv, SchedTypeOK, Asleep, Loading, Marking
<1>3. \A q \in Schedules : ~StandsAt(t, q)
  BY <1>1 DEF StandsAt
<1> HIDE DEF next
<1> QED BY <1>1, <1>2, <1>3, GoOnInv DEF SchedInv, SchedTypeOK

\* A tick ends: nothing it had fired is left to be marked, or it is excused.
LEMMA SleepInv ==
  ASSUME SchedInv, NEW t \in Ticks, tick' = [tick EXCEPT ![t] = Asleep],
         UNCHANGED <<plan1, day, clerk, fired, halted>>,
         key' \in BOOLEAN, keyless' \subseteq Ticks, OneHolder',
         excused \subseteq excused', excused' \subseteq Schedules,
         \A q \in Schedules : StandsAt(t, q) => q \in excused'
  PROVE  SchedInv'
<1>1. \A u \in Ticks : tick'[u] = IF u = t THEN Asleep ELSE tick[u]
  BY DEF SchedInv, SchedTypeOK
<1>2. SchedTypeOK'
  BY DEF SchedInv, SchedTypeOK
<1>3. \A u \in Ticks, q \in Schedules :
         (Has(u, q)' => Has(u, q)) /\ (StandsAt(u, q)' <=> StandsAt(u, q) /\ u # t)
  BY <1>1 DEF Has, StandsAt, Asleep
<1>4. RowsKnown'
  BY <1>1, <1>3 DEF SchedInv, RowsKnown, HasRow
<1>5. OneFiring'
  BY <1>3 DEF SchedInv, OneFiring
<1>6. \A q \in Schedules : Holders(q)' \subseteq Holders(q)
  BY <1>1 DEF Holders, Asleep
<1>7. Halts'
  BY <1>6, HaltsKept DEF SchedInv, Halts
<1> QED BY <1>2, <1>4, <1>5, <1>7 DEF SchedInv

LEMMA ReleaseInv == ASSUME SchedInv, NEW t \in Ticks, Release(t) PROVE SchedInv'
<1>1. /\ tick[t].at = "fire" /\ key' = FALSE /\ keyless' = {u \in Ticks \ {t} : tick[u] # Asleep}
      /\ tick' = [tick EXCEPT ![t] = Asleep] /\ UNCHANGED <<plan1, day, clerk, fired, halted, excused>>
  BY DEF Release, Ticking
<1>2. \A u \in Ticks : tick'[u] = (IF u = t THEN Asleep ELSE tick[u]) /\ (Awake(u) <=> tick[u] # Asleep)
  BY <1>1 DEF SchedInv, SchedTypeOK, Awake, Asleep, Loading, Firing, Marking
<1>3. OneHolder'
  BY <1>1, <1>2 DEF OneHolder, Awake, Asleep
<1>4. \A q \in Schedules : ~StandsAt(t, q)
  BY <1>1 DEF StandsAt
<1> QED BY <1>1, <1>3, <1>4, SleepInv DEF SchedInv, SchedTypeOK

LEMMA CrashInv == ASSUME SchedInv, NEW t \in Ticks, TickCrash(t) PROVE SchedInv'
<1>1. /\ excused' = IF tick[t].at = "mark" THEN excused \cup {tick[t].row} ELSE excused
      /\ keyless' = keyless \ {t} /\ tick' = [tick EXCEPT ![t] = Asleep]
      /\ UNCHANGED <<plan1, day, key, clerk, fired, halted>>
  BY DEF TickCrash, Ticking
<1>2. \A u \in Ticks : tick'[u] = IF u = t THEN Asleep ELSE tick[u]
  BY <1>1 DEF SchedInv, SchedTypeOK
<1>3. OneHolder'
  BY <1>1, <1>2 DEF SchedInv, SchedTypeOK, OneHolder, Awake, Asleep
<1>4. tick[t].at = "mark" => tick[t].row \in Schedules
  BY DEF SchedInv, SchedTypeOK, Asleep, Loading, Firing, Marking
<1>5. \A q \in Schedules : StandsAt(t, q) => q \in excused'
  BY <1>1 DEF StandsAt
<1> QED BY <1>1, <1>3, <1>4, <1>5, SleepInv DEF SchedInv, SchedTypeOK
-----------------------------------------------------------------------------
LEMMA SchedStepInv == SchedInv /\ [SchedNext]_schedVars => SchedInv'
<1> SUFFICES ASSUME SchedInv, [SchedNext]_schedVars PROVE SchedInv'
  OBVIOUS
<1>1. CASE SchedNext
  <2>1. ASSUME NEW s \in Schedules, CreateSchedule(s) PROVE SchedInv'
    BY <2>1, CreateInv
  <2>2. ASSUME NEW c \in Clerks, EditCommit(c) \/ CancelCommit(c) \/ \E s \in Schedules : RequestLoad1(c, s)
        PROVE  SchedInv'
    BY <2>2, EditInv, CancelInv, LoadRequestInv
  <2>3. ASSUME NEW t \in Ticks, Acquire(t) \/ LoadPending(t) \/ MarkFired(t) \/ MarkFails(t)
        PROVE  SchedInv'
    BY <2>3, AcquireInv, LoadInv, MarkInv, MarkFailsInv
  <2>4. ASSUME NEW t \in Ticks, Release(t) \/ TickCrash(t) \/ \E s \in Schedules : Fire(t, s) \/ Unresolved(t, s)
        PROVE  SchedInv'
    BY <2>4, ReleaseInv, CrashInv, FireInv, UnresolvedInv
  <2> QED BY <1>1, <2>1, <2>2, <2>3, <2>4, DayInv, ExpiryInv DEF SchedNext
<1>2. CASE UNCHANGED schedVars
  <2>1. UNCHANGED <<plan1, day, key, tick, clerk, fired, halted, excused, keyless>>
    BY <1>2 DEF schedVars
  <2>2. SchedTypeOK' /\ OneHolder'
    BY <2>1 DEF SchedInv, SchedTypeOK, OneHolder, Awake
  <2>3. RowsKnown' /\ OneFiring'
    BY <2>1 DEF SchedInv, RowsKnown, OneFiring, Has, StandsAt, HasRow
  <2>4. Halts'
    BY <2>1, HaltsKept DEF SchedInv, Halts, Holders
  <2> QED BY <2>2, <2>3, <2>4 DEF SchedInv
<1> QED BY <1>1, <1>2

(* scheduler.py: no double execution. However many ticks overlap, by Celery *)
(* Beat and by the fallback loop, a schedule becomes more than one           *)
(* notification only after a key ran out under a tick or a commit was lost.  *)
THEOREM FiredOnce == SchedSpec => []FiredOnceExplained
<1>1. SchedInv => FiredOnceExplained
  <2> SUFFICES ASSUME SchedInv, NEW s \in Schedules, fired[s] > 1 PROVE s \in excused
    BY DEF FiredOnceExplained
  <2>1. fired[s] \in Nat
    BY DEF SchedInv, SchedTypeOK
  <2> QED BY <2>1 DEF SchedInv, OneFiring
<1> QED BY <1>1, SchedInitInv, SchedStepInv, PTL DEF SchedSpec

(* schedule_api.py, cancel_schedule: once a cancellation is confirmed, only  *)
(* the ticks that had already loaded the schedule can still fire it.         *)
THEOREM CancellationHolds == SchedSpec => []CancelHolds
<1>1. SchedInv => CancelHolds
  <2> SUFFICES ASSUME SchedInv, NEW s \in Schedules, halted[s].yes
               PROVE  halted[s].fires <= halted[s].holders /\ plan1[s].status # "pending"
    BY DEF CancelHolds
  <2>1. Cardinality(Holders(s)) \in Nat /\ halted[s].fires \in Nat /\ halted[s].holders \in Nat
    BY HoldersFinite DEF SchedInv, SchedTypeOK
  <2> QED BY <2>1 DEF SchedInv, Halts
<1> QED BY <1>1, SchedInitInv, SchedStepInv, PTL DEF SchedSpec
-----------------------------------------------------------------------------
(* What a client shows (NotifFeed) *)
Shown == {"badge", "ticker"}
Counts == {Cardinality(S) : S \in SUBSET Pushes}
Note == [on : BOOLEAN, deleted : BOOLEAN, read : BOOLEAN, expiry : {"unsent", "none", "later", "passed"}]
Telling == [at : {"committed"}, tells : SUBSET Shown, adds : SUBSET Banners, drops : SUBSET Banners,
            open : BOOLEAN]
Acts == Expiries \cup {"expire", "delete"}
RowRead == [at : {"loaded"}, note : Notes, act : Acts, on : BOOLEAN,
            expiry : {"unsent", "none", "later", "passed"}]
Announced == [at : {"announced"}, tells : SUBSET Shown]
ReadOut == [at : {"read"}, tells : SUBSET Shown, badge : Counts, ticker : SUBSET Banners]
Sweeping == [at : {"sweep"}, off : SUBSET Banners]
Getting == [at : {"get"}, banners : SUBSET Banners]
Jobs == {Resting} \cup Telling \cup Announced \cup ReadOut \cup Sweeping \cup Getting \cup RowRead
FeedTypeOK == /\ feed \in [Notes -> Note]
              /\ writer \in [Writers -> Jobs]
              /\ client \in [badge : Counts, ticker : SUBSET Banners]
              /\ cached \in (SUBSET Banners) \cup {NoSet}

\* A set of banners shows n as it should be shown.
Right(S, n) == /\ n \in S /\ n \notin Showing => feed[n].expiry = "passed"
               /\ n \in Showing /\ n \notin S => n \in revived
\* Handler w will publish a part of the display, or the event of a banner.
WillTell(w, part) == writer[w].at \in {"committed", "announced", "read"} /\ part \in writer[w].tells
WillMove(w, n) == writer[w].at = "committed" /\ n \in writer[w].adds \cup writer[w].drops
\* What is not as it should be is about to be published again, or was shown late.
BadgeDue == "badge" \notin astray /\ client.badge # Unread => \E w \in Writers : WillTell(w, "badge")
TickerDue == "ticker" \notin astray => \A n \in Banners :
               Right(client.ticker, n) \/ \E w \in Writers : WillTell(w, "ticker") \/ WillMove(w, n)
CacheDue == "cache" \notin astray /\ cached # NoSet => \A n \in Banners :
              Right(cached, n) \/ \E w \in Writers : writer[w].at = "committed" /\ ClearsCache(writer[w])
\* What a handler has in hand that no commit has overtaken.
Recent(w) == /\ writer[w].at = "committed" => /\ \A n \in writer[w].adds : n \in Showing \/ feed[n].expiry = "passed"
                                              /\ \A n \in writer[w].drops : n \notin Showing \/ n \in revived
             /\ writer[w].at = "read" => /\ writer[w].badge = Unread
                                         /\ \A n \in Banners : Right(writer[w].ticker, n)
             /\ writer[w].at = "get" => \A n \in Banners : Right(writer[w].banners, n)
             /\ writer[w].at = "sweep" => \A n \in writer[w].off : feed[n].expiry = "passed"
\* What an administrator's request has loaded: a row that is on by now was switched on since.
ReadRight(w) == writer[w].at = "loaded" =>
               LET job == writer[w] IN
                 /\ feed[job.note].expiry # "unsent" /\ (job.act # "delete" => job.note \in Banners)
                 /\ ~job.on /\ feed[job.note].on => job.note \in revived
Dated == \A n \in Notes : feed[n].expiry = "unsent" => feed[n] = Unsent
FeedInv == /\ FeedTypeOK /\ BadgeDue /\ TickerDue /\ CacheDue
           /\ (\A w \in Writers \ late : Recent(w)) /\ HiddenIffDeleted
           /\ Dated /\ (\A w \in Writers : ReadRight(w))

LEMMA ZeroCounts == 0 \in Counts
<1>1. Cardinality({}) = 0 /\ {} \in SUBSET Pushes
  BY FS_EmptySet
<1> QED BY <1>1 DEF Counts

LEMMA UnreadCounts == Unread \in Counts
<1>1. {n \in Pushes : feed[n].on /\ ~feed[n].read} \in SUBSET Pushes
  OBVIOUS
<1> QED BY <1>1 DEF Unread, Counts

LEMMA FeedInitInv == FeedInit => FeedInv
<1> SUFFICES ASSUME FeedInit PROVE FeedInv
  OBVIOUS
<1>1. \A n \in Notes : feed[n] = Unsent /\ ~feed[n].on /\ ~feed[n].deleted
  BY DEF FeedInit, Unsent
<1>2. Unread = 0 /\ Showing = {}
  <2>1. {n \in Pushes : feed[n].on /\ ~feed[n].read} = {} /\ Showing = {}
    BY <1>1 DEF Showing, Notes
  <2> QED BY <2>1, FS_EmptySet DEF Unread
<1>3. FeedTypeOK
  <2>1. Unsent \in Note
    BY DEF Unsent, Note
  <2>2. /\ feed \in [Notes -> Note] /\ cached \in (SUBSET Banners) \cup {NoSet}
        /\ writer \in [Writers -> Jobs]
    BY <2>1 DEF FeedInit, Jobs
  <2>3. client \in [badge : Counts, ticker : SUBSET Banners]
    BY ZeroCounts DEF FeedInit
  <2> QED BY <2>2, <2>3 DEF FeedTypeOK
<1>4. BadgeDue /\ TickerDue /\ CacheDue
  BY <1>2 DEF FeedInit, BadgeDue, TickerDue, CacheDue, Right
<1>5. Dated /\ \A w \in Writers : Recent(w) /\ ReadRight(w)
  BY <1>1 DEF FeedInit, Recent, Resting, Dated, ReadRight
<1>6. HiddenIffDeleted
  BY <1>1 DEF HiddenIffDeleted
<1> QED BY <1>3, <1>4, <1>5, <1>6 DEF FeedInv

\* A commit: the banners it does not keep right are those it will publish.
StaysRight(n) == /\ n \in Showing' => n \in Showing \/ n \in revived'
                 /\ n \notin Showing' => feed'[n].expiry = "passed" \/ (n \notin Showing /\ feed[n].expiry # "passed")

LEMMA RightStays == ASSUME NEW n \in Banners, StaysRight(n), revived \subseteq revived', NEW S, Right(S, n)
                    PROVE Right(S, n)'
BY DEF StaysRight, Right

LEMMA WriteInv ==
  ASSUME FeedInv, NEW w \in Writers, NEW rows \in [Notes -> Note], NEW job \in Telling, Write(w, rows, job),
         UNCHANGED <<client, cached, astray>>, revived \subseteq revived',
         writer[w].at \in {"idle", "sweep", "loaded"},
         "badge" \in job.tells \/ \A n \in Pushes : rows[n].on = feed[n].on /\ rows[n].read = feed[n].read,
         \A n \in Banners : StaysRight(n) \/ (ClearsCache(job) /\ ("ticker" \in job.tells \/ n \in job.adds \cup job.drops)),
         \A n \in job.adds : n \in Showing',  \A n \in job.drops : n \notin Showing' \/ n \in revived',
         \A n \in Notes : feed[n].expiry # "unsent" =>
           rows[n].expiry # "unsent" /\ (rows[n].on => feed[n].on \/ n \in revived'),
         Dated', HiddenIffDeleted'
  PROVE  FeedInv'
<1>1. /\ feed' = rows /\ writer' = [writer EXCEPT ![w] = job] /\ late' = (late \cup Holding) \ {w}
      /\ client' = client /\ cached' = cached /\ astray' = astray
  BY DEF Write
<1>2. FeedTypeOK'
  BY <1>1 DEF FeedInv, FeedTypeOK, Jobs
<1>3. /\ writer'[w] = job /\ job.at = "committed"
      /\ \A v \in Writers \ {w} : writer'[v] = writer[v]
      /\ \A p, n : ~WillTell(w, p) /\ ~WillMove(w, n) /\ writer[w].at # "committed"
  BY <1>1 DEF FeedInv, FeedTypeOK, Telling, WillTell, WillMove
<1>4. BadgeDue'
  <2>1. CASE "badge" \in job.tells
    BY <1>3, <2>1 DEF BadgeDue, WillTell
  <2>2. CASE \A n \in Pushes : rows[n].on = feed[n].on /\ rows[n].read = feed[n].read
    <3>1. Unread' = Unread
      <4>1. {n \in Pushes : feed'[n].on /\ ~feed'[n].read} = {n \in Pushes : feed[n].on /\ ~feed[n].read}
        BY <1>1, <2>2
      <4> QED BY <4>1 DEF Unread
    <3>2. \A v \in Writers : WillTell(v, "badge") => WillTell(v, "badge")'
      BY <1>3 DEF WillTell
    <3> QED BY <1>1, <3>1, <3>2 DEF FeedInv, BadgeDue
  <2> QED BY <2>1, <2>2
<1>5. TickerDue'
  <2> SUFFICES ASSUME "ticker" \notin astray, NEW n \in Banners,
                      ~(\E v \in Writers : WillTell(v, "ticker")' \/ WillMove(v, n)')
               PROVE Right(client.ticker, n)'
    BY <1>1 DEF TickerDue, Right
  <2>1. StaysRight(n)
    BY <1>3 DEF WillTell, WillMove
  <2>2. \A v \in Writers : ~WillTell(v, "ticker") /\ ~WillMove(v, n)
    BY <1>3 DEF WillTell, WillMove
  <2>3. Right(client.ticker, n)
    BY <2>2 DEF FeedInv, TickerDue
  <2> QED BY <1>1, <2>1, <2>3, RightStays DEF Right
<1>6. CacheDue'
  <2> SUFFICES ASSUME "cache" \notin astray, cached # NoSet, NEW n \in Banners,
                      ~(\E v \in Writers : writer'[v].at = "committed" /\ ClearsCache(writer'[v]))
               PROVE Right(cached, n)'
    BY <1>1 DEF CacheDue, Right, ClearsCache
  <2>1. StaysRight(n)
    BY <1>3
  <2>2. \A v \in Writers : ~(writer[v].at = "committed" /\ ClearsCache(writer[v]))
    BY <1>3
  <2>3. Right(cached, n)
    BY <2>2 DEF FeedInv, CacheDue
  <2> QED BY <1>1, <2>1, <2>3, RightStays DEF Right
<1>7. ASSUME NEW v \in Writers \ late' PROVE Recent(v)'
  <2>1. CASE v = w
    BY <1>3, <2>1 DEF Recent
  <2>2. CASE v # w
    BY <1>1, <1>3, <1>7, <2>2 DEF Recent, Holding
  <2> QED BY <2>1, <2>2
<1>8. ASSUME NEW v \in Writers PROVE ReadRight(v)'
  <2>1. CASE v = w
    BY <1>3, <2>1 DEF ReadRight
  <2>2. CASE v # w /\ writer[v].at = "loaded"
    <3>1. writer[v].note \in Notes /\ ReadRight(v)
      BY <2>2 DEF FeedInv, FeedTypeOK, Jobs, RowRead, Resting, Telling, Announced, ReadOut, Sweeping, Getting
    <3> QED BY <1>1, <1>3, <2>2, <3>1 DEF ReadRight
  <2>3. CASE v # w /\ writer[v].at # "loaded"
    BY <1>3, <2>3 DEF ReadRight
  <2> QED BY <2>1, <2>2, <2>3
<1> QED BY <1>2, <1>4, <1>5, <1>6, <1>7, <1>8 DEF FeedInv

LEMMA PostInv ==
  ASSUME FeedInv, NEW w \in Writers, NEW n \in Notes, NEW e \in {"none", "later"}, NEW job \in Telling,
         Enter(w, n, e, job), job.adds \subseteq {n} \cap Banners, job.drops = {},
         n \in Pushes => "badge" \in job.tells, n \in Banners => "ticker" \in job.tells \/ n \in job.adds
  PROVE  FeedInv'
<1> DEFINE rows == [feed EXCEPT ![n] = Sent1(e)]
<1>1. /\ Write(w, rows, job) /\ UNCHANGED <<client, cached, astray, revived, cutOff>>
      /\ writer[w].at \in {"idle", "sweep", "loaded"} /\ feed[n] = Unsent
  BY DEF Enter, Starts, Resting
<1>2. Sent1(e) \in Note /\ Sent1(e).on /\ ~Sent1(e).read /\ ~Sent1(e).deleted /\ Sent1(e).expiry \notin {"passed", "unsent"}
  BY DEF Sent1, Note
<1>3. rows \in [Notes -> Note]
  BY <1>2 DEF FeedInv, FeedTypeOK
<1>4. /\ \A m \in Notes \ {n} : rows[m] = feed[m]
      /\ rows[n] = Sent1(e) /\ feed' = rows
  BY <1>1 DEF FeedInv, FeedTypeOK, Write
<1> HIDE DEF rows
<1>5. "badge" \in job.tells \/ \A m \in Pushes : rows[m].on = feed[m].on /\ rows[m].read = feed[m].read
  BY <1>4 DEF Notes
<1>6. ASSUME NEW m \in Banners
      PROVE StaysRight(m) \/ (ClearsCache(job) /\ ("ticker" \in job.tells \/ m \in job.adds \cup job.drops))
  <2>1. CASE m = n
    BY <1>4, <2>1 DEF ClearsCache
  <2>2. CASE m # n
    BY <1>4, <2>2 DEF StaysRight, Showing, Notes
  <2> QED BY <2>1, <2>2
<1>7. \A m \in job.adds : m \in Showing'
  BY <1>2, <1>4 DEF Showing
<1>8. HiddenIffDeleted' /\ Dated'
  BY <1>1, <1>2, <1>4 DEF FeedInv, HiddenIffDeleted, InHistory, Dated
<1>9. \A m \in Notes : feed[m].expiry # "unsent" =>
        rows[m].expiry # "unsent" /\ (rows[m].on => feed[m].on \/ m \in revived')
  BY <1>1, <1>4 DEF Unsent
<1> QED BY <1>1, <1>3, <1>5, <1>6, <1>7, <1>8, <1>9, WriteInv

LEMMA PostsInv ==
  ASSUME FeedInv, NEW w \in Writers,
         SendNotification(w) \/ CreateBanner(w) \/ EventPush(w) \/ EventBanner(w) \/ FirePush(w) \/ FireBanner(w)
  PROVE  FeedInv'
<1>1. /\ \A n \in Pushes : n \in Notes /\ n \notin Banners
      /\ \A n \in Banners : n \in Notes /\ n \notin Pushes
  BY FeedAssumption DEF Notes
<1>2. ASSUME NEW n \in Pushes, Post(w, n, "none", {"badge"}, {}) PROVE FeedInv'
  <2>1. /\ ToPublish({"badge"}, {}, {}) \in Telling /\ ToPublish({"badge"}, {}, {}).tells = {"badge"}
        /\ ToPublish({"badge"}, {}, {}).adds = {} /\ ToPublish({"badge"}, {}, {}).drops = {}
    BY DEF ToPublish, Telling, Shown
  <2> QED BY <1>1, <1>2, <2>1, PostInv DEF Post
<1>3. ASSUME NEW n \in Banners, NEW e \in SomeExpiry, NEW tells \in {{"badge", "ticker"}, {"ticker"}},
             Post(w, n, e, tells, {n})
      PROVE FeedInv'
  <2>1. /\ ToPublish(tells, {n}, {}) \in Telling /\ ToPublish(tells, {n}, {}).tells = tells
        /\ ToPublish(tells, {n}, {}).adds = {n} /\ ToPublish(tells, {n}, {}).drops = {}
    BY DEF ToPublish, Telling, Shown
  <2>2. n \in Notes /\ n \notin Pushes /\ e \in {"none", "later"} /\ "ticker" \in tells
    BY <1>1 DEF SomeExpiry
  <2>3. Enter(w, n, e, ToPublish(tells, {n}, {})) /\ {n} \subseteq {n} \cap Banners
    BY <1>3 DEF Post
  <2> HIDE DEF SomeExpiry
  <2> DEFINE job == ToPublish(tells, {n}, {})
  <2>4. job \in Telling /\ job.tells = tells /\ job.adds = {n} /\ job.drops = {} /\ Enter(w, n, e, job)
    BY <2>1, <2>3
  <2> HIDE DEF job
  <2> QED BY <2>2, <2>4, PostInv
<1>4. ASSUME NEW n \in Banners, Enter(w, n, "none", ToAll({n})) PROVE FeedInv'
  <2>1. ToAll({n}) \in Telling /\ ToAll({n}).adds = {n} /\ ToAll({n}).drops = {}
    BY DEF ToAll, ToPublish, Telling, Shown
  <2> QED BY <1>1, <1>4, <2>1, PostInv
<1> QED BY <1>2, <1>3, <1>4 DEF SendNotification, CreateBanner, EventPush, EventBanner, FirePush, FireBanner, SomeExpiry

LEMMA ReaderInv == ASSUME FeedInv, NEW w \in Writers, NEW S \in SUBSET Received, NEW r \in BOOLEAN, Reader(w, S, r)
                   PROVE FeedInv'
<1> DEFINE rows == [n \in Notes |-> IF n \in S THEN [feed[n] EXCEPT !.read = r] ELSE feed[n]]
           job == ToPublish({"badge"}, {}, {})
<1>1. /\ Write(w, rows, job) /\ UNCHANGED <<client, cached, astray, revived, cutOff>>
      /\ writer[w].at \in {"idle", "sweep", "loaded"}
  BY DEF Reader, Starts, Resting
<1>2. /\ rows \in [Notes -> Note] /\ job \in Telling
      /\ \A n \in Notes : /\ rows[n].on = feed[n].on /\ rows[n].expiry = feed[n].expiry
                          /\ rows[n].deleted = feed[n].deleted
      /\ job.tells = {"badge"} /\ job.adds = {} /\ job.drops = {}
  BY DEF FeedInv, FeedTypeOK, Note, ToPublish, Telling, Shown
<1>3. \A n \in Notes : rows[n] # Unsent => feed[n] # Unsent
  BY DEF Received
<1>4. feed' = rows
  BY <1>1 DEF Write
<1>8. \A n \in Notes : feed[n] = Unsent => rows[n] = Unsent
  BY DEF Received
<1> HIDE DEF rows, job
<1>5. \A n \in Banners : StaysRight(n)
  BY <1>2, <1>4 DEF StaysRight, Showing, Notes
<1>6. HiddenIffDeleted'
  BY <1>1, <1>2, <1>3, <1>4 DEF FeedInv, HiddenIffDeleted, InHistory
<1>7. Dated'
  BY <1>2, <1>4, <1>8 DEF FeedInv, Dated, Unsent
<1> QED BY <1>1, <1>2, <1>5, <1>6, <1>7, WriteInv

LEMMA ReadersInv == ASSUME FeedInv, NEW w \in Writers, MarkRead(w) \/ MarkUnread(w) \/ MarkAllRead(w) PROVE FeedInv'
<1>1. \A n \in Received : {n} \in SUBSET Received
  OBVIOUS
<1> QED BY <1>1, ReaderInv DEF MarkRead, MarkUnread, MarkAllRead

LEMMA LoadedJob ==
  ASSUME FeedInv, NEW w \in Writers, writer[w].at = "loaded"
  PROVE  /\ writer[w] \in RowRead /\ ReadRight(w) /\ feed[writer[w].note] \in Note
         /\ \A on \in BOOLEAN : Switched(writer[w], on) \in BOOLEAN
BY DEF FeedInv, FeedTypeOK, Jobs, RowRead, Resting, Telling, Announced, ReadOut, Sweeping, Getting, Switched, Note

LEMMA DeleteInv == ASSUME FeedInv, NEW w \in Writers, DeleteCommit(w) PROVE FeedInv'
<1> DEFINE n == writer[w].note
           on == Switched(writer[w], FALSE)
           rows == [feed EXCEPT ![n].on = on, ![n].deleted = TRUE]
           job == ToPublish(DeleteTells(n), {}, {n} \cap Banners)
<1>1. /\ Write(w, rows, job) /\ UNCHANGED <<client, cached, astray, revived, cutOff>>
      /\ writer[w].at = "loaded"
  BY DEF DeleteCommit, Acting
<1>2. n \in Notes /\ on \in BOOLEAN /\ feed[n] \in Note /\ feed[n].expiry # "unsent" /\ (on => feed[n].on /\ n \in revived)
  BY <1>1, LoadedJob DEF RowRead, ReadRight, Switched
<1> HIDE DEF n, on
<1>3. [feed[n] EXCEPT !.on = on, !.deleted = TRUE] \in Note
  BY <1>2 DEF Note
<1>4. rows = [feed EXCEPT ![n] = [feed[n] EXCEPT !.on = on, !.deleted = TRUE]]
  BY <1>2 DEF FeedInv, FeedTypeOK, Note
<1>5. rows \in [Notes -> Note] /\ job \in Telling
  BY <1>2, <1>3, <1>4 DEF FeedInv, FeedTypeOK, ToPublish, Telling, DeleteTells, Shown
<1>6. /\ job.tells = DeleteTells(n) /\ job.adds = {} /\ job.drops = {n} \cap Banners /\ feed' = rows
      /\ \A m \in Notes \ {n} : rows[m] = feed[m]
      /\ rows[n].on = on /\ rows[n].deleted /\ rows[n].expiry = feed[n].expiry
  BY <1>1, <1>2, <1>4 DEF FeedInv, FeedTypeOK, Note, ToPublish, Write
<1> HIDE DEF rows, job
<1>7. "badge" \in job.tells
  BY <1>6 DEF DeleteTells
<1>8. ASSUME NEW m \in Banners
      PROVE StaysRight(m) \/ (ClearsCache(job) /\ ("ticker" \in job.tells \/ m \in job.adds \cup job.drops))
  <2>1. CASE m = n
    BY <1>6, <2>1 DEF ClearsCache, DeleteTells
  <2>2. CASE m # n
    BY <1>6, <2>2 DEF StaysRight, Showing, Notes
  <2> QED BY <2>1, <2>2
<1>9. \A m \in job.drops : m \notin Showing' \/ m \in revived'
  BY <1>1, <1>2, <1>6 DEF Showing
<1>10. \A m \in Notes : feed[m].expiry # "unsent" =>
         rows[m].expiry # "unsent" /\ (rows[m].on => feed[m].on \/ m \in revived')
  BY <1>2, <1>6
<1>11. HiddenIffDeleted' /\ Dated'
  BY <1>1, <1>2, <1>6 DEF FeedInv, HiddenIffDeleted, InHistory, Dated
<1>12. \A m \in job.adds : m \in Showing'
  BY <1>6
<1> QED BY <1>1, <1>5, <1>7, <1>8, <1>9, <1>10, <1>11, <1>12, WriteInv

LEMMA ExpireInv == ASSUME FeedInv, NEW w \in Writers, ExpireNowCommit(w) PROVE FeedInv'
<1> DEFINE n == writer[w].note
           on == Switched(writer[w], FALSE)
           rows == [feed EXCEPT ![n].on = on, ![n].expiry = "passed"]
           job == ToPublish({"ticker"}, {}, {n})
<1>1. /\ Write(w, rows, job) /\ UNCHANGED <<client, cached, astray, revived, cutOff>>
      /\ writer[w].at = "loaded" /\ writer[w].act = "expire"
  BY DEF ExpireNowCommit, Acting
<1>2. /\ n \in Notes /\ n \in Banners /\ n \notin Pushes /\ on \in BOOLEAN /\ feed[n] \in Note
      /\ on => feed[n].on
  BY <1>1, LoadedJob, FeedAssumption DEF RowRead, ReadRight, Switched
<1> HIDE DEF n, on
<1>3. [feed[n] EXCEPT !.on = on, !.expiry = "passed"] \in Note
  BY <1>2 DEF Note
<1>4. rows = [feed EXCEPT ![n] = [feed[n] EXCEPT !.on = on, !.expiry = "passed"]]
  BY <1>2 DEF FeedInv, FeedTypeOK, Note
<1>5. rows \in [Notes -> Note] /\ job \in Telling
  BY <1>2, <1>3, <1>4 DEF FeedInv, FeedTypeOK, ToPublish, Telling, Shown
<1>6. /\ job.tells = {"ticker"} /\ job.adds = {} /\ job.drops = {n} /\ feed' = rows
      /\ \A m \in Notes \ {n} : rows[m] = feed[m]
      /\ rows[n].on = on /\ rows[n].expiry = "passed" /\ rows[n].deleted = feed[n].deleted
  BY <1>1, <1>2, <1>4 DEF FeedInv, FeedTypeOK, Note, ToPublish, Write
<1> HIDE DEF rows, job
<1>7. \A m \in Pushes : rows[m].on = feed[m].on /\ rows[m].read = feed[m].read
  BY <1>2, <1>6 DEF Notes
<1>8. ClearsCache(job) /\ "ticker" \in job.tells
  BY <1>6 DEF ClearsCache
<1>9. (\A m \in job.drops : m \notin Showing') /\ (\A m \in job.adds : m \in Showing')
  BY <1>6 DEF Showing
<1>10. \A m \in Notes : feed[m].expiry # "unsent" =>
         rows[m].expiry # "unsent" /\ (rows[m].on => feed[m].on \/ m \in revived')
  BY <1>2, <1>6
<1>11. HiddenIffDeleted' /\ Dated'
  BY <1>1, <1>2, <1>6 DEF FeedInv, HiddenIffDeleted, InHistory, Dated
<1> QED BY <1>1, <1>5, <1>6, <1>7, <1>8, <1>9, <1>10, <1>11, WriteInv

LEMMA ChangeExpiryInv == ASSUME FeedInv, NEW w \in Writers, ChangeExpiryCommit(w) PROVE FeedInv'
<1> DEFINE n == writer[w].note
           rows == Extended(writer[w])
           job == IF rows[n].on THEN ToPublish({}, {}, {}) ELSE ToPublish({"ticker"}, {}, {n})
<1>1. /\ Write(w, rows, job) /\ UNCHANGED <<client, cached, astray>>
      /\ revived' = (IF rows[n].on /\ n \notin Showing THEN revived \cup {n} ELSE revived)
      /\ cutOff' = (IF ~rows[n].on /\ rows[n].expiry # "passed" THEN cutOff \cup {n} ELSE cutOff)
      /\ writer[w].at = "loaded" /\ writer[w].act \in Expiries
  BY DEF ChangeExpiryCommit, Acting
<1>2. /\ n \in Notes /\ n \in Banners /\ n \notin Pushes /\ feed[n] \in Note /\ feed[n].expiry # "unsent"
      /\ (writer[w].act # "passed") \in BOOLEAN
      /\ Switched(writer[w], writer[w].act # "passed") \in BOOLEAN
  <2>1. (writer[w].act # "passed") \in BOOLEAN
    OBVIOUS
  <2>2. Switched(writer[w], writer[w].act # "passed") \in BOOLEAN
    BY <1>1, <2>1, LoadedJob
  <2> QED BY <1>1, <2>1, <2>2, LoadedJob, FeedAssumption DEF RowRead, ReadRight, Expiries
<1> DEFINE on == Switched(writer[w], writer[w].act # "passed")
           e == IF writer[w].act = "none" /\ writer[w].expiry = "none" THEN feed[n].expiry ELSE writer[w].act
<1>3. on \in BOOLEAN /\ e \in Expiries
  BY <1>1, <1>2 DEF Expiries, Note
<1>4. rows = [feed EXCEPT ![n] = [feed[n] EXCEPT !.on = on, !.expiry = e]]
  <2>1. rows = [feed EXCEPT ![n].on = on, ![n].expiry = e]
    BY Zenon DEF Extended
  <2>2. n \in DOMAIN feed
    BY <1>2 DEF FeedInv, FeedTypeOK
  <2> HIDE DEF n, on, e, rows
  <2> QED BY <2>1, <2>2
<1>5. [feed[n] EXCEPT !.on = on, !.expiry = e] \in Note /\ e # "unsent"
  BY <1>2, <1>3 DEF Note, Expiries
<1> HIDE DEF n, rows, on, e
<1>6. rows \in [Notes -> Note]
  BY <1>2, <1>4, <1>5 DEF FeedInv, FeedTypeOK
<1>7. /\ job \in Telling /\ job.tells \in SUBSET {"ticker"} /\ job.adds = {} /\ feed' = rows
      /\ rows[n].on => job.tells = {} /\ job.drops = {}
      /\ ~rows[n].on => job.tells = {"ticker"} /\ job.drops = {n}
  BY <1>1, <1>2 DEF ToPublish, Telling, Shown, Write
<1>8. /\ \A m \in Notes \ {n} : rows[m] = feed[m]
      /\ rows[n].expiry = e /\ rows[n].deleted = feed[n].deleted
  BY <1>2, <1>4 DEF FeedInv, FeedTypeOK, Note
<1> HIDE DEF job
<1>9. \A m \in Pushes : rows[m].on = feed[m].on /\ rows[m].read = feed[m].read
  BY <1>2, <1>8 DEF Notes
<1>10. ASSUME NEW m \in Banners
       PROVE StaysRight(m) \/ (ClearsCache(job) /\ ("ticker" \in job.tells \/ m \in job.adds \cup job.drops))
  <2>1. CASE m = n /\ ~rows[n].on
    BY <1>7, <2>1 DEF ClearsCache
  <2>2. CASE m = n /\ rows[n].on
    BY <1>1, <1>7, <1>8, <2>2 DEF StaysRight, Showing
  <2>3. CASE m # n
    BY <1>1, <1>7, <1>8, <2>3 DEF StaysRight, Showing, Notes
  <2> QED BY <2>1, <2>2, <2>3
<1>11. (\A m \in job.drops : m \notin Showing') /\ (\A m \in job.adds : m \in Showing')
  BY <1>7 DEF Showing
<1>12. \A m \in Notes : feed[m].expiry # "unsent" =>
         rows[m].expiry # "unsent" /\ (rows[m].on => feed[m].on \/ m \in revived')
  BY <1>1, <1>2, <1>5, <1>8 DEF Showing
<1>13. HiddenIffDeleted'
  <2> SUFFICES ASSUME NEW m \in Notes
               PROVE  /\ feed'[m].deleted /\ feed'[m].on => m \in revived'
                      /\ feed'[m] # Unsent /\ ~feed'[m].deleted /\ ~InHistory(m)' => m \in cutOff'
    BY DEF HiddenIffDeleted
  <2>1. revived \subseteq revived' /\ cutOff \subseteq cutOff'
    BY <1>1
  <2>2. CASE m # n
    BY <1>7, <1>8, <2>1, <2>2 DEF FeedInv, HiddenIffDeleted, InHistory
  <2>3. CASE m = n
    <3>1. feed[n].deleted /\ feed[n].on => n \in revived
      BY <1>2 DEF FeedInv, HiddenIffDeleted
    <3>2. rows[n].on /\ n \notin revived' => feed[n].on
      BY <1>1 DEF Showing
    <3> QED BY <1>1, <1>2, <1>7, <1>8, <2>1, <2>3, <3>1, <3>2 DEF InHistory
  <2> QED BY <2>2, <2>3
<1>14. Dated' /\ revived \subseteq revived'
  BY <1>1, <1>5, <1>7, <1>8 DEF FeedInv, Dated
<1> QED BY <1>1, <1>6, <1>7, <1>9, <1>10, <1>11, <1>12, <1>13, <1>14, WriteInv

LEMMA SameNote == ASSUME NEW r \in Note, NEW t \in Note, r.on = t.on, r.deleted = t.deleted, r.read = t.read,
                         r.expiry = t.expiry
                  PROVE  r = t
BY DEF Note

LEMMA SweepCommitInv == ASSUME FeedInv, NEW w \in Writers, SweepCommit(w) PROVE FeedInv'
<1> DEFINE off == writer[w].off
           rows == [n \in Notes |-> IF n \in off THEN [feed[n] EXCEPT !.on = FALSE] ELSE feed[n]]
           job == ToPublish({"ticker"}, {}, off)
<1>1. /\ writer[w].at = "sweep" /\ Write(w, rows, job)
      /\ cutOff' = cutOff \cup {n \in off : w \in late /\ feed[n].expiry # "passed"}
      /\ UNCHANGED <<client, cached, astray, revived>>
  BY DEF SweepCommit
<1>2. off \in SUBSET Banners
  BY <1>1 DEF FeedInv, FeedTypeOK, Jobs, RowRead, Resting, Telling, Announced, ReadOut, Sweeping, Getting
<1>3. /\ rows \in [Notes -> Note] /\ job \in Telling
      /\ job.tells = {"ticker"} /\ job.adds = {} /\ job.drops = off /\ feed' = rows
  BY <1>1, <1>2 DEF FeedInv, FeedTypeOK, Note, ToPublish, Telling, Shown, Write
<1>4. \A n \in Notes : /\ n \notin off => rows[n] = feed[n]
                       /\ n \in off => rows[n] = [feed[n] EXCEPT !.on = FALSE]
  OBVIOUS
<1> HIDE DEF rows, job, off
<1>5. \A n \in Pushes : n \in Notes /\ n \notin off
  BY <1>2, FeedAssumption DEF Notes
<1>6. ClearsCache(job) /\ "ticker" \in job.tells
  BY <1>3 DEF ClearsCache
<1>7. ASSUME NEW n \in off
      PROVE  n \in Notes /\ ~rows[n].on /\ rows[n].expiry = feed[n].expiry /\ rows[n].deleted = feed[n].deleted
  <2>1. n \in Notes
    BY <1>2 DEF Notes
  <2>2. feed[n] \in Note /\ rows[n] = [feed[n] EXCEPT !.on = FALSE]
    BY <1>4, <2>1 DEF FeedInv, FeedTypeOK
  <2> QED BY <2>1, <2>2 DEF Note
<1>8. \A n \in job.drops : n \notin Showing'
  BY <1>3, <1>7 DEF Showing
<1>9. HiddenIffDeleted'
  <2> SUFFICES ASSUME NEW n \in Notes
               PROVE  /\ feed'[n].deleted /\ feed'[n].on => n \in revived'
                      /\ feed'[n] # Unsent /\ ~feed'[n].deleted /\ ~InHistory(n)' => n \in cutOff'
    BY DEF HiddenIffDeleted
  <2>1. CASE n \notin off
    BY <1>1, <1>3, <1>4, <2>1 DEF FeedInv, HiddenIffDeleted, InHistory
  <2>2. CASE n \in off
    <3>1. feed[n].expiry # "passed" => w \in late
      BY <1>1, <2>2 DEF FeedInv, Recent, off
    <3> QED BY <1>1, <1>2, <1>3, <1>7, <2>2, <3>1 DEF InHistory
  <2> QED BY <2>1, <2>2
<1>10. \A n \in Pushes : rows[n].on = feed[n].on /\ rows[n].read = feed[n].read
  BY <1>4, <1>5
<1>11. writer[w].at \in {"idle", "sweep", "loaded"} /\ revived \subseteq revived'
  BY <1>1
<1>12. \A n \in Notes : feed[n].expiry # "unsent" =>
         rows[n].expiry # "unsent" /\ (rows[n].on => feed[n].on \/ n \in revived')
  BY <1>4, <1>7
<1>13. Dated'
  <2>1. ASSUME NEW n \in Notes, feed'[n].expiry = "unsent" PROVE feed'[n] = Unsent
    <3>1. feed[n] = Unsent /\ ~feed[n].on
      BY <1>3, <1>4, <1>7, <2>1 DEF FeedInv, Dated, Unsent
    <3>2. [feed[n] EXCEPT !.on = FALSE] = Unsent
      <4>1. Unsent \in Note /\ [Unsent EXCEPT !.on = FALSE] \in Note
        BY DEF Unsent, Note
      <4>2. /\ [Unsent EXCEPT !.on = FALSE].on = Unsent.on /\ [Unsent EXCEPT !.on = FALSE].read = Unsent.read
            /\ [Unsent EXCEPT !.on = FALSE].deleted = Unsent.deleted
            /\ [Unsent EXCEPT !.on = FALSE].expiry = Unsent.expiry
        BY DEF Unsent
      <4> QED BY <3>1, <4>1, <4>2, SameNote
    <3> QED BY <1>3, <1>4, <3>1, <3>2
  <2> QED BY <2>1 DEF Dated
<1> QED BY <1>1, <1>3, <1>6, <1>8, <1>9, <1>10, <1>11, <1>12, <1>13, WriteInv

\* What a handler does between commits changes no row, and its own job alone.
LEMMA QuietStep ==
  ASSUME FeedInv, NEW w \in Writers,
         NEW next \in Jobs,
         writer' = [writer EXCEPT ![w] = next], feed' = feed, revived' = revived, cutOff' = cutOff,
         late \ {w} \subseteq late', w \notin late' => Recent(w)', ReadRight(w)'
  PROVE  /\ writer' \in [Writers -> Jobs]
         /\ writer'[w] = next /\ \A v \in Writers \ {w} : writer'[v] = writer[v]
         /\ feed' \in [Notes -> Note] /\ Unread' = Unread /\ Showing' = Showing
         /\ \A S, n : Right(S, n)' <=> Right(S, n)
         /\ \A v \in Writers \ late' : Recent(v)'
         /\ HiddenIffDeleted' /\ Dated' /\ \A v \in Writers : ReadRight(v)'
<1>1. /\ writer' \in [Writers -> Jobs]
      /\ writer'[w] = next /\ \A v \in Writers \ {w} : writer'[v] = writer[v]
      /\ feed' \in [Notes -> Note]
  BY DEF FeedInv, FeedTypeOK
<1>2. Unread' = Unread /\ Showing' = Showing
  BY DEF Unread, Showing
<1>3. \A S, n : Right(S, n)' <=> Right(S, n)
  BY <1>2 DEF Right
<1>4. ASSUME NEW v \in Writers \ late', v # w PROVE Recent(v)'
  BY <1>1, <1>2, <1>3, <1>4 DEF FeedInv, Recent
<1>5. HiddenIffDeleted' /\ Dated'
  BY DEF FeedInv, HiddenIffDeleted, InHistory, Dated
<1>6. ASSUME NEW v \in Writers, v # w PROVE ReadRight(v)'
  BY <1>1, <1>6 DEF FeedInv, ReadRight
<1> QED BY <1>1, <1>2, <1>3, <1>4, <1>5, <1>6

\* A handler that takes up work which it does not publish by itself.
LEMMA BeginsInv ==
  ASSUME FeedInv, NEW w \in Writers,
         \/ SweepLoad(w) \/ Connect(w) \/ GetLoad(w) \/ \E n \in Banners, act \in Expiries \cup {"expire"} : AdminLoad(w, n, act)
         \/ \E n \in Notes : AdminLoad(w, n, "delete")
  PROVE  FeedInv'
<1>1. PICK next \in Jobs : /\ writer' = [writer EXCEPT ![w] = next]
                           /\ \/ next = [at |-> "sweep", off |-> Lapsed]
                              \/ next.at = "announced"
                              \/ next = [at |-> "get", banners |-> Showing]
                              \/ /\ next.at = "loaded" /\ next.note \in Notes /\ feed[next.note] # Unsent
                                 /\ next.act # "delete" => next.note \in Banners
                                 /\ next.on = feed[next.note].on
  <2>1. Lapsed \subseteq Banners /\ Showing \subseteq Banners
    BY DEF Lapsed, Showing
  <2>2. CASE SweepLoad(w)
    <3>1. [at |-> "sweep", off |-> Lapsed] \in Jobs
      BY <2>1 DEF Jobs, Sweeping
    <3> QED BY <2>2, <3>1 DEF SweepLoad
  <2>3. CASE Connect(w)
    <3> DEFINE next == [at |-> "announced", tells |-> {"badge", "ticker"}]
    <3>1. next \in Jobs /\ next.at = "announced"
      BY DEF Jobs, Announced, Shown
    <3> QED BY <2>3, <3>1 DEF Connect
  <2>4. CASE GetLoad(w)
    <3>1. [at |-> "get", banners |-> Showing] \in Jobs
      BY <2>1 DEF Jobs, Getting
    <3> QED BY <2>4, <3>1 DEF GetLoad
  <2>5. ASSUME NEW n \in Notes, NEW act \in Acts, AdminLoad(w, n, act), act # "delete" => n \in Banners
        PROVE  \E next \in Jobs : /\ writer' = [writer EXCEPT ![w] = next]
                                  /\ next.at = "loaded" /\ next.note \in Notes /\ feed[next.note] # Unsent
                                  /\ next.act # "delete" => next.note \in Banners
                                  /\ next.on = feed[next.note].on
    <3> DEFINE next == [at |-> "loaded", note |-> n, act |-> act, on |-> feed[n].on, expiry |-> feed[n].expiry]
    <3>1. feed[n].on \in BOOLEAN /\ feed[n].expiry \in {"unsent", "none", "later", "passed"}
      BY DEF FeedInv, FeedTypeOK, Note
    <3>2. next \in Jobs
      BY <3>1 DEF Jobs, RowRead
    <3>3. writer' = [writer EXCEPT ![w] = next] /\ feed[n] # Unsent
      BY <2>5 DEF AdminLoad
    <3>4. next.at = "loaded" /\ next.note = n /\ next.act = act /\ next.on = feed[n].on
      OBVIOUS
    <3> HIDE DEF next
    <3> QED BY <2>5, <3>2, <3>3, <3>4
  <2>6. CASE \E n \in Banners, act \in Expiries \cup {"expire"} : AdminLoad(w, n, act)
    <3>1. PICK n \in Banners, act \in Expiries \cup {"expire"} : AdminLoad(w, n, act)
      BY <2>6
    <3>2. n \in Notes /\ act \in Acts
      BY DEF Notes, Acts
    <3> HIDE DEF AdminLoad
    <3> QED BY <2>5, <3>1, <3>2
  <2>7. CASE \E n \in Notes : AdminLoad(w, n, "delete")
    <3>1. "delete" \in Acts
      BY DEF Acts
    <3> QED BY <2>5, <2>7, <3>1
  <2> QED BY <2>2, <2>3, <2>4, <2>6, <2>7
<1>2. /\ writer[w] = Resting /\ feed' = feed /\ client' = client /\ cached' = cached
      /\ astray' = astray /\ revived' = revived /\ cutOff' = cutOff /\ late \ {w} \subseteq late'
  BY DEF SweepLoad, Connect, GetLoad, AdminLoad, Starts
<1>3. Recent(w)' /\ ReadRight(w)'
  <2>1. writer'[w] = next /\ Showing' = Showing
    BY <1>1, <1>2 DEF FeedInv, FeedTypeOK, Showing
  <2>2. Recent(w)'
    BY <1>1, <1>2, <2>1 DEF Recent, Right, Lapsed
  <2>3. ReadRight(w)'
    BY <1>1, <1>2, <2>1 DEF ReadRight, FeedInv, Dated
  <2> QED BY <2>2, <2>3
<1>4. /\ \A v \in Writers : \A p : WillTell(v, p) => WillTell(v, p)'
      /\ \A v \in Writers : \A n : WillMove(v, n) => WillMove(v, n)'
      /\ \A v \in Writers : writer[v].at = "committed" /\ ClearsCache(writer[v]) =>
                               writer'[v].at = "committed" /\ ClearsCache(writer'[v])
  BY <1>1, <1>2, <1>3, QuietStep DEF WillTell, WillMove, Resting
<1>5. BadgeDue' /\ TickerDue' /\ CacheDue'
  <2>1. Unread' = Unread /\ \A S, n : Right(S, n)' <=> Right(S, n)
    BY <1>1, <1>2, <1>3, QuietStep
  <2>2. BadgeDue'
    BY <1>2, <1>4, <2>1 DEF FeedInv, BadgeDue
  <2>3. TickerDue'
    BY <1>2, <1>4, <2>1 DEF FeedInv, TickerDue, Right
  <2>4. CacheDue'
    BY <1>2, <1>4, <2>1 DEF FeedInv, CacheDue, Right
  <2> QED BY <2>2, <2>3, <2>4
<1>6. /\ FeedTypeOK' /\ (\A v \in Writers \ late' : Recent(v)') /\ HiddenIffDeleted'
      /\ Dated' /\ \A v \in Writers : ReadRight(v)'
  BY <1>1, <1>2, <1>3, QuietStep DEF FeedInv, FeedTypeOK
<1> QED BY <1>5, <1>6 DEF FeedInv

LEMMA JobTypes == ASSUME FeedInv, NEW w \in Writers
                  PROVE  /\ writer[w].at = "committed" => writer[w] \in Telling
                         /\ writer[w].at = "announced" => writer[w] \in Announced
                         /\ writer[w].at = "read" => writer[w] \in ReadOut
                         /\ writer[w].at = "get" => writer[w] \in Getting
                         /\ writer[w].at = "sweep" => writer[w] \in Sweeping
BY DEF FeedInv, FeedTypeOK, Jobs, RowRead, Resting, Telling, Announced, ReadOut, Sweeping, Getting

LEMMA AnnounceInv == ASSUME FeedInv, NEW w \in Writers, Announce(w) PROVE FeedInv'
<1> DEFINE job == writer[w]
           next == [at |-> "announced", tells |-> job.tells]
<1>1. PICK told \in BOOLEAN, cleared \in BOOLEAN :
      /\ job.at = "committed" /\ writer' = [writer EXCEPT ![w] = next]
      /\ client' = IF told THEN [client EXCEPT !.ticker = (@ \cup job.adds) \ job.drops] ELSE client
      /\ cached' = IF ClearsCache(job) /\ cleared THEN NoSet ELSE cached
      /\ astray' = astray \cup {p \in {"ticker"} : job.adds \cup job.drops # {} /\ (w \in late \/ ~told)}
                          \cup {p \in {"cache"} : ClearsCache(job) /\ ~cleared}
      /\ feed' = feed /\ late' = late /\ revived' = revived /\ cutOff' = cutOff
  BY DEF Announce
<1>2. job \in Telling /\ next \in Announced
  BY <1>1, JobTypes DEF Telling, Announced
<1>3. /\ client'.badge = client.badge
      /\ told => client'.ticker = (client.ticker \cup job.adds) \ job.drops
      /\ ~told => client'.ticker = client.ticker
      /\ client' \in [badge : Counts, ticker : SUBSET Banners]
  BY <1>1, <1>2 DEF FeedInv, FeedTypeOK, Telling
<1>4. Recent(w)' /\ ReadRight(w)'
  <2>1. writer'[w].at = "announced"
    BY <1>1 DEF FeedInv, FeedTypeOK
  <2> QED BY <2>1 DEF Recent, ReadRight
<1>5. /\ writer'[w] = next /\ next.at = "announced" /\ next.tells = job.tells
      /\ \A v \in Writers \ {w} : writer'[v] = writer[v]
      /\ Unread' = Unread /\ (\A S, n : Right(S, n)' <=> Right(S, n))
      /\ FeedTypeOK' /\ (\A v \in Writers \ late' : Recent(v)')
      /\ HiddenIffDeleted' /\ Dated' /\ \A v \in Writers : ReadRight(v)'
  <2>1. next.at = "announced" /\ next.tells = job.tells
    OBVIOUS
  <2>2. cached' \in (SUBSET Banners) \cup {NoSet}
    <3>1. cached \in (SUBSET Banners) \cup {NoSet}
      BY DEF FeedInv, FeedTypeOK
    <3>2. cached' = NoSet \/ cached' = cached
      BY <1>1
    <3> QED BY <3>1, <3>2
  <2>3. next \in Jobs
    BY <1>2 DEF Jobs
  <2> HIDE DEF next
  <2>4. late \ {w} \subseteq late'
    BY <1>1
  <2>5. /\ writer' \in [Writers -> Jobs]
        /\ writer'[w] = next /\ \A v \in Writers \ {w} : writer'[v] = writer[v]
        /\ feed' \in [Notes -> Note] /\ Unread' = Unread /\ Showing' = Showing
        /\ \A S, n : Right(S, n)' <=> Right(S, n)
        /\ \A v \in Writers \ late' : Recent(v)'
        /\ HiddenIffDeleted' /\ Dated' /\ \A v \in Writers : ReadRight(v)'
    BY <1>1, <1>4, <2>3, <2>4, QuietStep
  <2>6. FeedTypeOK'
    BY <1>3, <2>2, <2>5 DEF FeedTypeOK
  <2> QED BY <2>1, <2>5, <2>6
<1> HIDE DEF next
<1>6. \A v \in Writers : \A p : WillTell(v, p) => WillTell(v, p)'
  BY <1>1, <1>5 DEF WillTell
<1>7. BadgeDue'
  BY <1>1, <1>3, <1>5, <1>6 DEF FeedInv, BadgeDue
<1>8. TickerDue'
  <2> SUFFICES ASSUME "ticker" \notin astray', NEW n \in Banners,
                      ~(\E v \in Writers : WillTell(v, "ticker")' \/ WillMove(v, n)')
               PROVE Right(client'.ticker, n)
    BY <1>5 DEF TickerDue, Right
  <2>1. CASE n \in job.adds \cup job.drops
    <3>1. w \notin late /\ told
      BY <1>1, <2>1
    <3>2. Recent(w)
      BY <3>1 DEF FeedInv
    <3> QED BY <1>1, <1>3, <2>1, <3>1, <3>2 DEF Recent, Right
  <2>2. CASE n \notin job.adds \cup job.drops
    <3>1. \A v \in Writers : ~WillTell(v, "ticker") /\ ~WillMove(v, n)
      BY <1>5, <1>6, <2>2 DEF WillMove
    <3>2. Right(client.ticker, n)
      BY <1>1, <3>1 DEF FeedInv, TickerDue
    <3> QED BY <1>3, <2>2, <3>2 DEF Right
  <2> QED BY <2>1, <2>2
<1>9. CacheDue'
  <2>1. CASE ClearsCache(job)
    BY <1>1, <2>1 DEF CacheDue
  <2>2. CASE ~ClearsCache(job)
    <3>1. \A v \in Writers : writer[v].at = "committed" /\ ClearsCache(writer[v]) =>
                               writer'[v].at = "committed" /\ ClearsCache(writer'[v])
      BY <1>5, <2>2
    <3> QED BY <1>1, <1>5, <2>2, <3>1 DEF FeedInv, CacheDue, Right
  <2> QED BY <2>1, <2>2
<1> QED BY <1>5, <1>7, <1>8, <1>9 DEF FeedInv

LEMMA ReadBackInv == ASSUME FeedInv, NEW w \in Writers, ReadBack(w) PROVE FeedInv'
<1> DEFINE next == [at |-> "read", tells |-> writer[w].tells, badge |-> Unread, ticker |-> Showing]
<1>1. /\ writer[w].at = "announced" /\ writer' = [writer EXCEPT ![w] = next] /\ late' = late \ {w}
      /\ UNCHANGED <<feed, client, cached, astray, revived, cutOff>>
  BY DEF ReadBack
<1>2. next \in ReadOut
  <2>1. writer[w].tells \in SUBSET Shown /\ Showing \in SUBSET Banners
    BY <1>1, JobTypes DEF Announced, Showing
  <2> QED BY <2>1, UnreadCounts DEF ReadOut
<1>3. Recent(w)' /\ ReadRight(w)'
  <2>1. writer'[w] = next
    BY <1>1 DEF FeedInv, FeedTypeOK
  <2>2. Unread' = Unread /\ Showing' = Showing
    BY <1>1 DEF Unread, Showing
  <2>3. Recent(w)'
    BY <1>1, <2>1, <2>2 DEF Recent, Right, Showing
  <2> QED BY <2>1, <2>3 DEF ReadRight
<1>4. next.at = "read" /\ next.tells = writer[w].tells
  OBVIOUS
<1> HIDE DEF next
<1>5. /\ writer' \in [Writers -> Jobs]
      /\ writer'[w] = next /\ \A v \in Writers \ {w} : writer'[v] = writer[v]
      /\ Unread' = Unread /\ (\A S, n : Right(S, n)' <=> Right(S, n))
      /\ (\A v \in Writers \ late' : Recent(v)')
      /\ HiddenIffDeleted' /\ Dated' /\ \A v \in Writers : ReadRight(v)'
  BY <1>1, <1>2, <1>3, QuietStep DEF Jobs
<1>6. FeedTypeOK'
  BY <1>1, <1>5 DEF FeedInv, FeedTypeOK
<1>7. /\ \A v \in Writers : \A p : WillTell(v, p) => WillTell(v, p)'
      /\ \A v \in Writers : \A n : WillMove(v, n) => WillMove(v, n)'
      /\ \A v \in Writers : writer[v].at = "committed" /\ ClearsCache(writer[v]) =>
                               writer'[v].at = "committed" /\ ClearsCache(writer'[v])
  BY <1>1, <1>4, <1>5 DEF WillTell, WillMove
<1>8. BadgeDue'
  BY <1>1, <1>5, <1>7 DEF FeedInv, BadgeDue
<1>9. TickerDue'
  BY <1>1, <1>5, <1>7 DEF FeedInv, TickerDue, Right
<1>10. CacheDue'
  BY <1>1, <1>5, <1>7 DEF FeedInv, CacheDue, Right
<1> QED BY <1>5, <1>6, <1>8, <1>9, <1>10 DEF FeedInv

LEMMA PublishInv == ASSUME FeedInv, NEW w \in Writers, Publish(w) PROVE FeedInv'
<1> DEFINE job == writer[w]
<1>1. PICK come \in SUBSET job.tells :
      /\ job.at = "read" /\ writer' = [writer EXCEPT ![w] = Resting]
      /\ client' = [badge  |-> IF "badge" \in come THEN job.badge ELSE client.badge,
                    ticker |-> IF "ticker" \in come THEN job.ticker ELSE client.ticker]
      /\ astray' = IF w \in late THEN astray \cup job.tells ELSE (astray \cup job.tells) \ come
      /\ feed' = feed /\ cached' = cached /\ late' = late /\ revived' = revived /\ cutOff' = cutOff
  BY DEF Publish
<1>2. job \in ReadOut
  BY <1>1, JobTypes
<1>3. client' \in [badge : Counts, ticker : SUBSET Banners]
  BY <1>1, <1>2 DEF FeedInv, FeedTypeOK, ReadOut
<1>4. Recent(w)' /\ ReadRight(w)'
  BY <1>1 DEF FeedInv, FeedTypeOK, Recent, Resting, ReadRight
<1>5. /\ writer' \in [Writers -> Jobs]
      /\ writer'[w] = Resting /\ \A v \in Writers \ {w} : writer'[v] = writer[v]
      /\ Unread' = Unread /\ (\A S, n : Right(S, n)' <=> Right(S, n))
      /\ (\A v \in Writers \ late' : Recent(v)')
      /\ HiddenIffDeleted' /\ Dated' /\ \A v \in Writers : ReadRight(v)'
  <2>1. late \ {w} \subseteq late' /\ Resting \in Jobs
    BY <1>1 DEF Jobs
  <2> QED BY <1>1, <1>4, <2>1, QuietStep
<1>6. FeedTypeOK'
  BY <1>1, <1>3, <1>5 DEF FeedInv, FeedTypeOK
<1>7. w \notin late => job.badge = Unread /\ \A n \in Banners : Right(job.ticker, n)
  BY <1>1 DEF FeedInv, Recent
<1>8. \A v \in Writers : \A p : WillTell(v, p) => WillTell(v, p)' \/ (v = w /\ p \in job.tells)
  BY <1>5 DEF WillTell
<1>9. \A v \in Writers : \A n : WillMove(v, n) => WillMove(v, n)'
  BY <1>1, <1>5 DEF WillMove
<1>10. BadgeDue'
  BY <1>1, <1>5, <1>7, <1>8 DEF FeedInv, BadgeDue
<1>11. TickerDue'
  <2>1. CASE "ticker" \in job.tells
    BY <1>1, <1>5, <1>7, <2>1 DEF TickerDue
  <2>2. CASE "ticker" \notin job.tells
    BY <1>1, <1>5, <1>8, <1>9, <2>2 DEF FeedInv, TickerDue
  <2> QED BY <2>1, <2>2
<1>12. CacheDue'
  <2>1. \A v \in Writers : writer[v].at = "committed" => v # w
    BY <1>1
  <2>2. "cache" \notin job.tells
    BY <1>2 DEF ReadOut, Shown
  <2> QED BY <1>1, <1>5, <2>1, <2>2 DEF FeedInv, CacheDue
<1> QED BY <1>5, <1>6, <1>10, <1>11, <1>12 DEF FeedInv

LEMMA GetStoreInv == ASSUME FeedInv, NEW w \in Writers, GetStore(w) PROVE FeedInv'
<1>1. /\ writer[w].at = "get" /\ writer' = [writer EXCEPT ![w] = Resting]
      /\ \/ /\ cached' = writer[w].banners
            /\ astray' = IF w \in late THEN astray \cup {"cache"} ELSE astray \ {"cache"}
         \/ cached' = cached /\ astray' = astray
      /\ feed' = feed /\ client' = client /\ late' = late /\ revived' = revived /\ cutOff' = cutOff
  BY DEF GetStore
<1>2. writer[w] \in Getting
  BY <1>1, JobTypes
<1>3. Recent(w)' /\ ReadRight(w)'
  BY <1>1 DEF FeedInv, FeedTypeOK, Recent, Resting, ReadRight
<1>4. /\ writer' \in [Writers -> Jobs]
      /\ writer'[w] = Resting /\ \A v \in Writers \ {w} : writer'[v] = writer[v]
      /\ Unread' = Unread /\ (\A S, n : Right(S, n)' <=> Right(S, n))
      /\ (\A v \in Writers \ late' : Recent(v)')
      /\ HiddenIffDeleted' /\ Dated' /\ \A v \in Writers : ReadRight(v)'
  <2>1. late \ {w} \subseteq late' /\ Resting \in Jobs
    BY <1>1 DEF Jobs
  <2> QED BY <1>1, <1>3, <2>1, QuietStep
<1>5. FeedTypeOK'
  BY <1>1, <1>2, <1>4 DEF FeedInv, FeedTypeOK, Getting
<1>6. \A v \in Writers : /\ \A p : WillTell(v, p) => WillTell(v, p)'
                         /\ \A n : WillMove(v, n) => WillMove(v, n)'
  BY <1>1, <1>4 DEF WillTell, WillMove
<1>7. BadgeDue' /\ TickerDue'
  BY <1>1, <1>4, <1>6 DEF FeedInv, BadgeDue, TickerDue
<1>8. CacheDue'
  <2>1. w \notin late => \A n \in Banners : Right(writer[w].banners, n)
    BY <1>1 DEF FeedInv, Recent
  <2>2. \A v \in Writers : writer[v].at = "committed" => writer'[v] = writer[v]
    BY <1>1, <1>4
  <2>3. CASE cached' = writer[w].banners /\ astray' = IF w \in late THEN astray \cup {"cache"} ELSE astray \ {"cache"}
    BY <1>1, <1>4, <2>1, <2>3 DEF CacheDue
  <2>4. CASE cached' = cached /\ astray' = astray
    BY <1>1, <1>4, <2>2, <2>4 DEF FeedInv, CacheDue, Right
  <2> QED BY <1>1, <2>3, <2>4
<1> QED BY <1>4, <1>5, <1>7, <1>8 DEF FeedInv

LEMMA CacheExpiresInv == ASSUME FeedInv, CacheExpires PROVE FeedInv'
<1>1. cached' = NoSet /\ UNCHANGED <<feed, writer, client, late, astray, revived, cutOff>>
  BY DEF CacheExpires
<1>2. Unread' = Unread /\ Showing' = Showing
  BY <1>1 DEF Unread, Showing
<1>3. \A S, n : Right(S, n)' <=> Right(S, n)
  BY <1>1, <1>2 DEF Right
<1>4. FeedTypeOK' /\ CacheDue'
  <2>1. cached' \in (SUBSET Banners) \cup {NoSet}
    BY <1>1
  <2>2. FeedTypeOK'
    BY <1>1, <2>1 DEF FeedInv, FeedTypeOK
  <2> QED BY <1>1, <2>2 DEF CacheDue
<1>5. BadgeDue' /\ TickerDue'
  BY <1>1, <1>2, <1>3 DEF FeedInv, BadgeDue, TickerDue, WillTell, WillMove
<1>6. \A v \in Writers \ late' : Recent(v)'
  BY <1>1, <1>2, <1>3 DEF FeedInv, Recent
<1>7. HiddenIffDeleted' /\ Dated' /\ \A v \in Writers : ReadRight(v)'
  BY <1>1 DEF FeedInv, HiddenIffDeleted, InHistory, Dated, ReadRight
<1> QED BY <1>4, <1>5, <1>6, <1>7 DEF FeedInv

LEMMA ExpiryPassesInv == ASSUME FeedInv, NEW n \in Banners, ExpiryPasses(n) PROVE FeedInv'
<1>1. /\ feed[n].expiry = "later" /\ feed' = [feed EXCEPT ![n].expiry = "passed"]
      /\ UNCHANGED <<writer, client, cached, late, astray, revived, cutOff>>
  BY DEF ExpiryPasses
<1>2. n \in Notes /\ n \notin Pushes
  BY FeedAssumption DEF Notes
<1>3. /\ feed' \in [Notes -> Note] /\ \A m \in Notes \ {n} : feed'[m] = feed[m]
      /\ feed'[n].expiry = "passed" /\ feed'[n].on = feed[n].on /\ feed'[n].deleted = feed[n].deleted
  BY <1>1, <1>2 DEF FeedInv, FeedTypeOK, Note
<1>4. Unread' = Unread
  <2>1. {m \in Pushes : feed'[m].on /\ ~feed'[m].read} = {m \in Pushes : feed[m].on /\ ~feed[m].read}
    BY <1>2, <1>3 DEF Notes
  <2> QED BY <2>1 DEF Unread
<1>5. ASSUME NEW m \in Banners
      PROVE  (m \in Showing' => m \in Showing) /\ (m \notin Showing' => m \notin Showing \/ feed'[m].expiry = "passed")
               /\ (feed[m].expiry = "passed" => feed'[m].expiry = "passed")
  <2>1. m \in Notes
    BY DEF Notes
  <2>2. CASE m = n
    BY <1>1, <1>3, <2>2 DEF Showing
  <2>3. CASE m # n
    BY <1>3, <2>1, <2>3 DEF Showing
  <2> QED BY <2>2, <2>3
<1>6. ASSUME NEW S, NEW m \in Banners, Right(S, m)
      PROVE  /\ m \in S /\ m \notin Showing' => feed'[m].expiry = "passed"
             /\ m \in Showing' /\ m \notin S => m \in revived'
  BY <1>1, <1>5, <1>6 DEF Right
<1>7. FeedTypeOK' /\ BadgeDue'
  BY <1>1, <1>3, <1>4 DEF FeedInv, FeedTypeOK, BadgeDue, WillTell
<1>8. TickerDue'
  BY <1>1, <1>6 DEF FeedInv, TickerDue, WillTell, WillMove, Right
<1>9. CacheDue'
  BY <1>1, <1>6 DEF FeedInv, CacheDue, Right
<1>10. ASSUME NEW w \in Writers \ late' PROVE Recent(w)'
  <2>1. Recent(w)
    BY <1>1 DEF FeedInv
  <2>2. writer[w].at = "committed" =>
          /\ \A m \in writer[w].adds : m \in Showing' \/ feed'[m].expiry = "passed"
          /\ \A m \in writer[w].drops : m \notin Showing' \/ m \in revived'
    BY <1>1, <1>5, <2>1, JobTypes DEF Recent, Telling
  <2>3. writer[w].at = "read" => writer[w].badge = Unread' /\ \A m \in Banners : Right(writer[w].ticker, m)'
    BY <1>1, <1>4, <1>6, <2>1 DEF Recent, Right
  <2>4. writer[w].at = "get" => \A m \in Banners : Right(writer[w].banners, m)'
    BY <1>1, <1>6, <2>1 DEF Recent, Right
  <2>5. writer[w].at = "sweep" => \A m \in writer[w].off : feed'[m].expiry = "passed"
    BY <1>5, <2>1, JobTypes DEF Recent, Sweeping
  <2> QED BY <1>1, <2>2, <2>3, <2>4, <2>5 DEF Recent, Right
<1>11. HiddenIffDeleted' /\ Dated'
  BY <1>1, <1>2, <1>3 DEF FeedInv, HiddenIffDeleted, InHistory, Dated
<1>12. ASSUME NEW v \in Writers PROVE ReadRight(v)'
  <2>1. CASE writer[v].at = "loaded"
    <3>1. writer[v].note \in Notes /\ ReadRight(v)
      BY <2>1, LoadedJob DEF RowRead
    <3> QED BY <1>1, <1>3, <2>1, <3>1 DEF ReadRight
  <2>2. CASE writer[v].at # "loaded"
    BY <1>1, <2>2 DEF ReadRight
  <2> QED BY <2>1, <2>2
<1> QED BY <1>7, <1>8, <1>9, <1>10, <1>11, <1>12 DEF FeedInv

LEMMA FeedStepInv == FeedInv /\ [FeedNext]_feedVars => FeedInv'
<1> SUFFICES ASSUME FeedInv, [FeedNext]_feedVars PROVE FeedInv'
  OBVIOUS
<1>1. CASE UNCHANGED feedVars \/ ConnectAside
  <2>1. UNCHANGED <<feed, writer, client, cached, late, astray, revived, cutOff>>
    BY <1>1 DEF feedVars, ConnectAside
  <2>2. Unread' = Unread /\ Showing' = Showing
    BY <2>1 DEF Unread, Showing
  <2>3. FeedTypeOK' /\ HiddenIffDeleted' /\ Dated' /\ \A v \in Writers : ReadRight(v)'
    BY <2>1 DEF FeedInv, FeedTypeOK, HiddenIffDeleted, InHistory, Dated, ReadRight
  <2>4. BadgeDue' /\ TickerDue' /\ CacheDue'
    BY <2>1, <2>2 DEF FeedInv, BadgeDue, TickerDue, CacheDue, Right, WillTell, WillMove
  <2>5. \A w \in Writers \ late' : Recent(w)'
    BY <2>1, <2>2 DEF FeedInv, Recent, Right
  <2> QED BY <2>3, <2>4, <2>5 DEF FeedInv
<1>2. ASSUME NEW w \in Writers, DeleteCommit(w) \/ ExpireNowCommit(w) \/ ChangeExpiryCommit(w) PROVE FeedInv'
  BY <1>2, DeleteInv, ExpireInv, ChangeExpiryInv
<1>3. ASSUME NEW w \in Writers,
             \/ \E n \in Banners, act \in Expiries \cup {"expire"} : AdminLoad(w, n, act)
             \/ \E n \in Notes : AdminLoad(w, n, "delete")
      PROVE FeedInv'
  BY <1>3, BeginsInv
<1>4. ASSUME NEW w \in Writers,
             \/ SendNotification(w) \/ CreateBanner(w) \/ EventPush(w) \/ EventBanner(w)
             \/ FirePush(w) \/ FireBanner(w) \/ MarkRead(w) \/ MarkUnread(w) \/ MarkAllRead(w)
      PROVE FeedInv'
  BY <1>4, PostsInv, ReadersInv
<1>5. ASSUME NEW w \in Writers,
             \/ Connect(w) \/ SweepLoad(w) \/ SweepCommit(w) \/ Announce(w) \/ ReadBack(w)
             \/ Publish(w) \/ GetLoad(w) \/ GetStore(w)
      PROVE FeedInv'
  BY <1>5, BeginsInv, SweepCommitInv, AnnounceInv, ReadBackInv, PublishInv, GetStoreInv
<1> QED BY <1>1, <1>2, <1>3, <1>4, <1>5, ExpiryPassesInv, CacheExpiresInv DEF FeedNext

\* Whom a banner does not address: an event without recipient_ids is a schedule's.
AsideInv == /\ StrangersSpared /\ aside \in [ticker : SUBSET Banners, fired : SUBSET Banners]
            /\ \A w \in Writers : writer[w].at = "committed" /\ writer[w].open => writer[w].adds \subseteq aside.fired

LEMMA AsideStepInv == FeedInv /\ AsideInv /\ [FeedNext]_feedVars => AsideInv'
<1> SUFFICES ASSUME FeedInv, AsideInv, [FeedNext]_feedVars PROVE AsideInv'
  OBVIOUS
<1> USE DEF AsideInv, StrangersSpared
<1>1. ASSUME aside' = aside,
             \A v \in Writers : writer'[v].at = "committed" /\ writer'[v].open => writer'[v] = writer[v]
      PROVE AsideInv'
  BY <1>1
<1>2. ASSUME NEW w \in Writers, NEW next, writer' = [writer EXCEPT ![w] = next], aside' = aside,
             next.at = "committed" => ~next.open
      PROVE AsideInv'
  BY <1>1, <1>2 DEF FeedInv, FeedTypeOK
<1>3. ASSUME NEW tells, NEW adds, NEW drops PROVE ~ToPublish(tells, adds, drops).open
  BY DEF ToPublish
<1>4. CASE UNCHANGED feedVars \/ CacheExpires \/ \E n \in Banners : ExpiryPasses(n)
  BY <1>1, <1>4 DEF feedVars, CacheExpires, ExpiryPasses
<1>5. CASE ConnectAside
  BY <1>5 DEF ConnectAside
<1>6. ASSUME NEW w \in Writers, NEW tells, NEW adds, NEW drops, NEW rows,
             Write(w, rows, ToPublish(tells, adds, drops)), aside' = aside
      PROVE AsideInv'
  BY <1>2, <1>3, <1>6 DEF Write
<1>7. ASSUME NEW w \in Writers, DeleteCommit(w) \/ ExpireNowCommit(w) \/ ChangeExpiryCommit(w) \/ SweepCommit(w)
      PROVE AsideInv'
  BY <1>6, <1>7 DEF DeleteCommit, ExpireNowCommit, ChangeExpiryCommit, SweepCommit
<1>8. ASSUME NEW w \in Writers, MarkRead(w) \/ MarkUnread(w) \/ MarkAllRead(w) PROVE AsideInv'
  BY <1>6, <1>8 DEF MarkRead, MarkUnread, MarkAllRead, Reader
<1>9. ASSUME NEW w \in Writers,
             SendNotification(w) \/ CreateBanner(w) \/ EventPush(w) \/ EventBanner(w) \/ FirePush(w)
      PROVE AsideInv'
  BY <1>6, <1>9 DEF SendNotification, CreateBanner, EventPush, EventBanner, FirePush, Post, Enter
<1>10. ASSUME NEW w \in Writers, FireBanner(w) PROVE AsideInv'
  <2>1. PICK n \in Banners : /\ writer' = [writer EXCEPT ![w] = ToAll({n})]
                             /\ aside' = [aside EXCEPT !.fired = @ \cup {n}]
    BY <1>10 DEF FireBanner, Enter, Write
  <2>2. ToAll({n}).adds = {n}
    BY DEF ToAll, ToPublish
  <2> QED BY <2>1, <2>2 DEF FeedInv, FeedTypeOK
<1>11. ASSUME NEW w \in Writers,
              \/ \E n \in Banners, act \in Expiries \cup {"expire"} : AdminLoad(w, n, act)
              \/ \E n \in Notes : AdminLoad(w, n, "delete")
              \/ Connect(w) \/ SweepLoad(w) \/ ReadBack(w) \/ Publish(w) \/ GetLoad(w) \/ GetStore(w)
       PROVE AsideInv'
  BY <1>2, <1>11 DEF AdminLoad, Connect, SweepLoad, ReadBack, Publish, GetLoad, GetStore, Resting
<1>12. ASSUME NEW w \in Writers, Announce(w) PROVE AsideInv'
  <2>1. /\ writer' = [writer EXCEPT ![w] = [at |-> "announced", tells |-> writer[w].tells]]
        /\ writer[w].at = "committed"
        /\ \/ aside' = aside
           \/ writer[w].open /\ aside' = [aside EXCEPT !.ticker = @ \cup writer[w].adds]
    BY <1>12 DEF Announce
  <2>2. CASE aside' = aside
    BY <1>2, <2>1, <2>2
  <2>3. CASE writer[w].open /\ aside' = [aside EXCEPT !.ticker = @ \cup writer[w].adds]
    BY <2>1, <2>3 DEF FeedInv, FeedTypeOK
  <2> QED BY <2>1, <2>2, <2>3
<1> QED BY <1>4, <1>5, <1>7, <1>8, <1>9, <1>10, <1>11, <1>12 DEF FeedNext

(* Badge, ticker, cache and History follow from the rows once no handler is *)
(* under way, for any notifications and any number of handlers that commit, *)
(* read back and publish in any order, unless something old was published   *)
(* late or a message was lost; and whoever is not addressed sees schedules'  *)
(* banners only (banner_api.py, ws_manager.py, redis_manager.py, store.py).  *)
THEOREM FeedFollowsRows == FeedSpec => []FeedExplained
<1>1. FeedInv /\ AsideInv => FeedExplained
  <2> SUFFICES ASSUME FeedInv, AsideInv PROVE FeedExplained
    OBVIOUS
  <2>1. ASSUME Quiet, NEW w \in Writers
        PROVE \A p, n : ~WillTell(w, p) /\ ~WillMove(w, n) /\ writer[w].at # "committed"
    BY <2>1 DEF Quiet, WillTell, WillMove, Resting
  <2>2. BadgeExplained
    BY <2>1 DEF FeedInv, BadgeExplained, BadgeDue
  <2>3. \A S \in SUBSET Banners : (\A n \in Banners : Right(S, n)) => ~Outdated(S)
    BY DEF Right, Outdated, Showing
  <2>4. client.ticker \in SUBSET Banners /\ (cached # NoSet => cached \in SUBSET Banners)
    BY DEF FeedInv, FeedTypeOK
  <2>5. TickerExplained
    BY <2>1, <2>3, <2>4 DEF FeedInv, TickerExplained, TickerDue, CacheDue
  <2> QED BY <2>2, <2>5 DEF FeedInv, AsideInv, FeedExplained
<1>2. FeedInit => AsideInv
  BY DEF FeedInit, AsideInv, StrangersSpared, Resting
<1> QED BY <1>1, <1>2, FeedInitInv, FeedStepInv, AsideStepInv, PTL DEF FeedSpec
=============================================================================
