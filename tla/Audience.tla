------------------------------ MODULE Audience -----------------------------
(* Who receives a notification: notification_layer/store.py resolves a      *)
(* target to people, and its callers (the send and banner requests, the     *)
(* event handler, the two schedulers) decide with which organisation, and   *)
(* whether it is published to its recipients' sockets or to every socket.   *)
(* A state is one notification to one directory of people.                  *)
EXTENDS Naturals, FiniteSets

CONSTANTS Folk, Orgs, NoOrg, Directories, Assignments, EventConfigs

VARIABLES directory, assigned, notice
audienceVars == <<directory, assigned, notice>>

Roles == {"admin", "super_admin", "recruiter"}
AdminRoles == {"admin", "super_admin"}
AllTargets == [type : {"all", "user", "job", "role"}, users : SUBSET Folk, roles : SUBSET Roles]
Looks == [public : BOOLEAN, banner : BOOLEAN]
ASSUME ConfigsAreTargets == EventConfigs \subseteq [primary : AllTargets, look : Looks, banner : AllTargets]
NoNotice == [via |-> "none"]

Live == {u \in Folk : ~directory[u].gone}

\* The people of one organisation; without one, everybody.
Within(org) == IF org = NoOrg THEN Live ELSE {u \in Live : directory[u].org = org}

HeldBy(roles, org) == {u \in Within(org) : directory[u].role \in roles}

\* A target is [type, users, roles]; type "job" names whoever is assigned to the job.
Named(t, org) == CASE t.type = "all"  -> Within(org)
                   [] t.type = "user" -> t.users
                   [] t.type = "job"  -> assigned \cap Within(org)
                   [] t.type = "role" -> HeldBy(t.roles, org)

\* TargetValidationError: people named one by one must exist in the organisation.
Refused(t, org) == t.type = "user" /\ (t.users = {} \/ ~(t.users \subseteq Within(org)))

\* resolve_target_user_ids with include_admins for everything but "all".
Recipients(t, org) ==
  IF Refused(t, org) THEN {}
  ELSE Named(t, org) \cup (IF t.type = "all" THEN {} ELSE HeldBy(AdminRoles, org))

\* Mutant: what is public goes to every socket, whatever its organisation.
PublicToAll(t, org, look, people) ==
  IF ~look.banner /\ (look.public \/ t.type = "all") THEN Live ELSE people

\* send_notification, _publish_notification: a broadcast to every socket is for
\* what belongs to no organisation; a banner names its recipients.
Pushed(t, org, look, people) ==
  IF ~look.banner /\ org = NoOrg /\ (look.public \/ t.type = "all") THEN Live ELSE people

\* The schedulers broadcast without looking at the organisation, and publish a banner
\* without recipients, which ws_manager sends to every socket.
PushedBySchedule(t, look, people) ==
  IF look.banner \/ look.public \/ t.type = "all" THEN Live ELSE people

\* The rows create_notification inserts, and the people whose sockets it is pushed to.
Notice(via, t, org, look, people, sockets) ==
  [via |-> via, target |-> t, org |-> org, look |-> look, people |-> people, sockets |-> sockets]

Targets == {[type |-> "all", users |-> {}, roles |-> {}], [type |-> "job", users |-> {}, roles |-> {}]}
             \cup {[type |-> "user", users |-> U, roles |-> {}] : U \in SUBSET Folk}
             \cup {[type |-> "role", users |-> {}, roles |-> R] : R \in (SUBSET Roles) \ {{}}}

\* resolve_effective_org_id: everybody but a super administrator has their own.
EffectiveOrg(caller, picked) ==
  IF directory[caller].role = "super_admin" THEN picked ELSE directory[caller].org

AudienceInit == directory \in Directories /\ assigned \in Assignments /\ notice = NoNotice

Undecided == notice = NoNotice /\ UNCHANGED <<directory, assigned>>

\* create_notification and what is published of it; nobody to notify is an error.
Created(via, t, org, look) ==
  /\ Recipients(t, org) # {}
  /\ notice' = Notice(via, t, org, look, Recipients(t, org), Pushed(t, org, look, Recipients(t, org)))

\* send_notification and create_banner, by an administrator.
SendByHand(t, picked, look) ==
  \E caller \in Live :
    /\ Undecided /\ directory[caller].role \in AdminRoles
    /\ Created("request", t, EffectiveOrg(caller, picked), look)

\* A schedule stamped by create_schedule, fired by the fallback loop or by Celery,
\* which calls create_notification without the organisation.
Fired(via, t, stamped, look, people) ==
  /\ Undecided /\ people # {}
  /\ notice' = Notice(via, t, stamped, look, people, PushedBySchedule(t, look, people))
FireByLoop(t, stamped, look) == Fired("loop", t, stamped, look, Recipients(t, stamped))
FireByCelery(t, stamped, look) == Fired("celery", t, stamped, look, Recipients(t, NoOrg))

OrgScoped == {"all", "role"}

\* handle_event: a target that spans a tenant needs the tenant.
PrimaryAllowed(t, org) == ~(org = NoOrg /\ t.type \in OrgScoped)
HandleEvent(cfg, org) ==
  /\ Undecided /\ PrimaryAllowed(cfg.primary, org)
  /\ Created("event", cfg.primary, org, cfg.look)

\* also_banner: the second notification, with the target and the guard of its own.
BannerLook(cfg) == [cfg.look EXCEPT !.banner = TRUE]
AlsoBanner(cfg) ==
  /\ notice.via = "event" /\ notice.target = cfg.primary /\ PrimaryAllowed(cfg.banner, notice.org)
  /\ Created("banner", cfg.banner, notice.org, BannerLook(cfg))
  /\ UNCHANGED <<directory, assigned>>

AudienceNext ==
  \/ \E t \in Targets, org \in Orgs \cup {NoOrg}, look \in Looks :
       SendByHand(t, org, look) \/ FireByLoop(t, org, look) \/ FireByCelery(t, org, look)
  \/ \E cfg \in EventConfigs, org \in Orgs \cup {NoOrg} : HandleEvent(cfg, org)
  \/ \E cfg \in EventConfigs : AlsoBanner(cfg)

AudienceSpec == AudienceInit /\ [][AudienceNext]_audienceVars
-----------------------------------------------------------------------------
InTenant(people) == \A u \in people : directory[u].org = notice.org

\* A request's or an event's notification that belongs to an organisation reaches nobody
\* outside of it, neither with a row nor on a socket.  A schedule's keeps its rows inside
\* if the loop fires it (Celery does not hand the stamp on), and its recipients are the
\* only ones it is pushed to unless it is public, to all, or a banner.  Without an
\* organisation, an event's rows are for those its target names and administrators.
StaysInTenant ==
  /\ notice.via \in {"request", "event", "banner"} /\ notice.org # NoOrg
       => InTenant(notice.people \cup notice.sockets)
  /\ notice.via = "loop" /\ notice.org # NoOrg => InTenant(notice.people)
  /\ notice.via \in {"loop", "celery"} /\ notice.look = [public |-> FALSE, banner |-> FALSE]
       => notice.target.type = "all" \/ notice.sockets = notice.people
  /\ notice.via \in {"event", "banner"} /\ notice.org = NoOrg
       => \A u \in notice.people : \/ directory[u].role \in AdminRoles
                                   \/ u \in notice.target.users \cup assigned

\* send_notification_api.py: "an org-scoped "all"/public notification must go to its
\* resolved recipients, else it leaks across orgs in real time": so of the fallback
\* loop's too.
ScheduleStaysInTenant ==
  notice.via = "loop" /\ notice.org # NoOrg => InTenant(notice.people \cup notice.sockets)
=============================================================================
