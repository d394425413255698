------------------------------- MODULE MCTalk ------------------------------
(* Notifications and conversations on small instances.  The components do   *)
(* not share state: a behaviour is one of one part, chosen at the start.    *)
EXTENDS Audience, NotifFeed, NotifSchedules, ChatRooms, ChatMessages, ChatCards
VARIABLE part
notifVars == <<audienceVars, feedVars, schedVars>>
talkVars == <<roomVars, chatVars, cardVars>>
vars == <<notifVars, talkVars, part>>
Person(o, r) == [org |-> o, role |-> r, gone |-> FALSE]
MCPeople == {Person(1, "recruiter"), Person(1, "admin"), Person(2, "recruiter"), Person(2, "admin"),
             Person(NoOrg, "super_admin"), [Person(1, "recruiter") EXCEPT !.gone = TRUE]}
MCDirectories == [Folk -> MCPeople]
MCAssignments == {{}} \cup {{u} : u \in Folk}
Target(t, U, R) == [type |-> t, users |-> U, roles |-> R]
Shown(p, b) == [public |-> p, banner |-> b]
MCEventConfigs ==
  {[primary |-> Target("job", {}, {}), look |-> Shown(TRUE, FALSE), banner |-> Target("role", {}, {"admin"})],
   [primary |-> Target("all", {}, {}), look |-> Shown(FALSE, FALSE), banner |-> Target("job", {}, {})],
   [primary |-> Target("user", Folk, {}), look |-> Shown(TRUE, TRUE), banner |-> Target("all", {}, {})]}
\* A super administrator and a person of one organisation, one of another, the assistant.
MCOrgOf == [u \in Members |-> CASE u = 2 -> 1 [] u \in {1, 3} -> 2 [] OTHER -> NoTenant]
MCTeamOrg == [t \in Teams |-> 1]
Parts == {"audience", "feed", "schedules", "rooms", "chat", "polls", "tasks"}
Init == /\ AudienceInit /\ FeedInit /\ SchedInit
        /\ RoomsInit /\ ChatInit /\ CardsInit /\ part \in Parts
        /\ part # "audience" => assigned = {} /\ directory = [u \in Folk |-> Person(1, "admin")]
        /\ part # "tasks" => DOMAIN task.rows = Voters
Next ==
  \/ part = "audience" /\ AudienceNext /\ UNCHANGED <<feedVars, schedVars, talkVars, part>>
  \/ part = "feed" /\ FeedNext /\ UNCHANGED <<audienceVars, schedVars, talkVars, part>>
  \/ part = "schedules" /\ SchedNext /\ UNCHANGED <<audienceVars, feedVars, talkVars, part>>
  \/ part = "rooms" /\ RoomsNext /\ UNCHANGED <<notifVars, chatVars, cardVars, part>>
  \/ part = "chat" /\ ChatNext /\ UNCHANGED <<notifVars, roomVars, cardVars, part>>
  \/ part = "polls" /\ PollNext /\ UNCHANGED <<notifVars, roomVars, chatVars, part>>
  \/ part = "tasks" /\ TaskNext /\ UNCHANGED <<notifVars, roomVars, chatVars, part>>
Spec == Init /\ [][Next]_vars
=============================================================================
