----------------------------- MODULE ChatRooms -----------------------------
(* How conversations come to be: chat_layer/store.py looks a conversation   *)
(* up and, finding none, inserts it, in two statements of one request.      *)
(* A conversation is [kind, key, org, members, seen]; its position is its   *)
(* id, seen is how many there were when its creator looked.                 *)
EXTENDS Naturals, FiniteSets, Sequences

CONSTANTS Members,    \* people: numbers, as user ids are ordered
          OrgOf,      \* the organisation of each, NoTenant without one
          NoTenant, Supers, Bot, Teams, TeamOrg, Callers, MaxRooms
\* The assistant has no organisation.
ASSUME RoomsAssumption == Members \subseteq Nat /\ Bot \in Members /\ OrgOf[Bot] = NoTenant

VARIABLES rooms, roster, opening
roomVars == <<rooms, roster, opening>>

Closed == [pc |-> "idle"]

Matches(r, kind, key) == rooms[r].kind = kind /\ rooms[r].key = key
\* A pair, a team, an organisation has one conversation, whoever opened it.
FoundFor(kind, key) == {r \in DOMAIN rooms : Matches(r, kind, key)}

Joined(u, kind, key) == \E r \in FoundFor(kind, key) : u \in rooms[r].members

LowerOf(pair) == CHOOSE u \in pair : \A v \in pair : u <= v

\* organization_id as passed, or else that of the user with the lower id.
StampOf(pair, org) == IF org # NoTenant THEN org ELSE OrgOf[LowerOf(pair)]

Room(kind, key, org, members, seen) ==
  [kind |-> kind, key |-> key, org |-> org, members |-> members, seen |-> seen]

\* scalar_one_or_none: none, the one, or MultipleResultsFound, which ends the request.
Look(c, kind, key, org, members) ==
  /\ opening[c] = Closed /\ Len(rooms) < MaxRooms
  /\ FoundFor(kind, key) = {}
  /\ opening' = [opening EXCEPT ![c] =
                   [pc |-> "create", kind |-> kind, key |-> key, org |-> org,
                    members |-> members, seen |-> Len(rooms)]]

\* Mutant: the organisation of the peer is not compared.
MayOpenUnchecked(u, v) == u # v

\* create_dm: the peer is of the caller's organisation or of none; a super
\* administrator, or a caller without one, may write to anybody.
MayOpen(u, v) ==
  /\ u # v
  /\ u \in Supers \/ OrgOf[u] = NoTenant \/ OrgOf[v] \in {NoTenant, OrgOf[u]}

create_dm(c, u, v) ==
  /\ MayOpen(u, v)
  /\ Look(c, "dm", {u, v}, StampOf({u, v}, OrgOf[u]), {u, v})
  /\ UNCHANGED <<rooms, roster>>

\* The first look at the inbox opens the conversation with the assistant.
ensure_ai_assistant_dm(c, u) ==
  /\ u # Bot
  /\ Look(c, "dm", {u, Bot}, StampOf({u, Bot}, NoTenant), {u, Bot})
  /\ UNCHANGED <<rooms, roster>>

\* Administrators open any team's conversation, others that of a team of theirs.
get_team_conversation(c, u, t) ==
  /\ u \in roster[t] \/ u \in Supers
  /\ Look(c, "team", t, TeamOrg[t], roster[t])
  /\ UNCHANGED <<rooms, roster>>

\* An existing one takes in whoever has joined the team; nobody is taken out.
refresh_team_conversation(c, u, t) ==
  /\ u \in roster[t] \/ u \in Supers
  /\ opening[c] = Closed
  /\ \E r \in FoundFor("team", t) :
       /\ ~(roster[t] \subseteq rooms[r].members)
       /\ rooms' = [rooms EXCEPT ![r].members = @ \cup roster[t]]
  /\ UNCHANGED <<roster, opening>>

\* list_conversations, get_general and every post to #general: one's own
\* organisation, for a super administrator the one picked as well.
GeneralOrgs(u) == {OrgOf[u]} \cup (IF u \in Supers THEN {OrgOf[v] : v \in Members} ELSE {})

ensure_general_member(c, u, org) ==
  /\ org \in GeneralOrgs(u) /\ ~Joined(u, "general", org)
  /\ \/ Look(c, "general", org, org, {u})
     \/ /\ opening[c] = Closed
        /\ Cardinality(FoundFor("general", org)) = 1
        /\ opening' = [opening EXCEPT ![c] = [pc |-> "join", who |-> u,
                         room |-> CHOOSE r \in FoundFor("general", org) : TRUE]]
  /\ UNCHANGED <<rooms, roster>>

\* Mutant: no unique key.
TakenNever(kind, key) == FALSE
\* uq_team_conv.
Taken(kind, key) == kind = "team" /\ FoundFor("team", key) # {}

\* The insert commits; a team's is refused when another was faster, and
\* #general is created empty, its creator joins in a transaction of its own.
CreateRoom(c) ==
  /\ opening[c].pc = "create" /\ Len(rooms) < MaxRooms
  /\ LET o == opening[c]
         first == IF o.kind = "general" THEN {} ELSE o.members
     IN /\ rooms' = IF Taken(o.kind, o.key) THEN rooms
                    ELSE Append(rooms, Room(o.kind, o.key, o.org, first, o.seen))
        /\ opening' = [opening EXCEPT ![c] =
             IF o.kind # "general" THEN Closed
             ELSE [pc |-> "join", who |-> CHOOSE u \in o.members : TRUE, room |-> Len(rooms) + 1]]
  /\ UNCHANGED roster

JoinRoom(c) ==
  /\ opening[c].pc = "join"
  /\ rooms' = [rooms EXCEPT ![opening[c].room].members = @ \cup {opening[c].who}]
  /\ opening' = [opening EXCEPT ![c] = Closed]
  /\ UNCHANGED roster

\* A request that ends early rolls its transaction back.
DropRequest(c) ==
  /\ opening[c] # Closed
  /\ opening' = [opening EXCEPT ![c] = Closed] /\ UNCHANGED <<rooms, roster>>

\* The organisation service changes a team; it takes people of the team's organisation.
ChangeTeam(t) ==
  /\ \E U \in SUBSET {u \in Members : OrgOf[u] = TeamOrg[t]} :
       U # roster[t] /\ roster' = [roster EXCEPT ![t] = U]
  /\ UNCHANGED <<rooms, opening>>

\* What a person's inbox lists: their conversations, for a super administrator
\* narrowed to the organisation picked.
inbox_for_user(u, picked) ==
  {r \in DOMAIN rooms : u \in rooms[r].members /\ picked \in {NoTenant, rooms[r].org}}

RoomsInit ==
  /\ rooms = <<>> /\ opening = [c \in Callers |-> Closed]
  /\ roster = [t \in Teams |-> {u \in Members : OrgOf[u] = TeamOrg[t]}]

RoomsNext ==
  \/ \E c \in Callers, u, v \in Members : create_dm(c, u, v)
  \/ \E c \in Callers, u \in Members :
       \/ ensure_ai_assistant_dm(c, u)
       \/ \E t \in Teams : get_team_conversation(c, u, t) \/ refresh_team_conversation(c, u, t)
       \/ \E org \in {OrgOf[v] : v \in Members} : ensure_general_member(c, u, org)
  \/ \E c \in Callers : CreateRoom(c) \/ JoinRoom(c) \/ DropRequest(c)
  \/ \E t \in Teams : ChangeTeam(t)

RoomsSpec == RoomsInit /\ [][RoomsNext]_roomVars
-----------------------------------------------------------------------------
\* A pair, a team and an organisation have one conversation each.  Two of a pair
\* or an organisation come about only when the second was looked for before the
\* first was there; a team's never.
DoubledByRaceOnly ==
  \A r, s \in DOMAIN rooms :
    r < s /\ Matches(s, rooms[r].kind, rooms[r].key)
      => rooms[s].kind # "team" /\ rooms[s].seen < r

\* Nobody but a super administrator has a conversation of another organisation in
\* their inbox, whether people, the assistant, a team or #general brought them in,
\* unless it is one with a super administrator.
RoomsStayInTenant ==
  \A u \in Members \ Supers : \A r \in inbox_for_user(u, NoTenant) :
    \/ NoTenant \in {OrgOf[u], rooms[r].org} \/ OrgOf[u] = rooms[r].org
    \/ rooms[r].kind = "dm" /\ rooms[r].key \cap Supers # {}
=============================================================================
