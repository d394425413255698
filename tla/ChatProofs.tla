--------------------------- MODULE ChatProofs ---------------------------
(* What holds in conversations for every set of people, teams,              *)
(* organisations, requests and messages: rooms stay within their tenant and *)
(* are doubled only by a race, a message that appears is unread, and a      *)
(* voter has one vote.                                                      *)
EXTENDS ChatRooms, ChatMessages, ChatCards, FiniteSetTheorems, SequenceTheorems, WellFoundedInduction, TLAPS

(* Rooms and their members (ChatRooms) *)
USE RoomsAssumption

RoomKeys == UNION {SUBSET Members, Teams, {OrgOf[u] : u \in Members}}
Stamps == UNION {{OrgOf[u] : u \in Members}, {TeamOrg[t] : t \in Teams}, {NoTenant}}
RoomKinds == {"dm", "team", "general"}
RoomRecords == [kind : RoomKinds, key : RoomKeys, org : Stamps, members : SUBSET Members, seen : Nat]
Creating == [pc : {"create"}, kind : RoomKinds, key : RoomKeys, org : Stamps, members : SUBSET Members, seen : Nat]
Joining == [pc : {"join"}, who : Members, room : Nat]
RoomsTypeOK == /\ rooms \in Seq(RoomRecords)
               /\ opening \in [Callers -> {Closed} \cup Creating \cup Joining]
               /\ roster \in [Teams -> SUBSET Members]

\* Person u may have a room of this kind, key and organisation.
Fits(u, kind, key, org) ==
  \/ u \in Supers \/ NoTenant \in {OrgOf[u], org} \/ OrgOf[u] = org
  \/ kind = "dm" /\ key \cap Supers # {}
AllFit(o) == \A u \in o.members : Fits(u, o.kind, o.key, o.org)
Stamped(o) == /\ o.kind = "team" => o.key \in Teams /\ o.org = TeamOrg[o.key]
              /\ o.kind = "general" => o.org = o.key

RostersFit == \A t \in Teams : \A u \in roster[t] : OrgOf[u] = TeamOrg[t]
RoomsFit == \A r \in DOMAIN rooms : AllFit(rooms[r]) /\ Stamped(rooms[r])
RequestsFit ==
  \A c \in Callers :
    /\ opening[c].pc = "create" =>
         /\ AllFit(opening[c]) /\ Stamped(opening[c])
         /\ opening[c].kind = "general" => opening[c].members # {}
    /\ opening[c].pc = "join" =>
         /\ opening[c].room \in DOMAIN rooms
         /\ LET r == rooms[opening[c].room] IN r.kind = "general" /\ Fits(opening[c].who, "general", r.key, r.org)
\* A request has seen every room of its key that is there, or it came later.
SeenBefore ==
  \A c \in Callers : opening[c].pc = "create" =>
    /\ opening[c].seen <= Len(rooms)
    /\ \A r \in DOMAIN rooms : Matches(r, opening[c].kind, opening[c].key) => r > opening[c].seen
RoomsInv == RoomsTypeOK /\ RostersFit /\ RoomsFit /\ RequestsFit /\ SeenBefore /\ DoubledByRaceOnly

LEMMA RoomsInitInv == RoomsInit => RoomsInv
BY DEF RoomsInit, RoomsInv, RoomsTypeOK, RostersFit, RoomsFit, RequestsFit, SeenBefore, DoubledByRaceOnly, Closed

\* A look-up that found nothing turns into a request to create.
LEMMA LookInv ==
  ASSUME RoomsInv, NEW c \in Callers, NEW kind \in RoomKinds, NEW key \in RoomKeys, NEW org \in Stamps,
         NEW people \in SUBSET Members, Look(c, kind, key, org, people), UNCHANGED <<rooms, roster>>,
         \A u \in people : Fits(u, kind, key, org),
         kind = "team" => key \in Teams /\ org = TeamOrg[key],
         kind = "general" => people # {} /\ org = key
  PROVE  RoomsInv'
<1> DEFINE new == [pc |-> "create", kind |-> kind, key |-> key, org |-> org, members |-> people, seen |-> Len(rooms)]
<1>1. new \in Creating /\ opening' = [opening EXCEPT ![c] = new]
  BY DEF RoomsInv, RoomsTypeOK, Creating, Look
<1>2. RoomsTypeOK'
  BY <1>1 DEF RoomsInv, RoomsTypeOK
<1>3. RostersFit' /\ RoomsFit' /\ DoubledByRaceOnly'
  BY DEF RoomsInv, RostersFit, RoomsFit, AllFit, Stamped, Fits, DoubledByRaceOnly, Matches
<1>4. RequestsFit'
  <2>1. \A d \in Callers : opening'[d] = IF d = c THEN new ELSE opening[d]
    BY <1>1 DEF RoomsInv, RoomsTypeOK
  <2>2. AllFit(new) /\ Stamped(new)
    BY DEF AllFit, Stamped
  <2> HIDE DEF new
  <2>3. new.pc = "create" /\ (new.kind = "general" => new.members # {})
    BY DEF new
  <2> QED BY <2>1, <2>2, <2>3 DEF RoomsInv, RequestsFit, AllFit, Stamped, Fits
<1>5. SeenBefore'
  BY <1>1 DEF RoomsInv, RoomsTypeOK, SeenBefore, Look, FoundFor, Matches
<1> QED BY <1>2, <1>3, <1>4, <1>5 DEF RoomsInv

LEMMA LowerIsOne == ASSUME NEW u \in Members, NEW v \in Members PROVE LowerOf({u, v}) \in {u, v}
<1>1. u \in Nat /\ v \in Nat
  OBVIOUS
<1>2. \E w \in {u, v} : \A x \in {u, v} : w <= x
  BY <1>1
<1> QED BY <1>2 DEF LowerOf

LEMMA DmInv == ASSUME RoomsInv, NEW c \in Callers, NEW u \in Members, NEW v \in Members, create_dm(c, u, v) PROVE RoomsInv'
<1> DEFINE org == StampOf({u, v}, OrgOf[u])
<1>1. org \in {OrgOf[u], OrgOf[v]} /\ (OrgOf[u] # NoTenant => org = OrgOf[u])
  BY LowerIsOne DEF StampOf
<1>2. Fits(u, "dm", {u, v}, org) /\ Fits(v, "dm", {u, v}, org)
  BY <1>1 DEF Fits, create_dm, MayOpen
<1>3. {u, v} \in RoomKeys /\ {u, v} \in SUBSET Members /\ org \in Stamps
  BY <1>1 DEF RoomKeys, Stamps
<1>4. Look(c, "dm", {u, v}, org, {u, v}) /\ UNCHANGED <<rooms, roster>>
  BY DEF create_dm
<1> HIDE DEF org
<1> QED BY <1>2, <1>3, <1>4, LookInv DEF RoomKinds

LEMMA AssistantInv == ASSUME RoomsInv, NEW c \in Callers, NEW u \in Members, ensure_ai_assistant_dm(c, u) PROVE RoomsInv'
<1> DEFINE org == StampOf({u, Bot}, NoTenant)
<1>1. org \in {OrgOf[u], NoTenant}
  BY LowerIsOne DEF StampOf
<1>2. Fits(u, "dm", {u, Bot}, org) /\ Fits(Bot, "dm", {u, Bot}, org)
  BY <1>1 DEF Fits
<1>3. {u, Bot} \in RoomKeys /\ {u, Bot} \in SUBSET Members /\ org \in Stamps
  BY <1>1 DEF RoomKeys, Stamps
<1>4. Look(c, "dm", {u, Bot}, org, {u, Bot}) /\ UNCHANGED <<rooms, roster>>
  BY DEF ensure_ai_assistant_dm
<1> HIDE DEF org
<1> QED BY <1>2, <1>3, <1>4, LookInv DEF RoomKinds

LEMMA TeamInv == ASSUME RoomsInv, NEW c \in Callers, NEW u \in Members, NEW t \in Teams, get_team_conversation(c, u, t)
                 PROVE RoomsInv'
<1>1. t \in RoomKeys /\ TeamOrg[t] \in Stamps /\ roster[t] \in SUBSET Members
  BY DEF RoomsInv, RoomsTypeOK, RoomKeys, Stamps
<1>2. \A w \in roster[t] : Fits(w, "team", t, TeamOrg[t])
  BY DEF RoomsInv, RostersFit, Fits
<1>3. Look(c, "team", t, TeamOrg[t], roster[t]) /\ UNCHANGED <<rooms, roster>>
  BY DEF get_team_conversation
<1> QED BY <1>1, <1>2, <1>3, LookInv DEF RoomKinds

\* A room that takes in people who fit is still a room that fits.
LEMMA WidenInv ==
  ASSUME RoomsInv, NEW r \in DOMAIN rooms, NEW S \in SUBSET Members,
         \A u \in S : Fits(u, rooms[r].kind, rooms[r].key, rooms[r].org),
         rooms' = [rooms EXCEPT ![r].members = @ \cup S], UNCHANGED roster,
         \/ UNCHANGED opening
         \/ \E c \in Callers : opening' = [opening EXCEPT ![c] = Closed]
  PROVE  RoomsInv'
<1>1. /\ rooms' \in Seq(RoomRecords) /\ Len(rooms') = Len(rooms) /\ DOMAIN rooms' = DOMAIN rooms
      /\ \A q \in DOMAIN rooms : /\ rooms'[q].kind = rooms[q].kind /\ rooms'[q].key = rooms[q].key
                                 /\ rooms'[q].org = rooms[q].org /\ rooms'[q].seen = rooms[q].seen
                                 /\ rooms'[q].members = IF q = r THEN rooms[q].members \cup S ELSE rooms[q].members
  <2> DEFINE wide == [rooms[r] EXCEPT !.members = @ \cup S]
  <2>1. rooms \in Seq(RoomRecords) /\ rooms[r] \in RoomRecords
    BY DEF RoomsInv, RoomsTypeOK
  <2>2. wide \in RoomRecords
    BY <2>1 DEF RoomRecords
  <2>3. rooms' = [rooms EXCEPT ![r] = wide]
    BY <2>1
  <2>4. /\ wide.kind = rooms[r].kind /\ wide.key = rooms[r].key /\ wide.org = rooms[r].org
        /\ wide.seen = rooms[r].seen /\ wide.members = rooms[r].members \cup S
    BY <2>1 DEF RoomRecords
  <2> HIDE DEF wide
  <2>5. rooms' \in Seq(RoomRecords) /\ Len(rooms') = Len(rooms) /\ DOMAIN rooms' = DOMAIN rooms
    <3>1. r \in 1 .. Len(rooms) /\ DOMAIN rooms = 1 .. Len(rooms)
      BY <2>1
    <3>2. [rooms EXCEPT ![r] = wide] \in Seq(RoomRecords) /\ Len([rooms EXCEPT ![r] = wide]) = Len(rooms)
      BY ONLY <2>1, <2>2, <3>1, ExceptSeq
    <3> QED BY <2>3, <3>1, <3>2
  <2>6. \A q \in DOMAIN rooms : rooms'[q] = IF q = r THEN wide ELSE rooms[q]
    BY <2>1, <2>3
  <2> QED BY <2>4, <2>5, <2>6
<1>2. RoomsTypeOK'
  BY <1>1 DEF RoomsInv, RoomsTypeOK
<1>3. RostersFit'
  BY DEF RoomsInv, RostersFit
<1>4. RoomsFit'
  BY <1>1 DEF RoomsInv, RoomsFit, AllFit, Stamped, Fits
<1>5. RequestsFit'
  BY <1>1 DEF RoomsInv, RoomsTypeOK, RequestsFit, AllFit, Stamped, Fits, Closed
<1>6. SeenBefore'
  <2> SUFFICES ASSUME NEW c \in Callers, opening'[c].pc = "create"
               PROVE  /\ opening'[c].seen <= Len(rooms')
                      /\ \A q \in DOMAIN rooms' : Matches(q, opening[c].kind, opening[c].key)' => q > opening'[c].seen
    BY DEF SeenBefore
  <2>1. opening'[c] = opening[c]
    <3>1. CASE UNCHANGED opening
      BY <3>1
    <3>2. CASE \E d \in Callers : opening' = [opening EXCEPT ![d] = Closed]
      <4>1. PICK d \in Callers : opening' = [opening EXCEPT ![d] = Closed]
        BY <3>2
      <4>2. opening \in [Callers -> {Closed} \cup Creating \cup Joining]
        BY DEF RoomsInv, RoomsTypeOK
      <4>3. c # d
        <5> SUFFICES ASSUME c = d PROVE FALSE
          OBVIOUS
        <5>1. opening'[c] = Closed
          BY <4>1, <4>2
        <5> QED BY <5>1 DEF Closed
      <4> QED BY <4>1, <4>2, <4>3
    <3> QED BY <3>1, <3>2
  <2> QED BY <1>1, <2>1 DEF RoomsInv, SeenBefore, Matches
<1>7. DoubledByRaceOnly'
  BY <1>1 DEF RoomsInv, DoubledByRaceOnly, Matches
<1> QED BY <1>2, <1>3, <1>4, <1>5, <1>6, <1>7 DEF RoomsInv

LEMMA RefreshInv == ASSUME RoomsInv, NEW c \in Callers, NEW u \in Members, NEW t \in Teams, refresh_team_conversation(c, u, t)
                    PROVE RoomsInv'
<1>1. PICK r \in FoundFor("team", t) : rooms' = [rooms EXCEPT ![r].members = @ \cup roster[t]]
  BY DEF refresh_team_conversation
<1>2. \A w \in roster[t] : Fits(w, rooms[r].kind, rooms[r].key, rooms[r].org)
  BY DEF RoomsInv, RostersFit, RoomsFit, Stamped, FoundFor, Matches, Fits
<1>3. roster[t] \in SUBSET Members /\ r \in DOMAIN rooms /\ UNCHANGED <<roster, opening>>
  BY DEF RoomsInv, RoomsTypeOK, FoundFor, refresh_team_conversation
<1> QED BY <1>1, <1>2, <1>3, WidenInv

LEMMA JoinInv == ASSUME RoomsInv, NEW c \in Callers, JoinRoom(c) PROVE RoomsInv'
<1> DEFINE r == opening[c].room
           u == opening[c].who
<1>1. opening[c] \in Joining
  BY DEF RoomsInv, RoomsTypeOK, JoinRoom, Closed, Creating, Joining
<1>2. r \in DOMAIN rooms /\ u \in Members /\ Fits(u, rooms[r].kind, rooms[r].key, rooms[r].org)
  BY <1>1 DEF RoomsInv, RequestsFit, JoinRoom, Joining
<1>3. /\ rooms' = [rooms EXCEPT ![r].members = @ \cup {u}] /\ UNCHANGED roster
      /\ opening' = [opening EXCEPT ![c] = Closed]
  BY DEF JoinRoom
<1> HIDE DEF r, u
<1>4. {u} \in SUBSET Members /\ \A w \in {u} : Fits(w, rooms[r].kind, rooms[r].key, rooms[r].org)
  BY <1>2
<1> QED BY <1>2, <1>3, <1>4, WidenInv

LEMMA GeneralInv ==
  ASSUME RoomsInv, NEW c \in Callers, NEW u \in Members, NEW org, ensure_general_member(c, u, org) PROVE RoomsInv'
<1>1. (u \in Supers \/ org = OrgOf[u]) /\ org \in RoomKeys /\ org \in Stamps /\ UNCHANGED <<rooms, roster>>
  BY DEF ensure_general_member, GeneralOrgs, RoomKeys, Stamps
<1>2. Fits(u, "general", org, org)
  BY <1>1 DEF Fits
<1>3. CASE Look(c, "general", org, org, {u})
  BY <1>1, <1>2, <1>3, LookInv DEF RoomKinds
<1>4. CASE /\ opening[c] = Closed
           /\ Cardinality(FoundFor("general", org)) = 1
           /\ opening' = [opening EXCEPT ![c] = [pc |-> "join", who |-> u,
                            room |-> CHOOSE r \in FoundFor("general", org) : TRUE]]
  <2> DEFINE r == CHOOSE q \in FoundFor("general", org) : TRUE
  <2>1. r \in FoundFor("general", org)
    BY <1>4, FS_EmptySet
  <2>2. r \in DOMAIN rooms /\ rooms[r].kind = "general" /\ rooms[r].key = org
    BY <2>1 DEF FoundFor, Matches
  <2>3. rooms[r].org = org
    BY <2>2 DEF RoomsInv, RoomsFit, Stamped
  <2> DEFINE new == [pc |-> "join", who |-> u, room |-> r]
  <2>4. new \in Joining /\ opening' = [opening EXCEPT ![c] = new]
    BY <1>4, <2>2 DEF RoomsInv, RoomsTypeOK, Joining
  <2> HIDE DEF r
  <2>5. RoomsTypeOK'
    BY <1>1, <2>4 DEF RoomsInv, RoomsTypeOK
  <2>6. RequestsFit'
    BY <1>1, <1>2, <2>2, <2>3, <2>4 DEF RoomsInv, RoomsTypeOK, RequestsFit, AllFit, Stamped, Fits
  <2>7. RostersFit' /\ RoomsFit' /\ SeenBefore' /\ DoubledByRaceOnly'
    BY <1>1, <2>4 DEF RoomsInv, RoomsTypeOK, RostersFit, RoomsFit, AllFit, Stamped, Fits, SeenBefore, DoubledByRaceOnly, Matches
  <2> QED BY <2>5, <2>6, <2>7 DEF RoomsInv
<1> QED BY <1>3, <1>4 DEF ensure_general_member

LEMMA CreatingSeen == ASSUME RoomsInv, NEW d \in Callers, opening[d].pc = "create"
                      PROVE opening[d].seen \in Nat /\ opening[d].seen <= Len(rooms)
BY DEF RoomsInv, RoomsTypeOK, SeenBefore, Closed, Creating, Joining

LEMMA CreateRoomInv == ASSUME RoomsInv, NEW c \in Callers, CreateRoom(c) PROVE RoomsInv'
<1> DEFINE o == opening[c]
           n == Len(rooms)
           taken == o.kind = "team" /\ FoundFor("team", o.key) # {}
           new == Room(o.kind, o.key, o.org, IF o.kind = "general" THEN {} ELSE o.members, o.seen)
           u == CHOOSE v \in o.members : TRUE
           next == IF o.kind # "general" THEN Closed ELSE [pc |-> "join", who |-> u, room |-> n + 1]
<1>1. /\ o \in Creating /\ AllFit(o) /\ Stamped(o) /\ (o.kind = "general" => o.members # {})
      /\ rooms \in Seq(RoomRecords) /\ n \in Nat /\ DOMAIN rooms = 1..n
  BY DEF RoomsInv, RoomsTypeOK, RequestsFit, CreateRoom, Closed, Creating, Joining
<1>2. /\ rooms' = IF taken THEN rooms ELSE Append(rooms, new)
      /\ opening' = [opening EXCEPT ![c] = next] /\ UNCHANGED roster
  BY DEF CreateRoom, Taken
<1>3. o.kind = "general" => u \in o.members
  BY <1>1
<1>4. new \in RoomRecords /\ AllFit(new) /\ Stamped(new)
  BY <1>1 DEF Creating, RoomRecords, Room, AllFit, Stamped, Fits
<1>5. next \in {Closed} \cup Joining
  BY <1>1, <1>3 DEF Creating, Joining
<1>6. \A r \in DOMAIN rooms : r \in DOMAIN rooms' /\ rooms'[r] = rooms[r]
  BY <1>1, <1>2, <1>4
<1>7. \A r \in DOMAIN rooms' \ DOMAIN rooms : ~taken /\ r = n + 1 /\ rooms'[r] = new
  BY <1>1, <1>2, <1>4
<1>8. RoomsTypeOK'
  BY <1>1, <1>2, <1>4, <1>5 DEF RoomsInv, RoomsTypeOK
<1>9. RostersFit' /\ RoomsFit'
  BY <1>2, <1>4, <1>6, <1>7 DEF RoomsInv, RostersFit, RoomsFit, AllFit, Stamped, Fits
<1>10. RequestsFit'
  <2>1. o.kind = "general" => n + 1 \in DOMAIN rooms' /\ rooms'[n + 1] = new
    BY <1>1, <1>2, <1>4
  <2>2. o.kind = "general" => new.kind = "general" /\ Fits(u, "general", new.key, new.org)
    BY <1>1, <1>3 DEF Room, AllFit
  <2>3. \A d \in Callers \ {c} : opening'[d] = opening[d]
    BY <1>2 DEF RoomsInv, RoomsTypeOK
  <2>4. opening'[c] = next
    BY <1>2 DEF RoomsInv, RoomsTypeOK
  <2> HIDE DEF o, new, u
  <2>5. ASSUME NEW d \in Callers, opening'[d].pc = "create" PROVE
          /\ AllFit(opening[d])' /\ Stamped(opening[d])'
          /\ opening'[d].kind = "general" => opening'[d].members # {}
    <3>1. d # c /\ opening'[d] = opening[d]
      BY <2>3, <2>4, <2>5 DEF Closed
    <3> QED BY <2>5, <3>1 DEF RoomsInv, RequestsFit, AllFit, Stamped, Fits
  <2>6. ASSUME NEW d \in Callers, opening'[d].pc = "join" PROVE
          /\ opening'[d].room \in DOMAIN rooms'
          /\ LET r == rooms'[opening'[d].room] IN r.kind = "general" /\ Fits(opening'[d].who, "general", r.key, r.org)
    <3>1. CASE d = c
      BY <2>1, <2>2, <2>4, <2>6, <3>1 DEF Closed
    <3>2. CASE d # c
      BY <1>6, <2>3, <2>6, <3>2 DEF RoomsInv, RequestsFit
    <3> QED BY <3>1, <3>2
  <2> QED BY <2>5, <2>6 DEF RequestsFit, Fits
<1>11. SeenBefore'
  <2>1. ASSUME NEW d \in Callers, opening'[d].pc = "create" PROVE d # c /\ opening'[d] = opening[d]
    BY <1>2, <2>1 DEF RoomsInv, RoomsTypeOK, Closed
  <2>2. Len(rooms') \in Nat /\ n <= Len(rooms')
    BY <1>1, <1>2, <1>4
  <2>3. \A d \in Callers : opening'[d].pc = "create" => opening'[d].seen <= Len(rooms')
    <3> SUFFICES ASSUME NEW d \in Callers, opening'[d].pc = "create" PROVE opening'[d].seen <= Len(rooms')
      OBVIOUS
    <3>1. opening'[d] = opening[d] /\ opening[d].seen \in Nat /\ opening[d].seen <= n
      BY <2>1, CreatingSeen
    <3> QED BY <1>1, <2>2, <3>1
  <2> SUFFICES ASSUME NEW d \in Callers, opening'[d].pc = "create", NEW r \in DOMAIN rooms',
                      Matches(r, opening[d].kind, opening[d].key)'
               PROVE  r > opening'[d].seen
    BY <2>3 DEF SeenBefore
  <2>4. CASE r \in DOMAIN rooms
    BY <1>6, <2>1, <2>4 DEF RoomsInv, SeenBefore, Matches
  <2>5. CASE r \notin DOMAIN rooms
    BY <1>1, <1>7, <2>1, <2>5, CreatingSeen
  <2> QED BY <2>4, <2>5
<1>12. DoubledByRaceOnly'
  <2> SUFFICES ASSUME NEW r \in DOMAIN rooms', NEW s \in DOMAIN rooms', r < s,
                      Matches(s, rooms[r].kind, rooms[r].key)'
               PROVE  rooms'[s].kind # "team" /\ rooms'[s].seen < r
    BY DEF DoubledByRaceOnly
  <2>1. CASE s \in DOMAIN rooms
    BY <1>1, <1>6, <1>7, <2>1 DEF RoomsInv, DoubledByRaceOnly, Matches
  <2>2. CASE s \notin DOMAIN rooms
    <3>1. ~taken /\ s = n + 1 /\ rooms'[s] = new /\ r \in DOMAIN rooms /\ rooms'[r] = rooms[r]
      BY <1>1, <1>6, <1>7, <2>2
    <3>2. Matches(r, o.kind, o.key)
      BY <3>1 DEF Matches, Room
    <3>3. o.kind # "team"
      BY <3>1, <3>2 DEF FoundFor, Matches
    <3>4. r > o.seen
      BY <3>1, <3>2 DEF RoomsInv, SeenBefore, CreateRoom
    <3> QED BY <1>1, <3>1, <3>3, <3>4 DEF Room, Creating
  <2> QED BY <2>1, <2>2
<1> QED BY <1>8, <1>9, <1>10, <1>11, <1>12 DEF RoomsInv

LEMMA DropInv == ASSUME RoomsInv, NEW c \in Callers, DropRequest(c) PROVE RoomsInv'
<1>1. RoomsTypeOK' /\ RostersFit' /\ RoomsFit' /\ DoubledByRaceOnly'
  BY DEF RoomsInv, RoomsTypeOK, RostersFit, RoomsFit, AllFit, Stamped, Fits, DoubledByRaceOnly, Matches, DropRequest
<1>2. RequestsFit'
  BY DEF RoomsInv, RoomsTypeOK, RequestsFit, AllFit, Stamped, Fits, DropRequest, Closed
<1>3. SeenBefore'
  BY DEF RoomsInv, RoomsTypeOK, SeenBefore, Matches, DropRequest, Closed
<1> QED BY <1>1, <1>2, <1>3 DEF RoomsInv

LEMMA TeamChangeInv == ASSUME RoomsInv, NEW t \in Teams, ChangeTeam(t) PROVE RoomsInv'
<1>1. RoomsTypeOK' /\ RostersFit'
  BY DEF RoomsInv, RoomsTypeOK, RostersFit, ChangeTeam
<1>2. RoomsFit' /\ DoubledByRaceOnly'
  BY DEF RoomsInv, RoomsFit, AllFit, Stamped, Fits, DoubledByRaceOnly, Matches, ChangeTeam
<1>3. RequestsFit' /\ SeenBefore'
  BY DEF RoomsInv, RequestsFit, AllFit, Stamped, Fits, SeenBefore, Matches, ChangeTeam
<1> QED BY <1>1, <1>2, <1>3 DEF RoomsInv

LEMMA RoomsNextInv == RoomsInv /\ [RoomsNext]_roomVars => RoomsInv'
<1> SUFFICES ASSUME RoomsInv, [RoomsNext]_roomVars PROVE RoomsInv'
  OBVIOUS
<1>1. CASE UNCHANGED roomVars
  BY <1>1 DEF RoomsInv, RoomsTypeOK, RostersFit, RoomsFit, RequestsFit, AllFit, Stamped, Fits, SeenBefore,
              DoubledByRaceOnly, Matches, roomVars
<1> QED BY <1>1, DmInv, AssistantInv, TeamInv, RefreshInv, GeneralInv, CreateRoomInv, JoinInv, DropInv, TeamChangeInv
        DEF RoomsNext

LEMMA RoomsInvariant == RoomsSpec => []RoomsInv
BY RoomsInitInv, RoomsNextInv, PTL DEF RoomsSpec

(* Nobody but a super administrator has a room of another organisation in   *)
(* their inbox, save one with a super administrator.                        *)
THEOREM TenantRooms == RoomsSpec => []RoomsStayInTenant
<1>1. RoomsInv => RoomsStayInTenant
  BY DEF RoomsInv, RoomsFit, AllFit, Fits, RoomsStayInTenant, inbox_for_user
<1> QED BY <1>1, RoomsInvariant, PTL

(* A second room of a pair or an organisation was looked for before the     *)
(* first was there, and a team has one only.                                *)
THEOREM RoomsDoubledByRaceOnly == RoomsSpec => []DoubledByRaceOnly
<1>1. RoomsInv => DoubledByRaceOnly
  BY DEF RoomsInv
<1> QED BY <1>1, RoomsInvariant, PTL
-----------------------------------------------------------------------------
(* Messages and what was read (ChatMessages) *)
USE MessagesAssumption

PostStates == {"none", "draft", "sent", "deleted", "gone"}
ChatTypeOK == /\ posts \in [Ids -> [st : PostStates, by : Readers \cup {Helper}]]
              /\ sending \in [Readers -> UNION {[pc : {"idle", "status"}], [pc : {"commit"}, msg : Ids, then : {"done", "status"}]}]
              /\ mark \in [Readers -> Nat] /\ page \in [Readers -> SUBSET Ids]
\* Whoever waits for a commit has an id of their own.
Drafting(u) == sending[u].pc = "commit"
Drafts == \A u \in Readers : Drafting(u) =>
            /\ sending[u].msg \in Ids /\ posts[sending[u].msg].st = "draft"
            /\ \A v \in Readers \ {u} : Drafting(v) => sending[v].msg # sending[u].msg
\* A client has what was visible once and still is, and marks what it has.
Marks == \A u \in Readers : page[u] \subseteq Visible /\ mark[u] \in page[u] \cup {0}
ChatInv == ChatTypeOK /\ Drafts /\ Marks

LEMMA LeastIsIn == ASSUME NEW S \in SUBSET Ids, S # {} PROVE LeastOf(S) \in S
<1> DEFINE Less == OpToRel(<, Nat)
<1>1. S \in SUBSET Nat
  BY DEF Ids
<1>2. PICK m \in S : \A n \in S : <<n, m>> \notin Less
  BY <1>1, WFMin, NatLessThanWellFounded, Zenon
<1>3. \A n \in S : ~(n < m)
  BY <1>1, <1>2, Zenon DEF OpToRel
<1>4. \A n \in S : m <= n
  <2> HIDE DEF Less
  <2> QED BY <1>1, <1>3
<1> QED BY <1>4 DEF LeastOf

LEMMA ChatInitInv == ChatInit => ChatInv
BY DEF ChatInit, ChatInv, ChatTypeOK, PostStates, Drafts, Drafting, Marks, NotSending

LEMMA CreateMessageInv == ASSUME ChatInv, NEW u \in Readers, NEW a \in Readers \cup {Helper}, NEW then \in {"done", "status"},
                                 ~Drafting(u), create_message(u, a, then)
                          PROVE ChatInv' /\ Visible' = Visible
<1> DEFINE i == LeastOf(Unused)
<1>1. i \in Ids /\ posts[i].st = "none"
  BY LeastIsIn DEF create_message, Unused
<1>2. ChatTypeOK'
  BY <1>1 DEF ChatInv, ChatTypeOK, create_message, PostStates
<1>3. Drafts'
  BY <1>1 DEF ChatInv, ChatTypeOK, create_message, Drafts, Drafting
<1>4. Visible' = Visible
  BY <1>1 DEF ChatInv, ChatTypeOK, create_message, Visible
<1>5. Marks'
  BY <1>4 DEF ChatInv, ChatTypeOK, create_message, Marks
<1> QED BY <1>2, <1>3, <1>4, <1>5 DEF ChatInv

LEMMA CommitInv == ASSUME ChatInv, NEW u \in Readers, CommitMessage(u) PROVE ChatInv' /\ Visible \subseteq Visible'
<1>1. sending[u].msg \in Ids /\ Drafting(u) /\ posts[sending[u].msg].st = "draft"
  BY DEF ChatInv, CommitMessage, Drafting, Drafts
<1>2. ChatTypeOK'
  BY <1>1 DEF ChatInv, ChatTypeOK, CommitMessage, PostStates, NotSending
<1>3. Drafts'
  BY <1>1 DEF ChatInv, ChatTypeOK, CommitMessage, Drafts, Drafting, NotSending
<1>4. Visible \subseteq Visible'
  BY <1>1 DEF ChatInv, ChatTypeOK, CommitMessage, Visible
<1>5. Marks'
  BY <1>4 DEF ChatInv, ChatTypeOK, CommitMessage, Marks
<1> QED BY <1>2, <1>3, <1>4, <1>5 DEF ChatInv

LEMMA AbandonInv == ASSUME ChatInv, NEW u \in Readers, Abandon(u) PROVE ChatInv' /\ Visible' = Visible
<1>1. Drafting(u) => sending[u].msg \in Ids /\ posts[sending[u].msg].st = "draft"
  BY DEF ChatInv, Drafts
<1>2. ChatTypeOK'
  BY <1>1 DEF ChatInv, ChatTypeOK, Abandon, PostStates, NotSending, Drafting
<1>3. Drafts'
  BY <1>1 DEF ChatInv, ChatTypeOK, Abandon, Drafts, Drafting, NotSending
<1>4. Visible' = Visible
  BY <1>1 DEF ChatInv, ChatTypeOK, Abandon, Visible, Drafting
<1>5. Marks'
  BY <1>4 DEF ChatInv, ChatTypeOK, Abandon, Marks
<1> QED BY <1>2, <1>3, <1>4, <1>5 DEF ChatInv

LEMMA ListInv == ASSUME ChatInv, NEW u \in Readers, list_messages(u) PROVE ChatInv' /\ Visible' = Visible
<1>1. Visible' = Visible /\ Visible \subseteq Ids
  BY DEF list_messages, Visible
<1>2. ChatTypeOK' /\ Drafts'
  BY <1>1 DEF ChatInv, ChatTypeOK, Drafts, Drafting, list_messages
<1>3. Marks'
  BY <1>1 DEF ChatInv, ChatTypeOK, Marks, list_messages
<1> QED BY <1>1, <1>2, <1>3 DEF ChatInv

LEMMA MarkInv == ASSUME ChatInv, NEW u \in Readers, NEW m \in Ids, mark_one_read(u, m) PROVE ChatInv' /\ Visible' = Visible
<1>1. Visible' = Visible
  BY DEF mark_one_read, Visible
<1>2. ChatTypeOK' /\ Drafts'
  BY DEF ChatInv, ChatTypeOK, Drafts, Drafting, mark_one_read, update_last_read, Ids
<1>3. Marks'
  BY <1>1 DEF ChatInv, ChatTypeOK, Marks, mark_one_read, update_last_read
<1> QED BY <1>1, <1>2, <1>3 DEF ChatInv

LEMMA DeleteMessageInv == ASSUME ChatInv, NEW m \in Ids, delete_message(m) PROVE ChatInv' /\ Visible' = Visible
<1>1. Visible' = Visible
  BY DEF ChatInv, ChatTypeOK, delete_message, Visible
<1>2. ChatTypeOK'
  BY DEF ChatInv, ChatTypeOK, delete_message, PostStates
<1>3. Drafts'
  BY DEF ChatInv, ChatTypeOK, Drafts, Drafting, delete_message, Visible
<1>4. Marks'
  BY <1>1 DEF ChatInv, ChatTypeOK, Marks, delete_message
<1> QED BY <1>1, <1>2, <1>3, <1>4 DEF ChatInv

\* A step changes what is visible only by a commit, which shows one more.
LEMMA ChatNextInv == ASSUME ChatInv, [ChatNext]_chatVars
                     PROVE ChatInv' /\ (Visible' = Visible \/ \E u \in Readers : CommitMessage(u))
<1>1. CASE UNCHANGED chatVars
  BY <1>1 DEF ChatInv, ChatTypeOK, Drafts, Drafting, Marks, Visible, chatVars
<1>2. ASSUME NEW u \in Readers, send_message(u) PROVE ChatInv' /\ Visible' = Visible
  BY <1>2, CreateMessageInv DEF send_message, Drafting, NotSending
<1>3. ASSUME NEW u \in Readers, forward_message(u) PROVE ChatInv' /\ Visible' = Visible
  BY <1>3, CreateMessageInv DEF forward_message, Drafting, NotSending
<1>4. ASSUME NEW u \in Readers, maybe_post_status_bot_reply(u) PROVE ChatInv' /\ Visible' = Visible
  BY <1>4, CreateMessageInv DEF maybe_post_status_bot_reply, Drafting
<1> QED BY <1>1, <1>2, <1>3, <1>4, CommitInv, AbandonInv, ListInv, MarkInv, DeleteMessageInv DEF ChatNext

LEMMA ChatInvariant == ChatSpec => []ChatInv
<1>1. ChatInv /\ [ChatNext]_chatVars => ChatInv'
  BY ChatNextInv
<1> QED BY <1>1, ChatInitInv, PTL DEF ChatSpec

\* What a commit shows is above every mark but those that are above it.
LEMMA CommitUnread ==
  ASSUME ChatInv, NEW u \in Readers, CommitMessage(u), NEW m \in Ids \ Visible, m \in Visible',
         NEW v \in Readers \ {posts[m].by}
  PROVE m \in unread_count_for_user(v)' \/ \E n \in page[v] : n > m /\ mark[v] >= n
<1>1. posts'[m].st = "sent" /\ posts'[m].by = posts[m].by
  BY DEF ChatInv, ChatTypeOK, CommitMessage, Visible
<1>2. mark[v] # m /\ mark' = mark /\ mark[v] \in Nat /\ m \in Nat \ {0}
  BY DEF ChatInv, ChatTypeOK, Marks, CommitMessage, Ids
<1>3. CASE mark[v] < m
  BY <1>1, <1>2, <1>3 DEF unread_count_for_user, Kept
<1>4. CASE mark[v] > m
  BY <1>2, <1>4 DEF ChatInv, Marks
<1> QED BY <1>2, <1>3, <1>4

(* A new message is unread for every member but its author, unless the      *)
(* member has marked a later one that came first.                           *)
THEOREM NewMessageIsUnread == ChatSpec => NewIsUnread
<1>1. ChatInv /\ [ChatNext]_chatVars =>
        [\A m \in Ids \ Visible : m \in Visible' =>
           \A u \in Readers \ {posts[m].by} :
             m \in unread_count_for_user(u)' \/ \E n \in page[u] : n > m /\ mark[u] >= n]_chatVars
  BY ChatNextInv, CommitUnread
<1> QED BY <1>1, ChatInvariant, PTL DEF ChatSpec, NewIsUnread
-----------------------------------------------------------------------------
(* Votes (ChatCards) *)
Votes == Voters \X Options
Ballot == [pc : {"delete", "insert", "done"}, who : Voters, option : Options, had : SUBSET Votes]
PollTypeOK == /\ poll \in [open : BOOLEAN, votes : SUBSET Votes]
              /\ ballots \in [BallotIds -> Ballot \cup {NoBallot}]
\* Whoever has deleted a voter's rows and not inserted yet has deleted all there are:
\* nobody else can have inserted one, for their locks would have had to wait.
DeletedAll == \A b \in BallotIds : ballots[b].pc = "insert" =>
                ballots[b].had = {v \in poll.votes : v[1] = ballots[b].who}
PollInv == PollTypeOK /\ DeletedAll /\ SingleChoice

LEMMA PollInitInv == CardsInit => PollInv
BY DEF CardsInit, PollInv, PollTypeOK, DeletedAll, SingleChoice, NoBallot

LEMMA BallotInv ==
  ASSUME PollInv, NEW b \in BallotIds, NEW u \in Voters, NEW o \in Options, vote_on_poll(b, u, o) PROVE PollInv'
BY DEF vote_on_poll, PollInv, PollTypeOK, Ballot, DeletedAll, SingleChoice, NoBallot

LEMMA DeleteVotesInv == ASSUME PollInv, NEW b \in BallotIds, DeleteVotes(b) PROVE PollInv'
<1>1. ballots[b] \in Ballot
  BY DEF DeleteVotes, PollInv, PollTypeOK, NoBallot
<1> DEFINE mine == Replaced(poll.votes, ballots[b].who, ballots[b].option)
<1>2. mine = {v \in poll.votes : v[1] = ballots[b].who}
  BY DEF Replaced
<1>3. mine \in SUBSET Votes
  BY <1>2 DEF PollInv, PollTypeOK
<1>4. ballots' = [ballots EXCEPT ![b].pc = "insert", ![b].had = mine] /\ poll' = poll
  BY DEF DeleteVotes
<1> HIDE DEF mine
<1>5. ballots' = [ballots EXCEPT ![b] = [ballots[b] EXCEPT !.pc = "insert", !.had = mine]]
  BY <1>1, <1>4 DEF PollInv, PollTypeOK, Ballot
<1>6. PollTypeOK'
  BY <1>1, <1>3, <1>4, <1>5 DEF PollInv, PollTypeOK, Ballot
<1>7. ASSUME NEW c \in BallotIds, ballots'[c].pc = "insert"
      PROVE ballots'[c].had = {v \in poll'.votes : v[1] = ballots'[c].who}
  <2>1. CASE c = b
    <3>1. ballots'[c].had = mine /\ ballots'[c].who = ballots[b].who
      BY <1>1, <1>5, <2>1 DEF PollInv, PollTypeOK, Ballot
    <3> QED BY <1>2, <1>4, <3>1
  <2>2. CASE c # b
    <3>1. ballots'[c] = ballots[c]
      BY <1>5, <2>2 DEF PollInv, PollTypeOK
    <3>2. ballots[c].pc = "insert" /\ poll' = poll
      BY <1>4, <1>7, <3>1
    <3> QED BY <3>1, <3>2 DEF PollInv, DeletedAll
  <2> QED BY <2>1, <2>2
<1> QED BY <1>4, <1>6, <1>7 DEF PollInv, DeletedAll, SingleChoice

LEMMA CommitVoteInv == ASSUME PollInv, NEW b \in BallotIds, CommitVote(b) PROVE PollInv'
<1> DEFINE mine == <<ballots[b].who, ballots[b].option>>
           left == poll.votes \ ballots[b].had
<1>1. /\ ballots[b] \in Ballot /\ ballots[b].had = {v \in poll.votes : v[1] = ballots[b].who}
      /\ \A c \in BallotIds \ {b} : ballots[c].pc = "insert" => ballots[c].who # ballots[b].who
  BY DEF CommitVote, PollInv, PollTypeOK, DeletedAll, Holders, NoBallot
<1>2. poll'.votes = left \cup {mine} /\ poll'.open = poll.open
  BY DEF CommitVote, PollInv, PollTypeOK
<1>3. left = {v \in poll.votes : v[1] # ballots[b].who} /\ mine \in Votes /\ mine[1] = ballots[b].who
  BY <1>1 DEF Ballot, Votes
<1>4. PollTypeOK'
  <2>1. poll' \in [open : BOOLEAN, votes : SUBSET Votes]
    BY <1>3 DEF CommitVote, PollInv, PollTypeOK
  <2> QED BY <1>1, <2>1 DEF CommitVote, PollInv, PollTypeOK, Ballot
<1>5. SingleChoice'
  BY <1>2, <1>3 DEF PollInv, SingleChoice
<1>6. ASSUME NEW c \in BallotIds, ballots'[c].pc = "insert"
      PROVE ballots'[c].had = {v \in poll'.votes : v[1] = ballots'[c].who}
  <2>1. c # b /\ ballots'[c] = ballots[c] /\ ballots[c].pc = "insert"
    BY <1>1, <1>6 DEF CommitVote, PollInv, PollTypeOK, Ballot
  <2>2. ballots[c].who # ballots[b].who /\ ballots[c].had = {v \in poll.votes : v[1] = ballots[c].who}
    BY <1>1, <2>1 DEF PollInv, DeletedAll
  <2> QED BY <1>2, <1>3, <2>1, <2>2
<1> QED BY <1>4, <1>5, <1>6 DEF PollInv, DeletedAll

LEMMA RollbackInv == ASSUME PollInv, NEW b \in BallotIds, RollbackVote(b) PROVE PollInv'
BY DEF RollbackVote, PollInv, PollTypeOK, Ballot, DeletedAll, SingleChoice, NoBallot

LEMMA CloseInv == ASSUME PollInv, close_poll PROVE PollInv'
<1>1. poll'.votes = poll.votes /\ poll' \in [open : BOOLEAN, votes : SUBSET Votes] /\ ballots' = ballots
  BY DEF close_poll, PollInv, PollTypeOK
<1> QED BY <1>1 DEF PollInv, PollTypeOK, DeletedAll, SingleChoice

LEMMA PollStepInv == PollInv /\ [CardsNext]_cardVars => PollInv'
<1> SUFFICES ASSUME PollInv, [CardsNext]_cardVars PROVE PollInv'
  OBVIOUS
<1>1. CASE UNCHANGED <<poll, ballots>>
  BY <1>1 DEF PollInv, PollTypeOK, DeletedAll, SingleChoice
<1>2. CASE PollNext
  BY <1>2, BallotInv, DeleteVotesInv, CommitVoteInv, RollbackInv, CloseInv DEF PollNext
<1>3. CASE TaskNext
  BY <1>1, <1>3 DEF TaskNext, mark_my_assignee_done, reopen_my_assignee, update_task_status,
                    update_task_assignees, Update
<1> QED BY <1>1, <1>2, <1>3 DEF CardsNext, cardVars

(* A voter has one vote, for any number of voters, options and overlapping  *)
(* requests (polls_api.py, vote_on_poll), given the locks of the database.  *)
THEOREM OneVoteEach == CardsSpec => []SingleChoice
<1>1. PollInv => SingleChoice
  BY DEF PollInv
<1> QED BY <1>1, PollInitInv, PollStepInv, PTL DEF CardsSpec
=============================================================================
