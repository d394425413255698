------------------------------ MODULE RuleBook -----------------------------
(* Administration of an org's reminder rules (api/rules_api.py): create,    *)
(* update, toggle, delete, the defaults seeded when the org is first        *)
(* enabled, and reset-defaults.  A request loads, checks that no active     *)
(* rule shares a day, and commits; nothing locks the table in between.      *)
EXTENDS ClawbackRules

CONSTANTS Admins, Windows, Defaults, MaxRules, MaxRequests
\* Windows of day numbers; the defaults of one anchor (seeds.DEFAULT_RULES) take turns.
ASSUME BookAssumption ==
  /\ Windows \subseteq Int \X Int /\ Defaults \in Seq(Int \X Int)
  /\ \A i, j \in DOMAIN Defaults :
       i < j => Defaults[i][2] # NoEnd /\ Defaults[i][2] < Defaults[j][1] /\ Defaults[i][1] <= Defaults[i][2]

VARIABLES book,      \* the rules of one anchor, by id
          seeded,    \* defaults_seeded_at is set
          enabled,
          request,   \* what each administrator's request has loaded and decided
          stale,     \* requests that loaded before another one committed
          raced,     \* such a request has committed
          requests
bookVars == <<book, seeded, enabled, request, stale, raced, requests>>

NoRequest == [op |-> "none"]
BookRow(id, w, active) ==
  [NoRule EXCEPT !.id = id, !.start = w[1], !.end = w[2], !.active = active]
Active == {id \in DOMAIN book : book[id].active}   \* active_rules
Others(r) == {book[id] : id \in Active}
Clash(r) == Overlapping(r, Others(r)) # {}

BookInit ==
  /\ book = <<>> /\ seeded = FALSE /\ enabled = FALSE
  /\ request = [a \in Admins |-> NoRequest]
  /\ stale = {} /\ raced = FALSE /\ requests = 0

Load(a, decided) ==
  /\ request[a] = NoRequest /\ requests < MaxRequests
  /\ request' = [request EXCEPT ![a] = decided]
  /\ requests' = requests + 1
  /\ UNCHANGED <<book, seeded, enabled, stale, raced>>

\* create_rule: validated and checked as a rule without an id.
CreateLoad(a) ==
  \E w \in Windows, on \in BOOLEAN :
    /\ ~Clash(BookRow(0, w, on))
    /\ Load(a, [op |-> "create", window |-> w, active |-> on])

\* update_rule: the row itself does not count as a clash.
UpdateLoad(a) ==
  \E id \in DOMAIN book, w \in Windows, on \in BOOLEAN :
    /\ book[id] # NoRule /\ ~Clash(BookRow(id, w, on))
    /\ Load(a, [op |-> "update", id |-> id, window |-> w, active |-> on, was |-> book[id]])

\* Mutant: switching a rule on is not checked.
ToggleLoadUnchecked(a) ==
  \E id \in DOMAIN book :
    /\ book[id] # NoRule
    /\ Load(a, [op |-> "toggle", id |-> id, active |-> ~book[id].active, was |-> book[id]])

\* toggle_rule: checked only when it switches an inactive rule on.
ToggleLoad(a) ==
  \E id \in DOMAIN book :
    /\ book[id] # NoRule
    /\ ~book[id].active => ~Clash([book[id] EXCEPT !.active = TRUE])
    /\ Load(a, [op |-> "toggle", id |-> id, active |-> ~book[id].active, was |-> book[id]])

DeleteLoad(a) ==
  \E id \in DOMAIN book : book[id] # NoRule /\ Load(a, [op |-> "delete", id |-> id])

\* update_settings with enabled = true: defaults are due if the org has no rule yet.
EnableLoad(a) ==
  ~enabled /\ Load(a, [op |-> "enable", first |-> ~seeded,
                       seed |-> ~seeded /\ \A id \in DOMAIN book : book[id] = NoRule])

DisableLoad(a) == enabled /\ Load(a, [op |-> "disable"])
ResetLoad(a) == Load(a, [op |-> "reset"])

Seed(b) == b \o [i \in DOMAIN Defaults |-> BookRow(Len(b) + i, Defaults[i], TRUE)]

\* Of a loaded row only the columns that the request changes are written.
Updated(row, q) ==
  [row EXCEPT !.start = IF q.window[1] = q.was.start THEN row.start ELSE q.window[1],
              !.end = IF q.window[2] = q.was.end THEN row.end ELSE q.window[2],
              !.active = IF q.active = q.was.active THEN row.active ELSE q.active]

\* The rows after a commit; deleted rows (NoRule here) stay deleted.
Saved(q) ==
  CASE q.op = "create" -> Append(book, BookRow(Len(book) + 1, q.window, q.active))
    [] q.op = "update" ->
         [book EXCEPT ![q.id] = IF @ = NoRule THEN @ ELSE Updated(@, q)]
    [] q.op = "toggle" ->
         [book EXCEPT ![q.id] = IF @ = NoRule THEN @ ELSE [@ EXCEPT !.active = q.active]]
    [] q.op = "delete" -> [book EXCEPT ![q.id] = NoRule]
    [] q.op = "enable" -> IF q.seed THEN Seed(book) ELSE book
    [] q.op = "reset" -> Seed([id \in DOMAIN book |-> NoRule])
    [] OTHER -> book

Commit(a) ==
  /\ request[a] # NoRequest
  /\ Len(Saved(request[a])) =< MaxRules
  /\ book' = Saved(request[a])
  /\ enabled' = (request[a].op = "enable" \/ (enabled /\ request[a].op # "disable"))
  /\ seeded' = (seeded \/ request[a].op = "reset" \/ (request[a].op = "enable" /\ request[a].first))
  /\ request' = [request EXCEPT ![a] = NoRequest]
  /\ stale' = {b \in Admins \ {a} : request[b] # NoRequest}
  /\ raced' = (raced \/ a \in stale)
  /\ UNCHANGED requests

BookNext ==
  \E a \in Admins : CreateLoad(a) \/ UpdateLoad(a) \/ ToggleLoad(a) \/ DeleteLoad(a)
                      \/ EnableLoad(a) \/ DisableLoad(a) \/ ResetLoad(a) \/ Commit(a)
BookSpec == BookInit /\ [][BookNext]_bookVars
-----------------------------------------------------------------------------
\* Whatever is created, edited, switched, deleted, seeded and reset, in any order, two
\* active rules never share a day, unless a request committed on a check it made
\* before another commit: the check and the write are not one transaction.
OverlapOnlyByRace ==
  ~raced => \A i, j \in Active : i # j => ~WindowsOverlap(book[i], book[j])
=============================================================================
