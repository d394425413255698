------------------------------ MODULE MailSync ------------------------------
(***************************************************************************)
(* The IMAP mirror of one mailbox (imap_sync, sync_worker, idle_worker,    *)
(* tasks, rules_engine) and the handlers that change what it stored        *)
(* (messages_api, folders_api, accounts_api).                              *)
(*                                                                         *)
(* A pass is one transaction: it works on the rows as they were when it    *)
(* began, with its own changes (`tx`), and commits at the end.  Nothing    *)
(* keeps passes of the poll worker, the IDLE thread and a background       *)
(* thread apart but the unique keys: the second of two transactions that   *)
(* store one key waits for the first and, if that commits, fails as a      *)
(* whole, so that the keys can be looked at when it commits.               *)
(*                                                                         *)
(* Contents are left out: a rule says which mails it matches, a sender     *)
(* list which mails' senders it names.  Every mail is younger than         *)
(* backfill_days.  Deleting an account with purge is left out.             *)
(***************************************************************************)
EXTENDS Naturals, FiniteSets, Sequences, SequencesExt, FiniteSetsExt, TLC

CONSTANTS
  Mails,       \* mails that arrive
  Unlabelled,  \* those without a Message-ID
  Own,         \* mails sent from this mailbox
  Gone,        \* a uid whose mail was expunged
  Window,      \* MAX_PER_FOLDER_PER_RUN
  Cases        \* mailboxes to begin with: their mails, the account's rules, and bounds on
               \* passes, changes on the server, handlers that change something, failures
               \* of passes and own mails

\* In the order of their ids; work is a custom folder, junk is not on the server.
Order   == <<"inbox", "sent", "junk", "trash", "work">>
Folders == Range(Order)
Served  == Folders \ {"junk"}
Kinds   == {"poll", "idle", "back"}
NoUid   == 0

AllMails == Mails \cup Own
Rulings  == [match : SUBSET AllMails, actions : Seq(STRING), stop : BOOLEAN]

ASSUME SyncAssumption ==
  /\ Gone \notin AllMails /\ Window \in Nat
  /\ Own \cap (Mails \cup Unlabelled) = {}  \* build_message gives each its own Message-ID
  /\ \A c \in Cases : /\ c.rules \in Seq(Rulings)
                      /\ \A f \in DOMAIN c.box : c.box[f] \in Seq(Mails \cup {Gone})

VARIABLES
  box,      \* box[f]: the mails of a server folder, by uid
  valid,    \* valid[f]: its UIDVALIDITY
  db,       \* what is committed of the mailbox, see Empty
  account,  \* status, sync_enabled, deleted_at; idle: an IDLE thread listens
  asked,    \* passes that will begin
  pass,     \* passes under way
  outgoing, \* outgoing[o]: how far an own mail has come, and the rows its sender sees
  past,     \* history: what the server did, and what the bounds count
  case      \* the case of this behaviour

syncVars == <<box, valid, db, account, asked, pass, outgoing, past, case>>
Left(what) == past[what] < case[what]

\* What op makes of d when it takes the numbers of S, the lowest first.
Ascending(op(_, _), d, S) ==
  MapThenFoldSet(LAMBDA n, e : op(e, n), d, LAMBDA n : n, LAMBDA T : Max(T), S)

\* rows: mail_messages.  Of mail_folders: counts, paths (imap_path is known), dropped
\* (deleted_at), last (last_uid) and seen (uidvalidity).  The sender lists and the rules.
\* In a transaction: keys it stored and folders it counted.  History: folders whose
\* counters are known to be behind, mails whose row left its folder, folders whose
\* last_uid has gone back.
Empty(rules) ==
  [rows |-> <<>>, counts |-> [f \in Folders |-> [total |-> 0, unread |-> 0]],
   paths |-> {}, dropped |-> {}, last |-> [f \in Folders |-> 0], seen |-> [f \in Folders |-> 0],
   blocked |-> {}, safe |-> {}, rules |-> rules,
   keys |-> {}, counted |-> {}, behind |-> {}, moved |-> {}, rescanned |-> {}]

\* The server has this mail at two places.
Doubled(m) ==
  \E f, g \in Served : \E u \in DOMAIN box[f], v \in DOMAIN box[g] :
    box[f][u] = m /\ box[g][v] = m /\ <<f, u>> # <<g, v>>

SyncInit ==
  /\ case \in Cases
  /\ box = [f \in Served |-> IF f \in DOMAIN case.box THEN case.box[f] ELSE <<>>]
  /\ valid = [f \in Served |-> 1]
  /\ db = Empty(case.rules)
  /\ account = [status |-> "pending", enabled |-> TRUE, deleted |-> FALSE, idle |-> FALSE]
  /\ asked = {"back"} /\ pass = <<>>
  /\ outgoing = [o \in Own |-> [at |-> "draft", rows |-> <<>>]]
  /\ past = [renumbered |-> {}, strayed |-> {m \in Mails : Doubled(m)}, selfKept |-> {},
             crossed |-> {}, carried |-> {},
             passes |-> 1, server |-> 0, handled |-> 0, breaks |-> 0, own |-> 0]
-----------------------------------------------------------------------------
\* store.py

Live(rows, f) == {i \in DOMAIN rows : rows[i].folder = f /\ ~rows[i].deleted}
Exact(rows, f) == [total  |-> Cardinality(Live(rows, f)),
                   unread |-> Cardinality({i \in Live(rows, f) : ~rows[i].read})]
\* What a transaction saw of a folder.
Seen(rows, f) == {<<i, rows[i].read>> : i \in Live(rows, f)}

refresh_folder_counts(d, F) ==
  [d EXCEPT !.counts = [f \in Folders |-> IF f \in F THEN Exact(d.rows, f) ELSE @[f]],
            !.counted = @ \cup F, !.behind = @ \ F]

\* Mutant: only the folder the message leaves is counted.
MoveCountsSource(d, i, g) ==
  LET f == d.rows[i].folder IN
  IF f = g THEN d
  ELSE refresh_folder_counts([d EXCEPT !.rows[i].folder = g, !.rows[i].uid = NoUid,
                                       !.moved = @ \cup {d.rows[i].mail}], {f})

move_message(d, i, g) ==
  LET f == d.rows[i].folder IN
  IF f = g THEN d
  ELSE refresh_folder_counts([d EXCEPT !.rows[i].folder = g, !.rows[i].uid = NoUid,
                                       !.moved = @ \cup {d.rows[i].mail}], {f, g})

\* rules_engine.py.  Flags and categories are not kept here, forwarding is deferred.
Act(d, i, a) ==
  CASE a = "mark_read" -> [d EXCEPT !.rows[i].read = TRUE,
                                    !.behind = IF d.rows[i].read THEN @ ELSE @ \cup {d.rows[i].folder}]
    [] a = "delete"    -> move_message(d, i, "trash")
    [] a \in Folders   -> move_message(d, i, a)
    [] OTHER           -> d

RuleApplied(d, i, rule) ==
  IF d.rows[i].mail \in rule.match
  THEN FoldLeft(LAMBDA e, a : Act(e, i, a), d, rule.actions) ELSE d

\* The sender lists come first; a matching rule may end the evaluation.
apply_rules(d, i) ==
  LET m == d.rows[i].mail
      stops == {k \in DOMAIN d.rules : m \in d.rules[k].match /\ d.rules[k].stop}
      reached == SubSeq(d.rules, 1, IF stops = {} THEN Len(d.rules) ELSE Min(stops))
  IN CASE m \in d.safe              -> d
       [] m \in d.blocked \ d.safe  -> move_message(d, i, "junk")
       [] OTHER                     -> FoldLeft(LAMBDA e, r : RuleApplied(e, i, r), d, reached)
-----------------------------------------------------------------------------
\* imap_sync.py

Holds(d, f, u) == {i \in DOMAIN d.rows : d.rows[i].folder = f /\ d.rows[i].uid = u}
SameMail(d, f, m) == {i \in Live(d.rows, f) : d.rows[i].mail = m /\ m \notin Unlabelled}

\* Mutant: a copy is looked for by its uid alone.
UpsertByUid(d, f, u, m) ==
  IF Holds(d, f, u) # {} THEN d
  ELSE LET new == Append(d.rows, [mail |-> m, folder |-> f, uid |-> u, read |-> f = "sent", deleted |-> FALSE])
           e == [d EXCEPT !.rows = new, !.keys = @ \cup {<<f, u>>}]
       IN IF f = "inbox" THEN apply_rules(e, Len(new)) ELSE e

\* A row of this uid, deleted or not, is the message; a live row of the folder with its
\* Message-ID adopts the uid if it has none; otherwise it is stored, and rules see what
\* comes into the inbox.
_upsert_message(d, f, u, m) ==
  LET twins == SameMail(d, f, m) IN
  CASE Holds(d, f, u) # {} -> d
    [] Holds(d, f, u) = {} /\ twins # {} ->
         IF d.rows[Min(twins)].uid # NoUid THEN d
         ELSE [d EXCEPT !.rows[Min(twins)].uid = u]
    [] OTHER ->
         LET new == Append(d.rows, [mail |-> m, folder |-> f, uid |-> u, read |-> f = "sent", deleted |-> FALSE])
             e == [d EXCEPT !.rows = new, !.keys = @ \cup {<<f, u>>}]
         IN IF f = "inbox" THEN apply_rules(e, Len(new)) ELSE e

Present(f) == {u \in DOMAIN box[f] : box[f][u] # Gone}
\* Mutant: the newest mails are taken first.
Highest(U) == {u \in U : Cardinality({v \in U : v > u}) < Window}
Lowest(U) == {u \in U : Cardinality({v \in U : v < u}) < Window}

\* The folder is selected: another UIDVALIDITY means that everything is scanned again.
Selected(d, f) ==
  IF d.seen[f] = valid[f] THEN d
  ELSE [d EXCEPT !.seen[f] = valid[f], !.last[f] = 0,
                 !.rescanned = IF d.last[f] = 0 THEN @ ELSE @ \cup {f}]

UpsertedAll(d, f, U) == Ascending(LAMBDA x, u : _upsert_message(x, f, u, box[f][u]), d, U)

\* What was fetched is stored in the order of the uids; a mail that is gone by then is
\* passed over.
Stored(d, f, U) ==
  LET there == U \cap Present(f)
      e == UpsertedAll(d, f, there)
  IN refresh_folder_counts([e EXCEPT !.last[f] = Max(there \cup {@})], {f})

\* sync_account begins: connect, _sync_folders and the list of folders (todo, by their
\* places in Order).
Start(p) ==
  /\ p \in asked /\ p \notin DOMAIN pass
  /\ p = "back" => account.enabled /\ ~account.deleted
  /\ asked' = asked \ {p}
  /\ pass' = [q \in DOMAIN pass \cup {p} |->
                IF q # p THEN pass[q]
                ELSE [snap |-> db, status |-> account.status, tx |-> [db EXCEPT !.paths = @ \cup Served],
                      todo |-> {k \in DOMAIN Order : Order[k] \in Served \ db.dropped},
                      at |-> "none", uids |-> {}]]
  /\ UNCHANGED <<box, valid, db, account, outgoing, past>>

\* trigger_background_sync finds the mailbox removed or switched off.
NotStarted ==
  /\ "back" \in asked /\ (~account.enabled \/ account.deleted)
  /\ asked' = asked \ {"back"}
  /\ UNCHANGED <<box, valid, db, account, pass, outgoing, past>>

ConnectFails(p) ==
  /\ p \in asked /\ p \notin DOMAIN pass /\ Left("breaks")
  /\ asked' = asked \ {p}
  /\ account' = [account EXCEPT !.status = "error"]
  /\ past' = [past EXCEPT !.breaks = @ + 1]
  /\ UNCHANGED <<box, valid, db, pass, outgoing>>

\* The folder whose turn it is, and the list without it.
NextFolder(p) == Order[Min(pass[p].todo)]
Later(todo) == todo \ {Min(todo)}

\* Nothing is new in the next folder; its counters are left alone.
PassBy(p) ==
  LET f == NextFolder(p)
      d == Selected(pass[p].tx, f) IN
  /\ pass[p].at = "none" /\ pass[p].todo # {}
  /\ Present(f) \subseteq 0..d.last[f]
  /\ pass' = [pass EXCEPT ![p].tx = d, ![p].todo = Later(@)]
  /\ UNCHANGED <<box, valid, db, account, asked, outgoing, past>>

\* The search for what is newer than last_uid; the lowest uids first.
Search(p) ==
  LET f == NextFolder(p)
      d == Selected(pass[p].tx, f)
      new == {u \in Present(f) : u > d.last[f]} IN
  /\ pass[p].at = "none" /\ pass[p].todo # {} /\ new # {}
  /\ pass' = [pass EXCEPT ![p].tx = d, ![p].at = f, ![p].uids = Lowest(new)]
  /\ UNCHANGED <<box, valid, db, account, asked, outgoing, past>>

\* select_folder fails, or the search after it.
FolderFails(p) ==
  /\ pass[p].at = "none" /\ pass[p].todo # {}
  /\ Left("breaks")
  /\ \E d \in {pass[p].tx, Selected(pass[p].tx, NextFolder(p))} :
       pass' = [pass EXCEPT ![p].tx = d, ![p].todo = Later(@)]
  /\ past' = [past EXCEPT !.breaks = @ + 1]
  /\ UNCHANGED <<box, valid, db, account, asked, outgoing>>

Fetch(p) ==
  LET f == pass[p].at IN
  /\ f # "none"
  /\ pass' = [pass EXCEPT ![p].tx = Stored(@, f, pass[p].uids), ![p].at = "none",
                          ![p].uids = {}, ![p].todo = Later(@)]
  /\ UNCHANGED <<box, valid, db, account, asked, outgoing, past>>

\* The rows of before that a pass gave a uid.
Adopted(t) == {i \in DOMAIN t.snap.rows : t.tx.rows[i].uid # t.snap.rows[i].uid}

\* A commit writes the columns that differ from what was loaded, and the new rows; a
\* count it wrote is the count of its own view, and so is a last_uid.
Merged(t) ==
  LET n == Len(t.snap.rows)
      Wrote(new, old, now) == [f \in Folders |-> IF new[f] # old[f] THEN new[f] ELSE now[f]]
      adopted == [i \in DOMAIN db.rows |->
                    IF i \in Adopted(t)
                    THEN [db.rows[i] EXCEPT !.uid = t.tx.rows[i].uid] ELSE db.rows[i]]
      last == Wrote(t.tx.last, t.snap.last, db.last)
      overtaken == {f \in t.tx.counted : Seen(t.snap.rows, f) # Seen(db.rows, f)}
  IN [db EXCEPT
        !.rows = adopted \o SubSeq(t.tx.rows, n + 1, Len(t.tx.rows)),
        !.counts = [f \in Folders |-> IF f \in t.tx.counted THEN t.tx.counts[f] ELSE @[f]],
        !.paths = @ \cup t.tx.paths,
        !.last = last, !.seen = Wrote(t.tx.seen, t.snap.seen, @),
        !.behind = (@ \ t.tx.counted) \cup t.tx.behind \cup overtaken,
        !.moved = @ \cup t.tx.moved,
        !.rescanned = @ \cup t.tx.rescanned \cup {f \in Folders : last[f] < db.last[f]}]

\* uq_acct_folder_uid and uq_acct_imap_path.  A row that was given a uid has it in the
\* folder that it is in by now.
Clashes(t) ==
  LET after == Merged(t) IN
  \/ \E k \in t.tx.keys : Holds(db, k[1], k[2]) # {}
  \/ \E i \in Adopted(t) : Holds(after, after.rows[i].folder, after.rows[i].uid) # {i}
  \/ "work" \in (t.tx.paths \ t.snap.paths) \cap db.paths

Without(p) == [q \in DOMAIN pass \ {p} |-> pass[q]]
NewIn(rows, n) == {rows[i].mail : i \in (n + 1)..Len(rows)}

\* The end of sync_account.  The status is written if it was another one before.
Commit(p) ==
  LET t == pass[p]
      n == Len(t.snap.rows) IN
  /\ t.todo = {} /\ ~Clashes(t)
  /\ db' = Merged(t)
  /\ account' = [account EXCEPT !.status = IF t.status = "connected" THEN @ ELSE "connected"]
  /\ past' = [past EXCEPT
        !.crossed = @ \cup (NewIn(t.tx.rows, n) \cap NewIn(db.rows, n)),
        !.carried = @ \cup {db.rows[i].folder : i \in {j \in Adopted(t) : db.rows[j].folder # t.snap.rows[j].folder}}]
  /\ pass' = Without(p)
  /\ UNCHANGED <<box, valid, asked, outgoing>>

\* The pass is rolled back: a key is taken, or anything else is raised (a lost
\* connection, a deadlock); a process that is killed does not write the status.
RollBack(p) ==
  /\ \/ pass[p].todo = {} /\ Clashes(pass[p]) /\ past' = past
        /\ account' = [account EXCEPT !.status = "error"]
     \/ /\ Left("breaks") /\ past' = [past EXCEPT !.breaks = @ + 1]
        /\ account' \in {account, [account EXCEPT !.status = "error"]}
  /\ pass' = Without(p)
  /\ UNCHANGED <<box, valid, db, asked, outgoing>>
-----------------------------------------------------------------------------
\* Who asks for passes.

Ask(p) == asked' = asked \cup {p} /\ Left("passes")
          /\ past' = [past EXCEPT !.passes = @ + 1]

\* _due_accounts; the interval is over at some time.
PollDue ==
  /\ "poll" \notin asked \cup DOMAIN pass
  /\ account.enabled /\ ~account.deleted /\ account.status # "disconnected"
  /\ Ask("poll")
  /\ UNCHANGED <<box, valid, db, account, pass, outgoing>>

Wanted == account.enabled /\ ~account.deleted /\ account.status = "connected"

\* _reconcile starts a thread, which catches up first, and stops it.
IdleStarts ==
  /\ Wanted /\ ~account.idle /\ "idle" \notin asked \cup DOMAIN pass
  /\ account' = [account EXCEPT !.idle = TRUE]
  /\ Ask("idle")
  /\ UNCHANGED <<box, valid, db, pass, outgoing>>

IdleStops ==
  /\ ~Wanted /\ account.idle
  /\ account' = [account EXCEPT !.idle = FALSE]
  /\ UNCHANGED <<box, valid, db, asked, pass, outgoing, past>>

\* New mail is announced, or the connection is set up again.
IdleSync ==
  /\ account.idle /\ "idle" \notin asked \cup DOMAIN pass
  /\ Ask("idle")
  /\ UNCHANGED <<box, valid, db, account, pass, outgoing>>
-----------------------------------------------------------------------------
\* The server.

Arrive(m) ==
  /\ \A f \in Served : m \notin Range(box[f])
  /\ m \notin past.strayed /\ Left("server")
  /\ box' = [box EXCEPT !["inbox"] = Append(@, m)]
  /\ past' = [past EXCEPT !.server = @ + 1]
  /\ UNCHANGED <<valid, db, account, asked, pass, outgoing>>

\* Another client removes a mail, or files it in another folder.
Expunge(f, u) ==
  /\ u \in Present(f) /\ Left("server")
  /\ \E g \in {f, "work", "trash"} :
       /\ box' = IF g = f THEN [box EXCEPT ![f][u] = Gone]
                 ELSE [box EXCEPT ![f][u] = Gone, ![g] = Append(@, box[f][u])]
       /\ past' = [past EXCEPT !.server = @ + 1, !.strayed = @ \cup {box[f][u]}]
  /\ UNCHANGED <<valid, db, account, asked, pass, outgoing>>

\* The mails that are left, in their order.
Kept(mails) == FoldLeft(LAMBDA kept, m : IF m = Gone THEN kept ELSE Append(kept, m), <<>>, mails)

\* A new UIDVALIDITY, while nobody has the folder selected.
Renumber(f) ==
  /\ Gone \in Range(box[f]) /\ Left("server")
  /\ \A p \in DOMAIN pass : pass[p].at # f
  /\ box' = [box EXCEPT ![f] = Kept(@)]
  /\ valid' = [valid EXCEPT ![f] = @ + 1]
  /\ past' = [past EXCEPT !.server = @ + 1, !.renumbered = @ \cup {f}]
  /\ UNCHANGED <<db, account, asked, pass, outgoing>>
-----------------------------------------------------------------------------
\* send_worker.py: a transaction begins once "sending" is committed, and lasts until the
\* row is filed; a try that fails leaves nothing here.  The provider may keep a copy of
\* what it sends in its Sent folder, and a copy is appended at last.

Sending(o) ==
  /\ outgoing[o].at = "draft" /\ Left("own")
  /\ outgoing' = [outgoing EXCEPT ![o] = [at |-> "sending", rows |-> db.rows]]
  /\ past' = [past EXCEPT !.own = @ + 1]
  /\ UNCHANGED <<box, valid, db, account, asked, pass>>

Sent(o) ==
  /\ outgoing[o].at = "sending"
  /\ outgoing' = [outgoing EXCEPT ![o].at = "accepted"]
  /\ \/ UNCHANGED <<box, past>>
     \/ /\ box' = [box EXCEPT !["sent"] = Append(@, o)]
        /\ past' = [past EXCEPT !.selfKept = @ \cup {o}]
  /\ UNCHANGED <<valid, db, account, asked, pass>>

Committed(d) == db' = [d EXCEPT !.counted = {}]

\* move_message into the sent folder, which is counted as the transaction sees it.
Filed(o) ==
  LET row  == [mail |-> o, folder |-> "sent", uid |-> NoUid, read |-> TRUE, deleted |-> FALSE]
      rows == outgoing[o].rows
  IN
  /\ outgoing[o].at = "accepted"
  /\ outgoing' = [outgoing EXCEPT ![o] = [at |-> "filed", rows |-> <<>>]]
  /\ Committed([db EXCEPT !.rows = Append(@, row),
                          !.counts["sent"] = Exact(Append(rows, row), "sent"),
                          !.behind = IF Seen(rows, "sent") = Seen(db.rows, "sent")
                                     THEN @ \ {"sent"} ELSE @ \cup {"sent"}])
  /\ UNCHANGED <<box, valid, account, asked, pass, past>>

_append_to_sent(o) ==
  /\ outgoing[o].at = "filed"
  /\ outgoing' = [outgoing EXCEPT ![o].at = "kept"]
  /\ \/ "sent" \in db.paths /\ box' = [box EXCEPT !["sent"] = Append(@, o)]
     \/ box' = box
  /\ UNCHANGED <<valid, db, account, asked, pass, past>>
-----------------------------------------------------------------------------
\* Handlers; each is a transaction on the rows as they are.

Handles(d) ==
  /\ Left("handled")
  /\ Committed(d)
  /\ UNCHANGED <<box, valid, outgoing, pass>>

Tallied == past' = [past EXCEPT !.handled = @ + 1] /\ UNCHANGED <<account, asked>>

\* A message, or what bulk is given: the messages of a folder.
Chosen == {{i} : i \in DOMAIN db.rows} \cup {Live(db.rows, f) : f \in Folders}
Homes(I) == {db.rows[i].folder : i \in I}
Shown(I) == I # {} /\ \A i \in I : ~db.rows[i].deleted
MovedAll(d, I, f) == Ascending(LAMBDA e, i : move_message(e, i, f), d, I)

\* get_message, mark_read, mark_unread, bulk: the folders are counted before the change
\* is flushed (the session does not flush by itself).
MarkRead(I, value) ==
  LET d == refresh_folder_counts(db, Homes(I)) IN
  /\ Shown(I) /\ \A i \in I : db.rows[i].read # value
  /\ Handles([d EXCEPT !.rows = [i \in DOMAIN @ |-> IF i \in I THEN [@[i] EXCEPT !.read = value] ELSE @[i]],
                       !.behind = @ \cup Homes(I)])
  /\ Tallied

\* So does a permanent deletion.
HardDelete(I) ==
  LET d == refresh_folder_counts(db, Homes(I)) IN
  /\ Shown(I)
  /\ Handles([d EXCEPT !.rows = [i \in DOMAIN @ |-> IF i \in I THEN [@[i] EXCEPT !.deleted = TRUE] ELSE @[i]],
                       !.behind = @ \cup Homes(I)])
  /\ Tallied

\* move, trash, restore, bulk.
MoveTo(I, f) ==
  /\ Shown(I) /\ f \notin Homes(I)
  /\ Handles(MovedAll(db, I, f))
  /\ Tallied

\* junk, not-junk, bulk: the senders are listed, too.
_junk(I, spam) ==
  LET d == MovedAll(db, I, IF spam THEN "junk" ELSE "inbox")
      who == {db.rows[i].mail : i \in I} IN
  /\ Shown(I)
  /\ Handles(IF spam THEN [d EXCEPT !.blocked = @ \cup who] ELSE [d EXCEPT !.safe = @ \cup who])
  /\ Tallied

AppliedAll(d, I, rule) == Ascending(LAMBDA e, i : RuleApplied(e, i, rule), d, I)

\* POST /rules/{id}/run on the inbox.
RunRule(k) ==
  LET inbox == Live(db.rows, "inbox") IN
  /\ inbox # {}
  /\ Handles(AppliedAll(db, inbox, db.rules[k]))
  /\ Tallied

empty_folder(f) ==
  /\ Live(db.rows, f) # {} /\ f \notin db.dropped
  /\ Handles(refresh_folder_counts(
       [db EXCEPT !.rows = [i \in DOMAIN @ |-> IF i \in Live(db.rows, f)
                                               THEN [@[i] EXCEPT !.deleted = TRUE] ELSE @[i]]], {f}))
  /\ Tallied

\* A custom folder's messages go to the trash with the uids they have; where the trash
\* has one of these uids the request fails.
delete_folder ==
  LET rows == Live(db.rows, "work")
      uids == {db.rows[i].uid : i \in rows} \ {NoUid} IN
  /\ "work" \in db.paths \ db.dropped
  /\ \A u \in uids : Holds(db, "trash", u) = {}
  /\ Left("handled")
  /\ Handles([refresh_folder_counts(
       [db EXCEPT !.rows = [i \in DOMAIN @ |-> IF i \in rows THEN [@[i] EXCEPT !.folder = "trash"]
                                               ELSE @[i]]], {"trash"})
              EXCEPT !.dropped = @ \cup {"work"}, !.behind = @ \cup {"work"},
                     !.moved = @ \cup {db.rows[i].mail : i \in rows}])
  /\ past' = [past EXCEPT !.handled = @ + 1, !.carried = IF uids = {} THEN @ ELSE @ \cup {"trash"}]
  /\ UNCHANGED <<account, asked>>

AsksBack(d) ==
  /\ Handles(d) /\ Left("passes")
  /\ asked' = asked \cup {"back"}
  /\ past' = [past EXCEPT !.handled = @ + 1, !.passes = @ + 1]

\* full: every folder is scanned again.
resync(full) ==
  /\ ~account.deleted /\ account' = account
  /\ AsksBack(IF full THEN [db EXCEPT !.last = [f \in Folders |-> 0], !.seen = [f \in Folders |-> 0],
                                      !.rescanned = @ \cup {f \in Folders : db.last[f] # 0}]
              ELSE db)

update_account ==
  /\ ~account.deleted
  /\ account' = [account EXCEPT !.enabled = ~@]
  /\ Handles(db)
  /\ past' = [past EXCEPT !.handled = @ + 1] /\ asked' = asked

delete_account ==
  /\ ~account.deleted
  /\ account' = [account EXCEPT !.deleted = TRUE, !.enabled = FALSE, !.status = "disconnected"]
  /\ Handles(db)
  /\ past' = [past EXCEPT !.handled = @ + 1] /\ asked' = asked

\* The removed mailbox is connected again.
create_account ==
  /\ account.deleted
  /\ account' = [account EXCEPT !.deleted = FALSE, !.enabled = TRUE, !.status = "pending"]
  /\ AsksBack(db)

SyncStep ==
  \/ \E p \in Kinds : Start(p) \/ ConnectFails(p)
  \/ \E p \in DOMAIN pass : \/ PassBy(p) \/ Search(p) \/ FolderFails(p)
                            \/ Fetch(p) \/ Commit(p) \/ RollBack(p)
  \/ NotStarted \/ PollDue \/ IdleStarts \/ IdleStops \/ IdleSync
  \/ \E m \in Mails : Arrive(m)
  \/ \E f \in Served : Renumber(f) \/ \E u \in DOMAIN box[f] : Expunge(f, u)
  \/ \E o \in Own : Sending(o) \/ Sent(o) \/ Filed(o) \/ _append_to_sent(o)
  \/ \E I \in Chosen : \/ HardDelete(I)
                        \/ \E b \in BOOLEAN : MarkRead(I, b) \/ _junk(I, b)
                        \/ \E f \in Folders \ db.dropped : MoveTo(I, f)
  \/ \E k \in DOMAIN db.rules : RunRule(k)
  \/ \E f \in Folders : empty_folder(f)
  \/ \E b \in BOOLEAN : resync(b)
  \/ delete_folder \/ update_account \/ delete_account \/ create_account
SyncNext == SyncStep /\ UNCHANGED case
SyncSpec == SyncInit /\ [][SyncNext]_syncVars
-----------------------------------------------------------------------------
\* Once last_uid has passed a mail, the mailbox has a row of it, be it moved or deleted
\* since.  Only a renumbered folder may lose one (its new uid may be the old uid of
\* another row), and one where a row has a uid of another folder: the trash that took
\* over the rows of a deleted folder, and the folder a row was moved to while a pass gave
\* it a uid of the one it had left.
MirrorExplained ==
  \A f \in Served : \A u \in Present(f) :
    u <= db.last[f] /\ db.seen[f] = valid[f] =>
      \/ \E i \in DOMAIN db.rows : db.rows[i].mail = box[f][u]
      \/ f \in past.renumbered
      \/ f \in past.carried

\* A mail is shown twice only where the server has had it at two places, where its row
\* left its folder (and with it lost its uid) before last_uid went back (a rescan, or a
\* pass that ended after one that had seen more) or while two passes stored it, where the
\* folder was renumbered between these passes, where what is found again is not known by
\* a Message-ID, or where it is an own mail whose row was filed while a pass stored the
\* server's copy, after the provider had kept one, or moved on before a pass gave it a uid.
TwiceExplained ==
  \A i, j \in DOMAIN db.rows :
    LET m == db.rows[i].mail IN
    i # j /\ m = db.rows[j].mail /\ ~db.rows[i].deleted /\ ~db.rows[j].deleted =>
      \/ m \in past.strayed \cup past.selfKept
      \/ db.rescanned # {} /\ m \in db.moved \cup Unlabelled
      \/ m \in past.crossed /\ (m \in db.moved \cup Own \/ db.rows[i].folder \in past.renumbered)
      \/ m \in db.moved \cap Own

\* The counters of a folder are those of its rows, unless the last handler counted before
\* it wrote, a pass or the send worker counted the rows it had begun with while others
\* changed them, a rule marked a message as read after moving it, or the folder was deleted.
CountsExplained ==
  \A f \in Folders \ db.behind : db.counts[f] = Exact(db.rows, f)
=============================================================================
