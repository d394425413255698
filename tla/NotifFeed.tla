------------------------------ MODULE NotifFeed ----------------------------
(* What one person's client shows against what the database holds: push     *)
(* notifications and the unread badge, banners and their ticker, and the    *)
(* 60 s cache of active banners.  Every handler commits, reads what it will  *)
(* publish, and publishes; handlers run in several processes, and redis may  *)
(* lose any message or call without their noticing.  Beside the recipient    *)
(* there is somebody whom no banner is addressed to.                         *)
EXTENDS Naturals, FiniteSets

CONSTANTS Pushes, Banners, Writers, NoSet, MaxWrites
\* The two delivery modes of a notification.
ASSUME FeedAssumption == Pushes \cap Banners = {}

VARIABLES feed,       \* [on, deleted, read, expiry] per notification; or not sent yet
          writer,     \* what each handler has yet to read and publish
          client,     \* the badge and the ticker the client shows
          cached,     \* notif:banners:active
          late,       \* handlers that have something older than a commit in hand
          astray,     \* parts of the display such a handler wrote last, or whose message was lost
          revived,    \* banners switched on again by a change of expiry
          cutOff,     \* banners switched off around an extension
          aside,      \* the ticker of the one not addressed; the banners schedules fired
          writes
feedVars == <<feed, writer, client, cached, late, astray, revived, cutOff, aside, writes>>

Notes == Pushes \cup Banners
Unsent == [on |-> FALSE, deleted |-> FALSE, read |-> FALSE, expiry |-> "unsent"]
Sent1(e) == [on |-> TRUE, deleted |-> FALSE, read |-> FALSE, expiry |-> e]
Resting == [at |-> "idle"]

\* get_unread_counts_by_mode, the push figure; get_active_banners(_for_user).
Unread == Cardinality({n \in Pushes : feed[n].on /\ ~feed[n].read})
Showing == {n \in Banners : feed[n].on /\ feed[n].expiry # "passed"}

\* get_admin_notification_logs: banners that have expired stay in the History view.
InHistory(n) == ~feed[n].deleted /\ (feed[n].on \/ (n \in Banners /\ feed[n].expiry = "passed"))

FeedInit ==
  /\ feed = [n \in Notes |-> Unsent]
  /\ writer = [w \in Writers |-> Resting]
  /\ client = [badge |-> 0, ticker |-> {}]
  /\ cached = NoSet
  /\ late = {} /\ astray = {} /\ revived = {} /\ cutOff = {} /\ writes = 0
  /\ aside = [ticker |-> {}, fired |-> {}]

\* A commit: whoever has read already, or has an event to send, is behind now.
Holding == {w \in Writers : writer[w].at \in {"committed", "read", "sweep", "get"}}
Write(w, rows, next) ==
  /\ feed' = rows
  /\ writer' = [writer EXCEPT ![w] = next]
  /\ late' = (late \cup Holding) \ {w}
  /\ writes' = writes + 1

\* `tells`: the parts of the display the handler publishes; adds and drops: banners it
\* announces by an event of their own; open: that event names no recipient_ids.
ToPublish(tells, adds, drops) ==
  [at |-> "committed", tells |-> tells, adds |-> adds, drops |-> drops, open |-> FALSE]
ToAll(adds) == [ToPublish({"badge"}, adds, {}) EXCEPT !.open = TRUE]

\* One commit per request, limited in number.
Starts(w) == writer[w] = Resting /\ writes < MaxWrites

\* create_notification, and what its caller publishes afterwards.
Enter(w, n, e, job) ==
  /\ Starts(w) /\ feed[n] = Unsent
  /\ Write(w, [feed EXCEPT ![n] = Sent1(e)], job)
  /\ UNCHANGED <<client, cached, astray, revived, cutOff>>
Post(w, n, e, tells, adds) == Enter(w, n, e, ToPublish(tells, adds, {})) /\ UNCHANGED aside

\* _resolve_banner_expiry: the next midnight, or a time to come.
SomeExpiry == {"none", "later"}

\* send_notification: a banner is published to the ticker and the badge.
SendNotification(w) ==
  \/ \E n \in Pushes : Post(w, n, "none", {"badge"}, {})
  \/ \E n \in Banners, e \in SomeExpiry : Post(w, n, e, {"badge", "ticker"}, {n})

\* create_banner publishes no counts.
CreateBanner(w) == \E n \in Banners, e \in SomeExpiry : Post(w, n, e, {"ticker"}, {n})

\* handle_event: _publish_notification or, first or second, _publish_banner.
EventPush(w) == \E n \in Pushes : Post(w, n, "none", {"badge"}, {})
EventBanner(w) == \E n \in Banners : Post(w, n, "later", {"ticker"}, {n})

\* A schedule that is fired: a banner of it never expires, has no snapshot, and is
\* announced without recipient_ids.
FirePush(w) == \E n \in Pushes : Post(w, n, "none", {"badge"}, {})
FireBanner(w) == \E n \in Banners : /\ Enter(w, n, "none", ToAll({n}))
                                   /\ aside' = [aside EXCEPT !.fired = @ \cup {n}]

\* What a reader does to their rows, then _push_fresh_count or _publish_fresh.
Reader(w, S, r) ==
  /\ Starts(w)
  /\ Write(w, [n \in Notes |-> IF n \in S THEN [feed[n] EXCEPT !.read = r] ELSE feed[n]],
           ToPublish({"badge"}, {}, {}))
  /\ UNCHANGED <<client, cached, astray, revived, cutOff, aside>>

Received == {n \in Notes : feed[n] # Unsent}
MarkRead(w) == \E n \in Received : Reader(w, {n}, TRUE)
MarkUnread(w) == \E n \in Received : Reader(w, {n}, FALSE)
MarkAllRead(w) == Reader(w, Received, TRUE)

\* delete_notification: what it tells the recipients.
DeleteTells(n) == IF n \in Banners THEN {"ticker", "badge"} ELSE {"badge"}

\* An administrator deletes a notification, expires a banner or changes its expiry:
\* the row is loaded, and the commit writes the columns that differ from what was
\* loaded (a new date always does).
AdminLoad(w, n, act) ==
  /\ Starts(w) /\ feed[n] # Unsent
  /\ writer' = [writer EXCEPT ![w] = [at |-> "loaded", note |-> n, act |-> act,
                                      on |-> feed[n].on, expiry |-> feed[n].expiry]]
  /\ UNCHANGED <<feed, client, cached, late, astray, revived, cutOff, aside, writes>>
Acting(w, acts) == writer[w].at = "loaded" /\ writer[w].act \in acts
Switched(job, on) == IF job.on = on THEN feed[job.note].on ELSE on

DeleteCommit(w) ==
  LET job == writer[w]  n == job.note IN
    /\ Acting(w, {"delete"})
    /\ Write(w, [feed EXCEPT ![n].on = Switched(job, FALSE), ![n].deleted = TRUE],
             ToPublish(DeleteTells(n), {}, {n} \cap Banners))
    /\ UNCHANGED <<client, cached, astray, revived, cutOff, aside>>

ExpireNowCommit(w) ==
  LET job == writer[w]  n == job.note IN
    /\ Acting(w, {"expire"})
    /\ Write(w, [feed EXCEPT ![n].on = Switched(job, FALSE), ![n].expiry = "passed"],
             ToPublish({"ticker"}, {}, {n}))
    /\ UNCHANGED <<client, cached, astray, revived, cutOff, aside>>

\* update_banner_expiry looks neither at deleted_at nor at is_active; its caller
\* publishes only when the row is off afterwards.
Expiries == {"none", "later", "passed"}
Extended(job) ==
  [feed EXCEPT ![job.note].on = Switched(job, job.act # "passed"),
               ![job.note].expiry = IF job.act = "none" /\ job.expiry = "none" THEN @ ELSE job.act]

ChangeExpiryCommit(w) ==
  LET job == writer[w]  n == job.note  row == Extended(job)[n] IN
    /\ Acting(w, Expiries)
    /\ Write(w, Extended(job), IF row.on THEN ToPublish({}, {}, {}) ELSE ToPublish({"ticker"}, {}, {n}))
    /\ revived' = IF row.on /\ n \notin Showing THEN revived \cup {n} ELSE revived
    /\ cutOff' = IF ~row.on /\ row.expiry # "passed" THEN cutOff \cup {n} ELSE cutOff
    /\ UNCHANGED <<client, cached, astray, aside>>

\* deactivate_expired_banners_with_recipients: loads the expired banners, then writes.
Lapsed == {n \in Banners : feed[n].on /\ feed[n].expiry = "passed"}

SweepLoad(w) ==
  /\ writer[w] = Resting /\ Lapsed # {}
  /\ writer' = [writer EXCEPT ![w] = [at |-> "sweep", off |-> Lapsed]]
  /\ UNCHANGED <<feed, client, cached, late, astray, revived, cutOff, aside, writes>>

SweepCommit(w) ==
  LET off == writer[w].off IN
    /\ writer[w].at = "sweep"
    /\ Write(w, [n \in Notes |-> IF n \in off THEN [feed[n] EXCEPT !.on = FALSE] ELSE feed[n]],
             ToPublish({"ticker"}, {}, off))
    /\ cutOff' = cutOff \cup {n \in off : w \in late /\ feed[n].expiry # "passed"}
    /\ UNCHANGED <<client, cached, astray, revived, aside>>

\* Mutant: the cache is left to its minute when a banner goes.
DropsCache(job) == job.adds # {}

\* Whatever adds, removes or extends a banner invalidates the cache.
ClearsCache(job) == job.tells # {"badge"} \/ job.adds \cup job.drops # {}

\* The event of a banner and the invalidation of the cache precede the snapshot;
\* either may fail unnoticed.
Announce(w) ==
  LET job == writer[w]
      events == job.adds \cup job.drops
  IN /\ job.at = "committed"
     /\ \E told, cleared \in BOOLEAN :
          /\ client' = IF told THEN [client EXCEPT !.ticker = (@ \cup job.adds) \ job.drops] ELSE client
          /\ aside' = IF told /\ job.open THEN [aside EXCEPT !.ticker = @ \cup job.adds] ELSE aside
          /\ cached' = IF ClearsCache(job) /\ cleared THEN NoSet ELSE cached
          /\ astray' = astray \cup {p \in {"ticker"} : events # {} /\ (w \in late \/ ~told)}
                              \cup {p \in {"cache"} : ClearsCache(job) /\ ~cleared}
     /\ writer' = [writer EXCEPT ![w] = [at |-> "announced", tells |-> job.tells]]
     /\ UNCHANGED <<feed, late, revived, cutOff, writes>>

\* get_unread_counts_by_mode_bulk, get_active_banners_for_users_bulk.
ReadBack(w) ==
  /\ writer[w].at = "announced"
  /\ writer' = [writer EXCEPT ![w] = [at |-> "read", tells |-> writer[w].tells,
                                      badge |-> Unread, ticker |-> Showing]]
  /\ late' = late \ {w}
  /\ UNCHANGED <<feed, client, cached, astray, revived, cutOff, aside, writes>>

\* publish_unread_count, publish_banner_snapshots; or the first messages of a socket.
\* A message is lost when redis or the socket fails, or the listener is reconnecting.
Publish(w) ==
  LET job == writer[w] IN
    /\ job.at = "read"
    /\ \E come \in SUBSET job.tells :
         /\ client' = [badge  |-> IF "badge" \in come THEN job.badge ELSE client.badge,
                       ticker |-> IF "ticker" \in come THEN job.ticker ELSE client.ticker]
         /\ astray' = IF w \in late THEN astray \cup job.tells ELSE (astray \cup job.tells) \ come
    /\ writer' = [writer EXCEPT ![w] = Resting]
    /\ UNCHANGED <<feed, cached, late, revived, cutOff, aside, writes>>

\* ws_notifications: a socket is registered, then counts and banners are read and sent.
Connect(w) ==
  /\ Starts(w)
  /\ writer' = [writer EXCEPT ![w] = [at |-> "announced", tells |-> {"badge", "ticker"}]]
  /\ writes' = writes + 1
  /\ UNCHANGED <<feed, client, cached, late, astray, revived, cutOff, aside>>

\* Whoever is not addressed gets a snapshot, an empty one, with a new socket.
ConnectAside ==
  /\ aside.ticker # {} /\ aside' = [aside EXCEPT !.ticker = {}]
  /\ UNCHANGED <<feed, writer, client, cached, late, astray, revived, cutOff, writes>>

\* get_active_banners without an organisation: nothing is cached, or the look-up fails;
\* what is read is put into the cache later, if redis takes it.
GetLoad(w) ==
  /\ Starts(w)
  /\ writer' = [writer EXCEPT ![w] = [at |-> "get", banners |-> Showing]]
  /\ writes' = writes + 1 /\ late' = late \ {w}
  /\ UNCHANGED <<feed, client, cached, astray, revived, cutOff, aside>>

GetStore(w) ==
  /\ writer[w].at = "get"
  /\ writer' = [writer EXCEPT ![w] = Resting]
  /\ \/ /\ cached' = writer[w].banners
        /\ astray' = IF w \in late THEN astray \cup {"cache"} ELSE astray \ {"cache"}
     \/ UNCHANGED <<cached, astray>>
  /\ UNCHANGED <<feed, client, late, revived, cutOff, aside, writes>>

CacheExpires ==
  /\ cached # NoSet /\ cached' = NoSet
  /\ UNCHANGED <<feed, writer, client, late, astray, revived, cutOff, aside, writes>>

ExpiryPasses(n) ==
  /\ feed[n].expiry = "later"
  /\ feed' = [feed EXCEPT ![n].expiry = "passed"]
  /\ UNCHANGED <<writer, client, cached, late, astray, revived, cutOff, aside, writes>>

FeedNext ==
  \/ \E w \in Writers : \/ \E n \in Banners, act \in Expiries \cup {"expire"} : AdminLoad(w, n, act)
                        \/ \E n \in Notes : AdminLoad(w, n, "delete")
                        \/ DeleteCommit(w) \/ ExpireNowCommit(w) \/ ChangeExpiryCommit(w)
                        \/ SendNotification(w) \/ CreateBanner(w) \/ EventPush(w) \/ EventBanner(w)
                        \/ FirePush(w) \/ FireBanner(w)
                        \/ MarkRead(w) \/ MarkUnread(w) \/ MarkAllRead(w)
                        \/ Connect(w) \/ SweepLoad(w) \/ SweepCommit(w)
                        \/ Announce(w) \/ ReadBack(w) \/ Publish(w) \/ GetLoad(w) \/ GetStore(w)
  \/ \E n \in Banners : ExpiryPasses(n)
  \/ CacheExpires \/ ConnectAside
FeedSpec == FeedInit /\ [][FeedNext]_feedVars
-----------------------------------------------------------------------------
Quiet == \A w \in Writers : writer[w] = Resting

\* Once no handler is under way the badge is the number of unread push notifications,
\* unless what it shows was read before another handler's commit and published after
\* it (the first counts of a new socket included), or the last message was lost.
BadgeExplained == Quiet /\ "badge" \notin astray => client.badge = Unread

\* Likewise the ticker, which also keeps banners whose time has come until the sweep,
\* and misses those that a change of expiry switched on again; and the cache, which
\* lives for a minute.
Outdated(shown) == \/ \E n \in shown \ Showing : feed[n].expiry # "passed"
                   \/ \E n \in Showing \ shown : n \notin revived
TickerExplained ==
  Quiet => /\ "ticker" \notin astray => ~Outdated(client.ticker)
           /\ "cache" \notin astray /\ cached # NoSet => ~Outdated(cached)

\* store.py, soft_delete_notification: a deleted row "is hidden everywhere", and
\* nothing else disappears from the History view: only a change of expiry shows a
\* deleted banner again, and only a sweep or an expiry around an extension (loaded
\* before it, or committed between its load and its commit) hides one that still has
\* time to run.
HiddenIffDeleted ==
  \A n \in Notes : /\ feed[n].deleted /\ feed[n].on => n \in revived
                   /\ feed[n] # Unsent /\ ~feed[n].deleted /\ ~InHistory(n) => n \in cutOff

\* Whoever is not addressed sees no banner but those a schedule fired.
StrangersSpared == aside.ticker \subseteq aside.fired

\* What clients show follows from the rows, badge, ticker and History alike.
FeedExplained == BadgeExplained /\ TickerExplained /\ HiddenIffDeleted /\ StrangersSpared

=============================================================================
