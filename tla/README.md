# Formal models of the status service

The repository runs several services in one pod: the status and notification
API, the chat, assistant ("AI chat") and mail APIs, the mail workers, a Celery
worker with Celery Beat, and an asyncio scheduler inside the API process that
repeats the Beat jobs as a fallback. They share one MySQL schema (through
SQLAlchemy) and one Redis (locks, caches, pub/sub, the Celery broker).

The models are about what these processes do to shared rows when they run
beside each other, crash, repeat themselves and hear late from the outside
world, and about the pure rules (dates, audiences, joins) whose errors would
show no trace. Paths below are relative to `src/app`.

## Inventory

| Component | State | Operations | What is hard | What makes it correct | Module |
|---|---|---|---|---|---|
| WhatsApp log and send path (`whatsapp_layer/sender.py`, `tasks.py`, `api/logs_api.py`) | rows of `whatsapp_message_logs`, Redis keys `wa:send:<id>`, Celery tasks | create, dispatch, send, retry with backoff, retry by hand | row read before an HTTP request and committed after it; lock on one of two paths; early acknowledgement | every duplicate explained; retries bounded; queued logs settled | `WaLog`, `WaSender` |
| Batch poll and webhooks (`sender.poll_batches`, `webhooks.py`) | the same rows | poll submitted rows, apply events | stale copies over many requests; events out of order | no status goes back but by a stale copy; no delivery shown that did not happen | `WaPipeline` |
| Provider client and accounts (`providers/`, `accounts.py`) | account status, token | send, batch status, stop on 401 | a timeout says nothing | the classes of result; a stopped account sends nothing | in `WaSender` |
| Job throttle (`tasks._run_locked`, Celery Beat, fallback) | Redis keys | run a job once per interval over two schedulers | key outlived, or deleted by another | once per occurrence | in the module of each job |
| Clawback engine (`clawback_engine.py`, `api/health_checks_api.py`) | health checks, logs by idempotency key | evaluate rules, create checks, send lists, answer, move, mark missed | catch-up, lists in parts, switches and crashes between, moved clawbacks | told once a day, never silently dropped; settled checks stay | `ClawbackRules`, `ClawbackChecks` |
| Rule book (`api/rules_api.py`, `seeds.py`) | rules of an org | create, edit, switch, delete, seed, reset | check and commit apart | active rules share no day | `RuleBook` |
| Digests and end-of-day report (`digest_engine.py`, `eod_report.py`) | logs by key | resolve audiences, send in parts | audiences worked out anew by each run | one digest a person and day, the right one | `Digests` |
| Templates (`templates_service.py`, `api/templates_api.py`) | template and the provider's copy | edit, submit, mark, sync, delete; the provider reviews and edits | review of an older text; a listing or an event that was overtaken | what counts as approved is approved, as far as the row was told | `TemplateLife` |
| Notification store, events, API (`notification_layer/store.py`, `event_handler.py`) | notifications, recipients, banners, cache | create for a target, read, expire, delete, sweep | five paths resolve recipients and sockets; counts read before another commit, messages lost | nobody of another tenant; what is shown is what the rows say | `Audience`, `NotifFeed` |
| Notification schedulers (`celery_tasks.py`, `scheduler.py`) | schedules, `notif:lock:*` | create, edit, cancel, fire | crash between send and commit; lock without owner | one notification per occurrence; cancelled stays cancelled | `NotifSchedules` |
| Mail outbox (`mail_layer/send_worker.py`, `api/compose_api.py`) | `mail_messages` that go out | send, schedule, cancel, edit, delete; worker's pass | cancel against send; crash in `sending` | one delivery per request; attempts bounded; queued is taken | `MailOutbox` |
| Mail sync (`imap_sync.py`, `sync_worker.py`, `idle_worker.py`, `rules_engine.py`, `api/messages_api.py`, `folders_api.py`, `accounts_api.py`) | `mail_messages` that came in, `mail_folders`, account | passes of three kinds, rules, moves, flags, folders, accounts | passes overlap without a lock; renumbered folders; uids of moved rows | no mail lost, none twice, counters right | `MailSync` |
| Chat rooms (`chat_layer/store.py`, `api/conversations_api.py`) | conversations, members | look up or create; inbox | no unique key for direct rooms | one room per pair; no foreign tenant in an inbox | `ChatRooms` |
| Chat messages, polls, tasks | messages, reads, votes, assignees | send, read, vote, mark done | ids given before the commit; overlapping votes | new is unread; one vote each | `ChatMessages`, `ChatCards` |
| Assistant: scope and data tools (`access_middleware.py`, `tools/data_tools.py`, `comparison_tools.py`) | scope cache | load scope, answer | cached and held over a turn | never further than recent assignments lead | `AiScope`, `AiTools`, `BoundedView` |
| Assistant: turns and quota (`agent.py`, `quota.py`) | session, cards, token counters | run tools in parallel, debit | completion order; lost update; midnight and a new month between read and write | cards in the order of calls; counters exact unless an old copy is written | `AiAgent`, `AiQuota` |
| Assistant: schedules, alerts, approvals (`scheduler.py`, `api/schedules_api.py`, `api/approvals_api.py`) | items, approvals, locks | create, approve, resume, fire | approval against resume; lock shorter than a run | active means approved unless explained; fired once unless explained | `AiSchedules` |
| Assistant: analytics (`mcp_server/semantic.py`, `schema_meta.py`) | none | plan joins, count | joins multiply or drop rows | counts are those of the catalogue | `QueryData` |

Not modelled, and why: WhatsApp dashboards, records, people, clients and
variables (read-only queries, wording); chat entities and the notification bridge
(look-ups and calls into the store); chat sockets, presence and push
(connection bookkeeping nothing else depends on; a closing tab clears the
presence of a user with another tab, `ws_chat.py:123`); progress and status
websockets (a relay); Consul registration and tenant authorisation (start-up and
per-request checks); schema, pages and deployment. `PROJECT.json` lists them with
their reasons.

How the parts interact: the schedulers create logs and notifications and call the
send paths; send path, poll and webhooks write the same log rows; webhook and
sync write templates that the rules use; the Today page creates the checks the
reminder pass would create; the mail worker files its own mail into the folder
the sync mirrors; an assistant's turn reads what the job service assigns.

## How the modules are built

Every process that reads a row, does something else and commits is two or more
actions with its copy in between; a handler that is one transaction without such
a gap is one action. The commit is the session's (`database_Layer/db_config.py`:
`autoflush=False`, no version column): it writes the columns whose value the
handler changed and leaves the others as they are. `WaLog`, `MailOutbox`,
`MailSync` and `ChatCards` depend on that rule. History variables (what was
accepted, lost, overtaken, raced) exist so that a property can say "unless"; no
guard reads them, except the counters that are bounds.

The components below WhatsApp's send path share no state with each other, so
their MC modules check several side by side: a variable `part`, chosen at the
start, names the one that moves. Nothing is lost by it, since the others' steps
would leave every variable of its properties alone.

### WhatsApp: `WaLog`, `WaSender`, `WaPipeline`

* `row[l]` is the committed row reduced to `status`, `attempts` and
  `next_attempt_at`; `age[l]` is `created_at` against the two limits of
  `dispatch_due`; `sendable[l]` joins template approval, phone number and
  opt-out; `accountOk` is the organization's account.
* `send_log` is `LoadNotQueued`, `LoadUnsendable` or `LoadSendable`, then
  `CannotDecrypt` or `CallProvider`, then `CommitAnswer`, with `view[s]` the
  object in between. A late "retryable" answer does not write `status`, because
  the object was `queued` already, and so cannot requeue a settled row.
* `CeleryWorkers` run the task under `wa:send:<id>` (`TakeTask`, `SkipTask`,
  `Done`); `InlineSenders` run `send_log` without it (`DispatchInline`,
  `CreateInline`, `RetryLoad`, `RetryCommit`). With `LockOutlivesSend` the key
  expires only when no worker is at work on the log (a send takes less than the
  120 s of `SEND_LOCK_TTL`).
* `LoseTask`, `SendError`, `Crash`, `PollCrash`, `HookError` are the failures.
* `PollLoad`, `PollAsk`, `PollCommit` and `HookLoad`, `HookCommit` are the other
  writers; a webhook may tell of any message the provider took, with any status,
  at any time, any number of times. `crossed`, a history variable, collects the logs
  that two senders have had loaded at once: with inline senders, which the code always
  has, an acceptance may then be overwritten by the other sender's answer.

Abstractions: Beat reads its window and enqueues in one step; a job creates and
dispatches one log at a time; one poll at a time; an event finds its log.

### Clawback: `ClawbackRules`, `ClawbackCases`, `ClawbackChecks`, `RuleBook`, `Digests`, `TemplateLife`

* Dates are integers, a weekday is `d % 7`; a rule is its anchor, window,
  frequency and send time. `RuleDue`, `RuleOfDay`, `WindowsOverlap` and the list
  parts are operators; `ClawbackCases` compares them with reference definitions,
  one case a step.
* A pass of `ClawbackChecks` is fetch (the job service's answer), evaluate
  (`ensure_health_check` commits per clawback), plan (what the logs already
  hold), and one commit per message. Between them the summary is switched,
  clawbacks move, recruiters answer, the Today page creates checks, the process
  dies. What keeps two reminder passes apart is the unique idempotency key of a
  message; passes run one at a time in the model.
* `RuleBook` separates the overlap check of every request from its commit.
  `Digests` is a run over the audiences with their look-ups failing, in parts.
* `TemplateLife` is a template's text and status against the provider's. The provider
  reviews its copy at first and again later (`Reviews`), the copy may be edited in the
  provider's portal (`EditThere`), events are lost, repeated and late, and a sync writes
  what it listed before to the row it loaded before: a status only if the two differ,
  a text only over a draft or if its variables are named (`templates_service.py:487`).
  `own`, `unread`, `unheard` and `manual` say which news the row and the provider have
  not got of each other.

### Notifications: `Audience`, `NotifFeed`, `NotifSchedules`

* A state of `Audience` is one notification to one directory of people, by one
  of the paths `request`, `banner`, `event`, `loop` (the fallback's fire) and
  `celery`. Celery's fire does not hand on the organisation
  (`celery_tasks.py:44`); the loop does (`scheduler.py:97`). Beside the rows it has the
  sockets the notification is pushed to: a request or an event broadcasts only what
  belongs to no organisation (`Pushed`), the schedulers whatever is public, to all or
  a banner (`PushedBySchedule`).
* In `NotifFeed` every handler commits, reads what it publishes and publishes;
  the client's badge and ticker and the cache of a minute are what they were
  given last. Every publish and every call of the cache may fail unnoticed
  (`redis_manager.py` swallows the error, the listener drops messages while it
  reconnects). An administrator's deletion, expiry or change of expiry is `AdminLoad`
  and a commit that writes the columns which differ from what was loaded; a sweep or
  another request may commit in between. `aside` is the ticker of somebody no banner is
  addressed to.
* A tick of `NotifSchedules` loads the due schedules under a key without an
  owner, and for each of them sends, then commits the status. The key may
  expire, the process die, a clerk cancel or edit in between.

### Mail: `MailOutbox`, `MailSync`

* `MailOutbox`: a request is `RequestLoad` (the query with the handler's checks)
  and `RequestCommit`; the worker's `run` is `PassLoad`, then per message
  `PassOver`, `Refuse`, or `MarkSending`, `Compose`, `Send`, `Record`, and
  `Refresh`. After a commit the session's objects are expired, so later
  candidates are seen as of the commit before them, and `send_status` is not
  looked at again. `PassFails` is the `except` of `run` and a crash.
* `MailSync`: a pass is one transaction over the mailbox with the rows as they
  were when it began (`snap`) and its own changes (`tx`). `Search` and `Fetch`
  are its requests to the server; `Commit` writes what it changed, unless a
  unique key (`uq_acct_folder_uid`, `uq_acct_imap_path`) it stored is taken by
  then: the second of two such transactions waits for the first and fails as a
  whole, so it is enough to look at the keys at the commit. Up to three passes
  (poll, IDLE, background) overlap. Handlers are transactions of their own. The send
  worker's transaction begins after it committed `sending` (`Sending`), lasts through
  SMTP (`Sent`), and counts the sent folder on the rows as they were at its beginning
  (`Filed`; `send_worker.py:82-119`). The server receives, moves, expunges and renumbers mails at any time.

Abstractions of `MailSync`: contents, flags, categories, forwarding and the
window of `backfill_days` are left out, as are the creation of folders and the
purge of an account; `work` stands for custom folders.

### Chat: `ChatRooms`, `ChatMessages`, `ChatCards`

* `rooms` is the table in the order of ids; looking up and inserting are two
  steps. For a team, `uq_team_conv` makes the second insert fail.
* A message has an id from its flush and is visible from its commit; a reader's
  client fetches a page and marks it as read up to the highest id it saw.
* Votes delete, then insert, and two requests of one voter serialise on the rows
  they delete: a lock of InnoDB, the assumption of `SingleChoice`.

### Assistant: `AiScope`, `BoundedView`, `AiTools`, `AiAgent`, `AiQuota`, `AiSchedules`, `QueryData`

* `AiScope` is the recruiter's scope: loaded from the assignments, kept
  `_SCOPE_TTL` seconds in Redis, held for a turn of at most `LongestTurn`.
  `BoundedView` is the abstract specification: a view of a changing set that
  lags by less than `Lag`. `ScopeIsBoundedView` is `View!Spec` under the mapping
  "the view is the open turn's jobs, the lag is TTL plus turn".
* `AiTools` has one operator per data or comparison tool: the jobs, candidates
  and companies its answer may name under a scope. Filters only leave rows out.
* `AiAgent` is a turn: batches of calls, workers that finish in any order, cards
  merged and streamed. `AiQuota` reads the row and writes the counters apart, creates
  a missing row, sets the day's and the month's counters back on the first use after a
  midnight, and has the requests that change the limits.
  `AiSchedules` is the items with their approvals and the two Beat tasks.
* `QueryData` plans the joins as `semantic.py` does (breadth-first over
  `JOIN_GRAPH`, inner or outer by alias) and evaluates them over small
  relations; `Promised` is the count the catalogue describes.

## Runs

| Run | Module, bounds | States | What it asks |
|---|---|---|---|
| `WaSenderRaces` | `MCWaSender`: one log, two Celery workers, one inline sender, one crash, one retry by hand, three provider calls | 2.5 M | `WorkersExclude`, `RetryBudget`, `DuplicatesExplained`, `RequeuedByHandOnly` |
| `WaPipelineWriters` | `MCWaPipeline`: one log, two senders without the key, the poll, a webhook handler, one backoff, one fault, two provider calls | 1.8 M | `AcceptanceRecorded`, `NoFalseDelivery`, `BackwardsOnlyFromStaleCopy` |
| `QueuesLive` | `MCQueues`: a Celery worker with two faults; the fallback with two logs and a window of one; the outbox with two mails, a window of one and two requests | 73 k | liveness: `QueuedIsSettled`, `QueuedIsTaken` |
| `Clawback` | `MCClawback`: every frequency, anchor and window over three weeks; a day of two clawbacks, lists of one, one move, one fault; two administrators and four requests; three digest rules and four people, two failures; a template with two texts and three edits, submissions or reviews, by one of three decisions | 0.44 M | `CatchUpComplete`, `OverlapExact`, `TwiceOnlyIfMoved`, `SilentOnlyIfLate`, `SettledStays`, `OverlapOnlyByRace`, `DigestsExplained`, `TemplatesExplained`, liveness: `PendingEnds` |
| `Talk` | `MCTalk`: two people of six kinds, every look; a push and a banner with two writers and three writes; a schedule, two ticks, a clerk; four members, two requests; three messages, two readers; three ballots; a task of two | 2.5 M | `StaysInTenant`, `FeedExplained`, `FiredOnceExplained`, `CancelHolds`, `DoubledByRaceOnly`, `RoomsStayInTenant`, `NewIsUnread`, `SingleChoice` |
| `MailRaces` | `MCMail`: a message that goes out, two request threads, two requests, one failed pass; seven mailboxes with up to two mails, two rules, three overlapping passes, the send worker | 0.66 M | `DeliveriesExplained`, `SmtpBudget`, `SendingInFlight`, `MirrorExplained`, `TwiceExplained`, `CountsExplained` |
| `Assistant` | `MCAssistant`: three jobs of two companies; batches of two tools, two rounds; two threads on a quota over a midnight that may begin a month; one schedule or alert, two workers; 128 databases with 880 questions | 1.7 M | `ScopeFollows`, `ScopeIsBoundedView`, `CardsInOrder`, `QuotaExplained`, `ActiveExplained`, `FiresExplained`, `DistinctCountsExact` |
| `WaPipelineBackwards`, `MailOutboxUndo`, `ClawbackRefresh`, `TaskFlip`, `ScheduleBroadcast` | each on an instance of the same size or smaller | | one sentence of a comment or doc each, which the code does not keep: see Findings |

What the properties say in one line each (their comments in the modules say it in
full):

* `WorkersExclude`: two Celery workers are never at work on one log.
  `RetryBudget`: automatic retries stay within the backoff list.
  `DuplicatesExplained`: a second acceptance follows from a lost one, a retry by hand
  or two senders at once.
  `RequeuedByHandOnly`: nothing but a retry by hand makes a log `queued` again.
  `AcceptanceRecorded`: an acceptance that was not lost is on the row, and no poll,
  late event or crash takes it off, unless two senders had the log loaded at once.
  `NoFalseDelivery`: no status says more than the provider did.
  `BackwardsOnlyFromStaleCopy`: a status goes back only by such a copy.
  `QueuedIsSettled`: a queued log is settled or passes the 24 h limit.
* `CatchUpComplete`: a rule that falls on days off is caught up on the next
  working day, whatever the working week. `OverlapExact`: two rules are refused
  exactly if they share a day. `TwiceOnlyIfMoved`, `SilentOnlyIfLate`: nobody is
  told twice on a day or not at all, but for the reasons named. `SettledStays`: an
  answer is lost, and a cancellation undone, only by a copy read before.
  `PendingEnds`: a pending check is answered, cancelled or missed in the end.
  `OverlapOnlyByRace`: active rules share a day only by a check that was
  overtaken. `DigestsExplained`: one digest each, the right one.
  `TemplatesExplained`: what counts as approved is approved by the provider, with the
  text it holds, unless it was approved by hand or one of the two was not told; and
  rules name templates that exist.
* `StaysInTenant`: a notification stamped with an organisation stays within it, its rows
  and, but for schedules, its sockets. `FeedExplained`: badge, ticker, cache and history
  follow from the rows when nothing is under way and the last message was not lost, and
  nobody else's ticker shows what no schedule fired. `FiredOnceExplained`, `CancelHolds`: see Proofs.
* `DeliveriesExplained`, `SendingInFlight`, `SmtpBudget`, `QueuedIsTaken`: an
  outgoing mail is taken once per request, `sending` means somebody sends, the
  attempts are bounded, the queue moves. `MirrorExplained`: once `last_uid` has
  passed a mail there is a row of it, but in folders that were renumbered or in which
  rows carry uids of another folder. `TwiceExplained`: a mail is shown twice only where
  the server had it twice, its row left its folder before it was found again, a folder was
  renumbered, or an own mail was filed beside the server's copy. `CountsExplained`: the
  counters are wrong only for the reasons it names.
* `DoubledByRaceOnly`, `RoomsStayInTenant`, `NewIsUnread`: see Proofs.
  `SingleChoice`: a single-choice poll has one vote of each voter.
* `ScopeFollows`: every data and comparison tool of the assistant reaches no
  further than what the recruiter's jobs lead to, now or less than the cache's
  life plus a turn ago. `ScopeIsBoundedView`: `AiScope` implements `BoundedView`.
  `CardsInOrder`: the cards of a reply are in the order of the calls, each key
  once. `QuotaExplained`: see Proofs. `ActiveExplained`: an item that needs an
  approval is active without one only by a resume or a double decision at the
  wrong time. `FiresExplained`: an occurrence is answered twice only by a run that
  outlived its lock or could not record. `DistinctCountsExact`: a count over joined
  tables is the count the catalogue describes, and so is the sum of openings where
  only companies are joined to the jobs.

Every property of a passing run has a mutant: an operator beside the definition it
replaces (`PublicToAll`, `Highest`, `JobDetailUnchecked`, ...) that is a
bug of the kind the code could have, and under which TLC finds the property
violated.

### Bounds

One row, one message or one mailbox shows every race over it, because nothing in
the code relates two of them except windows (`LIMIT 500`, `LIMIT 20`), lists in
parts, batches of a pass and keys; where those matter there are two (`QueuesLive`,
`Clawback`, the mailboxes of `MCMail` with two mails). Two processes are enough for
two stale copies of one row, and each property speaks of a row and at most two
holders of a copy; three passes let two overlap and a third follow, and two requests
one mail be queued again while the worker has it (`MailProofs` is about any number).
The numbers of the code are scaled so that every comparison is passed and failed:
`Backoffs` 1 for 3, `MAX_RETRIES` 2 for 5, windows of 1 for 500 and 20, lists of 1
for the size of a part, a TTL of 2 ticks. Faults are bounded by one (two in
`QueuesLive` and the digests), which hits every step. `MaxCalls`, `MaxWrites`,
`MaxSpent`, `MaxRooms`, `MaxBallots`, `Horizon` and the other `Max...` constants end
histories. The rules of `Clawback` cover every
frequency, anchor, open and closed window and three working weeks (five days, one
day, two days) over 22 days. `QueryData` has a job with
two applicants and two recruiters, one without applicants, and a candidate of two
jobs: what a join can multiply or drop. `CHECK_DEADLOCK FALSE` stands where days
end, requests run out or a case is one step.

### Fairness

Only `QueuesLive` and `PendingEnds` use fairness, all of it weak.

* WhatsApp (`WaSender`'s `SenderFairness`, which `MCQueues` states for its
  instances): each sender's next step (the HTTP request has a timeout, a killed
  process is an action of its own), each worker taking or skipping a task (it is
  supervised), the Beat job and the fallback, and time (backoff, the two minutes
  before a dispatch, the TTL of a key). None for faults, people, health checks,
  polls and webhooks, nor for `GrowStale`: settling must not depend on a log
  getting old. The Celery deployment assumes a consumer; `start.sh:95` starts the
  worker on the queue `notification` only, to which the code routes no task, so
  this is up to the deployment's settings. Without it the system is the fallback
  alone, the second deployment of the run.
* Mail outbox: the worker's next step (it loops for ever and SMTP has a timeout),
  each request's commit, the clock. None for new requests, faults and the mailbox.
* Clawback: `ChecksFairness`, the clock and the hourly `mark_missed`. None for the
  reminder pass, recruiters and events.

## Proofs

TLAPS checks the following for every value of the constants, with no other
assumption than the named `ASSUME`s of the modules, which TLC evaluates in the runs
(see the end of this section for what they say of the code). Each theorem is the
usual three steps: the initial states satisfy an inductive invariant, every action
keeps it (one lemma per action or group of actions), and it implies the property.
The invariants are what a reader should look at; TLC agreed with the larger ones
(`TellInv`, `SilentInv`, `AgentInv`, `TwiceInv`) on the instance of their run before they were
proved.

`WaPipelineProofs`, for any logs, workers, inline senders and handlers:

* `TypeCorrect`: `TypeOK` is inductive by itself.
* `RequeuedByHand`: a copy a sender holds was loaded as `queued`
  (`OpenViewsQueued`), so its commit writes `status` only to leave the queue.
* `BackwardsFromStaleCopies`: `RetriesSawFailed` and `PollSawSubmitted` say what the
  copies looked like when they were read. A commit that lowers a status then writes
  over a row that has changed since: the copy is stale.
* `WorkersExcludeHolds`, with `LockOutlivesSend`: the strengthening `OneTaskEach`
  says that a worker has at most one log, holds none in `todo`, never retries by
  hand and is idle exactly when it has no log.
* `NoFalseDeliveryHolds`: `AcceptedFirst` carries the fact through every place a
  status can come from: an answer a sender holds, the copies of poll and webhook,
  the event.
* `AcceptedOnce` (`AcceptanceRecorded`), with inline senders, retries by hand and keys
  that run out. The invariant `Ledger` says of a log no two senders have had loaded at
  once that at most one acceptance is neither lost nor answered by a retry, and none is
  while the row waits or a sender has it loaded, but the one that sender holds
  (`LedgerOf`). A step of the sender that works on the log keeps the balance
  (`LedgerMove`), and so does every other (`LedgerSteady`), for only a retry by hand
  puts a row back into the queue.
* `RetryBudgetHolds`, `DuplicatesExplainedHolds`, whether or not the key outlives a
  send: `CountInv`. `BudgetOf(l)` balances the attempts begun
  against those the row counts, those begun while another was open and those a fault
  cut short; `CopiesOf(l)` balances the acceptances, and those senders may still
  bring, against the first, the lost ones, the retries by hand and the overlaps. Both
  count the senders about to call the provider, a finite set for any number of
  processes.

`MailProofs`, of the outbox for any messages and request threads, of the mirror for any
mails, rules, mailboxes to begin with and bounds:

* `CountsAreExplained`, `MirrorIsExplained` share `SyncInv`. The counters of the
  committed mailbox are right where they are said to be (`CountsRight`). In a folder
  that keeps its numbers a row's uid is the server's number of its mail (`UidsTrue`),
  and every mail up to `last_uid` has a row (`Covered`): the second needs the first,
  since the upsert takes any row with the uid for the mail. A pass under way has in
  its transaction the rows it began with, with at most another uid, and rows it added
  and counted (`Within`); what it found in the folder it is at leaves no mail out below
  the highest uid it will set (`InFlight`). Meanwhile the committed rows only grow
  (`Grows`), which is what the commit rests on: it puts the rows it added behind those
  others have committed (`MergedIs`), and a counter it wrote is that of the merged rows
  unless somebody else changed what it had counted (`CountedExact`). The send worker's
  count is that of an older view with one more row: exact if view and rows agree on the
  sent folder (`AppendedExact`), marked otherwise (`FiledOK`).
  The operators of `MailSync` are folds over uids, rules and actions; what one step
  keeps, `RuleKeeps`, `ApplyKeeps` and `UpsertedOnce` show the folds to keep.
* `TwiceIsExplained`: `TwiceInv`, on top of `SyncInv`. The argument is about places. The
  server has a mail at one place, but for mails it doubled or moved about and own mails
  the provider kept (`Apart`, `OwnPlaces`). A row whose mail never left its folder is where
  this place is, under its uid if the folder keeps its numbers (`Homed`), and `last_uid`
  has passed the place of every mail that has a row, unless a `last_uid` went back
  (`PassedBy`). So what a pass finds beyond `last_uid` has no row yet, or one that left its
  folder, or one that the Message-ID finds (`UpsertFiles`). The same holds of the rows in
  every transaction under way (`PassTidy`), which keeps the key of each row it stored
  (`Keyed`), while committed rows keep their marks of deletion and `last_uid` does not fall
  unmarked (`Follows`). At the commit two rows of one mail are both old, both of the pass,
  or one of each; in the last case either the pass began with the old row, or both were
  stored meanwhile: then the mail is marked as crossed, and if neither row left its folder
  both have one place, hence one key, and the commit would have failed (`MergedTidy`).
  The invariant needs both halves: without `PassedBy` a pass could store what has a row,
  without `Homed` two rows of one mail could have different keys.
* `OutboxTypeCorrect`, with the lemma that a pass has a lowest message.
* `OutboxDeliveriesExplained`, `OutboxSendingInFlight` share `IInv`. `Claims(m)`
  counts the deliveries that may still happen without a new request;
  `ClaimsCovered` balances deliveries and claims against requests and hidden
  deliveries; `WaitingIsUnmarked` and `MarkIsSeen` say that the mark takes a
  message off the queue and that the outcome replaces the mark.
* `OutboxSmtpBudget`: `SmtpCovered`. `Sends(m)` is what may still go to SMTP. What a
  request queues while the worker holds the message does not add to what the worker
  will record, for the outcome overwrites the attempts the request has reset; only a
  pass that fails leaves what the row allows.

`ClawbackProofs`:

* `TemplatesHold`: `TplInv`. A row that is no draft and was told of the provider's last
  decision has its status (`StatusHeld`), one whose text was sent or copied and not
  edited on either side since has the provider's text (`TextHeld`), and a rule names a
  deleted template only if it was saved while that was deleted (`UsedIsThere`).
* `RulesApart`: `BookInv`. Until a check was overtaken the active rules are apart
  (`Apart`), and a request under way knows that its rule clashes with none of them
  (`Checked`).
* `OneDigestADay`: `DigestInv`. A person is served by one rule (`OneRuleEach`,
  `OneRuleLogged`) and has no message yet while a run still has them on its list
  (`Unserved`); the second part goes only to whom the first went (`FirstSent`,
  `PartsSent`); without a failed look-up no team lead is in the list of the whole
  organisation (`LeadsPassed`).
* `NoDayIsLost` and `OverlapIsExact` are about the pure functions. `NoDayIsLost` needs
  no induction: in any seven days before a working day the last one that matches is
  found, and the days from it to the working day are off. `OverlapIsExact` names the
  shared day, the later of the two starts.

`ClawbackChecksProofs`, for any clawbacks, rules, days, hours and size of a part:

* `SettledChecksStay`: an action property. Every action changes `check` in one of
  five ways (an answer, a cancellation, added rows, missed rows, a row loaded), and
  only an answer or a cancellation can touch a settled row: through its copy.
* `ToldOnceADay` (`TwiceOnlyIfMoved`): `TellInv`. For clawbacks that never changed, what the
  job service says is what it said first (`ItemsKnown`, `FetchKnown`), a pass has one
  entry of each (`EntriesKnown`), the messages still to be sent are about different
  entries under different keys (`TodoKnown`), the first part of a list goes before
  its other parts (`FirstPartFirst`), and whatever was told today about the clawbacks of
  a message was told by that very message (`TodoUntold`). Of the log: one row a key,
  lists follow their first part, and a clawback was told under its own key or its
  recruiter has a list of the day. Without the order of the parts the invariant is not
  inductive: a pass looks at the first part's key alone to see that the list went out.
* `NobodyDueIsLeftOut` (`SilentOnlyIfLate`): `SilentInv` besides. A cancelled check tells
  the truth (`CancelsTrue`); a pass with entries has those of all that is due
  (`EntriesComplete`); a list that went out accounts for everybody of its recruiter
  (`ListsComplete`), and so do the messages of a pass that planned them (`EntriesTold`):
  told, about to be told, due only later in the day, or lost with a pass that died.

`NotifProofs`, for any people, schedules, ticks, requests, banners and writers:

* `TenantIsolation`. The property speaks of one step, so the work is in lemmas about
  the operators that resolve recipients and sockets.
* `FiredOnce`: `FiredOnceExplained`. `OneHolder` says that two ticks run together
  only when one has lost its key; `RowsKnown` that a row somebody works on is in the
  table; `OneFiring` that of an unexcused occurrence that was fired nobody holds
  another copy to fire, and that as long as its row is pending somebody is about to
  mark it.
* `CancellationHolds`: `CancelHolds`. `Halts` balances the firings since the
  cancellation and the ticks that still hold the schedule against those that held
  it then.
* `FeedFollowsRows`: `FeedInv`. What a client's badge, its ticker or the cache shows
  wrongly was lost on its way, or some handler is about to publish or clear it
  (`BadgeDue`, `TickerDue`, `CacheDue`); what a handler has in hand is right unless a
  commit overtook it (`Recent`); a row that an administrator's request loaded as off is
  off unless a change of expiry switched it on since (`Loaded`).

`ChatProofs`, for any people, teams, organisations, requests, messages and ballots:

* `TenantRooms`, `RoomsDoubledByRaceOnly` from one invariant, `RoomsInv`: rosters,
  rooms and the requests under way fit their stamp, and a request has looked before
  every room of its key.
* `NewMessageIsUnread`: a page shows only what was visible, and a mark is a message of
  the page (`Marks`).
* `OneVoteEach`: a ballot that has deleted and not inserted has deleted every row of
  its voter that there is (`DeletedAll`): what the locks of the delete are for.

`AssistantProofs`:

* `CardsKeepOrder`: `AgentInv`. The cards known are those of the calls before the batch
  in flight, each key once, and whatever a call shows stands behind a card of an
  earlier or the same call (`CardsTo`); the calls in flight are the last of the
  conversation, and a finished one has its cards (`BatchInFlight`). The merge is a fold in a
  fold; `MergeCards` and `MergeBatch` say what they do to any cards.
* `ScopeInvariant` (what a cached or held scope may contain, by its age) and
  `ScopeRefinesView`, for any jobs, TTL and length of a turn: every initial state of
  `AiScope` is one of `BoundedView`, every step a step or a stutter of it.
* `ToolsFollowScope`: a scope's candidates and companies are those its jobs lead to
  (`ScopesLoaded`), and for each tool a lemma bounds what it shows by what the jobs of
  the scope lead to; with `ScopeInvariant` these are the assignments of late.
* `QuotaHolds`: `QuotaInv`. As long as every write was what a fresh copy would have
  written, the row is exact as of its day and its month, and nothing was spent in later
  ones (`Exact`); the bounds need `Bounded`: beyond the limit less an estimate, a counter
  grows by the turns already admitted alone, of which there are at most as many as
  threads. No copy has a month's counter above what was ever spent (`NothingMadeUp`).
* `ApprovalsHold`, `AnsweredOnce`: `ItemsInv`. An approval exists for an item that asked
  (`Approvals`); until a run outlives its lock there is one run of a kind (`OneRun`),
  which takes each of its items once (`RunsOwn`); what was answered lies before the
  item's next occurrence (`AnswersPast`).

`FoldLemmas` holds what several proofs cite: a set of numbers has a least one,
induction over numbers and over the subsets of a finite set, and that the function by
which a fold is defined exists. The library's induction theorems take an operator as a
parameter, which the provers cannot instantiate; a property given as the *set* of what
has it is a constant, and these lemmas follow from the well-foundedness of `<` alone.
With them the folds over recruiters, cards, calls, rules and uids can be reasoned about.

What the assumptions say of the code: `AiQuota` has a daily and a monthly limit not below the estimate, or no turn would ever
run, and a dearest turn; the default rules take turns (`RuleBook`; `seeds.DEFAULT_RULES`)
template texts exist, and reviews end in one of the five statuses that `omnichannel.py:35` knows; digest rules are known by their id; the rules are finitely many
rows with integer columns, the hours and the consecutive days of a history are numbers, and the
job service lists a clawback once (`ClawbackChecks`); the mailboxes to begin with hold mails
and an account's rules, the window of a search is a number, and an own mail is none of
those that arrive and has a Message-ID (`MailSync`; `build_message` gives it one); the windows of `ClawbackCases` start
within the numbers its reference definition looks at; tools and the model return lists
(`AiAgent`).

Proving has corrected the models in five places: an overlapping `CASE` in
`WaLog.Advanced`, of which TLC took the first arm; the rows that a clawback
without a cooling period leaves in the log, which the code writes for known
recruiters and new keys only (`clawback_engine.py:619`); and three in `MailSync`. The
`UPDATE` by which a pass gives a row its uid meets the unique key in the folder the row
is in by then (`imap_sync.py:148`), so a row may get a uid of a folder it has left; and
two passes around a renumbering store one mail twice, which `TwiceExplained` did not
name. Both have a mailbox of their own in `MCMail`. And a pass writes the `last_uid` it
has come to over that of a pass that ended before and had seen more
(`imap_sync.py:264`): what lies between is fetched again, which the model did not count
as a `last_uid` that goes back.

Only model-checked:

* liveness under fairness (`QueuedIsSettled`, `QueuedIsTaken`, `PendingEnds`), out of the
  prover's reach;
* `DistinctCountsExact`: what a breadth-first search and nested joins compute over any
  relations is an induction over the plan.

## Findings

1. `WaPipelineBackwards`: `sent`, `delivered` and `read` may be overwritten by an
   earlier status when a webhook is faster than the commit of the sender, of the
   poll or of another webhook, although `sender.py:303` says "without ever moving
   backwards". `BackwardsOnlyFromStaleCopy` shows that there is no other way.
2. `MailOutboxUndo`: a mail whose cancellation was confirmed may still be sent. The
   worker works through up to 20 loaded messages without looking at `send_status`
   again, and its mark overwrites `canceled`.
3. `ClawbackRefresh`: a check cancelled by a move is never created again, although
   the comment in `clawback_engine.py:812` expects it of the next run: the row is
   found by its key and left as it is.
4. `TaskFlip`: the last assignee marks their part as done and the task stays open.
   The session does not flush before the query that counts the open parts.
5. `ScheduleBroadcast`: a schedule of one organisation that is public, to all or a banner
   reaches every socket. The fallback loop publishes it with `publish_broadcast`
   (`scheduler.py:117`, and so does `celery_tasks.py:77`), and announces a banner without
   recipients, which `ws_manager.py:154` sends to all, although the send request avoids
   just that: "else it leaks across orgs in real time"
   (`send_notification_api.py:143-145`; `event_handler.py:142-146` says the same).

Observed while modelling, named in the properties as explanations or left out of
them, and worth knowing:

* The lock of `send_whatsapp_message` is not taken by the two inline paths, so two
  processes can send the same log. An exception or crash leaves a mail in `sending`
  for good (`SendingInFlight` shows that nothing else does). The key `wa:send:<id>` is
  deleted without an owner check: a send that outlives it lets a second worker in.
  `WorkersExclude` assumes that none does (a request ends after 15 s, the key after 120);
  what it would cost is an overlap, which `DuplicatesExplained` and `RetryBudget` count,
  in their proofs for every key. Mails scheduled for
  later fill the outbox' window of 20 until their time comes.
* Celery's fire of a schedule drops the organisation (`celery_tasks.py:44`), which
  the loop passes on (`scheduler.py:97`). `update_banner_expiry` switches a deleted
  banner on again. A sweep that had loaded a banner switches it off after its
  extension, and a change of expiry that loaded the banner before the sweep's commit
  leaves it off. A push that redis or the listener loses is not repeated: the display
  stays as it was until the next one. `store.py:361` says that the unread counter follows the filters; it
  does not.
* Mail sync: a failed unique key rolls the whole pass of an account back. A rescan
  stores mails again that were moved, since a move clears the uid. Of a renumbered
  folder a mail is never stored if its new uid is the old uid of another row. A
  hard-deleted mail comes back after a renumbering. An own mail is stored twice when
  a pass began before it was filed, which `imap_sync.py:151` rules out. Two passes that
  overlap around a renumbering store one mail twice, Message-ID or not. A pass that ends
  last sets `last_uid` back to what it has seen (`imap_sync.py:264`). A row that is
  moved while a pass gives it a uid keeps that uid in its new folder
  (`imap_sync.py:143-148`): the mail that has it there is taken for the row and never
  stored (`imap_sync.py:165`). The send worker counts the sent folder as it was before
  SMTP, so its counters miss what was read, moved or mirrored meanwhile.
* Templates: an edit in the provider's portal with numbered variables never reaches the
  row, whose old text goes on counting as approved. An event that arrives late is taken
  over whatever the row says by then: an approval may come after the rejection that
  followed it. A deletion whose row is not committed leaves an approved row without a
  copy at the provider.
* Chat: two first messages make two rooms, and `scalar_one_or_none` raises from then
  on. Who leaves a team stays in its room. A room that a super administrator opens
  has their organisation. A poll or task message is committed before its rows.
* Assistant: of two debits one is lost, and a thread that sets the counters back from an
  old copy undoes a debit or leaves a zero unwritten; of two charts with one id, one.
  `openings_count` sums a job once per joined row (`semantic.py:140`), so the property
  takes it only where applications, assignments and teams are not joined. Nothing calls
  `invalidate_scope` or `result_cache.invalidate_user`. A declined schedule can be
  resumed by its owner; a paused one fires if a run had listed it; a deleted row ends
  the run for the rest; both loops may outlive their locks. Grouped by team, counts
  go by the recruiters' teams rather than by `team_members` as `semantic.py:493`
  describes, and `DistinctCountsExact` leaves them out. The filter
  `multi_application_candidates_count` is not scoped (`semantic.py:251`).

## Assumptions

InnoDB locks the rows a delete matches (`SingleChoice`) and reads from a snapshot
(`MailSync`); the unique keys of the models exist (`uq_acct_folder_uid`,
`uq_acct_imap_path`, `uq_team_conv`, the idempotency key of a message); the session
writes changed columns only and expires objects at a commit; uids of a folder grow
while its UIDVALIDITY stays; a webhook speaks only of messages the provider took.
Definitions marked external in `PROJECT.json` are these.

## Not modelled

* The overlap of one WhatsApp job with its next instance, when it runs longer than
  its interval less 30 s (`tasks.py:48`): the passes run one at a time. Two passes
  would be kept apart by the idempotency keys alone, which are an assumption here;
  this is the one hazard in `PROJECT.json` without a property.
* Within the modelled components, what the notes in `PROJECT.json` name: result
  handling of the agent's direct sends, inbound messages, provider token storage,
  send-now and bulk answers, template versions, statistics, deadline reminders,
  reply and forward, attachments, flags and categories, the creation of folders and
  the backfill window, chat search, edits, pins and reactions, charts, exports and
  simulations, the session memory, read-only listings.
* Formatting, parsing, rendering and wording: no property is about them.
* The components of the inventory's closing paragraph: they keep no state that
  anything modelled depends on, or are start-up and pages.

Where one could go on: two overlapping passes in `ClawbackChecks` with the throttle
as a module; an abstract message life that `WaPipeline` refines; presence and push.
