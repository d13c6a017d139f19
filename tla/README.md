# Models of Anteroom (list-this-vendoo-suite)

Anteroom ("Studio") is a seller's local server with a web interface. It prepares
listings, sends them to Vendoo and to marketplaces through a Chrome extension or the
marketplaces' APIs, and hears of sales through a relay on Cloudflare; a hosted version
generates drafts on shared machines. This directory holds TLA+ models of the parts
whose correctness depends on the order things happen in, the TLC runs that check them,
and TLAPS proofs. Paths below leave out `src/vendoo-studio/server/vendoo_studio/`;
`webhook-relay/` and `vendoo-extension/` are under `src/`.

## Inventory

| Component | State it keeps | Operations | Talks to | What is hard |
|---|---|---|---|---|
| Send queue and Chrome slot (`services/send_queue.py`, `api_job_lock.py`, `job_watchdog.py`, `routes/vendoo_api.py`, `routes/jobs.py`, `routes/extension.py`, `repositories/queries.py`) | `jobs` rows and their events; in memory the set of live jobs, the workers, the dispatch lock | send now, enqueue, cancel, dispatch, run, finish, requeue, sweep, reconnect, crash | extension, dispatcher and watchdog threads | threads that write from what they read earlier; ends of workers cut by other commits; lost kicks; a crash between commits |
| Vendoo draft creation (`services/vendoo_create.py`, `vendoo_send.py`) | checkpoint events, drafts at Vendoo, the name in a listing's notes | look up, name, checkpoint, create, read back, bind | extension op `create_item` | a create carried out after the send was cut off; a second send of one listing |
| Watching Vendoo, Update Vendoo, Discard, Regenerate (`services/vendoo_watch.py`, `send_review.py`, `vendoo_item_update.py`, `routes/vendoo_api.py`, `routes/conversations.py`) | `SYNCED_REVISION`, `SYNCED_AT`, the content's fingerprint, the conflict mark; a lock per listing | sync, pull, flag a conflict, preview, update, discard, reset | extension; the seller's edits here and in Vendoo | edits on both sides between a read and a write; writes that were given up and still happen |
| Sale stream (`webhook-relay/src/inbox.js`, `services/relay_client.py`, `relay_sales.py`) | events table; sockets; `MarketplaceSale` rows | add, page, acknowledge, expire; receive, record, announce | marketplaces, order recovery, automatic delisting | drops, late acknowledgements, live events beside a backlog, failures in a message |
| Marketplace accounts (`services/marketplace_accounts.py`, `webhook-relay/src/directory.js`) | tokens in the keychain, links and sign-ins at the relay, refresh locks | start, callback, link, take the result, refresh, disconnect | relay, marketplaces | a refresh racing a disconnect; a rotated token; a disconnect cut in half |
| Direct marketplace actions (`services/native_marketplaces.py`, `marketplace_delist.py`, `vendoo-extension/background/native-marketplaces.js`) | records of what is listed where, jobs, Chrome's journal of operations | List, Update, Save Draft, check, reset, mark, cancel | extension pages, marketplaces' APIs, Chrome slot | an action cut off after the marketplace changed; a worker of Chrome that stops |
| Hosted draft queue (`services/background_tasks.py`, `background_worker.py`, `routes/hosted_tasks.py`, `repositories/hosted_drafts.py`) | leased tasks, their events, drafts | submit, claim, renew, fenced writes, finish, stop, save, watch | PostgreSQL, two or more machines, viewers | an expired lease and a worker that goes on; snapshots at READ COMMITTED; deadlocks |
| Listings and revisions (`repositories/queries.py`, `services/listing_editor.py`) | revisions, current revision | save, save if unchanged | every writer of a listing | compare-and-set beside unconditional saves |
| Automations (`services/automations.py`, `automation_scheduler.py`) | schedules, runs | tick, run, pause | listings, direct actions, eBay API | a run due once, restarts |
| eBay actions and offers, updates, backups | action journal; staged app; files | | eBay API; file system | an answer that never came; a crash in a swap |
| Everything else | | | | listed with its reason in `PROJECT.json`: field mappings, photos, analytics, AI providers, command line, interface, iPhone app, skills, scripts |

Interactions: a request handler commits a job row and *kicks* the dispatcher; a
dispatcher thread claims the oldest queued job when the slot is free and the loop
spawns `run_send`; the worker sends ops to the extension and marks the row; its end
puts the row back, or leaves it finished, and kicks again. The watchdog thread and a
reconnect of the extension write the same rows. Direct actions take the same slot, but
share it with each other. Syncs and updates of one listing take turns on its lock; the
seller's edits take none and rely on naming the revision they replace. A sale goes
webhook, inbox, socket, `_process`, `record_sale`, `announce_sales`, and only then is
acknowledged.

## Modules

| Module | Models | Built on |
|---|---|---|
| `ChromeSlot` | abstract: a slot taken by one use alone, or shared by direct actions on different marketplaces | |
| `SendQueue` | the jobs table and everybody who writes a job's status | implements `ChromeSlot` (`SlotSpec`) |
| `SendDrafts` | what those sends do to the drafts at Vendoo | every step is a `SendQueue` step or one of the draft's own |
| `SaleStream` | inbox, sockets, relay client, recording, announcing | |
| `DraftTurns` | abstract: a draft is written in turns, by the seller or by one task | |
| `DraftTasks` | the hosted draft queue | implements `DraftTurns` (`TurnsSpec`) |
| `AccountTokens` | sign-in, token refresh, disconnect, the relay's sessions and links | |
| `NativeListings` | List, Update, Save Draft, their records, and Chrome's or an API's operations | |
| `VendooSync` | a listing and its Vendoo draft, edited on both sides | |
| `*Proofs` | theorems about the module they are named for | |
| `MC*` | instances for TLC, and the properties that comments state and the code does not keep | |

### SendQueue

`status`, `step`, `err`, `conv`, `edits`, `retried`, `bound` are columns and events of
the `jobs` and `conversations` rows and survive a crash. `live` is
`_live_api_job_ids`. `worker[j]` is the coroutine on a job: `spawned` (a task of
`run_send` that has not begun), `run_send`, `request` (a direct send, inside the
request) or `native`.

*What is one step.* Handlers, workers and reconnects run on one asyncio loop, so a
stretch without an `await` is one step. `_next_dispatch` and `fail_stalled_jobs` run
in threads (`disp`, `wd`): picking or reading is one step, the write another, and
whatever was read stays as read, because SQLAlchemy hands back the object it has and
`update_status` looks at that object's status. The synchronous end of a worker is cut
at its commits (`tail`), where a thread can come between; while it runs, the loop
does nothing else (`LoopFree`).

*Actions.* `EnqueueSend`, `SendNow`, `StartNative`, `CancelJob`, `CancelLeftoverJobs`
(an app update), `GetQueue` (whose poll kicks) are requests. `NextDispatchPick`,
`NextDispatchClaim`, `SpawnRunSend` are the dispatcher. `RunSend`, `Mark`,
`SendFails`, `RequestCloses`, `SendCompletes` and the end `Abandon`, `Release`,
`RequeueAfterExit`, `RunSendExcept` are a send. `FinishNative` ends a direct action
and settles others. `ReadRunning`, `FailStalled`, `ResumeDead`, `SweepEnds` are the
watchdog. `AfterPairing`, `ReconnectWorkAfterSettle`, `MarkDisconnected` are Chrome.
`Crash` and `CrashMidRequeue` (between the two commits of a requeue) lose memory.

`FinishedIsFinal` names the two steps that change a finished job: the dispatcher
claims a job it read before the seller's cancel, and the watchdog fails one it read
before it completed. Both write from a stale object; nothing else does.

### SendDrafts

`work[j]` is where `create_item` is and its local variables, `ckpt` the last
checkpoint event, `sent` the creates Chrome has been given and has not carried out,
`drafts` what Vendoo has, `binding` the name in a listing's notes. Chrome carries out
a create at any time, or never, whoever still waits. The item's content is left out.
`doubled` is history: listings that had two sends under way at once. A reconnect can
fail a send whose worker still goes on; the seller sends the listing again, the first
worker's end queues its own send once more, and when the second has completed its
checkpoint no longer counts: there are two drafts then. `OneDraftEach` exempts such
listings, and the run stops there (the state constraint `OneSendAtATime`).

### SaleStream

An Inbox is a Durable Object: a method runs alone up to its first `await`, so a
webhook's insert and sends are one step, and so are an acknowledgement, its delete and
the next page. `down` and `up` are the two directions of the socket. On a drop the
messages to Studio are lost, and any subset of its acknowledgements stays under way
(`late`). `page`, `through`, `open`, `fresh` are `_process` and `handle_event`:
Studio can be cut off between any two commits. `missed` and `dropped` are history: what
Studio failed at (with the rest of that message: a later acknowledgement on the open
stream passes over it), and what was let go because detection was off or 30 days were
over.

### DraftTasks

The database is PostgreSQL at READ COMMITTED, so a transaction that only waits at its
start is one action, and one that reads before it waits, or holds a row while it waits
for another, is split there. A claim whose first UPDATE waits for an expired task's row
(`ClaimWaits`, `ClaimResumes`) carries the snapshot it took (`sweep`) over to its
second. A worker's write takes the task's row (`TakeRow`, `check_write_lease`), then
the draft's (`CommitWrite`); a stop takes them in the other order (`StopReads`,
`StopCancels`), so PostgreSQL may abort either (`DeadlockWrite`, `DeadlockStop`).
`now()` is the start of a transaction (`fresh`), so a lease may run out while one that
checked it goes on. `log` is the draft as who wrote each edition, `base` the edition a
task's payload was made from. A viewer's poll reads status and rows one after the
other. `stranded` is history: drafts whose label the second UPDATE left at
"in_progress" because its snapshot was older than the end of the task it swept.

### AccountTokens

The marketplace is Etsy, whose refresh token works once. A sign-in has its session and
its callback at the relay (`session`, `code`, `whose`, `link`) and a coroutine here
(`waiter`). A call of `access_token` is `idle`, `waiting` for its loop's lock, `sent`,
`answered` or `refused`; `was` is the record it read, before the lock and again under
it. `LoopOf` says which event loop a caller runs on: `_refresh_lock` keeps one lock per
loop. History: `lost` (grants with an answer that never came), `gone` (grants that were
disconnected or replaced), `cut` (accounts unlinked by others, or by a disconnect that
was cut short or met a sign-in to the same account).

### NativeListings

A marketplace has a record (`rec`), the job it names, the operation it last asked for
(`asked`), and run_job's place (`worker`, `steps`). In Chrome an operation has been
sent, holds the marketplace (`running`, `mine`: it is the record's own), has come to
some `stage`, and is journaled (`note`). An API's execute is the same without a journal
of its own. What an operation does to the marketplace is an action apart from its
answer (`Act`, `Done`), so that whatever cuts the two apart is possible: Chrome stops
the service worker (`Dies`), the socket closes, Studio crashes, a wait is over
(`GivesUp`). What is live there, and which revision it shows, is external. `early` is
history: the seller reset a record while Chrome was still at the operation.

After a refused Update the record names the revision that was refused
(`live_revisions`, `repositories/marketplace_listings.py:80`), which the marketplace
never had. Nothing in the repository promises otherwise in words, so it is a hazard
with a note and not a run.

### VendooSync

A listing is what each of its two parts was last set by (the general form and the
marketplaces' forms, which an update writes in two requests): an edit here, one in
Vendoo, or nothing. `item` is the draft in Vendoo with its stamp and version. Syncs,
updates and discards run on one loop; edits are saved by threads and can fall between
two commits of the loop (`loop` is such a stretch, `race` the edits in it). A write
Chrome was asked for stays possible after the request was given up (`ops`). Two small
liberties: an update is not started while a reset waits for jobs, and a sync holds the
lock while it learns a form's schema after its answer, which writes nothing here.

## Runs

| Run | Question | Instance | Distinct states |
|---|---|---|---|
| `slot` | Is Chrome held by one job at a time, is no send run twice, who touches a finished job, and is the jobs table a `ChromeSlot`? | 2 jobs, 2 listings (one has a draft already), 2 symmetric marketplaces, every event | 4.7 M |
| `progress` | Is a send put back at most once, plus once per torn requeue? Does every holder give up the slot, and every queued send leave the queue? | 2 jobs, 2 listings, drops, crashes, 1 torn requeue | 1.4 M |
| `drafts` | Does a listing get one draft, is it found again, does a listing only name a draft that exists? | 2 jobs, 1 listing, 2 names, 1 torn requeue | 2.6 M |
| `sales` | Is nothing lost that Studio did not fail at, and nothing announced twice? | 3 events, 2 notifications of one order and one that is no sale, all faults | |
| `sales_progress` | Does a backlog drain? | pages of 1, 3 events, drops | |
| `tasks` | Has a draft one writer at a time, does it come back to the seller, does a viewer who was told [DONE] have all, and is the queue `DraftTurns`? | 2 symmetric machines, 1 draft, 2 tasks, 2 writes, 1 event, pages of 1, stalls and a database that is away | 3.8 M |
| `tasks_live` | Does every task end? | 1 machine that stalls and crashes once, 2 tasks | |
| `accounts` | Is no refresh token spent twice, does no connection that was given up come back, is a connected account linked, does every call end? | 2 sign-ins to 1 account, 2 callers on one loop, 2 refreshes per grant, all faults | 344 k |
| `native` | Is nothing listed twice, does no record hide a live listing, does every job end? | 3 kinds of marketplace one at a time, 2 jobs, 2 revisions, 1 crash, 1 stop of Chrome's worker | 1.1 M |
| `sync` | Is no edit on either side lost, does a conflict stand, does level mean level, does every turn end? | 1 edit here, 1 in Vendoo, 1 update, 1 of discard, preview, reset, restart | 306 k |
| `backlog_lost`, `two_loops` | violated: see Findings | | |

*Why the bounds are enough.* Two jobs are enough for the slot's properties, which speak
of pairs; what a third job would add, an older one in the queue, only delays a pick,
and the proofs cover every number. Two marketplaces are needed for direct actions that
share. Resuming concerns one job and the events about it; the second is there to take
the slot in between. For `sales`, three events let one be in hand, one on the wire and
one new; one event names two lines so that it can be cut between them, and two name the
same line so that it can be recorded twice. `sales_progress` needs more rows than fit
a page, so pages are one row there. `tasks` needs a worker that has lost its lease and
one that takes over, a task and its successor, and a page that is full; a machine that
crashes is, to safety, one that stalls for good, and the proofs have crashes. For
`accounts`, two sign-ins make one replace the other, and two callers meet at the lock.
Marketplaces do not affect each other in `NativeListings` (the slot is `SendQueue`'s),
so each kind is tried alone: through Chrome with drafts, through Chrome without, and an
API; two jobs are one that is cut off and one that lists again. One of each in `sync`
already gives every pair of an edit here and one there around an update that may be
given up; its invariants and action properties were also checked with two of each kind
in turn, and are theorems for every number.

`CHECK_DEADLOCK` is off in all: a server with nothing to do and no more events within
the bound may rest. Every property has a mutant in `PROJECT.json`: a definition changed
the way a slip in that code would change it, for which TLC finds the property violated.

*Exceptions written into properties.* They are states the code can reach, and they are
kept as narrow as the history variables allow: `OneDraftEach` (`doubled`),
`UnrecordedOnlyMissed` (`missed`, `dropped`), `FinishedIsFinal` (two stale writers),
`IdleIsEditable` (`stranded`), `ConnectedIsLinked` (`cut`, and a disconnect under way),
`StaysSignedIn` (`lost`), `OneLive` and `RestsWhenNothingIsLive` (`early`),
`ListedIsLive` (`ended`), `Level` (`slipped`: Vendoo changed between an update's last
write and its reading back, or by a write that was given up, or under a Discard, which
takes no lock), `EditKept` (the first sync of a draft, and an edit saved between a
pull's decision and its save).

## Fairness

Weak fairness goes to what the program does by itself, strong fairness to what waits in
a queue that is served in order but can be passed meanwhile. Requests, edits, drops,
crashes and answers of other systems are nobody's duty.

* `SendQueue.FairSpec`: threads finish, the loop runs its callbacks (`SpawnRunSend`, the
  ends of workers), Chrome ops and model calls have deadlines (`SendFails \/
  SendCompletes`, `NativeWorker`), the watchdog's timer sweeps and a job that is silent
  long enough is read as such (`ReadRunning(j, 1)`), the settle delay ends. Progress is
  claimed if Chrome stays paired from some point on, since a send needs it.
* `SaleStream.SFairSpec`: the client reconnects for ever, the relay answers, the loop
  handles. The inbox is claimed to drain if a connection lasts.
* `DraftTasks.DFairSpec`: machines poll, transactions end, leases run out, a machine that
  stopped is started. A claim and a finish have strong fairness because PostgreSQL
  queues who waits for a row.
* `AccountTokens.AFairSpec`: strong for a call, whose lock is first come, first served.
* `NativeListings.NFairSpec`: run_job's step, each wait of which has a limit, and an
  operation's step in Chrome or an API's request.
* `VendooSync.SFairSpec`: the loop's own stretches; strong for the end of a sync and an
  update's reads and writes (deadlines of requests to Chrome that other steps can
  interrupt) and for taking the lock, which asyncio hands on in order.

## What is proved

TLAPS, for every value of the constants under the named assumptions of each module
(`Jobs`, listings, marketplaces, machines, accounts, edits: any number; the bounds are
natural numbers).

* `SendQueueProofs`: `Invariance`, `TypeCorrect`, `SlotExclusion`, `NoSendRunsTwice`, `OneWorkerPerJob`,
  `TerminalStays`, `Refinement`, `ResumedAtMostOnce`. `mark` writes "dispatched" without looking at the slot,
  so exclusion is inductive only with the knowledge that nobody's worker has a queued
  job. `IInv` adds: who has a worker is not queued and not in the dispatcher's or an
  ending's hands (`WorkerInv`); what the dispatcher holds is not dispatched (picked) or
  not queued (claimed) (`DispatchInv`); a send queued while its old worker's end still
  runs has been resumed before, so that end cannot queue it again (`EndingInv`); and
  what the watchdog read is either resumed already or still not queued (`WatchInv`).
  One lemma per action, one step per part of `IInv` it can disturb. `Refinement`: each
  step takes the abstract slot when there is room, gives it back, or leaves it.
  `ResumesInv`: a job's resumes are counted by the event in its history, but for those a
  crash tore off from it.

* `SendDraftsProofs`: `DraftsRunTheQueue`, that the composition's steps are the queue's or
  leave it alone, so the queue's theorems hold of it; `DraftsTyped`, `BindingsHold`,
  `OneDraftForEach`, `DraftsRecoverable`. `DInv` says that all sends of a listing share
  one name for its draft (`OneName`), which a send that has none yet is about to find as
  the newest checkpoint (`WillUse`) and which every draft, made or on its way, has
  (`Named`). Both rest on the listing having one send under way at a time
  (`OneAtATime`; else it is in `doubled`), and on a send that would make a draft never
  finding a completed one (`NoneCompleted`), for which the queue's invariant is used:
  who completed has no worker and is not given out again. That there is a newest
  checkpoint is the lemma `Greatest`, from the well-founded order of finite sets.

* `SaleStreamProofs`: `SaleTyping`; `ToldOnce` under all faults, which needs only that what is told of or
  about to be is recorded; `NoSaleLost`, as long as the inbox fits one page. While
  connected, every event that is not settled is in hand or on the wire (`AheadInv`) and
  none is behind a newer one (`OrderInv`); so every acknowledgement, in flight, late or
  about to be sent, covers settled events only (`AckInv`), and deleting up to it loses
  nothing. The page condition is used in `Connect`, whose first message must hold the
  whole backlog; `backlog_lost` shows what happens without it.

* `DraftTasksProofs`: `TasksTyped`, `TasksWriteAlone`, `IdleDraftsEditable`, `ViewerHasAll`,
  `TasksTakeTurns`. `OwnDraft` speaks of the past; what is inductive is that a task
  somebody works on runs, and that the editions since the one it was given are its own
  (`WritesOwn`), which holds because two active tasks are never on one draft
  (`OneActive`) and who has a task's row keeps it running (`LockedRuns`).

* `AccountTokensProofs`: `AccountsTyped`, `GivenUpForGood`, `ConnectedAccountsLinked`, `NeverSignedOut`. `AInd`
  orders a sign-in's steps at the relay and here (`Told`), says that what was stored or
  let go came of a sign-in that is over (`Over`), so nothing stores it again, and that
  the account of one still waited for is linked (`SignInLinked`). `NeverSignedOut`
  assumes `OneLoop`, that all callers share an event loop: then who is at the relay
  holds the one lock (`Locked`), has the token that works (`HasToken`), and the record
  has it too or is about to (`RecordCurrent`). `two_loops` shows what happens without.

* `NativeListingsProofs`: `ListingsTyped`, `ListedOnce`, `RestsUnlisted`, `PublishedIsLive`. `NInd` is about each
  marketplace by itself: what operation, journal and job know of each other
  (`Ordered`); where the record says that the item is listed or may come to say so, it
  was (`Truthful`); and where something is live, no step that posts is to come and no
  record rests, while an operation that may still post keeps its record at "publishing"
  or "unknown" (`Once`). One lemma carries an answer to the record and the job
  (`ApplyFacts`), and each action is shown to leave other marketplaces alone (`Same`).

* `VendooSyncProofs`: `OneAtATime`, the types and who holds the listing's lock; `NothingUnread`, that an
  update never writes over what was not read. `Versions`: whoever knows the draft's
  version (a preview, an update of what a preview showed, a write under way) knows what
  is in it, and the second write of an update follows only on its first.

* `VendooLevelProofs`: `LevelHolds`, `EditsKept`, `ConflictsStand`. `LInv` relates what
  the two sides know of each other. A reading that is still to be used may be old; with
  the draft's stamp it differs from the draft only by what a write of the forms put
  there (`Reads`), and a sync's and a Discard's readings are ordered by their stamps
  (`TwoReads`). What the listing has of Vendoo's edits was pulled (`Listings`), what an
  update writes was in the listing or in the draft already (`Writes`), so a field that
  Vendoo lost does not come back, and the stamp and the print tell what is known
  (`Marks`, also of the marks a reset is to put back). `LevelInv` is `Level` for the
  revision the marks are about, and for a reading a sync has yet to answer. Lemmas say
  once who touches the draft, the marks and an update's writes, and each part of `LInv`
  is carried over by those.

The last proof found a property that held on every instance tried and was wrong:
`ConflictStands` had not counted what an update was level with as known to Studio. With
two edits on each side and two updates, one update is level with Vendoo's edit of a field
that is empty here; a conflict about the other field and a failed update that writes that
field back then leave the draft as it was, and the check that finds so clears the
conflict. The listing was level with all that is there, so the code is right; `known`
now says so. The same proof let `Level` be stated of every moment, where it was stated of
quiet ones.

Only model-checked: liveness, which is out of the prover's reach (`SlotIsFreed`,
`QueuedSendStarts`, `Drained`, `TaskEnds`, `CallEnds`, `JobEnds`, `TurnsEnd`). Every
invariant, safety action property and refinement that a run checks is a theorem.

## Findings

1. `backlog_lost`. A live event overtakes the unsent pages of a backlog on the same
   socket; its acknowledgement deletes them. `inbox.js` says "Events wait here until
   Studio acknowledges them".
2. `two_loops`. `_refresh_lock` says "One refresh per marketplace at a time", but keys
   its locks by event loop, and `agent_categories._run` refreshes on a loop of its own:
   two refreshes are under way with one token that works once.

`PROJECT.json` has the lines.

## Not modelled

* Deleting a listing with its tasks and history; removing a device with its inbox.
* Delist and promotion jobs beyond the slot they take; schedules and conditions of
  automations; sales found by looking at pages in Chrome, which are recorded by the same
  `record_sale` under other keys than the relay's.
* eBay's action journal, app updates and backups: each is small, mostly sequential, and
  comes next if the models are extended, in that order. Usage limits are percentages
  read from the AI providers and shown.
* The fields of listings, categories, encodings, photos and what language models write:
  data that the properties above do not tell apart, without steps of their own. They
  are most of the repository's lines.
* The pages the extension drives and the marketplaces behind them: external, modelled
  by what the code reads of them.
* The interface, the iPhone app, the command line and the MCP server: views and clients
  of the routes.

Worth doing next: the schedules and runs of `Automations` with a restart between them; a
composition of `NativeListings` with `SendQueue` in which the slot's jobs are these jobs;
automatic delisting as a reader of `SaleStream`'s announcements.
