# Verification of ctyun-manager

ctyun-manager administers many accounts of the CTyun cloud from one place.  The
repository holds two servers for the same web page and the same SQLite file: the
original one in Python (`app/`, FastAPI) and the one that replaces it, in Go
(`internal/`, `cmd/`), with a small Node worker (`worker/`) that drives a browser
for what the provider's API does not offer.  This directory models what those
programs do when several things happen at once, when calls fail, and when the
process stops; TLC checks the models on small instances and TLAPS proves the main
results for every instance.

## 1. The system

| part | state | operations | hard behaviour |
|---|---|---|---|
| Action jobs (Go): `runAction`, `backgroundActionJobsOnce` | table `resource_action_jobs`; the job being worked on | create, lease, confirm, complete, retry, give up, delete with the account | action accepted and job not written; lists read before the action or without an existing resource; crash or lost write between lease and outcome; deletion underneath |
| Account guard and loops (Go): `runSync`, `backgroundSyncOnce`, `periodic` | map `s.syncing` under `syncMu` | claim, release, skip | three kinds of workers on one account |
| Resource synchronisation (Go): `Syncer`, `ReplaceResources`, `RecordRegionSync` | tables `resources`, `resource_sync_regions` | replace a region's rows, mark them stale, record the attempt | a region of several fails; two transactions per region; context ends in between; the account is deleted meanwhile |
| Region scan (Go): `Client.ListAllDetailed` | per region: pages, problems, skips, incomplete | page, path and variant loops over a pool of eight goroutines | pages shift while they are read; one variant fails and another succeeds; page limit; an answer without a total |
| Action calls (Python; Go: `action.go`, `console.go`): `CtyunOpenApiClient.action`, `change_console_ecs_private_ip` | none; the console's lock and jobs | try ids, look a server up by name, try alternatives, create and revoke rules, poll a console job | an alternative tried after the first one was accepted; a search that does not see every server; a roll-back that fails; a job that outlives its request |
| Accounts and secrets (Go and Python) | table `ctyun_accounts` | create, read-modify-write update, cookie and id updates, delete | the update writes back a cookie that was renewed meanwhile |
| Action confirmation (Python): `run_action`, `best_effort_post_action_sync` | thread-pool queue (memory only), per-type locks, write lock | queue, synchronise, verify, record | verification of rows that were not synchronised; loss at restart; confirmed private address overwritten |
| Finance, keepalive and prewarm loops (Python) | queues with pending sets | enqueue once, work, persist | result persisted for an account whose login changed |
| Option cache and stock (Python) | memory and table `option_cache`, the console's stock per region, sold-out flavors | get, load, read stock, set, clear | a load that ends after the clear; lives that are added up; two requests for one region |
| RustDesk builds (Python) | `rustdesk_jobs` in memory and SQLite, a checkout per build, the user's repository | queue, run, patch, push, finish, restore | eviction of a running job; restart; two pushes to one branch; a push whose answer is lost; an edit that finds nothing in a newer release |
| Recharge and payment (Python, Go, Node) | browser sessions, payments per account, QR expiry | order, activate, poll, close | two requests on one page; QR refreshed while its status is polled |
| Browser sessions (Python) | sessions per account and their locks | open, use, idle clean-up, reset | clean-up races use |
| SSH and L2TP (Go and Python) | rows of hosts; on the host: user list, credentials, map | upload, run a script; the host's watcher | the row read before and written after minutes of SSH; runs of the script that overlap, fail or are killed |
| Upgrade script (`upgrade-go-docker.sh`) | service, containers, release link | back up, stop, start, verify, roll back | failure at any step |
| Web page, extension, iKuai, API comparison, configuration | none of their own | | request and response only |

How they interact: HTTP handlers call the provider and the store directly; the job
loop, the background loop and `runSync` all run `Syncer.Sync` and meet only in
`s.syncing` and in SQLite, which the Go server opens with a single connection
(`storage.go:190-204`), so every statement or transaction is atomic and they are
totally ordered.  The browser worker is called over HTTP and writes nothing
itself: its answers come back to `persistBrowserResult`.

What makes each part correct: an action counts as done only on what the provider's
lists have shown since; a job is decided once and in the end; an account is
synchronised by one worker at a time; a failed listing never removes rows; what
is deleted stays deleted; a secret that was replaced is never written back; a
payment status belongs to the payment it is shown for; a failed upgrade leaves
the old service running.

The hazards this code is exposed to, each at its line and with the properties that
watch it, are listed in `PROJECT.json` ("hazards"); those without a property say why.

## 2. The modules

| module | models | extends / instances |
|---|---|---|
| `ActionJobs` | durable confirmation of cloud actions (Go), with the synchronisations that run beside it | |
| `JobLifecycle` | abstract: what a job promises to the operator | instanced by `ActionJobs` (`Lifecycle`) |
| `ActionJobsInv` | the inductive invariant `IInv` of `ActionJobs` | `ActionJobs` |
| `ActionJobs_proofs` | invariance, safety, `FinalForever`; `ActionJobs` implements `JobLifecycle` | `ActionJobsInv` |
| `ResourceSync` | one synchronisation over regions: scan of the lists, commit of the rows (Go) | |
| `PySync` | synchronisation, confirmation of actions and confirmed addresses (Python) | |
| `OperationLock` | the line at the operation lock of an account (Python) | |
| `Sessions` | login, saved cookie, browser session and finance queue of an account (Python), with its inductive invariant | `OperationLock` |
| `Recharge` | recharge of an account: pages, payment in the server's memory, checkout (Python, app.js, qr.js) | `OperationLock` |
| `Browser_proofs` | the theorems about the two that take the operation lock | `Sessions`, `Recharge` |
| `CloudActions` | one action request as a row of provider calls: servers, networks, rules, private addresses (Python) | |
| `ClientBuild` | RustDesk client builds: jobs, patches of the source, push (Python) | |
| `Options` | flavors on offer in a region: cache, table, stock, sold-out reports (Python) | |
| `VpnHosts` | Linux hosts over SSH: user list, the L2TP script and its watcher (Python, shell) | |
| `ResourceSync_proofs`, `PySync_proofs`, `CloudActions_proofs`, `ClientBuild_proofs`, `Options_proofs`, `VpnHosts_proofs` | the theorems about each module, with its inductive invariant `IInv` | the module they are named after |
| `MC*` | the instances that TLC checks: inputs, symmetry, bounds on the initial states | the module of the same name |

Each definition is mapped to its lines in `PROJECT.json` ("map").  Definitions called
`X_Something` next to a definition `X` are mutants: the same definition with a
plausible bug, used to see that a property can fail.

### ActionJobs

State: the tables `ctyun_accounts`, `resources` (one type and region) and
`resource_action_jobs` as `accounts`, `rows`, `jobs`, `due`; the provider's truth as
`cloud`; and in memory the requests, the map `s.syncing`, the progress of every
`Syncer.Sync` (`worker`), the batch of due jobs and the job in hand.

| action | code |
|---|---|
| `ReceiveAction`, `ProviderAccepts`, `ProviderRejects`, `CreateActionJob`, `CreateActionJobFails` | the stages of `runAction`: request, provider call, INSERT, which may fail with the request's context |
| `BecomeDue` | `next_attempt_at` passes, for rows that are `pending` or `retrying` |
| `DueActionJobs`, `SkipJob`, `LeaseJob`, `ConfirmJob`, `RecordOutcome` | one pass of `backgroundActionJobsOnce`; the UPDATEs of lease and outcome may be lost (their errors are ignored) |
| `ReadAccount`, `AccountMissing`, `ListPage`, `ListOmits`, `ListFails`, `WriteRows`, `FinishSync` | one `Syncer.Sync`, for whichever worker runs it; the list is read item by item while the provider changes, and may leave out what exists and still be a success |
| `HandlerSync`, `BackgroundPass`, `BackgroundSync`, `BackgroundSkip` | `runSync` and the background loop, each through `s.syncing` |
| `CreateAccount`, `DeleteAccount`, `ProviderChange`, `Crash` | the rest of the world; a crash loses everything in memory |

SQLite is opened with one connection, so each statement or transaction is one step.
A confirmation is modelled by what it looks for: no row, a row whose status reads as
running or as stopped (the code looks for parts of words, so a status of the model is a
class of texts: "inactive" reads as running, "stopping" as stopped), or a row at all.  The
resource of a creation stands for its name, since the rows are searched by name only.
`since` records, for every accepted action, what its resource has shown since the
acceptance, and `"omitted"` when the job loop's own list left it out; only properties read it.

### ResourceSync

`ListAllDetailed` scans every region with a sequence of queries (paths times
variants), page by page; each answer tells how many pages there are or, without a total,
counts as the only one (`PageArrives`).  Meanwhile `Insert` and `Remove` change the provider's lists and
so shift the pages.  `SyncKind` then commits region by region, each in two
transactions (rows, then record), and `Abort` ends it anywhere in between.  Types
share no row, so one is enough; `s.syncing` keeps two synchronisations of an account
apart (proved of `ActionJobs` as `Exclusion`), so one at a time is enough.

### PySync

Threads take the lock of a type without waiting; who does not get it goes on with
the rows there are (`SkipType`).  A list is read item by item, may fail as a whole
(`ListFails`) or leave out what exists and still succeed (`ListOmits`: `_list` drops the
errors of single calls once any call has answered), and is committed after the
rows that were confirmed recently have been protected (`Protect`).  After an action,
`QueueTask` gives a task to the pool of `Executors` threads; `RunTask`
synchronises, `VerifyTask` looks at the rows and records a verdict.  The change of a
private address writes its row in two statements (`ReadForConfirmed`,
`ApplyConfirmed`) outside every lock.  A restart loses the queued tasks.

### Sessions

One event loop: a step is what happens between two awaits.  The operation lock of the
account is the sequence `line` of `OperationLock` (asyncio.Lock serves in order): its
head holds the lock.  `Begin` reads the row and joins the line; the steps under the lock are those of
`_get_finance_unlocked`; releasing the lock and storing the result is one step
(`Store`), since no await lies between them.  `UpdateAccount` writes the row
at once and joins the line to close the session (`ResetSession`).  The idle clean-up
chooses a session, joins the line and looks again (`ChooseIdle`, `CleanUp`).
A cookie is represented by the login it authenticates; `mixed` records that the login
changed while an operation was under way.

### Recharge

Pages (the dialog of app.js and the frame of qr.js) send requests; each is a `task` of
the server in a free slot (`Slot` chooses one, since they are alike), from `sent` over `Arrive` (it joins `line`, the operation
lock, as in `Sessions`), the steps of its handler, to `done`, and back to free when the
page takes the answer (`Receive`).  An answer whose dialog or frame is gone is dropped
(`fresh`): the counter `rechargeToken` and the replaced iframe.  Payments are dicts
that the code changes in place and refers to across awaits, so they are a heap
(`object`) with a pointer (`current`, the entry of `_cookie_payments`); a task keeps
what it read (`obj`, `prev`, `since`).

| action | code |
|---|---|
| `CreateOrder`, `Channels` | `create_recharge_order`: order and pay channels; then the payment is on file and the lock is asked for again |
| `Precreate`, `Activate`, `RefreshCode` | `activate_payment_method` and `refresh_payment_qr`: the call for a code and what is done with its answer |
| `GetQr`, `DrawQr` | `get_payment_qr` |
| `AskStatus`, `AnswerStatus` | `check_recharge_payment_status`, without the lock |
| `Close`, `RestartServer` | `close_recharge_session`; the process stops |
| `OpenRecharge` ... `MarkExpired`, `Receive` | the dialog, its buttons, and the frame's loads, polls, refresh and countdown |
| `PayOrder`, `Issue`, `Tick` | the customer, the provider's checkout, time |

Left out: the payment methods (one stands for the three), and the path through a
checkout page in a browser session, which the code takes when no payment is on file;
here it answers that there is none.

### CloudActions

What follows the answer of the provider is in `PySync`; this is what comes before it.
`Needs` lists what each action of each type must be given; `Receive` refuses the
others.  Most actions are `CallOnce`.  The provider's side is small: the servers that
exist (`live`), their names, the rules of a group, the address of a port, open jobs.
Every call may be refused, answered, answered with an error although it took effect, or
time out.

| action | code |
|---|---|
| `TryInstance`, `ScanItem`, `ScanMisses`, `ScanEnds`, `ScanFails`, `CallResolved` | `_call_ecs_instance_action`: the ids of the row, then the search through a list that may pass a server over (`ScanMisses`: page 20 is the last one read, an answer without a total is the only one, pages move, items lack an id), by name at last |
| `NoInterface`, `ChangeNetwork` | the alternatives of a change of network; the port gets another address |
| `CreateRule`, `RevokeOld`, `RollBack`, `RevokeFirst`, `CreateAgain` | `update_rule` with its roll-back and its way for duplicates |
| `TakeLock`, `FindPort`, `NoPort`, `Submit`, `SubmitFails`, `Poll`, `PollFails` | `change_console_ecs_private_ip` under the operation lock |
| `RunJob`, `ServerGoes`, `Stop` | the console's job, which nobody cancels; a server disappears; the process stops |

### ClientBuild

One repository, for which all jobs compete.  `jobs` is the dictionary, `rows` and
`recent` the table, `at` the place of each request and thread; a change of the
dictionary and its save are two steps, and a save may fail.  The thread's steps are
those of `customize_rustdesk`: checks, tag, fetch, submodules, `Customize`, clone,
copy, stage, `Push`.  The source tree is a record of what the patches
(`WriteServers`, `GateJobs`, ...) leave in it, so that the property of a success can speak of
what was pushed.  A form carries what the release of its version is like: `version` says
whether the patches that must match do, `lost` which of the other edits find nothing and
leave their file as it was.  `Restart` restores the newest rows.

### Options

`account_options` for the flavors of a region.  A request (`load[l].at`) and its task
(`load[l].task`) run on the event loop; a step is what happens between two awaits.
`Ask` and `WriteBack` look into memory and table (`WriteBack` is the second half of
`option_cache_get`, which another thread may cut from the first); `Look`, `TakeRegion`,
`ReadCookie`, `OpenSession`, `ReadBrowser`, `ReadPage` are the reading of the stock;
`StockArrives`, `StockTimesOut`, `OpenApiArrives` and the others decide what is offered;
`Store` and `Persist` keep it.  `RefusePrice`, `ClearMemory` and `ClearTable` are the
thread of a refused price.  Entries carry their age and the life they have left.

### VpnHosts

One host of `linux_servers`.  A request arrives (`Begin`), works over SSH in a thread, and
is answered; between the steps anything may happen.  The row is left out: what is kept of
a host key is the same for most keys (section 3), so `EnsureFingerprint` refuses or not.
Putting the list in place (`install -m 600`) is one step.  `file`, `chap`
and `map` are users.conf, the credentials line by line and users.tsv.  `run` holds the
runs of the script, one per request and one of the watcher, whose steps interleave:
`ParseUsers`, `ReadChap` (sed into a temporary file), `ReplaceChap`, `AppendChap`,
`WriteMap`.  `torn` remembers that a run cut into the lines another was appending;
`since` the lists users.conf has held since a save put its own there.

| action | code |
|---|---|
| `Begin`, `Upload`, `EnsureFingerprint` | the handlers of main.py up to the command, `ensure_linux_fingerprint` |
| `SaveOnly`, `SaveAndApply`, `ApplyOrInstall`, `CommandFails`, `CommandExits`, `Deadline` | the commands of the handlers and `run_ssh_command` |
| `WatcherStarts` | the systemd path unit |
| `RunDies` | failures of the host |

## 3. What the runs check

States are distinct states found by TLC with two workers.

| run | bounds | checks | shows |
|---|---|---|---|
| `jobs` (537k) | 1 account, 1 resource, 1 job of a creation, start or deletion, 1 sync request beside both loops, 2 attempts, 1 restart or lost write | `IInv`, `ConfirmedByEvidence`, `AttemptsBounded`, `SyncExclusive`, `PromiseKept`, `FinalForever`, `JobsSettle` | a job completes only on what was shown after its acceptance and for good, attempts are counted, an account is never synchronised twice at once, every job is decided, `JobLifecycle` is implemented, and the invariant of the proofs holds |
| `sync` (2.40M) | 2 regions, 3 items, 2 queries, pages of 1, page limit 2, 1 goroutine, 2 synchronisations, 1 change, symmetric | `SteadyItemsKept`, `FailedKeepsRows`, `RecordsAgree` | what was listed throughout has a row after a success, unless a list shrank or it lay behind an answer without a total; a failed region loses no row; freshness and records agree |
| `py_sync` (1.10M) | 1 server, 1 action, 2 other threads, 1 pool thread, 1 restart | `OwnSyncIsEvidence`, `ConfirmedIpShown` | a task's success rests on lists made since the acceptance; a confirmed address survives every list while it is protected |
| `sessions` (207k) | 2 queue workers, 1 other refresh, 2 logins, 2 changes | `IInv`, `SessionInUseStays`, `RefreshedOnce`, `CurrentLogin`, `RefreshEnds` | no session is closed under its user; an account is refreshed by one worker and leaves the pending set; a change of the login leaves nothing of the old one, unless an operation was under way |
| `recharge_pages` (1.5M) | 2 pages, 2 requests at a time, 2 orders, 2 codes, 1 lost call or restart, symmetric | `GoneStaysGone`, `PaidIsPaid`, `CodeFits` | an order that was closed or replaced never comes back; a paid status names a paid order; code and picture belong to the order on file |
| `recharge_time` (360k) | 1 page, 2 requests at a time, 1 order, 2 codes valid for 1 tick, 2 ticks, 1 fault | `RefreshHonest`, `RequestsEnd`, `PaidSeen` | a refreshed code is not reported valid for too long; every request ends; a payment is seen by the page that watches it |
| `cloud_actions` (1.44M) | 2 requests, 2 servers that may have one name and of which one row may have lost its id, 2 alternatives, 2 polls, an action of each family, symmetric | `TypeOK`, `TargetOnly`, `RuleReplaced`, `RuleKept`, `ConfirmedHolds` | an action hits the server of its row, or a namesake where that is gone or was passed over; a change of a rule leaves the new one for the old, and never neither; a confirmed address is the port's until a change of network |
| `client_build` (362k) | 2 jobs for one repository, 3 forms (plain, for sources the patches do not know, and with every option for a release in which edits find nothing), 1 kept, 3 targets, 1 failed save, 1 restart | `TypeOK`, `SuccessHonest`, `OperationsAgree`, `HistoryKept`, `BuildsEnd` | a success is on the branch with its settings and every edit its release has a place for; a push takes nothing away; rows and operations agree; listed jobs end |
| `options` (854k) | 1 account, 1 flavor, both lists, 2 requests, lives of 1 and 2 units, 1 database error, symmetric | `TypeOK`, `SoldOutWithdrawn`, `OfferAge`, `AsksOnce` | what is known as sold out is not offered from the cache; nothing is offered past the lives of a stock and a list; a known stock is not asked for |
| `vpn_hosts` (731k) | 2 requests, 2 lists and a refused one, the watcher, 2 faults (failed calls or killed runs), up to the first torn write, symmetric | `Healed`, `SaveApplied` | an undisturbed run repairs what earlier ones left; a save reported as applied was applied |

The type invariants of `ResourceSync`, `PySync`, `Recharge` and `VpnHosts` are proved
(section 5); no run is spent on them.

Why the bounds are enough.  Jobs interfere only through their account's rows, the
guard and the batch: one job meets every other worker in `jobs`; the proofs of section
5 are for any number of jobs and accounts, so TLC need not follow two.  Two attempts let
the first fail and the second decide, the fault lets a crash or lost write hit either.  One item
per page and a limit of two pages give complete, truncated and shifted lists with three
items; two regions are the least where one fails and another does not.  `sync` starts
with the same lists in both regions, two items at most for the second query (`MCSpec`), and follows the second synchronisation for
lists of one item only (`SecondIsShort`): what it adds is the state the first one left
behind, which does not depend on long lists.  Two queue workers can race for
one entry, and two changes of the login bring the first one back, the case in which an
old cookie could look current.  A hazard of `Recharge` takes one request that waits for a
call and one that overtakes it, and an order with its successor: two slots, two orders.
Whoever refreshes a code needs it expired and time passing during the call: two ticks.
Two servers with one name are what a search by name can mix up, and two requests what can
overlap; a search is made for a row that has lost its id, and one such row is enough (`MCInit`); of the alternatives of a change of network only the first and a later one differ.
With one job kept, the second evicts the first in any state of it.  The lives of lists and
stocks keep their order (a list of available flavors lives shortest); one request fetches or
loads while the other one does.  Of hosts, two requests and the watcher give three runs of the
script at a time; `vpn_hosts` stops where a run has cut into another's lines (`NotTorn`), since
from there on `Healed` promises nothing.

`CHECK_DEADLOCK FALSE` is set where the model really may stop: every account deleted
and every request over, or every bounded synchronisation used up.

### Violations: where the code and its texts disagree

Each of these runs checks one sentence of the repository and ends in a
counterexample.

| run | property | the sentence | what happens |
|---|---|---|---|
| `sync_variants` | `ErrorsKeepRows` | README.md:196, timeouts never delete old records | one variant of a list times out, another answers: the region counts as read, the rows of the first are deleted |
| `recharge_mixed` | `AmountOfCode` | app.js:8433, the payment data of the created order is loaded | the server has one payment per account: the page of one order shows the code of another order under its own amount |

Further disagreements were met.  No run checks them; properties whose premises
exclude them say so:

- README.md:198 says that jobs are persisted and go on although the browser closes.  The
  job is inserted after the provider's answer with the request's context
  (ctyun_handlers.go:95); if that ends first, the accepted action has no job.
- PROJECT_CONTEXT.md:165 says that a confirmation is the official list showing the resource
  gone, or its status running or off.  A list that counts as a success may lack a resource
  that exists: a variant's error is dropped (client.go:335-340), an answer without a total
  is the only page read (client.go:451-477), pages shift.  Its row goes, and a deletion is
  completed (background.go:245-247) although the provider still has the resource.  A
  synchronisation loses in the same way what lies behind an answer without a total
  (`SteadyItemsKept` exempts it).  The statuses are looked for by parts of words
  (background.go:260-262): "inactive" confirms a start, "stopping" a stop.
- API_REFERENCE.md:65 says that a creation records the ids there were before, so that an old
  resource is not taken for the new one.  Any fresh row of the name confirms it
  (background.go:279-290), and without a name in the payload any fresh row of its type and
  region, recorded as "the target resource has appeared".
- A synchronisation that read the account before its deletion writes its rows after
  it (sync.go:207), although the page says that the cached resources go (app.js:4240).
- A Python task verifies the rows although its synchronisation was skipped or failed
  (main.py:575) and records that the official list shows the effect (main.py:1004).  After a
  list that left the server out, which `_list` returns without an error once any call was
  answered (ctyun_client.py:632-657), a deletion is recorded as a success (main.py:965-967);
  a start is confirmed by "inactive", too (main.py:1003).
- A payment made as the code expires is not seen by the page, which stops asking
  (qr.js:266); a page that watches another page's order reports its success.

- `apply_confirmed_ecs_private_ip` (main.py:651-690) writes back a payload it read
  earlier, also over a newer list; `OwnSyncIsEvidence` exempts servers whose address
  is being changed.
- An operation that read the account before its login changed stores its cookie
  (main.py:1929) after `update_account` cleared it (main.py:3104): the refresh that
  follows trusts it and shows the old account's balance.  `CurrentLogin` holds
  when no operation was under way (`~mixed`).

- A creation without a name orders a server called "ecs-price-preview"
  (ctyun_client.py:1101), so the check for a name (ctyun_client.py:1246) never refuses.
- An action whose row has lost the server's id may hit another server of the same name: the
  search reads 20 pages at most (ctyun_client.py:983), one page when the answer has no total
  (398-408), and then takes a single match of the name (1030).  Page and name come from
  the request and the cached row, which may be old.
- A change of network gives the port another address (ctyun_client.py:1357-1374); one
  confirmed before goes on being shown and protected.  An address that the port has as a
  secondary one already confirms a change to it at once (browser_automation.py:1372-1383,
  1532).  `ConfirmedHolds` exempts both.
- The release of a server that is gone may act on another one of the same name; a change of
  a rule whose creation is refused as a duplicate revokes the old rule first and may lose
  it, and so may two equal changes at a time.  `TargetOnly`, `RuleReplaced` and
  `RuleKept` exclude these.
- A call that times out raises `TimeoutError`, which no handler of `CtyunClientError`
  catches: the request ends with status 500 and no operation is recorded.
- A save of a build's row that fails leaves the job queued or running until a restart, or
  turns a pushed success into a failure; an evicted job's build ends as a failed operation
  although it was pushed (main.py:2355).
- README.md:233 and API_REFERENCE.md:149 say that the platform passes the chosen clients to
  the build's workflow.  In a release that has renamed a job, an input's place or a file, the
  edit leaves the text as it was, without an error (rustdesk_customizer.py:510-577, 643-709):
  the job says success, and its workflow builds clients nobody chose, or cannot publish.
  `SuccessHonest` says what a success means then.
- The stock lives a day and the list made of it an hour: a list of "available" flavors may
  be 25 hours old.  An empty reading counts as ready for a day.  A list that is loaded or
  fetched while a flavor is reported sold out keeps offering it, and so does one whose
  DELETE is refused (main.py:482).  `get_console_resource_stock` is defined twice; the
  first definition (browser_automation.py:1571) is dead.
- A save with apply starts the script twice, by its command and by the watcher.  Two runs
  that append at a time can leave credentials outside the markers, where no later run
  removes them.  The installation asks for 900 seconds and `run_ssh_command` grants 300
  (ssh_manager.py:90): a long one is reported as failed and goes on.  A run that read an
  older list may write its map after a newer one was applied.
- PROJECT_CONTEXT.md:68 says that a host key that has changed blocks the operation.  Of the key
  its type and 18 characters are kept (ssh_manager.py:39-46), for the usual types the constant
  beginning, so most new keys pass, and so does an empty answer (main.py:1298-1299); a
  command runs before its key is compared, and the row it is compared with was read minutes
  before.

## 4. Fairness

Safety never depends on fairness.  For `JobsSettle`: `BecomeDue` is weakly fair
because time passes; `SyncStep` because every provider call runs under a context with
a deadline (3 and 15 minutes); `LoopStep` because the ticker fires every three seconds
and the loop has no other wait.  Other synchronisations could hold the account whenever
the loop looks, so `JobsSettle` assumes `OthersPause`: they end for good some day.  Weak
fairness of the loop cannot replace that: `SkipJob` is a step of it.  For
`RefreshEnds`: every await of a finance operation has a timeout, the event loop runs
what is ready, and the lock serves in order, so weak fairness of each operation's
steps, of the reset and of the clean-up is enough; no fairness is assumed of handlers,
of new refreshes, or of changes of the login.  For `RequestsEnd` and `PaidSeen`: every
call has a timeout and the lock serves in order, so each request advances (weak
fairness per slot); the frame polls on a timer, and `PollStatus` is strongly fair since a
slot may be taken in between.  Calls fail at most `MaxFaults` times, without which a
status could stay unknown for ever; nobody has to pay, close or refresh, and time need
not pass.  For `BuildsEnd`: a thread runs and each of its commands has a timeout, so weak
fairness of each thread.  `CloudActions`, `Options` and `VpnHosts` state no liveness and
assume no fairness.

## 5. What is proved

Every invariant and action property that a run checks is a theorem, for every value of
the constants, and so are the type invariants and one refinement.  Each module has one
inductive invariant (`IInv`; `PaymentInv` and `PageInv` in `Recharge`), three facts
about it (it holds initially, every step keeps it, it implies the property), and a
lemma per action.  The assumptions are named, in the module that declares the constants,
and TLC evaluates them on every run: bounds, limits and lives are numbers, positive
where the code's are; sets of names that stand for different things are disjoint; `None`
and `Nothing` are not data; the forms of `ClientBuild` are forms (`FormAssumption`).
None excludes an initial state or an input of the code.

**ActionJobs** (`ActionJobs_proofs`).  `Exclusion` (`SyncExclusive`), `Evidenced`
(`ConfirmedByEvidence`), `BoundedAttempts` (`AttemptsBounded`) and the action property
`FinalStays` (`FinalForever`).  `ConfirmedByEvidence` is not inductive: that a verdict is
right follows from where it came from.  `IInv` therefore follows the evidence through the
loop (`EvidenceInv`): what the loop's worker has listed was shown since the acceptance, or
left out by that very list, hence so are the rows it wrote, hence so is the verdict it draws.
So a deletion may be completed on `"omitted"`, never on another worker's list.  That the rows are still
those the worker wrote is `SyncExclusive`, which needs `GuardInv` (who is busy has its
account in `s.syncing`); that the job in hand is the one of the account needs `JobInv`.
`AttemptInv` counts: an open job that is not in hand can still be leased once, which
bounds attempts by `MaxAttempts` plus lost writes.
`Promise`: `Spec` implements `JobLifecycle` when no action is a creation without a name
(for those it does not: see section 3).  The mapping reads `jobs`, `request` and `since`;
steps that leave them alone stutter, the others are one abstract step each.

**ResourceSync** (`ResourceSync_proofs`).  `SteadyKept` (`SteadyItemsKept`), `FailedKeeps`
(`FailedKeepsRows`), `RecordsMatch` (`RecordsAgree`).  For the first, `Reads` says of each
region that is under way where an item that is listed all the time is: among the items
read, or behind the last page read (`Ahead`), which survives every insertion because an
item only moves to a later place; a removal puts the region among the `shrunk` ones, and an
answer without a total takes what is behind it out of what counts as steady.
`Commits` and `Keeps` follow rows through the commits: only the region that is being
written takes rows away, so rows of a region that is written already, or that failed,
stay (`Safe`).

**PySync** (`PySync_proofs`).  `SuccessIsEvidence` (`OwnSyncIsEvidence`) and
`PromisedIsShown` (`ConfirmedIpShown`).  `Proves`: what a task's own synchronisation has
listed, or left out, is younger than the acceptance of its action; once it ended well, the rows are,
and so is every list that may still replace them: while it held the lock of the type,
no other worker was listing.  `Promise`: a commit that may
still write over a confirmed address has read that it is confirmed.

**Sessions** (`Browser_proofs`).  `SessionProtected` (`SessionInUseStays`), `LoginCurrent`
(`CurrentLogin`) and `OneRefresh` (`RefreshedOnce`).  `LockInv` says that whoever works
under the lock is the head of the line and that an operation is in the line once; so the
reset and the clean-up, when they hold the lock, meet no operation at work.  `LoginInv`
carries the change of the login: without an overlap, every operation in the line stands
behind every reset, so who opens a session does it after the old one was closed.
`QueueInv` names the one entry or worker that the pending set stands for.

**Recharge** (`Browser_proofs`).  `GoneKept` (`GoneStaysGone`), `PaidKnown` (`PaidIsPaid`),
`CodeOnFile` (`CodeFits`), `RefreshKept` (`RefreshHonest`), all from `PaymentInv`.
The payments are changed in place by requests that keep a reference over an await, so what is
on file is right only together with what is under way.  `PayLine`: who is between two
calls (`Working`) holds the lock, hence there is one.  `Underway`: the payment it will write
back is the one on file, and an order that is not on file yet was never gone and has no
code.  `Brings`: a code under way was issued for that payment's order.  `Honest`, for
runs without a lost call: the code on file is the newest of its order, or the one a call is
bringing is (`Newest`), hence a code that a refresh takes for new was issued after the
refresh began (`Since`), and the end of its validity counts from there (`Capped`).
With a lost call `Newest` fails, and so does the conclusion (the comment at `RefreshHonest`).
`AnswersFindTheirPage` is the invariance of `PageInv`: an answer that is still awaited
(`fresh`) finds the dialog or the frame that asked, which is what the code's counters and
replaced frames are for; with it `PaymentTypes` (`PaymentTypeOK`), whose bound on the line
is a pigeonhole argument over the slots.

**CloudActions** (`CloudActions_proofs`).  `OnTarget` (`TargetOnly`), `ReplacesRule`
(`RuleReplaced`), `KeepsARule` (`RuleKept`), `ConfirmedIsShown` (`ConfirmedHolds`).
`Target`: what a look-up has found is the row's own server or, if that is gone or the list
read passed it over, one of its name.  `Group` and `Kept` say at each stage of `update_rule` which
rules the group has (a change that nothing overlapped sees in `left` the group as it is:
`RuleInv`).  `AddressInv`: the lock is with the request that works in the console, and a job that has
not run belongs to a change that still waits for it or was given up.

**ClientBuild** (`ClientBuild_proofs`).  `SuccessIsHonest` (`SuccessHonest`),
`OperationsMatch` (`OperationsAgree`), `HistoryIsKept` (`HistoryKept`).  `Known` and
`Stored` list what the dictionary and the row may say of a job at each place of its thread;
`Honest`: from the last patch to the push the tree serves the form (`CustomizedServes`: the
settings always, each silent edit where the release has a place), afterwards the branch does, and no push takes that away.  That the dictionary holds `Keep` jobs at most after
every eviction and restore is a counting argument over the order of the rows (`NewestCount`).

**Options** (`Options_proofs`).  `SoldOutGoes` (`SoldOutWithdrawn`), `OffersAreYoung`
(`OfferAge`), `AsksOnceHolds` (`AsksOnce`).  `StockAge` and `EntryAge` bound age plus what is
left to live, for what is cached and for every copy a request has in hand, so that lives
that are added up stay below `StockTTL + TTL`.  `Clean` and `Withdrawn` follow a report of a
sold-out flavor through memory and table; what is written late carries its mark.

**VpnHosts** (`VpnHosts_proofs`).  `HealedHolds` (`Healed`), `AppliedIsApplied`
(`SaveApplied`).  `Blocks`: unless a run cut into another's lines,
every line of the credentials is in a block, so the next run takes all of them out; with
`Sole` a run that had the host to itself knows at each step what it has written.  `Saves`:
what the run of a save has read is one of the lists that users.conf has held since.

Only model-checked: the liveness properties (`JobsSettle`, `RefreshEnds`, `RequestsEnd`,
`PaidSeen`, `BuildsEnd`), since liveness under fairness and ENABLED are out of the provers'
reach, and the two violations, which are counterexamples.  No module has a RECURSIVE operator.

## 6. Not modelled

- Data that no property distinguishes: payloads, names, messages, prices, formats.
- Signing, encryption and password hashing; HTML and rendering.
- The Go counterparts of what the Python modules model (action calls, SSH hosts, builds).
- Disk types, the lists of single accounts and the prewarm loop beside `Options`; the
  cookie keepalive queue beside `Sessions`; the path through a checkout page beside
  `Recharge`; files, address scans and network settings beside `VpnHosts`.
- The iKuai client: one login and one call per request.
- The Node worker, the upgrade script, and the web page beside its recharge dialog
  (section 7).  `PROJECT.json` lists each part with its state and reason.

## 7. Plan

In this order; each module is written to be proved about as well (constants with
assumptions, one action per operation, no RECURSIVE operator).

1. Proofs: an abstract specification of the account's payment (none, an order, its code,
   paid) that `Recharge` implements, and one of a build (asked for, on the branch or not,
   recorded) for `ClientBuild`, in the way `JobLifecycle` is for `ActionJobs`; what is
   bounded between the properties, such as the number of requests that wait for one
   region's stock in `Options`.
2. `BrowserWorker`: sessions and payments in the Node worker, whose requests share a page
   without a lock, and what Go stores of its answers (`persistBrowserResult`,
   `UpdateAccount`, `UpsertFinance`), to be compared with `Sessions`.
3. `Upgrade`: back-up, cut-over, verification and roll-back of the upgrade script,
   each step may fail; abstract: old service or new service, never none.
4. `ConsoleLogin`: the steps of a login with its codes and challenges.
5. `Page` (app.js): views, polling timers, answers that arrive late.
6. Extensions: a second region of lists in `PySync`, a scope that changes in
   `ResourceSync`, deletion of accounts in `Sessions` and `PySync`, the prewarm loop in
   `Options`.
