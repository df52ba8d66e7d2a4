----------------------------- MODULE ActionJobs -----------------------------
(***************************************************************************)
(* Durable confirmation of cloud actions in the Go server                  *)
(* (internal/httpserver, internal/ctyun, internal/storage).                *)
(*                                                                         *)
(* A request for a cloud action is accepted by the provider first and only *)
(* then written down as a job in SQLite (resource_action_jobs).  One       *)
(* goroutine, the job loop, polls the due jobs: it synchronises the job's  *)
(* account from the provider's lists, looks for the effect of the action   *)
(* in the synchronised rows and completes the job, reschedules it, or      *)
(* gives it up as unconfirmed.  A background loop and HTTP handlers        *)
(* synchronise the same accounts; the in-memory map s.syncing keeps two    *)
(* synchronisations of one account apart.  Accounts can be deleted at any  *)
(* time and the process can stop at any step: memory is lost, SQLite is    *)
(* kept.                                                                   *)
(*                                                                         *)
(* Data is abstracted to what the confirmation reads: a resource is a      *)
(* member of Res and has one Status, "absent" when it does not exist.  A   *)
(* list that counts as a success may leave existing resources out          *)
(* (ListOmits).  For a creation, the resource stands for its name: it      *)
(* exists when any resource carries the name, as the rows are searched by  *)
(* name only.  Regions and resource types other than the job's own are in  *)
(* module ResourceSync.                                                    *)
(***************************************************************************)
EXTENDS Naturals, FiniteSets

CONSTANTS
  Account,      \* ids of ctyun_accounts, never reused (autoincrement)
  Res,          \* resources an account may own, in the jobs' region and type
  Job,          \* one id per POST .../actions request, a fresh uuid
  Handler,      \* HTTP requests running POST .../sync at the same time
  Action,       \* the kinds of action the requests ask for
  MaxAttempts,  \* the attempt that gives a job up (9 in the code)
  BatchLimit,   \* jobs read per pass of the job loop (50 in the code)
  MaxFaults,    \* bound of the model on restarts and failed writes of the loop
  None          \* no account, no job, a resource not listed yet

\* Statuses as the code tells them apart, by substrings: "reads_running" is any
\* text with "running" or "active" in it ("inactive", too), "reads_stopped" any with
\* "stop", "shut" or "closed" ("stopping", too).  A text with none of them counts as
\* the one that does not confirm the job looking at it.
Status == {"absent", "reads_running", "reads_stopped"}

\* What a job can have been shown of its resource: a status, or a list without it
\* although it exists.
Shown == Status \cup {"omitted"}

AllActions ==
  {"delete", "start", "stop", "modify", "create", "create_unnamed"}

ASSUME MaxAttemptsAssumption == MaxAttempts \in Nat \ {0}
ASSUME BatchLimitAssumption  == BatchLimit \in Nat \ {0}
ASSUME MaxFaultsAssumption   == MaxFaults \in Nat
ASSUME ActionAssumption      == Action \subseteq AllActions
ASSUME NoneAssumption        == None \notin Account \cup Job \cup Status
ASSUME WorkerAssumption      == {"jobs", "background"} \cap Handler = {}

\* Whoever runs Syncer.Sync: the two loops and the HTTP handlers.
Worker == {"jobs", "background"} \cup Handler

VARIABLES
  accounts,  \* [Account -> {"unused", "live", "deleted"}]       (SQLite)
  rows,      \* [Account -> [Res -> row of table resources]]     (SQLite)
  jobs,      \* [Job -> status and attempts of the job's row]    (SQLite)
  due,       \* open jobs whose next_attempt_at has passed         (SQLite)
  cloud,     \* [Account -> [Res -> Status]], the provider's truth
  request,   \* [Job -> the runAction handler that creates the job] (memory)
  syncing,   \* the map s.syncing                                (memory)
  worker,    \* [Worker -> progress of its Syncer.Sync]          (memory)
  batch,     \* jobs the loop's pass has read and not visited yet (memory)
  current,   \* the job the loop works on: its id, attempt, verdict (memory)
  pending,   \* accounts left in the background loop's pass      (memory)
  faults,    \* restarts and failed writes of the job loop so far
  since      \* history: [Job -> what was Shown of its resource since acceptance]

store   == <<accounts, rows, jobs, due>>
memory  == <<request, syncing, worker, batch, current, pending>>
history == <<faults, since>>
vars    == <<store, cloud, memory, history>>

-----------------------------------------------------------------------------
(* The tables *)

NoRow == [status |-> "absent", fresh |-> FALSE]
Row   == [status : Status, fresh : BOOLEAN]

NoJobRow == [status |-> "none", attempts |-> 0]
OpenStatus == {"pending", "retrying"}
FinalStatus == {"completed", "unconfirmed"}

Idle == [pc |-> "idle", account |-> None, list |-> [r \in Res |-> None], ok |-> FALSE]
NoCurrent == [job |-> None, attempt |-> 0, confirmed |-> FALSE]

IsOpen(j) == jobs[j].status \in OpenStatus

\* ReplaceResources: delete the rows of the region and type, insert the listed
\* items, mark the region's rows fresh, in one transaction.
ReplaceResources(list) ==
  [r \in Res |-> IF list[r] = "absent" THEN NoRow
                 ELSE [status |-> list[r], fresh |-> TRUE]]

\* RecordRegionSync of a failed region: its rows stay, marked stale.
MarkStale(table) ==
  [r \in Res |-> [table[r] EXCEPT !.fresh = FALSE]]

\* confirmActionJob: what the rows must show for the job to be confirmed.  A reboot
\* is tested as a start is; bind and unbind test another field for one value.
Confirmed(j) ==
  LET table == rows[request[j].account]
      row   == table[request[j].res]
  IN CASE request[j].action = "delete" -> row.status = "absent"
       [] request[j].action = "start"  -> row.status = "reads_running"
       [] request[j].action = "stop"   -> row.status = "reads_stopped"
       [] request[j].action \in {"modify", "create"} -> row.fresh
       [] OTHER -> \E r \in Res : table[r].fresh

Fault == faults < MaxFaults /\ faults' = faults + 1

\* UpdateActionJob is an UPDATE by id: nothing happens when the row is gone.
UpdateActionJob(j, status, attempts) ==
  jobs' = IF jobs[j].status = "none" THEN jobs
          ELSE [jobs EXCEPT ![j] = [status |-> status, attempts |-> attempts]]

-----------------------------------------------------------------------------
(* Initial state: an empty database next to an arbitrary provider *)

Init ==
  /\ accounts = [a \in Account |-> "unused"]
  /\ rows = [a \in Account |-> [r \in Res |-> NoRow]]
  /\ jobs = [j \in Job |-> NoJobRow]
  /\ due = {}
  /\ cloud \in [Account -> [Res -> Status]]
  /\ request = [j \in Job |-> [pc |-> "idle", account |-> None, res |-> None,
                               action |-> None]]
  /\ syncing = {}
  /\ worker = [w \in Worker |-> Idle]
  /\ batch = {}
  /\ current = NoCurrent
  /\ pending = {}
  /\ faults = 0
  /\ since = [j \in Job |-> {}]

-----------------------------------------------------------------------------
(* Accounts *)

CreateAccount(a) ==
  /\ accounts[a] = "unused"
  /\ accounts' = [accounts EXCEPT ![a] = "live"]
  /\ UNCHANGED <<rows, jobs, due, cloud, memory, history>>

\* Mutant: the jobs of the account are left behind.
DeleteAccount_KeepsJobs(a) ==
  /\ accounts[a] = "live"
  /\ accounts' = [accounts EXCEPT ![a] = "deleted"]
  /\ rows' = [rows EXCEPT ![a] = [r \in Res |-> NoRow]]
  /\ UNCHANGED <<jobs, due, cloud, memory, history>>

\* DeleteAccount: one transaction over accounts, resources and jobs.  Nothing
\* stops a synchronisation or a request that already read the account.
DeleteAccount(a) ==
  /\ accounts[a] = "live"
  /\ accounts' = [accounts EXCEPT ![a] = "deleted"]
  /\ rows' = [rows EXCEPT ![a] = [r \in Res |-> NoRow]]
  /\ jobs' = [j \in Job |-> IF request[j].account = a THEN NoJobRow ELSE jobs[j]]
  /\ due' = {j \in due : request[j].account # a}
  /\ UNCHANGED <<cloud, memory, history>>

-----------------------------------------------------------------------------
(* runAction: ask the provider, then write the job down *)

\* actionAccount finds the account, the body is decoded, the call leaves.
ReceiveAction(j, a, r, act) ==
  /\ request[j].pc = "idle"
  /\ accounts[a] = "live"
  /\ request' = [request EXCEPT ![j] = [pc |-> "called", account |-> a,
                                        res |-> r, action |-> act]]
  /\ UNCHANGED <<store, cloud, syncing, worker, batch, current, pending, history>>

\* The provider accepts the action; its effect, if any, comes later.
ProviderAccepts(j) ==
  /\ request[j].pc = "called"
  /\ request' = [request EXCEPT ![j].pc = "accepted"]
  /\ since' = [since EXCEPT ![j] = {cloud[request[j].account][request[j].res]}]
  /\ UNCHANGED <<store, cloud, syncing, worker, batch, current, pending, faults>>

\* The provider refuses, or the call fails: operation "failed", no job.
ProviderRejects(j) ==
  /\ request[j].pc = "called"
  /\ request' = [request EXCEPT ![j].pc = "done"]
  /\ UNCHANGED <<store, cloud, syncing, worker, batch, current, pending, history>>

\* CreateActionJob: an INSERT, also for an account deleted in the meantime.
CreateActionJob(j) ==
  /\ request[j].pc = "accepted"
  /\ jobs' = [jobs EXCEPT ![j] = [status |-> "pending", attempts |-> 0]]
  /\ request' = [request EXCEPT ![j].pc = "done"]
  /\ UNCHANGED <<accounts, rows, due, cloud, syncing, worker, batch, current,
                 pending, history>>

\* The INSERT fails, for instance because the client went away and cancelled
\* r.Context(); the answer says queued: false and nobody tries again.
CreateActionJobFails(j) ==
  /\ request[j].pc = "accepted"
  /\ request' = [request EXCEPT ![j].pc = "done"]
  /\ UNCHANGED <<store, cloud, syncing, worker, batch, current, pending, history>>

-----------------------------------------------------------------------------
(* The provider and the clock *)

\* A resource of the provider changes, because of an action or of anything else.
ProviderChange(a, r, s) ==
  /\ cloud[a][r] # s
  /\ cloud' = [cloud EXCEPT ![a][r] = s]
  /\ since' = [j \in Job |-> IF since[j] # {} /\ request[j].account = a /\ request[j].res = r
                             THEN since[j] \cup {s} ELSE since[j]]
  /\ UNCHANGED <<store, memory, faults>>

\* Mutants: the query forgets the retrying jobs, or the status altogether.
BecomeDue_PendingOnly(j) ==
  /\ jobs[j].status = "pending"
  /\ j \notin due
  /\ due' = due \cup {j}
  /\ UNCHANGED <<accounts, rows, jobs, cloud, memory, history>>

BecomeDue_AnyStatus(j) ==
  /\ jobs[j].status # "none"
  /\ j \notin due
  /\ due' = due \cup {j}
  /\ UNCHANGED <<accounts, rows, jobs, cloud, memory, history>>

\* next_attempt_at of an open job passes; DueActionJobs will read it.
BecomeDue(j) ==
  /\ IsOpen(j)
  /\ j \notin due
  /\ due' = due \cup {j}
  /\ UNCHANGED <<accounts, rows, jobs, cloud, memory, history>>

-----------------------------------------------------------------------------
(* Syncer.Sync, by whichever worker holds the account's entry of s.syncing *)

\* AccountByID finds the account.
ReadAccount(w) ==
  /\ worker[w].pc = "start"
  /\ accounts[worker[w].account] = "live"
  /\ worker' = [worker EXCEPT ![w].pc = "list"]
  /\ UNCHANGED <<store, cloud, request, syncing, batch, current, pending, history>>

\* AccountByID returns ErrNotFound: Sync returns the error.
AccountMissing(w) ==
  /\ worker[w].pc = "start"
  /\ accounts[worker[w].account] # "live"
  /\ worker' = [worker EXCEPT ![w].pc = "end", ![w].ok = FALSE]
  /\ UNCHANGED <<store, cloud, request, syncing, batch, current, pending, history>>

\* A page of the provider's list with the resource arrives, or the last page has
\* come and it does not exist; pages are read at different times.
ListPage(w, r) ==
  /\ worker[w].pc = "list"
  /\ worker[w].list[r] = None
  /\ worker' = [worker EXCEPT ![w].list[r] = cloud[worker[w].account][r]]
  /\ UNCHANGED <<store, cloud, request, syncing, batch, current, pending, history>>

\* The list leaves out a resource that exists, and still is a success: the request
\* of its variant failed and another one was answered, the answer told no total and
\* only its first page was read, the resource moved to a page read before, or the
\* answer has a form in which no items are found.
ListOmits(w, r) ==
  /\ worker[w].pc = "list"
  /\ worker[w].list[r] = None
  /\ cloud[worker[w].account][r] # "absent"
  /\ worker' = [worker EXCEPT ![w].list[r] = "absent"]
  /\ since' = IF w = "jobs" /\ request[current.job].res = r
              THEN [since EXCEPT ![current.job] = @ \cup {"omitted"}]
              ELSE since
  /\ UNCHANGED <<store, cloud, request, syncing, batch, current, pending, faults>>

\* Listing fails (request error, timeout of the context, missing keys): the
\* region is recorded as failed and its rows become stale, or Sync ends before
\* it can record anything.
ListFails(w, recorded) ==
  /\ worker[w].pc = "list"
  /\ rows' = IF recorded
             THEN [rows EXCEPT ![worker[w].account] = MarkStale(@)]
             ELSE rows
  /\ worker' = [worker EXCEPT ![w].pc = "end", ![w].ok = FALSE]
  /\ UNCHANGED <<accounts, jobs, due, cloud, request, syncing, batch, current,
                 pending, history>>

\* The list, whole or not, replaces the region's rows.  When the RecordRegionSync that
\* follows fails (ok is FALSE), the type counts as failed with its rows replaced.
WriteRows(w, ok) ==
  /\ worker[w].pc = "list"
  /\ \A r \in Res : worker[w].list[r] # None
  /\ rows' = [rows EXCEPT ![worker[w].account] = ReplaceResources(worker[w].list)]
  /\ worker' = [worker EXCEPT ![w].pc = "end", ![w].ok = ok]
  /\ UNCHANGED <<accounts, jobs, due, cloud, request, syncing, batch, current,
                 pending, history>>

\* Mutant: the entry of s.syncing is set without being looked at.
Claim_Unguarded(w, a) ==
  /\ syncing' = syncing \cup {a}
  /\ worker' = [worker EXCEPT ![w] = [Idle EXCEPT !.pc = "start", !.account = a]]

Claim(w, a) ==
  /\ a \notin syncing
  /\ syncing' = syncing \cup {a}
  /\ worker' = [worker EXCEPT ![w] = [Idle EXCEPT !.pc = "start", !.account = a]]

Release(w) ==
  /\ syncing' = syncing \ {worker[w].account}
  /\ worker' = [worker EXCEPT ![w] = Idle]

-----------------------------------------------------------------------------
(* runSync and backgroundSyncOnce *)

\* runSync; when the account is being synchronised it answers 409 and ends.
HandlerSync(h, a) ==
  /\ worker[h].pc = "idle"
  /\ Claim(h, a)
  /\ UNCHANGED <<store, cloud, request, batch, current, pending, history>>

\* A pass of the background loop starts with the accounts of that moment that are
\* enabled (or have no status) and can be read.
BackgroundPass ==
  /\ worker["background"].pc = "idle"
  /\ pending = {}
  /\ pending' \in SUBSET {a \in Account : accounts[a] = "live"} \ {{}}
  /\ UNCHANGED <<store, cloud, request, syncing, worker, batch, current, history>>

BackgroundSync(a) ==
  /\ worker["background"].pc = "idle"
  /\ a \in pending
  /\ pending' = pending \ {a}
  /\ Claim("background", a)
  /\ UNCHANGED <<store, cloud, request, batch, current, history>>

BackgroundSkip(a) ==
  /\ worker["background"].pc = "idle"
  /\ a \in pending \cap syncing
  /\ pending' = pending \ {a}
  /\ UNCHANGED <<store, cloud, request, syncing, worker, batch, current, history>>

FinishSync(w) ==
  /\ w # "jobs"
  /\ worker[w].pc = "end"
  /\ Release(w)
  /\ UNCHANGED <<store, cloud, request, batch, current, pending, history>>

-----------------------------------------------------------------------------
(* backgroundActionJobsOnce *)

LoopBetweenJobs == worker["jobs"].pc = "idle" /\ current.job = None

\* DueActionJobs: BatchLimit of the due jobs.  The code takes the ones that have
\* waited longest; nothing below depends on which ones it takes.
DueActionJobs ==
  /\ LoopBetweenJobs
  /\ batch = {}
  /\ due # {}
  /\ \E S \in SUBSET due :
       /\ \/ S = due /\ Cardinality(due) <= BatchLimit
          \/ Cardinality(S) = BatchLimit
       /\ batch' = S
  /\ UNCHANGED <<store, cloud, request, syncing, worker, current, pending, history>>

\* The account is being synchronised: the job stays due for the next pass.
SkipJob(j) ==
  /\ LoopBetweenJobs
  /\ j \in batch
  /\ request[j].account \in syncing
  /\ batch' = batch \ {j}
  /\ UNCHANGED <<store, cloud, request, syncing, worker, current, pending, history>>

\* Claim the account and lease the job: the attempt is counted before the work
\* and next_attempt_at moves five minutes ahead, beyond the three of the work.
\* The error of the UPDATE is ignored: the work is done on a job not leased.
LeaseJob(j) ==
  /\ LoopBetweenJobs
  /\ j \in batch
  /\ batch' = batch \ {j}
  /\ Claim("jobs", request[j].account)
  /\ current' = [job |-> j, attempt |-> jobs[j].attempts + 1, confirmed |-> FALSE]
  /\ \/ /\ UpdateActionJob(j, "retrying", jobs[j].attempts + 1)
        /\ due' = due \ {j}
        /\ UNCHANGED faults
     \/ Fault /\ UNCHANGED <<jobs, due>>
  /\ UNCHANGED <<accounts, rows, cloud, request, pending, since>>

\* Mutant: the job is looked for in the rows of a failed synchronisation, too.
ConfirmJob_AfterError(read) ==
  /\ worker["jobs"].pc = "end"
  /\ current' = [current EXCEPT !.confirmed = read /\ Confirmed(current.job)]
  /\ Release("jobs")
  /\ UNCHANGED <<store, cloud, request, batch, pending, history>>

\* After Sync: confirmActionJob unless the target type failed (read is FALSE when
\* its query fails or the three minutes are over), then the account is released.
ConfirmJob(read) ==
  /\ worker["jobs"].pc = "end"
  /\ current' = [current EXCEPT !.confirmed =
                   worker["jobs"].ok /\ read /\ Confirmed(current.job)]
  /\ Release("jobs")
  /\ UNCHANGED <<store, cloud, request, batch, pending, history>>

\* Mutants: one attempt too many, one too few.
Outcome_OneMore ==
  IF current.confirmed THEN "completed"
  ELSE IF current.attempt > MaxAttempts THEN "unconfirmed"
  ELSE "retrying"

Outcome_OneLess ==
  IF current.confirmed THEN "completed"
  ELSE IF current.attempt + 1 >= MaxAttempts THEN "unconfirmed"
  ELSE "retrying"

Outcome ==
  IF current.confirmed THEN "completed"
  ELSE IF current.attempt >= MaxAttempts THEN "unconfirmed"
  ELSE "retrying"

\* The outcome is written: completed, unconfirmed at the last attempt, or a
\* retry after a delay.  The error of this UPDATE is ignored, too: the outcome is
\* lost and the lease ends by itself.
RecordOutcome ==
  /\ worker["jobs"].pc = "idle"
  /\ current.job # None
  /\ \/ /\ UpdateActionJob(current.job, Outcome, current.attempt)
        /\ due' = due \ {current.job}
        /\ UNCHANGED faults
     \/ Fault /\ UNCHANGED <<jobs, due>>
  /\ current' = NoCurrent
  /\ UNCHANGED <<accounts, rows, cloud, request, syncing, worker, batch, pending,
                 since>>

-----------------------------------------------------------------------------
(* The process stops, by a crash or by SIGTERM (whose cancelled context makes  *)
(* the last update of a leased job fail), and starts again on the same         *)
(* database.                                                                   *)
Crash ==
  /\ Fault
  /\ request' = [j \in Job |-> IF request[j].pc = "idle" THEN request[j]
                               ELSE [request[j] EXCEPT !.pc = "done"]]
  /\ syncing' = {}
  /\ worker' = [w \in Worker |-> Idle]
  /\ batch' = {}
  /\ current' = NoCurrent
  /\ pending' = {}
  /\ UNCHANGED <<store, cloud, since>>

-----------------------------------------------------------------------------
RequestStep ==
  \E j \in Job :
    \/ \E a \in Account, r \in Res, act \in Action : ReceiveAction(j, a, r, act)
    \/ ProviderAccepts(j) \/ ProviderRejects(j)
    \/ CreateActionJob(j) \/ CreateActionJobFails(j)

SyncStep(w) ==
  \/ ReadAccount(w) \/ AccountMissing(w)
  \/ \E r \in Res : ListPage(w, r) \/ ListOmits(w, r)
  \/ \E recorded \in BOOLEAN : ListFails(w, recorded)
  \/ \E ok \in BOOLEAN : WriteRows(w, ok)
  \/ FinishSync(w)

BackgroundStep ==
  BackgroundPass \/ \E a \in Account : BackgroundSync(a) \/ BackgroundSkip(a)

LoopStep ==
  \/ DueActionJobs
  \/ \E j \in Job : SkipJob(j) \/ LeaseJob(j)
  \/ \E read \in BOOLEAN : ConfirmJob(read)
  \/ RecordOutcome

Next ==
  \/ \E a \in Account : CreateAccount(a) \/ DeleteAccount(a)
  \/ RequestStep
  \/ \E a \in Account, r \in Res, s \in Status : ProviderChange(a, r, s)
  \/ \E j \in Job : BecomeDue(j)
  \/ \E w \in Worker : SyncStep(w)
  \/ \E h \in Handler, a \in Account : HandlerSync(h, a)
  \/ BackgroundStep
  \/ LoopStep
  \/ Crash

\* Time passes, every provider call ends (contexts of 3 and 15 minutes), and the
\* job loop's timer fires every three seconds while the process runs.
Fairness ==
  /\ \A j \in Job : WF_vars(BecomeDue(j))
  /\ \A w \in Worker : WF_vars(SyncStep(w))
  /\ WF_vars(LoopStep)

Spec == Init /\ [][Next]_vars /\ Fairness

-----------------------------------------------------------------------------
(* Properties *)

JobRow        == [status : {"none"} \cup OpenStatus \cup FinalStatus, attempts : Nat]
RequestRecord == [pc : {"idle", "called", "accepted", "done"},
                  account : Account \cup {None}, res : Res \cup {None},
                  action : Action \cup {None}]
WorkerRecord  == [pc : {"idle", "start", "list", "end"}, account : Account \cup {None},
                  list : [Res -> Status \cup {None}], ok : BOOLEAN]
CurrentRecord == [job : Job \cup {None}, attempt : Nat, confirmed : BOOLEAN]

TypeOK ==
  /\ accounts \in [Account -> {"unused", "live", "deleted"}]
  /\ rows \in [Account -> [Res -> Row]]
  /\ jobs \in [Job -> JobRow]
  /\ due \subseteq Job
  /\ cloud \in [Account -> [Res -> Status]]
  /\ request \in [Job -> RequestRecord]
  /\ syncing \subseteq Account
  /\ worker \in [Worker -> WorkerRecord]
  /\ batch \subseteq Job
  /\ current \in CurrentRecord
  /\ pending \subseteq Account
  /\ faults \in 0..MaxFaults
  /\ since \in [Job -> SUBSET Shown]

\* Two synchronisations never work on one account at the same time, whoever
\* started them: the guard s.syncing in runSync and in both loops.
SyncExclusive ==
  \A v, w \in Worker :
    worker[v].pc # "idle" /\ worker[w].pc # "idle" /\ v # w
      => worker[v].account # worker[w].account

\* What must have been shown for an action to count as done.  It is what the rows
\* can tell: a deletion is taken as done also when the list left the resource out.
Evidence(act) ==
  CASE act = "delete" -> {"absent", "omitted"}
    [] act = "start"  -> {"reads_running"}
    [] act = "stop"   -> {"reads_stopped"}
    [] OTHER          -> Status \ {"absent"}

\* A job is completed only on what was shown after the provider accepted its action:
\* the resource really was in a status that reads as the effect, or, for a deletion,
\* it was gone or the list that the job loop made for this very job left it out.
\* Never on a list read before the action, on a list that left the resource out
\* for another worker, on rows another synchronisation wrote, or after a failed
\* listing.  (confirmActionJob and the guard; not so a creation without a name,
\* which any fresh row confirms.)
ConfirmedByEvidence ==
  \A j \in Job :
    jobs[j].status = "completed" /\ request[j].action # "create_unnamed"
      => since[j] \cap Evidence(request[j].action) # {}

\* A job gets at most MaxAttempts attempts, plus one for every restart that cut
\* an attempt short after its lease was written and every outcome that was lost.
AttemptsBounded ==
  \A j \in Job : jobs[j].attempts <= MaxAttempts + faults

\* A completed or unconfirmed job never runs again and is never changed, except
\* by the deletion of its account.
FinalForever ==
  [][\A j \in Job : jobs[j].status \in FinalStatus => jobs'[j] \in {jobs[j], NoJobRow}]_vars

\* Jobs keep the promise of JobLifecycle: completed only on what was shown since
\* acceptance, given up after MaxAttempts tries only, decided once.
Lifecycle == INSTANCE JobLifecycle WITH
  Goal   <- Action,
  Status <- Shown,
  phase  <- [j \in Job |-> IF IsOpen(j) THEN "open" ELSE jobs[j].status],
  tries  <- [j \in Job |-> jobs[j].attempts],
  goal   <- [j \in Job |-> IF request[j].pc = "idle" THEN "?" ELSE request[j].action],
  over   <- {j \in Job : request[j].pc = "done"},
  shown  <- since

PromiseKept == Lifecycle!Spec

\* Other synchronisations do not occupy the accounts for ever.
OthersPause == \A w \in Worker \ {"jobs"} : <>[](worker[w].pc = "idle")

\* Every job that was written down is completed, given up, or deleted with its
\* account, whatever restarts happen on the way.
JobsSettle ==
  OthersPause => \A j \in Job : IsOpen(j) ~> ~IsOpen(j)
=============================================================================
