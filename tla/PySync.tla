------------------------------- MODULE PySync -------------------------------
(***************************************************************************)
(* Synchronisation and confirmation of actions in the Python server        *)
(* (app/main.py).                                                          *)
(*                                                                         *)
(* Threads synchronise a resource type of an account: handlers, the        *)
(* background loop and the tasks that follow an action.  The type's lock   *)
(* is taken without waiting: who does not get it goes on with the rows     *)
(* there are.  After an action was accepted, a task of a thread pool       *)
(* synchronises the type and looks for the effect in the rows.  A change   *)
(* of a private address is written into the row at once and protected      *)
(* for fifteen minutes from the lists of the provider, which lag behind.   *)
(*                                                                         *)
(* A server's status stands for the words that verify_post_action_result   *)
(* takes for it: "running" for every word with running, active (inactive   *)
(* too) or started in it.  A list that counts as a success may leave       *)
(* servers out that exist (ListOmits).                                     *)
(*                                                                         *)
(* One account and the type of the actions, "ecs", are modelled.  The      *)
(* account's lock and resource_db_write_lock are left out: within a type   *)
(* its own lock already serialises whoever takes them, and the change of   *)
(* an address takes none of the three.                                     *)
(***************************************************************************)
EXTENDS Naturals, FiniteSets

CONSTANTS
  Res,          \* the account's cloud servers
  Thread,       \* handlers and loops that may synchronise at the same time
  Task,         \* one id per action request and the task it queues
  Verb,         \* actions the requests ask for
  Ip,           \* addresses a server is listed with, "new" the confirmed one
  Executors,    \* threads of post_action_sync_executor (4 in the code)
  MaxRestarts,  \* bound of the model on restarts
  None          \* nobody, nothing listed yet

Status == {"absent", "running", "stopped"}

ASSUME VerbAssumption == Verb \subseteq {"start", "stop", "delete", "change_private_ip"}
ASSUME IpAssumption == "old" \in Ip
ASSUME ExecutorsAssumption == Executors \in Nat \ {0}
ASSUME MaxRestartsAssumption == MaxRestarts \in Nat
ASSUME NoneAssumption == None \notin Thread \cup Task \cup Res
ASSUME DisjointAssumption == Thread \cap Task = {}

Worker == Thread \cup Task

VARIABLES
  cloud,     \* [Res -> what the provider's list shows]
  rows,      \* [Res -> payload of the row in table resources]     (SQLite)
  typeLock,  \* holder of the type's lock in resource_sync_locks   (memory)
  sync,      \* [Worker -> progress of its sync_resource_type]     (memory)
  task,      \* [Task -> request and post-action task]             (memory)
  restarts,  \* restarts so far
  since,     \* history: [Task -> statuses since its acceptance, "omitted" if a
             \* list left the server out]
  promised   \* history: resources whose confirmed address must be shown

vars == <<cloud, rows, typeLock, sync, task, restarts, since, promised>>

Listing == [status : Status, ip : Ip]
Payload == [status : Status, ip : Ip \cup {"new"}, confirmed : BOOLEAN]

Absent == [status |-> "absent", ip |-> "old"]
NoRow  == [status |-> "absent", ip |-> "old", confirmed |-> FALSE]

NoList == [r \in Res |-> None]
NoRows == [r \in Res |-> NoRow]

Idle == [pc |-> "idle", list |-> NoList, existing |-> NoRows, result |-> "none"]

NoTask == [pc |-> "idle", res |-> None, verb |-> None, copy |-> NoRow, verdict |-> "none"]

Init ==
  /\ cloud \in [Res -> {l \in Listing : l.status = "absent" => l = Absent}]
  /\ rows = NoRows
  /\ typeLock = None
  /\ sync = [w \in Worker |-> Idle]
  /\ task = [t \in Task |-> NoTask]
  /\ restarts = 0
  /\ since = [t \in Task |-> {}]
  /\ promised = {}

-----------------------------------------------------------------------------
(* The provider *)

\* A server of the provider changes; its listed address follows a change that the
\* console confirmed, sooner or later.
ProviderChange(r, l) ==
  /\ l # cloud[r]
  /\ l.status = "absent" => l = Absent
  /\ cloud' = [cloud EXCEPT ![r] = l]
  /\ since' = [t \in Task |-> IF since[t] # {} /\ task[t].res = r
                              THEN since[t] \cup {l.status} ELSE since[t]]
  /\ UNCHANGED <<rows, typeLock, sync, task, restarts, promised>>

-----------------------------------------------------------------------------
(* sync_resource_type *)

\* A handler or the background loop synchronises the type.
StartSync(h) ==
  /\ sync[h].pc = "idle"
  /\ sync' = [sync EXCEPT ![h] = [Idle EXCEPT !.pc = "start"]]
  /\ UNCHANGED <<cloud, rows, typeLock, task, restarts, since, promised>>

TakeTypeLock(w) ==
  /\ sync[w].pc = "start"
  /\ typeLock = None
  /\ typeLock' = w
  /\ sync' = [sync EXCEPT ![w].pc = "list"]
  /\ UNCHANGED <<cloud, rows, task, restarts, since, promised>>

\* CtyunClientSkipped: the rows that are there are used.
SkipType(w) ==
  /\ sync[w].pc = "start"
  /\ typeLock # None
  /\ sync' = [sync EXCEPT ![w].pc = "end", ![w].result = "skipped"]
  /\ UNCHANGED <<cloud, rows, typeLock, task, restarts, since, promised>>

\* A part of the list arrives; parts are read at different times.
ListItem(w, r) ==
  /\ sync[w].pc = "list"
  /\ sync[w].list[r] = None
  /\ sync' = [sync EXCEPT ![w].list[r] = cloud[r]]
  /\ UNCHANGED <<cloud, rows, typeLock, task, restarts, since, promised>>

\* The list leaves out a server that exists, and still is a success, because another
\* call was answered: the call of its page, variant, path or region failed, its answer
\* told no total and one page of it was read, or no items were found in its form.
ListOmits(w, r) ==
  /\ sync[w].pc = "list"
  /\ sync[w].list[r] = None
  /\ cloud[r] # Absent
  /\ sync' = [sync EXCEPT ![w].list[r] = Absent]
  /\ since' = [t \in Task |->
                 IF /\ task[t].res = r /\ task[t].pc = "running"
                    /\ w = t \/ sync[t].pc = "end"
                 THEN since[t] \cup {"omitted"} ELSE since[t]]
  /\ UNCHANGED <<cloud, rows, typeLock, task, restarts, promised>>

\* No call was answered, an error of another kind (a time-out while an answer is read)
\* ended the list whatever had been answered, or the transaction failed.
ListFails(w) ==
  /\ sync[w].pc \in {"list", "write"}
  /\ typeLock' = None
  /\ sync' = [sync EXCEPT ![w] = [Idle EXCEPT !.pc = "end", !.result = "failed"]]
  /\ UNCHANGED <<cloud, rows, task, restarts, since, promised>>

\* The payloads of the rows are read, outside of the transaction that follows.
ReadExisting(w) ==
  /\ sync[w].pc = "list"
  /\ \A r \in Res : sync[w].list[r] # None
  /\ sync' = [sync EXCEPT ![w].pc = "write", ![w].existing = rows]
  /\ UNCHANGED <<cloud, rows, typeLock, task, restarts, since, promised>>

\* Mutant: the protection is dropped once the list shows the new address.
Protect_Once(l, e) ==
  [status |-> l.status, confirmed |-> e.confirmed /\ l.ip = "old",
   ip |-> IF e.confirmed THEN "new" ELSE l.ip]

\* protect_recent_confirmed_ecs_private_ip: the confirmed address replaces the
\* listed one, and stays confirmed until its time is over.
Protect(l, e) ==
  [status |-> l.status, confirmed |-> e.confirmed,
   ip |-> IF e.confirmed THEN "new" ELSE l.ip]

\* One transaction deletes the rows and inserts the listed ones.
CommitRows(w) ==
  LET s == sync[w]
      listed == {r \in Res : s.list[r].status # "absent"}
  IN /\ s.pc = "write"
     /\ rows' = [r \in Res |-> IF r \in listed THEN Protect(s.list[r], s.existing[r])
                               ELSE NoRow]
     /\ promised' = promised \cap listed
     /\ typeLock' = None
     /\ sync' = [sync EXCEPT ![w] = [Idle EXCEPT !.pc = "end", !.result = "ok"]]
     /\ UNCHANGED <<cloud, task, restarts, since>>

EndSync(h) ==
  /\ sync[h].pc = "end"
  /\ sync' = [sync EXCEPT ![h] = Idle]
  /\ UNCHANGED <<cloud, rows, typeLock, task, restarts, since, promised>>

-----------------------------------------------------------------------------
(* run_action *)

ReceiveAction(t, r, verb) ==
  /\ task[t].pc = "idle"
  /\ task' = [task EXCEPT ![t] = [NoTask EXCEPT !.pc = "called", !.res = r, !.verb = verb]]
  /\ UNCHANGED <<cloud, rows, typeLock, sync, restarts, since, promised>>

ProviderRejects(t) ==
  /\ task[t].pc = "called"
  /\ task' = [task EXCEPT ![t].pc = "done"]
  /\ UNCHANGED <<cloud, rows, typeLock, sync, restarts, since, promised>>

\* The provider accepts the action.  A change of address is confirmed by the
\* console and applied to the row first.
ProviderAccepts(t) ==
  /\ task[t].pc = "called"
  /\ task' = [task EXCEPT ![t].pc = IF task[t].verb = "change_private_ip" THEN "apply"
                                    ELSE "accepted"]
  /\ since' = [since EXCEPT ![t] = {cloud[task[t].res].status}]
  /\ UNCHANGED <<cloud, rows, typeLock, sync, restarts, promised>>

HasRow(r) == rows[r].status # "absent"

\* apply_confirmed_ecs_private_ip reads the row ...
ReadForConfirmed(t) ==
  /\ task[t].pc = "apply"
  /\ task' = IF HasRow(task[t].res)
             THEN [task EXCEPT ![t].pc = "update", ![t].copy = rows[task[t].res]]
             ELSE [task EXCEPT ![t].pc = "accepted"]
  /\ UNCHANGED <<cloud, rows, typeLock, sync, restarts, since, promised>>

\* ... and writes its payload back with the confirmed address: an UPDATE by id, of
\* a row that may have changed or gone since.
ApplyConfirmed(t) ==
  LET r == task[t].res IN
  /\ task[t].pc = "update"
  /\ rows' = IF HasRow(r)
             THEN [rows EXCEPT ![r] = [task[t].copy EXCEPT !.ip = "new", !.confirmed = TRUE]]
             ELSE rows
  /\ promised' = IF HasRow(r) /\ \A w \in Worker : sync[w].pc # "write"
                 THEN promised \cup {r} ELSE promised \ {r}
  /\ task' = [task EXCEPT ![t].pc = "accepted", ![t].copy = NoRow]
  /\ UNCHANGED <<cloud, typeLock, sync, restarts, since>>

\* The fifteen minutes of a confirmed address are over, in every copy of it.
ProtectionEnds(r) ==
  /\ rows[r].confirmed \/ \E w \in Worker : sync[w].existing[r].confirmed
  /\ rows' = [rows EXCEPT ![r].confirmed = FALSE]
  /\ sync' = [w \in Worker |-> [sync[w] EXCEPT !.existing[r].confirmed = FALSE]]
  /\ promised' = promised \ {r}
  /\ UNCHANGED <<cloud, typeLock, task, restarts, since>>

-----------------------------------------------------------------------------
(* queue_post_action_sync and best_effort_post_action_sync *)

QueueTask(t) ==
  /\ task[t].pc = "accepted"
  /\ task' = [task EXCEPT ![t].pc = "queued"]
  /\ UNCHANGED <<cloud, rows, typeLock, sync, restarts, since, promised>>

\* Mutant: the synchronisation may start while the provider is still asked.
RunTask_Early(t) ==
  /\ task[t].pc \in {"called", "queued"}
  /\ task' = [task EXCEPT ![t].pc = IF @ = "queued" THEN "running" ELSE @]
  /\ sync' = [sync EXCEPT ![t] = IF @.pc = "idle" THEN [Idle EXCEPT !.pc = "start"] ELSE @]
  /\ UNCHANGED <<cloud, rows, typeLock, restarts, since, promised>>

RunTask(t) ==
  /\ task[t].pc = "queued"
  /\ Cardinality({u \in Task : task[u].pc = "running"}) < Executors
  /\ task' = [task EXCEPT ![t].pc = "running"]
  /\ sync' = [sync EXCEPT ![t] = [Idle EXCEPT !.pc = "start"]]
  /\ UNCHANGED <<cloud, rows, typeLock, restarts, since, promised>>

\* verify_post_action_result: what the row must show.
Shown(t) ==
  LET row  == rows[task[t].res]
      verb == task[t].verb
  IN /\ verb = "delete" => row.status = "absent"
     /\ verb = "start"  => row.status = "running"
     /\ verb = "stop"   => row.status = "stopped"
     /\ verb # "delete" => HasRow(task[t].res)

\* The rows are looked at whether the synchronisation succeeded or not, and what
\* they show is recorded as the result.
VerifyTask(t) ==
  /\ task[t].pc = "running"
  /\ sync[t].pc = "end"
  /\ task' = [task EXCEPT ![t].pc = "done",
                          ![t].verdict = IF Shown(t) THEN "success" ELSE "unconfirmed"]
  /\ UNCHANGED <<cloud, rows, typeLock, sync, restarts, since, promised>>

\* The process stops; the queue and the threads are gone.
Restart ==
  /\ restarts < MaxRestarts
  /\ restarts' = restarts + 1
  /\ typeLock' = None
  /\ sync' = [w \in Worker |-> IF w \in Task /\ task[w].pc = "done" THEN sync[w] ELSE Idle]
  /\ task' = [t \in Task |-> IF task[t].pc = "idle" THEN task[t]
                             ELSE [task[t] EXCEPT !.pc = "done", !.copy = NoRow]]
  /\ UNCHANGED <<cloud, rows, since, promised>>

-----------------------------------------------------------------------------
SyncStep(w) ==
  \/ TakeTypeLock(w) \/ SkipType(w)
  \/ \E r \in Res : ListItem(w, r) \/ ListOmits(w, r)
  \/ ListFails(w) \/ ReadExisting(w) \/ CommitRows(w)

ActionStep(t) ==
  \/ \E r \in Res, verb \in Verb : ReceiveAction(t, r, verb)
  \/ ProviderRejects(t) \/ ProviderAccepts(t)
  \/ ReadForConfirmed(t) \/ ApplyConfirmed(t)
  \/ QueueTask(t) \/ RunTask(t) \/ VerifyTask(t)

Next ==
  \/ \E r \in Res, l \in Listing : ProviderChange(r, l)
  \/ \E r \in Res : ProtectionEnds(r)
  \/ \E h \in Thread : StartSync(h) \/ EndSync(h)
  \/ \E w \in Worker : SyncStep(w)
  \/ \E t \in Task : ActionStep(t)
  \/ Restart

Spec == Init /\ [][Next]_vars

-----------------------------------------------------------------------------
(* Properties *)

SyncRecord == [pc : {"idle", "start", "list", "write", "end"},
               list : [Res -> Listing \cup {None}], existing : [Res -> Payload],
               result : {"none", "ok", "skipped", "failed"}]
TaskRecord == [pc : {"idle", "called", "apply", "update", "accepted", "queued",
                     "running", "done"},
               res : Res \cup {None}, verb : Verb \cup {None}, copy : Payload,
               verdict : {"none", "success", "unconfirmed"}]

TypeOK ==
  /\ cloud \in [Res -> Listing]
  /\ rows \in [Res -> Payload]
  /\ typeLock \in Worker \cup {None}
  /\ sync \in [Worker -> SyncRecord]
  /\ task \in [Task -> TaskRecord]
  /\ restarts \in 0..MaxRestarts
  /\ since \in [Task -> SUBSET (Status \cup {"omitted"})]
  /\ promised \subseteq Res

\* An address the console confirmed is shown until its protection ends, whatever
\* the lists say and however often they are committed, as long as they list the
\* server and no commit was under way when the address was applied.
ConfirmedIpShown ==
  \A r \in promised : rows[r].ip = "new"

Evidence(verb) ==
  {status \in Status \cup {"omitted"} :
     /\ verb = "delete" => status \in {"absent", "omitted"}
     /\ verb = "start"  => status = "running"
     /\ verb = "stop"   => status = "stopped"}

\* A task records success only if the provider showed the effect since the action was
\* accepted, or, for a deletion, if the task's own list or one after it left the server
\* out.  What was listed before, completely or not, does not decide.  After an own
\* synchronisation that was skipped or failed it may record more, and on a server whose
\* address changes apply_confirmed_ecs_private_ip writes back a payload it read before,
\* an old status with it, also over a list that is newer.
OwnSyncIsEvidence ==
  \A t \in Task :
    (/\ task[t].verdict = "success"
     /\ sync[t].result = "ok"
     /\ \A u \in Task : task[u].res = task[t].res => task[u].verb # "change_private_ip")
      => since[t] \cap Evidence(task[t].verb) # {}
=============================================================================
