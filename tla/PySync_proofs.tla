---------------------------- MODULE PySync_proofs ----------------------------
(***************************************************************************)
(* Proofs about PySync, for any number of servers, threads, tasks and      *)
(* restarts: what a task records as a success the provider has shown, and  *)
(* a confirmed private address stays shown.                                *)
(***************************************************************************)
EXTENDS PySync, TLAPS

-----------------------------------------------------------------------------
(* The inductive invariant *)

\* The type's lock is with whoever lists or writes; a synchronisation starts with no
\* list and writes a whole one.
Syncs(w) ==
  /\ sync[w].pc \in {"list", "write"} => typeLock = w
  /\ sync[w].pc = "start" => sync[w].list = NoList
  /\ sync[w].pc = "write" => \A r \in Res : sync[w].list[r] # None

\* A promised address is in the row and in what a commit under way has read of it.
Promise(r) ==
  /\ rows[r].ip = "new" /\ rows[r].confirmed
  /\ \A w \in Worker : sync[w].pc = "write" => sync[w].existing[r].confirmed

\* The provider, or a list that left the server out, showed the status since t's
\* acceptance.
WasShown(t, status) ==
  status \in since[t] \/ (status = "absent" /\ "omitted" \in since[t])

\* What worker w has listed of t's server was listed after t's acceptance.
ListedSince(w, t) ==
  LET r == task[t].res
  IN sync[w].pc \in {"list", "write"} /\ sync[w].list[r] # None
       => WasShown(t, sync[w].list[r].status)

Undisturbed(t) ==
  \A u \in Task : task[u].res = task[t].res => task[u].verb # "change_private_ip"

\* The states of a task and of its own synchronisation go together, and its history
\* holds what the provider lists.
Goes(t) ==
  /\ task[t].pc = "idle" => task[t].res = None
  /\ task[t].pc # "idle" => task[t].res \in Res
  /\ task[t].pc \in {"apply", "update"} => task[t].verb = "change_private_ip"
  /\ task[t].pc \notin {"running", "done"} => sync[t].pc = "idle"
  /\ task[t].pc = "done" => sync[t].pc \in {"idle", "end"}
  /\ task[t].pc # "done" => task[t].verdict = "none"
  /\ since[t] # {} => task[t].res \in Res /\ cloud[task[t].res].status \in since[t]
  /\ task[t].pc \in {"apply", "update", "accepted", "queued", "running"} => since[t] # {}
  /\ task[t].pc \in {"idle", "called"} => since[t] = {}

\* While a task runs, its own list is younger than its acceptance; once that is in the
\* rows, so is every list that may still replace it.
Proves(t) ==
  /\ task[t].pc = "running" => ListedSince(t, t)
  /\ task[t].pc = "running" /\ sync[t].pc = "end" /\ sync[t].result = "ok" /\ Undisturbed(t) =>
       WasShown(t, rows[task[t].res].status) /\ \A w \in Worker : ListedSince(w, t)
  /\ task[t].verdict = "success" /\ sync[t].result = "ok" /\ Undisturbed(t) =>
       since[t] \cap Evidence(task[t].verb) # {}

IInv ==
  /\ TypeOK
  /\ \A w \in Worker : Syncs(w)
  /\ \A r \in promised : Promise(r)
  /\ \A t \in Task : Goes(t) /\ Proves(t)

LEMMA Facts ==
  ASSUME IInv
  PROVE  /\ cloud \in [Res -> Listing] /\ rows \in [Res -> Payload]
         /\ typeLock \in Worker \cup {None} /\ sync \in [Worker -> SyncRecord]
         /\ task \in [Task -> TaskRecord] /\ restarts \in 0..MaxRestarts
         /\ since \in [Task -> SUBSET (Status \cup {"omitted"})] /\ promised \subseteq Res
         /\ Task \subseteq Worker /\ Thread \subseteq Worker /\ None \notin Worker
         /\ \A w \in Worker : Syncs(w)
         /\ \A r \in promised : Promise(r)
         /\ \A t \in Task : Goes(t) /\ Proves(t)
BY NoneAssumption DEF IInv, TypeOK, Worker

LEMMA RecordTypes ==
  /\ Absent \in Listing /\ NoRow \in Payload /\ NoRows \in [Res -> Payload]
  /\ NoList \in [Res -> Listing \cup {None}] /\ Idle \in SyncRecord /\ NoTask \in TaskRecord
  /\ Idle.pc = "idle" /\ Idle.list = NoList /\ Idle.result = "none"
  /\ NoTask.pc = "idle" /\ NoTask.res = None /\ NoTask.verdict = "none"
<1>1. Absent \in Listing /\ NoRow \in Payload
  BY IpAssumption DEF Absent, NoRow, Listing, Payload, Status
<1>2. NoRows \in [Res -> Payload] /\ NoList \in [Res -> Listing \cup {None}]
  BY <1>1 DEF NoRows, NoList
<1> QED
  BY <1>1, <1>2 DEF Idle, NoTask, SyncRecord, TaskRecord

-----------------------------------------------------------------------------
(* Synchronisations *)

\* Worker w's list decides what t records: it is t's own, or follows that.
Decides(w, t) == task[t].pc = "running" /\ (w = t \/ sync[t].pc = "end")

\* A step of one synchronisation that writes no row: what it lists is what the provider
\* lists now, or left out.
LEMMA SyncKept ==
  ASSUME IInv, NEW w \in Worker, NEW x \in SyncRecord, sync' = [sync EXCEPT ![w] = x],
         UNCHANGED <<cloud, rows, task, restarts, promised>>,
         since' \in [Task -> SUBSET (Status \cup {"omitted"})],
         \A t \in Task : since[t] \subseteq since'[t] /\ (since[t] = {} => since'[t] = {}),
         typeLock' \in Worker \cup {None},
         \A v \in Worker \ {w} : typeLock = v => typeLock' = v,
         x.pc \in {"list", "write"} => typeLock' = w,
         x.pc = "start" => x.list = NoList,
         x.pc = "write" => \A r \in Res : x.list[r] # None /\ x.existing[r] = rows[r],
         w \in Task => task[w].pc = "running" /\ x.pc # "idle" /\ ~(x.pc = "end" /\ x.result = "ok"),
         x.pc \in {"list", "write"} =>
           \A r \in Res : \/ x.list[r] \in {None, cloud[r]}
                          \/ sync[w].pc \in {"list", "write"} /\ x.list[r] = sync[w].list[r]
                          \/ /\ x.list[r] = Absent
                             /\ \A t \in Task : Decides(w, t) /\ task[t].res = r
                                                  => "omitted" \in since'[t]
  PROVE  IInv'
<1>1. sync' \in [Worker -> SyncRecord] /\ sync'[w] = x
      /\ \A v \in Worker \ {w} : sync'[v] = sync[v]
  BY Facts
<1>2. TypeOK'
  BY <1>1 DEF IInv, TypeOK
<1>3. \A v \in Worker : Syncs(v)'
  BY <1>1, Facts DEF Syncs
<1>4. \A r \in promised : Promise(r)'
  BY <1>1, Facts DEF Promise
<1>5. \A t \in Task : Goes(t)'
  <2> TAKE t \in Task
  <2>1. Goes(t)
    BY Facts
  <2>2. t \in Worker /\ (t # w => sync'[t] = sync[t])
    BY <1>1, Facts
  <2> QED
    BY <1>1, <2>1, <2>2 DEF Goes
<1>6. ASSUME NEW t \in Task, NEW v \in Worker, Decides(v, t), ListedSince(v, t)
      PROVE  ListedSince(v, t)'
  <2>1. /\ task[t].res \in Res /\ cloud[task[t].res].status \in since[t]
        /\ since[t] \subseteq since'[t]
    BY <1>6, Facts DEF Goes, Decides
  <2>2. CASE v # w
    BY <1>1, <1>6, <2>1, <2>2 DEF ListedSince, WasShown
  <2>3. CASE v = w
    BY <1>1, <1>6, <2>1, <2>3 DEF ListedSince, WasShown, Absent
  <2> QED
    BY <2>2, <2>3
<1>7. \A t \in Task : Undisturbed(t)' => Undisturbed(t)
  BY DEF Undisturbed
<1>8. \A t \in Task : Proves(t)'
  <2> TAKE t \in Task
  <2>1. Proves(t) /\ Goes(t) /\ t \in Worker /\ since[t] \subseteq since'[t]
    BY Facts
  <2>2. task[t].pc = "running" => ListedSince(t, t)'
    BY <1>6, <2>1 DEF Proves, Decides
  <2>3. CASE t # w
    <3>1. sync'[t] = sync[t] /\ (Undisturbed(t)' => Undisturbed(t))
      BY <1>1, <1>7, <2>1, <2>3
    <3>2. ASSUME task[t].pc = "running", sync[t].pc = "end", sync[t].result = "ok",
                 Undisturbed(t)
          PROVE  WasShown(t, rows[task[t].res].status)' /\ \A v \in Worker : ListedSince(v, t)'
      <4>1. \A v \in Worker : ListedSince(v, t)'
        BY <1>6, <2>1, <3>2 DEF Proves, Decides
      <4>2. WasShown(t, rows[task[t].res].status)
        BY <2>1, <3>2 DEF Proves
      <4> QED
        BY <2>1, <4>1, <4>2 DEF WasShown
    <3> QED
      BY <2>1, <2>2, <3>1, <3>2 DEF Proves
  <2>4. CASE t = w
    <3>1. task[t].pc = "running" /\ task[t].verdict = "none"
      BY <2>1, <2>4 DEF Goes
    <3> QED
      BY <1>1, <2>1, <2>2, <2>4, <3>1 DEF Proves
  <2> QED
    BY <2>3, <2>4
<1> QED
  BY <1>2, <1>3, <1>4, <1>5, <1>8 DEF IInv

\* A synchronisation of a task that is under way: the task runs.
LEMMA Runs ==
  ASSUME IInv, NEW w \in Worker, sync[w].pc \in {"start", "list", "write"}
  PROVE  w \in Task => task[w].pc = "running"
BY Facts DEF Goes

LEMMA ThreadInv ==
  ASSUME IInv, NEW h \in Thread, StartSync(h) \/ EndSync(h)
  PROVE  IInv'
<1>1. PICK x \in {[Idle EXCEPT !.pc = "start"], Idle} : sync' = [sync EXCEPT ![h] = x]
  BY DEF StartSync, EndSync
<1>2. x \in SyncRecord /\ x.pc \in {"start", "idle"} /\ x.list = NoList
  BY RecordTypes DEF SyncRecord, Idle
<1>3. h \in Worker /\ h \notin Task
  BY DisjointAssumption DEF Worker
<1>4. UNCHANGED <<cloud, rows, typeLock, task, restarts, since, promised>>
  BY DEF StartSync, EndSync
<1>5. typeLock' \in Worker \cup {None}
      /\ since \in [Task -> SUBSET (Status \cup {"omitted"})]
  BY <1>4, Facts
<1> QED
  BY <1>1, <1>2, <1>3, <1>4, <1>5, SyncKept

LEMMA TakeTypeLockInv ==
  ASSUME IInv, NEW w \in Worker, TakeTypeLock(w)
  PROVE  IInv'
<1> DEFINE x == [sync[w] EXCEPT !.pc = "list"]
<1>1. /\ sync' = [sync EXCEPT ![w] = x] /\ typeLock' = w
      /\ UNCHANGED <<cloud, rows, task, restarts, since, promised>>
      /\ sync[w].pc = "start" /\ typeLock = None
  BY DEF TakeTypeLock
<1>2. sync[w] \in SyncRecord /\ sync[w].list = NoList
  BY <1>1, Facts DEF Syncs
<1>3. x \in SyncRecord /\ x.pc = "list" /\ x.list = NoList /\ x.result = sync[w].result
  BY <1>2 DEF SyncRecord
<1> HIDE DEF x
<1>4. \A r \in Res : x.list[r] = None
  BY <1>3 DEF NoList
<1> QED
  BY <1>1, <1>3, <1>4, Facts, Runs, SyncKept

LEMMA SkipTypeInv ==
  ASSUME IInv, NEW w \in Worker, SkipType(w)
  PROVE  IInv'
<1> DEFINE x == [sync[w] EXCEPT !.pc = "end", !.result = "skipped"]
<1>1. /\ sync' = [sync EXCEPT ![w] = x]
      /\ UNCHANGED <<cloud, rows, typeLock, task, restarts, since, promised>>
      /\ sync[w].pc = "start"
  BY DEF SkipType
<1>2. x \in SyncRecord /\ x.pc = "end" /\ x.result = "skipped"
  <2>1. sync[w] \in SyncRecord
    BY Facts
  <2> QED
    BY <2>1 DEF SyncRecord
<1> HIDE DEF x
<1>3. typeLock' \in Worker \cup {None}
  BY <1>1, Facts
<1> QED
  BY <1>1, <1>2, <1>3, Facts, Runs, SyncKept

LEMMA ListItemInv ==
  ASSUME IInv, NEW w \in Worker, NEW r \in Res, ListItem(w, r)
  PROVE  IInv'
<1> DEFINE x == [sync[w] EXCEPT !.list[r] = cloud[r]]
<1>1. /\ sync' = [sync EXCEPT ![w] = x]
      /\ UNCHANGED <<cloud, rows, typeLock, task, restarts, since, promised>>
      /\ sync[w].pc = "list"
  BY DEF ListItem
<1>2. /\ x \in SyncRecord /\ x.pc = "list"
      /\ \A s \in Res : x.list[s] = IF s = r THEN cloud[s] ELSE sync[w].list[s]
  BY <1>1, Facts DEF SyncRecord
<1> HIDE DEF x
<1>3. typeLock' \in Worker \cup {None} /\ typeLock = w
  BY <1>1, Facts DEF Syncs
<1>4. \A s \in Res : \/ x.list[s] \in {None, cloud[s]}
                     \/ sync[w].pc \in {"list", "write"} /\ x.list[s] = sync[w].list[s]
  BY <1>1, <1>2
<1> QED
  BY <1>1, <1>2, <1>3, <1>4, Facts, Runs, SyncKept

\* A list that leaves a server out says so in the history of the task whose record it
\* decides.
LEMMA ListOmitsInv ==
  ASSUME IInv, NEW w \in Worker, NEW r \in Res, ListOmits(w, r)
  PROVE  IInv'
<1> DEFINE x == [sync[w] EXCEPT !.list[r] = Absent]
<1>1. /\ sync' = [sync EXCEPT ![w] = x]
      /\ since' = [t \in Task |->
                     IF /\ task[t].res = r /\ task[t].pc = "running"
                        /\ w = t \/ sync[t].pc = "end"
                     THEN since[t] \cup {"omitted"} ELSE since[t]]
      /\ UNCHANGED <<cloud, rows, typeLock, task, restarts, promised>>
      /\ sync[w].pc = "list"
  BY DEF ListOmits
<1>2. /\ x \in SyncRecord /\ x.pc = "list" /\ x.list[r] = Absent
      /\ \A s \in Res \ {r} : x.list[s] = sync[w].list[s]
  BY <1>1, Facts, RecordTypes DEF SyncRecord
<1> HIDE DEF x
<1>3. typeLock' \in Worker \cup {None} /\ typeLock' = w /\ typeLock = w
  BY <1>1, Facts DEF Syncs
<1>4. \A t \in Task : /\ since[t] \subseteq since'[t]
                      /\ Decides(w, t) /\ task[t].res = r => "omitted" \in since'[t]
  BY <1>1 DEF Decides
<1>5. \A t \in Task : since[t] # {} \/ since'[t] = since[t]
  BY <1>1, Facts DEF Goes
<1>6. since' \in [Task -> SUBSET (Status \cup {"omitted"})]
  BY <1>1, Facts
<1>7. \A s \in Res : \/ x.list[s] \in {None, cloud[s]}
                     \/ sync[w].pc \in {"list", "write"} /\ x.list[s] = sync[w].list[s]
                     \/ /\ x.list[s] = Absent
                        /\ \A t \in Task : Decides(w, t) /\ task[t].res = s
                                             => "omitted" \in since'[t]
  BY <1>1, <1>2, <1>4
<1>8. w \in Task => task[w].pc = "running"
  BY <1>1, Runs
<1> QED
  BY <1>1, <1>2, <1>3, <1>4, <1>5, <1>6, <1>7, <1>8, SyncKept

LEMMA ListFailsInv ==
  ASSUME IInv, NEW w \in Worker, ListFails(w)
  PROVE  IInv'
<1> DEFINE x == [Idle EXCEPT !.pc = "end", !.result = "failed"]
<1>1. /\ sync' = [sync EXCEPT ![w] = x] /\ typeLock' = None
      /\ UNCHANGED <<cloud, rows, task, restarts, since, promised>>
      /\ sync[w].pc \in {"list", "write"}
  BY DEF ListFails
<1>2. x \in SyncRecord /\ x.pc = "end" /\ x.result = "failed"
  BY RecordTypes DEF SyncRecord
<1> HIDE DEF x
<1>3. typeLock = w /\ w # None
  BY <1>1, Facts DEF Syncs
<1> QED
  BY <1>1, <1>2, <1>3, Facts, Runs, SyncKept

LEMMA ReadExistingInv ==
  ASSUME IInv, NEW w \in Worker, ReadExisting(w)
  PROVE  IInv'
<1> DEFINE x == [sync[w] EXCEPT !.pc = "write", !.existing = rows]
<1>1. /\ sync' = [sync EXCEPT ![w] = x]
      /\ UNCHANGED <<cloud, rows, typeLock, task, restarts, since, promised>>
      /\ sync[w].pc = "list" /\ \A r \in Res : sync[w].list[r] # None
  BY DEF ReadExisting
<1>2. /\ x \in SyncRecord /\ x.pc = "write" /\ x.list = sync[w].list /\ x.existing = rows
      /\ x.result = sync[w].result
  <2>1. sync[w] \in SyncRecord /\ rows \in [Res -> Payload]
    BY Facts
  <2> QED
    BY <2>1 DEF SyncRecord
<1> HIDE DEF x
<1>3. typeLock' \in Worker \cup {None} /\ typeLock = w
  BY <1>1, Facts DEF Syncs
<1>4. \A r \in Res : x.list[r] # None /\ x.existing[r] = rows[r]
  BY <1>1, <1>2
<1> QED
  BY <1>1, <1>2, <1>3, <1>4, Facts, Runs, SyncKept

\* The transaction: every row becomes what the list shows of it, and the confirmed
\* addresses that the payloads still hold are kept.
LEMMA CommitRowsInv ==
  ASSUME IInv, NEW w \in Worker, CommitRows(w)
  PROVE  IInv'
<1> DEFINE s == sync[w]
           listed == {r \in Res : s.list[r].status # "absent"}
           x == [Idle EXCEPT !.pc = "end", !.result = "ok"]
<1>1. /\ s.pc = "write" /\ typeLock' = None /\ sync' = [sync EXCEPT ![w] = x]
      /\ rows' = [r \in Res |-> IF r \in listed THEN Protect(s.list[r], s.existing[r])
                                ELSE NoRow]
      /\ promised' = promised \cap listed /\ UNCHANGED <<cloud, task, restarts, since>>
  BY DEF CommitRows
<1>2. x \in SyncRecord /\ x.pc = "end" /\ x.result = "ok"
  BY RecordTypes DEF SyncRecord
<1>3. /\ s \in SyncRecord /\ typeLock = w /\ \A r \in Res : s.list[r] \in Listing
      /\ \A r \in promised : s.existing[r].confirmed
  <2>1. s \in SyncRecord /\ typeLock = w /\ \A r \in Res : s.list[r] # None
    BY <1>1, Facts DEF Syncs
  <2>2. \A r \in promised : s.existing[r].confirmed
    BY <1>1, Facts DEF Promise
  <2> QED
    BY <2>1, <2>2 DEF SyncRecord
<1> HIDE DEF x
<1>4. \A r \in Res : /\ rows'[r] \in Payload /\ rows'[r].status = s.list[r].status
                     /\ r \in promised' => rows'[r].ip = "new" /\ rows'[r].confirmed
  <2> TAKE r \in Res
  <2>1. s.list[r] \in Listing /\ s.existing[r] \in Payload
    BY <1>3 DEF SyncRecord
  <2>2. CASE r \in listed
    <3>1. rows'[r] = Protect(s.list[r], s.existing[r])
      BY <1>1, <2>2
    <3>2. /\ Protect(s.list[r], s.existing[r]) \in Payload
          /\ Protect(s.list[r], s.existing[r]).status = s.list[r].status
          /\ s.existing[r].confirmed =>
               /\ Protect(s.list[r], s.existing[r]).ip = "new"
               /\ Protect(s.list[r], s.existing[r]).confirmed
      BY <2>1 DEF Protect, Listing, Payload
    <3> QED
      BY <1>1, <1>3, <3>1, <3>2
  <2>3. CASE r \notin listed
    BY <1>1, <2>3, RecordTypes DEF NoRow
  <2> QED
    BY <2>2, <2>3

<1>5. sync' \in [Worker -> SyncRecord] /\ sync'[w] = x
      /\ \A v \in Worker \ {w} : sync'[v] = sync[v] /\ sync[v].pc \notin {"list", "write"}
  BY <1>1, <1>2, <1>3, Facts DEF Syncs
<1>6. TypeOK'
  <2>1. rows' \in [Res -> Payload]
    BY <1>1, <1>4
  <2> QED
    BY <1>1, <1>5, <2>1, Facts DEF TypeOK
<1>7. \A v \in Worker : Syncs(v)' /\ sync'[v].pc \notin {"list", "write"}
  BY <1>2, <1>5, Facts DEF Syncs
<1>8. \A r \in promised' : Promise(r)'
  BY <1>1, <1>4, <1>7, Facts DEF Promise
<1>9. \A t \in Task : Goes(t)'
  <2> TAKE t \in Task
  <2>1. Goes(t) /\ t \in Worker /\ (t = w => task[t].pc = "running")
    BY <1>1, Facts, Runs
  <2> QED
    BY <1>1, <1>2, <1>5, <2>1 DEF Goes
<1>10. \A t \in Task : Proves(t)'
  <2> TAKE t \in Task
  <2>1. Proves(t) /\ Goes(t) /\ t \in Worker /\ (t = w => task[t].pc = "running")
    BY <1>1, Facts, Runs
  <2>2. \A v \in Worker : ListedSince(v, t)'
    BY <1>7 DEF ListedSince
  <2>3. Undisturbed(t)' => Undisturbed(t)
    BY <1>1, SMTT(30) DEF Undisturbed
  <2>4. ASSUME task[t].pc = "running", sync'[t].pc = "end", sync'[t].result = "ok", Undisturbed(t)
        PROVE  WasShown(t, rows'[task[t].res].status)
    <3>1. task[t].res \in Res /\ rows'[task[t].res].status = s.list[task[t].res].status
      BY <1>4, <2>1, <2>4 DEF Goes
    <3>2. ListedSince(w, t)
      <4>1. CASE t = w
        BY <2>1, <2>4, <4>1 DEF Proves
      <4>2. CASE t # w
        BY <1>5, <2>1, <2>4, <4>2 DEF Proves
      <4> QED
        BY <4>1, <4>2
    <3>3. s.list[task[t].res] # None
      BY <1>1, <3>1, Facts DEF Syncs
    <3> QED
      BY <1>1, <3>1, <3>2, <3>3 DEF ListedSince, WasShown
  <2>5. task'[t].verdict = "success" => t # w
    BY <1>1, <2>1 DEF Goes
  <2> QED
    BY <1>1, <1>5, <2>1, <2>2, <2>3, <2>4, <2>5 DEF Proves, WasShown
<1> QED
  BY <1>6, <1>7, <1>8, <1>9, <1>10 DEF IInv

-----------------------------------------------------------------------------
(* Tasks *)

\* A step of one task.  Its server and what is asked of it are given once; a status it
\* writes back is that of a server whose address changes.
LEMMA TaskKept ==
  ASSUME IInv, NEW t \in Task, NEW y \in TaskRecord, task' = [task EXCEPT ![t] = y],
         NEW x \in SyncRecord, sync' = [sync EXCEPT ![t] = x],
         x = sync[t] \/ (x.pc = "start" /\ x.list = NoList),
         UNCHANGED <<cloud, typeLock, restarts>>,
         rows' \in [Res -> Payload], promised' \subseteq Res,
         \A r \in promised' : Promise(r)',
         \A r \in Res : \/ rows'[r].status = rows[r].status
                        \/ r = task[t].res /\ task[t].verb = "change_private_ip",
         since' \in [Task -> SUBSET (Status \cup {"omitted"})], \A u \in Task \ {t} : since'[u] = since[u],
         task[t].pc # "idle" => y.res = task[t].res /\ y.verb = task[t].verb,
         Goes(t)', Proves(t)'
  PROVE  IInv'
<1>1. /\ task' \in [Task -> TaskRecord] /\ task'[t] = y
      /\ \A u \in Task \ {t} : task'[u] = task[u]
      /\ sync' \in [Worker -> SyncRecord] /\ sync'[t] = x
      /\ \A v \in Worker \ {t} : sync'[v] = sync[v]
  BY Facts
<1>2. TypeOK'
  BY <1>1, Facts DEF TypeOK
<1>3. \A v \in Worker : Syncs(v)'
  BY <1>1, Facts DEF Syncs
<1>4. \A u \in Task \ {t} : Goes(u)' /\ u \in Worker
  BY <1>1, Facts DEF Goes
<1>5. ASSUME NEW u \in Task \ {t}, NEW v \in Worker, ListedSince(v, u)
      PROVE  ListedSince(v, u)'
  BY <1>1, <1>5 DEF ListedSince, WasShown
<1>6. ASSUME NEW u \in Task \ {t}, task[u].res \in Res, Undisturbed(u)'
      PROVE  Undisturbed(u)
  <2>1. task[t].pc = "idle" => task[t].res # task[u].res
    BY <1>6, Facts, NoneAssumption DEF Goes
  <2>2. \A q \in Task : task[q].res = task[u].res => task'[q].res = task'[u].res
                                                  /\ task'[q].verb = task[q].verb
    BY <1>1, <2>1
  <2> QED
    BY <1>6, <2>2 DEF Undisturbed
<1>7. ASSUME NEW u \in Task \ {t} PROVE Proves(u)'
  <2>1. Proves(u) /\ Goes(u) /\ task'[u] = task[u] /\ sync'[u] = sync[u] /\ since'[u] = since[u]
    BY <1>1, <1>4, Facts
  <2>2. CASE task[u].pc = "idle"
    BY <2>1, <2>2 DEF Proves, Goes
  <2>3. CASE task[u].pc # "idle"
    <3>1. task[u].res \in Res
      BY <2>1, <2>3 DEF Goes
    <3>2. Undisturbed(u)' => Undisturbed(u)
      BY <1>6, <3>1
    <3>3. Undisturbed(u) => rows'[task[u].res].status = rows[task[u].res].status
      BY <3>1 DEF Undisturbed
    <3>4. ListedSince(u, u) => ListedSince(u, u)'
      BY <1>4, <1>5
    <3>5. (\A v \in Worker : ListedSince(v, u)) => \A v \in Worker : ListedSince(v, u)'
      BY <1>5
    <3> QED
      BY <2>1, <3>2, <3>3, <3>4, <3>5 DEF Proves, WasShown
  <2> QED
    BY <2>2, <2>3
<1> QED
  BY <1>2, <1>3, <1>4, <1>7 DEF IInv

\* A step of a task that leaves all but its record alone, and does not yet run.
LEMMA RecordKept ==
  ASSUME IInv, NEW t \in Task, NEW y \in TaskRecord, task' = [task EXCEPT ![t] = y],
         UNCHANGED <<cloud, rows, typeLock, sync, restarts, promised>>,
         since' \in [Task -> SUBSET (Status \cup {"omitted"})], \A u \in Task \ {t} : since'[u] = since[u],
         task[t].pc # "idle" => y.res = task[t].res /\ y.verb = task[t].verb,
         Goes(t)', Proves(t)'
  PROVE  IInv'
<1>1. /\ t \in Worker /\ sync[t] \in SyncRecord /\ sync' = [sync EXCEPT ![t] = sync[t]]
      /\ rows' \in [Res -> Payload] /\ promised' \subseteq Res
  BY Facts
<1>2. \A r \in promised' : Promise(r)'
  BY Facts DEF Promise
<1> QED
  BY <1>1, <1>2, TaskKept

\* What a step of a task finds.
LEMMA TaskFacts ==
  ASSUME IInv, NEW t \in Task
  PROVE  /\ task[t] \in TaskRecord /\ t \in Worker /\ sync[t] \in SyncRecord
         /\ since \in [Task -> SUBSET (Status \cup {"omitted"})] /\ Goes(t)
         /\ Proves(t) /\ rows \in [Res -> Payload] /\ cloud \in [Res -> Listing]
         /\ task \in [Task -> TaskRecord] /\ promised \subseteq Res
BY Facts

\* Before it runs a task proves nothing yet.
LEMMA NotYet ==
  ASSUME NEW t \in Task, task[t].pc # "running", task[t].verdict = "none"
  PROVE  Proves(t)
BY DEF Proves

LEMMA ReceiveActionInv ==
  ASSUME IInv, NEW t \in Task, NEW r \in Res, NEW verb \in Verb, ReceiveAction(t, r, verb)
  PROVE  IInv'
<1> DEFINE y == [NoTask EXCEPT !.pc = "called", !.res = r, !.verb = verb]
<1>1. /\ task[t].pc = "idle" /\ task' = [task EXCEPT ![t] = y]
      /\ UNCHANGED <<cloud, rows, typeLock, sync, restarts, since, promised>>
  BY DEF ReceiveAction
<1>2. /\ y \in TaskRecord /\ y.pc = "called" /\ y.res = r /\ y.verb = verb
      /\ y.verdict = "none"
  BY RecordTypes DEF NoTask, TaskRecord
<1> HIDE DEF y
<1>3. task'[t] = y
  BY <1>1, TaskFacts
<1>4. Goes(t)'
  BY <1>1, <1>2, <1>3, TaskFacts DEF Goes
<1>5. Proves(t)'
  BY <1>2, <1>3 DEF Proves
<1> QED
  BY <1>1, <1>2, <1>4, <1>5, TaskFacts, RecordKept

LEMMA ProviderRejectsInv ==
  ASSUME IInv, NEW t \in Task, ProviderRejects(t)
  PROVE  IInv'
<1> DEFINE y == [task[t] EXCEPT !.pc = "done"]
<1>1. /\ task[t].pc = "called" /\ task' = [task EXCEPT ![t] = y]
      /\ UNCHANGED <<cloud, rows, typeLock, sync, restarts, since, promised>>
  BY DEF ProviderRejects
<1>2. /\ y \in TaskRecord /\ y.pc = "done" /\ y.res = task[t].res /\ y.verb = task[t].verb
      /\ y.verdict = task[t].verdict
  BY TaskFacts DEF TaskRecord
<1> HIDE DEF y
<1>3. task'[t] = y /\ task[t].verdict = "none" /\ sync[t].pc = "idle"
  BY <1>1, TaskFacts DEF Goes
<1>4. Goes(t)'
  BY <1>1, <1>2, <1>3, TaskFacts DEF Goes
<1>5. Proves(t)'
  BY <1>2, <1>3 DEF Proves
<1> QED
  BY <1>1, <1>2, <1>4, <1>5, TaskFacts, RecordKept

LEMMA ProviderAcceptsInv ==
  ASSUME IInv, NEW t \in Task, ProviderAccepts(t)
  PROVE  IInv'
<1> DEFINE pc == IF task[t].verb = "change_private_ip" THEN "apply" ELSE "accepted"
           y == [task[t] EXCEPT !.pc = pc]
           S == {cloud[task[t].res].status}
<1>1. /\ task[t].pc = "called" /\ task' = [task EXCEPT ![t] = y]
      /\ since' = [since EXCEPT ![t] = S]
      /\ UNCHANGED <<cloud, rows, typeLock, sync, restarts, promised>>
  BY DEF ProviderAccepts
<1>2. pc \in {"apply", "accepted"} /\ (pc = "apply" => task[t].verb = "change_private_ip")
  OBVIOUS
<1> HIDE DEF pc
<1>3. /\ y \in TaskRecord /\ y.pc = pc /\ y.res = task[t].res /\ y.verb = task[t].verb
      /\ y.verdict = task[t].verdict
  BY <1>2, TaskFacts DEF TaskRecord
<1> HIDE DEF y
<1>4. task'[t] = y /\ task[t].verdict = "none" /\ sync[t].pc = "idle" /\ task[t].res \in Res
  BY <1>1, TaskFacts DEF Goes
<1>5. S \subseteq Status /\ cloud[task[t].res].status \in S
  BY <1>4, TaskFacts DEF Listing
<1> HIDE DEF S
<1>6. since' \in [Task -> SUBSET (Status \cup {"omitted"})] /\ since'[t] = S
      /\ \A u \in Task \ {t} : since'[u] = since[u]
  BY <1>1, <1>5, TaskFacts
<1>7. Goes(t)'
  BY <1>1, <1>2, <1>3, <1>4, <1>5, <1>6 DEF Goes
<1>8. Proves(t)'
  BY <1>2, <1>3, <1>4 DEF Proves
<1> QED
  BY <1>1, <1>3, <1>6, <1>7, <1>8, RecordKept

LEMMA ReadForConfirmedInv ==
  ASSUME IInv, NEW t \in Task, ReadForConfirmed(t)
  PROVE  IInv'
<1>1. /\ task[t].pc = "apply"
      /\ UNCHANGED <<cloud, rows, typeLock, sync, restarts, since, promised>>
  BY DEF ReadForConfirmed
<1>2. task[t].res \in Res /\ rows[task[t].res] \in Payload /\ task[t].verdict = "none"
  BY <1>1, TaskFacts DEF Goes
<1>3. PICK y \in TaskRecord :
        /\ task' = [task EXCEPT ![t] = y] /\ y.pc \in {"update", "accepted"}
        /\ y.res = task[t].res /\ y.verb = task[t].verb /\ y.verdict = task[t].verdict
  <2> DEFINE a == [task[t] EXCEPT !.pc = "update", !.copy = rows[task[t].res]]
             b == [task[t] EXCEPT !.pc = "accepted"]
  <2>1. /\ a \in TaskRecord /\ a.pc = "update" /\ a.res = task[t].res
        /\ a.verb = task[t].verb /\ a.verdict = task[t].verdict
    BY <1>2, TaskFacts DEF TaskRecord
  <2>2. /\ b \in TaskRecord /\ b.pc = "accepted" /\ b.res = task[t].res
        /\ b.verb = task[t].verb /\ b.verdict = task[t].verdict
    BY TaskFacts DEF TaskRecord
  <2>3. task' = [task EXCEPT ![t] = a] \/ task' = [task EXCEPT ![t] = b]
    BY DEF ReadForConfirmed
  <2> HIDE DEF a, b
  <2> QED
    BY <2>1, <2>2, <2>3
<1>4. task'[t] = y
  BY <1>3, TaskFacts
<1>5. Goes(t)'
  BY <1>1, <1>2, <1>3, <1>4, TaskFacts DEF Goes
<1>6. Proves(t)'
  BY <1>2, <1>3, <1>4 DEF Proves
<1> QED
  BY <1>1, <1>3, <1>5, <1>6, TaskFacts, RecordKept

\* The row gets the status of the copy, the confirmed address and its protection; that
\* is promised unless a synchronisation is about to write what it has read before.
LEMMA ApplyConfirmedInv ==
  ASSUME IInv, NEW t \in Task, ApplyConfirmed(t)
  PROVE  IInv'
<1> DEFINE r == task[t].res
           y == [task[t] EXCEPT !.pc = "accepted", !.copy = NoRow]
           z == [task[t].copy EXCEPT !.ip = "new", !.confirmed = TRUE]
<1>1. /\ task[t].pc = "update" /\ task' = [task EXCEPT ![t] = y]
      /\ rows' = IF HasRow(r) THEN [rows EXCEPT ![r] = z] ELSE rows
      /\ promised' = IF HasRow(r) /\ \A w \in Worker : sync[w].pc # "write"
                     THEN promised \cup {r} ELSE promised \ {r}
      /\ UNCHANGED <<cloud, typeLock, sync, restarts, since>>
  BY DEF ApplyConfirmed
<1>2. /\ y \in TaskRecord /\ y.pc = "accepted" /\ y.res = r /\ y.verb = task[t].verb
      /\ y.verdict = task[t].verdict
  BY RecordTypes, TaskFacts DEF TaskRecord
<1>3. z \in Payload /\ z.ip = "new" /\ z.confirmed
  BY TaskFacts DEF TaskRecord, Payload
<1>4. r \in Res /\ task[t].verb = "change_private_ip" /\ task[t].verdict = "none"
  BY <1>1, TaskFacts DEF Goes
<1> HIDE DEF y, z, r
<1>5. rows' \in [Res -> Payload] /\ \A s \in Res \ {r} : rows'[s] = rows[s]
  BY <1>1, <1>3, <1>4, TaskFacts
<1>6. promised' \subseteq Res
  BY <1>1, <1>4, TaskFacts
<1>7. \A s \in promised' : Promise(s)'
  <2> TAKE s \in promised'
  <2>1. CASE s # r
    BY <1>1, <1>5, <1>6, <2>1, Facts DEF Promise
  <2>2. CASE s = r
    <3>1. HasRow(r) /\ \A w \in Worker : sync[w].pc # "write"
      BY <1>1, <2>2
    <3>2. rows'[r] = z
      BY <1>1, <1>4, <3>1, TaskFacts
    <3> QED
      BY <1>1, <1>3, <2>2, <3>1, <3>2 DEF Promise
  <2> QED
    BY <2>1, <2>2
<1>8. task'[t] = y
  BY <1>1, TaskFacts
<1>9. Goes(t)'
  BY <1>1, <1>2, <1>4, <1>8, TaskFacts DEF Goes, r
<1>10. Proves(t)'
  BY <1>2, <1>4, <1>8 DEF Proves
<1>11. /\ sync' = [sync EXCEPT ![t] = sync[t]] /\ y.res = task[t].res
       /\ UNCHANGED <<cloud, typeLock, restarts, since>> /\ task' = [task EXCEPT ![t] = y]
       /\ \A s \in Res : \/ rows'[s].status = rows[s].status
                         \/ s = task[t].res /\ task[t].verb = "change_private_ip"
  BY <1>1, <1>2, <1>4, <1>5, Facts DEF r
<1>12. /\ since' \in [Task -> SUBSET (Status \cup {"omitted"})] /\ \A u \in Task \ {t} : since'[u] = since[u]
       /\ sync[t] \in SyncRecord
  BY <1>11, TaskFacts
<1> QED
  BY <1>2, <1>5, <1>6, <1>7, <1>9, <1>10, <1>11, <1>12, TaskKept

LEMMA QueueTaskInv ==
  ASSUME IInv, NEW t \in Task, QueueTask(t)
  PROVE  IInv'
<1> DEFINE y == [task[t] EXCEPT !.pc = "queued"]
<1>1. /\ task[t].pc = "accepted" /\ task' = [task EXCEPT ![t] = y]
      /\ UNCHANGED <<cloud, rows, typeLock, sync, restarts, since, promised>>
  BY DEF QueueTask
<1>2. /\ y \in TaskRecord /\ y.pc = "queued" /\ y.res = task[t].res /\ y.verb = task[t].verb
      /\ y.verdict = task[t].verdict
  BY TaskFacts DEF TaskRecord
<1> HIDE DEF y
<1>3. task'[t] = y /\ task[t].verdict = "none"
  BY <1>1, TaskFacts DEF Goes
<1>4. Goes(t)'
  BY <1>1, <1>2, <1>3, TaskFacts DEF Goes
<1>5. Proves(t)'
  BY <1>2, <1>3 DEF Proves
<1> QED
  BY <1>1, <1>2, <1>4, <1>5, TaskFacts, RecordKept

LEMMA RunTaskInv ==
  ASSUME IInv, NEW t \in Task, RunTask(t)
  PROVE  IInv'
<1> DEFINE y == [task[t] EXCEPT !.pc = "running"]
           x == [Idle EXCEPT !.pc = "start"]
<1>1. /\ task[t].pc = "queued" /\ task' = [task EXCEPT ![t] = y]
      /\ sync' = [sync EXCEPT ![t] = x]
      /\ UNCHANGED <<cloud, rows, typeLock, restarts, since, promised>>
  BY DEF RunTask
<1>2. /\ y \in TaskRecord /\ y.pc = "running" /\ y.res = task[t].res /\ y.verb = task[t].verb
      /\ y.verdict = task[t].verdict
  BY TaskFacts DEF TaskRecord
<1>3. x \in SyncRecord /\ x.pc = "start" /\ x.list = NoList
  BY RecordTypes DEF SyncRecord, Idle
<1> HIDE DEF x, y
<1>4. task'[t] = y /\ sync'[t] = x /\ task[t].verdict = "none"
      /\ \A w \in Worker \ {t} : sync'[w] = sync[w]
  BY <1>1, Facts DEF Goes
<1>5. Goes(t)'
  BY <1>1, <1>2, <1>3, <1>4, TaskFacts DEF Goes
<1>6. Proves(t)'
  BY <1>2, <1>3, <1>4 DEF Proves, ListedSince
<1>7. \A r \in promised' : Promise(r)'
  BY <1>1, <1>3, <1>4, Facts DEF Promise
<1> QED
  BY <1>1, <1>2, <1>3, <1>5, <1>6, <1>7, TaskFacts, TaskKept

\* What the row shows the provider has listed, if the rows are those of the task's own
\* synchronisation or of a later one.
LEMMA VerifyTaskInv ==
  ASSUME IInv, NEW t \in Task, VerifyTask(t)
  PROVE  IInv'
<1> DEFINE v == IF Shown(t) THEN "success" ELSE "unconfirmed"
           y == [task[t] EXCEPT !.pc = "done", !.verdict = v]
<1>1. /\ task[t].pc = "running" /\ sync[t].pc = "end" /\ task' = [task EXCEPT ![t] = y]
      /\ UNCHANGED <<cloud, rows, typeLock, sync, restarts, since, promised>>
  BY DEF VerifyTask
<1>2. v \in {"success", "unconfirmed"} /\ (v = "success" => Shown(t))
  OBVIOUS
<1> HIDE DEF v
<1>3. /\ y \in TaskRecord /\ y.pc = "done" /\ y.res = task[t].res /\ y.verb = task[t].verb
      /\ y.verdict = v
  BY <1>2, TaskFacts DEF TaskRecord
<1> HIDE DEF y
<1>4. task'[t] = y /\ \A u \in Task : task'[u].res = task[u].res /\ task'[u].verb = task[u].verb
  BY <1>1, <1>3, TaskFacts
<1>5. Goes(t)'
  BY <1>1, <1>3, <1>4, TaskFacts DEF Goes
<1>6. ASSUME v = "success", sync[t].result = "ok", Undisturbed(t)
      PROVE  since[t] \cap Evidence(task[t].verb) # {}
  <2> DEFINE status == rows[task[t].res].status
  <2>1. WasShown(t, status)
    BY <1>1, <1>6, TaskFacts DEF Proves
  <2>2. status \in Status
    BY <1>1, TaskFacts DEF Goes, Payload
  <2>3. status \in Evidence(task[t].verb)
    BY <1>2, <1>6, <2>2, TaskFacts DEF Shown, Evidence
  <2>4. status = "absent" => "omitted" \in Evidence(task[t].verb)
    BY <2>3 DEF Evidence
  <2> HIDE DEF status
  <2> QED
    BY <2>1, <2>3, <2>4 DEF WasShown
<1>7. Undisturbed(t)' => Undisturbed(t)
  BY <1>4 DEF Undisturbed
<1>8. Proves(t)'
  BY <1>1, <1>3, <1>4, <1>6, <1>7 DEF Proves
<1> QED
  BY <1>1, <1>3, <1>5, <1>8, TaskFacts, RecordKept

-----------------------------------------------------------------------------
(* The provider, time and restarts *)

LEMMA ProviderChangeInv ==
  ASSUME IInv, NEW r \in Res, NEW l \in Listing, ProviderChange(r, l)
  PROVE  IInv'
<1>1. /\ cloud' = [cloud EXCEPT ![r] = l]
      /\ since' = [t \in Task |-> IF since[t] # {} /\ task[t].res = r
                                  THEN since[t] \cup {l.status} ELSE since[t]]
      /\ UNCHANGED <<rows, typeLock, sync, task, restarts, promised>>
  BY DEF ProviderChange
<1>2. l.status \in Status /\ cloud' \in [Res -> Listing]
  BY <1>1, Facts DEF Listing
<1>3. \A t \in Task : /\ since[t] \subseteq since'[t]
                      /\ since[t] = {} <=> since'[t] = {}
                      /\ since[t] # {} /\ task[t].res = r => l.status \in since'[t]
  BY <1>1, <1>2, Facts
<1>4. since' \in [Task -> SUBSET (Status \cup {"omitted"})]
  BY <1>1, <1>2, Facts
<1>5. TypeOK'
  BY <1>1, <1>2, <1>4, Facts DEF TypeOK
<1>6. (\A w \in Worker : Syncs(w)') /\ \A s \in promised' : Promise(s)'
  BY <1>1, Facts DEF Syncs, Promise
<1>7. \A t \in Task : Goes(t)'
  <2> TAKE t \in Task
  <2>1. Goes(t)
    BY Facts
  <2>2. since'[t] # {} => cloud'[task[t].res].status \in since'[t] /\ task[t].res \in Res
    <3>1. CASE task[t].res = r
      BY <1>1, <1>2, <1>3, <3>1, Facts
    <3>2. CASE task[t].res # r
      BY <1>1, <1>3, <2>1, <3>2, Facts DEF Goes
    <3> QED
      BY <3>1, <3>2
  <2> QED
    BY <1>1, <1>3, <2>1, <2>2 DEF Goes
<1>8. \A t \in Task : Proves(t)'
  <2> TAKE t \in Task
  <2>1. Proves(t) /\ since[t] \subseteq since'[t]
    BY <1>3, Facts
  <2>2. \A w \in Worker : ListedSince(w, t) => ListedSince(w, t)'
    BY <1>1, <2>1 DEF ListedSince, WasShown
  <2>3. t \in Worker /\ (Undisturbed(t)' => Undisturbed(t))
    BY <1>1, Facts DEF Undisturbed
  <2> QED
    BY <1>1, <2>1, <2>2, <2>3 DEF Proves, WasShown
<1> QED
  BY <1>5, <1>6, <1>7, <1>8 DEF IInv

LEMMA ProtectionEndsInv ==
  ASSUME IInv, NEW r \in Res, ProtectionEnds(r)
  PROVE  IInv'
<1>1. /\ rows' = [rows EXCEPT ![r].confirmed = FALSE]
      /\ sync' = [w \in Worker |-> [sync[w] EXCEPT !.existing[r].confirmed = FALSE]]
      /\ promised' = promised \ {r}
      /\ UNCHANGED <<cloud, typeLock, task, restarts, since>>
  BY DEF ProtectionEnds
<1>2. \A p \in Payload : LET q == [p EXCEPT !.confirmed = FALSE]
                         IN q \in Payload /\ q.status = p.status
  BY DEF Payload
<1>3. /\ rows' \in [Res -> Payload] /\ \A s \in Res : rows'[s].status = rows[s].status
      /\ \A s \in Res \ {r} : rows'[s] = rows[s]
  BY <1>1, <1>2, Facts
<1>4. \A x \in SyncRecord :
        LET y == [x EXCEPT !.existing[r].confirmed = FALSE]
        IN /\ y \in SyncRecord /\ y.pc = x.pc /\ y.list = x.list /\ y.result = x.result
           /\ \A s \in Res \ {r} : y.existing[s] = x.existing[s]
  <2> TAKE x \in SyncRecord
  <2> DEFINE e == [x.existing EXCEPT ![r].confirmed = FALSE]
  <2>1. e \in [Res -> Payload] /\ \A s \in Res \ {r} : e[s] = x.existing[s]
    <3>1. x.existing \in [Res -> Payload]
      BY DEF SyncRecord
    <3> QED
      BY <1>2, <3>1
  <2>2. [x EXCEPT !.existing[r].confirmed = FALSE] = [x EXCEPT !.existing = e]
    BY DEF SyncRecord
  <2> HIDE DEF e
  <2> QED
    BY <2>1, <2>2 DEF SyncRecord
<1>5. /\ sync' \in [Worker -> SyncRecord]
      /\ \A w \in Worker : /\ sync'[w].pc = sync[w].pc /\ sync'[w].list = sync[w].list
                           /\ sync'[w].result = sync[w].result
                           /\ \A s \in Res \ {r} : sync'[w].existing[s] = sync[w].existing[s]
  BY <1>1, <1>4, Facts, ZenonT(40)
<1>6. TypeOK'
  BY <1>1, <1>3, <1>5, Facts DEF TypeOK
<1>7. (\A w \in Worker : Syncs(w)') /\ \A s \in promised' : Promise(s)'
  <2>1. ASSUME NEW w \in Worker PROVE Syncs(w)'
    <3>1. /\ Syncs(w) /\ typeLock' = typeLock
          /\ sync'[w].pc = sync[w].pc /\ sync'[w].list = sync[w].list
      BY <1>1, <1>5, Facts
    <3> QED
      BY <3>1 DEF Syncs
  <2>2. ASSUME NEW s \in promised' PROVE Promise(s)'
    <3>1. s \in Res \ {r} /\ Promise(s)
      BY <1>1, <2>2, Facts
    <3> QED
      BY <1>3, <1>5, <3>1 DEF Promise
  <2> QED
    BY <2>1, <2>2
<1>8. \A t \in Task : Goes(t)'
  BY <1>1, <1>5, Facts DEF Goes
<1>9. \A t \in Task : Proves(t)'
  <2> TAKE t \in Task
  <2>1. Proves(t) /\ Goes(t) /\ t \in Worker /\ (Undisturbed(t)' => Undisturbed(t))
    BY <1>1, Facts DEF Undisturbed
  <2>2. \A w \in Worker : ListedSince(w, t) => ListedSince(w, t)'
    BY <1>1, <1>5 DEF ListedSince, WasShown
  <2>3. task[t].pc = "running" => task[t].res \in Res
    BY <2>1 DEF Goes
  <2> QED
    BY <1>1, <1>3, <1>5, <2>1, <2>2, <2>3 DEF Proves, WasShown
<1> QED
  BY <1>6, <1>7, <1>8, <1>9 DEF IInv

LEMMA RestartInv ==
  ASSUME IInv, Restart
  PROVE  IInv'
<1>1. /\ restarts < MaxRestarts /\ restarts' = restarts + 1 /\ typeLock' = None
      /\ sync' = [w \in Worker |-> IF w \in Task /\ task[w].pc = "done" THEN sync[w] ELSE Idle]
      /\ task' = [t \in Task |-> IF task[t].pc = "idle" THEN task[t]
                                 ELSE [task[t] EXCEPT !.pc = "done", !.copy = NoRow]]
      /\ UNCHANGED <<cloud, rows, since, promised>>
  BY DEF Restart
<1>2. restarts' \in 0..MaxRestarts
  <2>1. restarts \in 0..MaxRestarts /\ MaxRestarts \in Nat
    BY Facts, MaxRestartsAssumption
  <2>2. restarts < MaxRestarts /\ restarts' = restarts + 1
    BY <1>1
  <2> QED
    BY <2>1, <2>2
<1>3. /\ sync' \in [Worker -> SyncRecord]
      /\ \A w \in Worker : \/ sync'[w] = Idle
                           \/ w \in Task /\ task[w].pc = "done" /\ sync'[w] = sync[w]
  BY <1>1, Facts, RecordTypes
<1>4. \A y \in TaskRecord : LET z == [y EXCEPT !.pc = "done", !.copy = NoRow]
                            IN /\ z \in TaskRecord /\ z.pc = "done" /\ z.res = y.res
                               /\ z.verb = y.verb /\ z.verdict = y.verdict
  BY RecordTypes DEF TaskRecord
<1>5. /\ task' \in [Task -> TaskRecord]
      /\ \A t \in Task : /\ task'[t].res = task[t].res /\ task'[t].verb = task[t].verb
                         /\ task'[t].verdict = task[t].verdict
                         /\ \/ task[t].pc = "idle" /\ task'[t].pc = "idle"
                            \/ task[t].pc # "idle" /\ task'[t].pc = "done"
  <2>1. ASSUME NEW t \in Task
        PROVE  /\ task'[t] \in TaskRecord
               /\ task'[t].res = task[t].res /\ task'[t].verb = task[t].verb
               /\ task'[t].verdict = task[t].verdict
               /\ \/ task[t].pc = "idle" /\ task'[t].pc = "idle"
                  \/ task[t].pc # "idle" /\ task'[t].pc = "done"
    <3>1. task[t] \in TaskRecord
      BY TaskFacts
    <3>2. CASE task[t].pc = "idle"
      BY <1>1, <3>1, <3>2
    <3>3. CASE task[t].pc # "idle"
      <4>1. task'[t] = [task[t] EXCEPT !.pc = "done", !.copy = NoRow]
        BY <1>1, <3>3
      <4> QED
        BY <1>4, <3>1, <3>3, <4>1
    <3> QED
      BY <3>2, <3>3
  <2>2. task' = [t \in Task |-> task'[t]]
    BY <1>1
  <2> QED
    BY <2>1, <2>2
<1>6. TypeOK'
  BY <1>1, <1>2, <1>3, <1>5, Facts DEF TypeOK
<1>7. \A w \in Worker : sync'[w].pc \in {"idle", "end"}
  BY <1>3, RecordTypes, Facts DEF Goes
<1>8. (\A w \in Worker : Syncs(w)') /\ \A s \in promised' : Promise(s)'
  BY <1>1, <1>7, Facts DEF Syncs, Promise
<1>9. \A t \in Task : Goes(t)'
  <2> TAKE t \in Task
  <2>1. Goes(t) /\ t \in Worker
    BY Facts
  <2>2. task'[t].pc = "idle" => sync'[t].pc = "idle"
    BY <1>3, <1>5, <2>1, RecordTypes
  <2>3. sync'[t].pc \in {"idle", "end"} /\ task'[t].pc \in {"idle", "done"}
    BY <1>5, <1>7, <2>1
  <2>4. task'[t].pc = "idle" => task[t].pc = "idle" /\ task'[t].verdict = "none"
    BY <1>5, <2>1 DEF Goes
  <2>5. UNCHANGED <<cloud, since>> /\ task'[t].res = task[t].res
    BY <1>1, <1>5
  <2>6. task'[t].pc = "done" => task[t].pc # "idle"
    BY <1>5
  <2> QED
    BY <2>1, <2>2, <2>3, <2>4, <2>5, <2>6 DEF Goes
<1>10. \A t \in Task : Proves(t)'
  <2> TAKE t \in Task
  <2>1. Proves(t) /\ t \in Worker
    BY Facts
  <2>2. sync'[t].result = "ok" => sync'[t] = sync[t]
    BY <1>3, <2>1, RecordTypes
  <2>3. Undisturbed(t)' => Undisturbed(t)
    BY <1>5 DEF Undisturbed
  <2>4. task'[t].pc # "running"
    BY <1>5
  <2> QED
    BY <1>1, <1>5, <2>1, <2>2, <2>3, <2>4 DEF Proves
<1> QED
  BY <1>6, <1>8, <1>9, <1>10 DEF IInv

LEMMA StutterInv ==
  ASSUME IInv, UNCHANGED vars
  PROVE  IInv'
<1>1. UNCHANGED <<cloud, rows, typeLock, sync, task, restarts, since, promised>>
  BY DEF vars
<1> QED
  BY <1>1 DEF IInv, TypeOK, Syncs, Promise, Goes, Proves, ListedSince, WasShown,
            Undisturbed

-----------------------------------------------------------------------------
(* The steps of the specification *)

LEMMA InitIInv == Init => IInv
<1> SUFFICES ASSUME Init PROVE IInv
  OBVIOUS
<1>1. /\ cloud \in [Res -> Listing] /\ rows = NoRows /\ typeLock = None
      /\ sync = [w \in Worker |-> Idle] /\ task = [t \in Task |-> NoTask]
      /\ restarts = 0 /\ since = [t \in Task |-> {}] /\ promised = {}
  BY DEF Init
<1>2. TypeOK
  <2>1. 0 \in 0..MaxRestarts
    BY MaxRestartsAssumption
  <2> QED
    BY <1>1, <2>1, RecordTypes DEF TypeOK
<1>3. \A w \in Worker : Syncs(w)
  BY <1>1, RecordTypes DEF Syncs
<1>4. \A t \in Task : Goes(t) /\ Proves(t)
  BY <1>1, RecordTypes DEF Goes, Proves, Worker
<1> QED
  BY <1>1, <1>2, <1>3, <1>4 DEF IInv

LEMMA NextIInv == IInv /\ [Next]_vars => IInv'
<1> SUFFICES ASSUME IInv, [Next]_vars PROVE IInv'
  OBVIOUS
<1>1. ASSUME NEW w \in Worker, SyncStep(w) PROVE IInv'
  BY <1>1, TakeTypeLockInv, SkipTypeInv, ListItemInv, ListOmitsInv, ListFailsInv,
     ReadExistingInv, CommitRowsInv DEF SyncStep
<1>2. ASSUME NEW t \in Task, ActionStep(t) PROVE IInv'
  BY <1>2, ReceiveActionInv, ProviderRejectsInv, ProviderAcceptsInv, ReadForConfirmedInv,
     ApplyConfirmedInv, QueueTaskInv, RunTaskInv, VerifyTaskInv DEF ActionStep
<1>3. ASSUME NEW r \in Res, NEW l \in Listing, ProviderChange(r, l) PROVE IInv'
  BY <1>3, ProviderChangeInv
<1>4. ASSUME NEW r \in Res, ProtectionEnds(r) PROVE IInv'
  BY <1>4, ProtectionEndsInv
<1>5. ASSUME NEW h \in Thread, StartSync(h) \/ EndSync(h) PROVE IInv'
  BY <1>5, ThreadInv
<1>6. CASE Restart
  BY <1>6, RestartInv
<1>7. CASE UNCHANGED vars
  BY <1>7, StutterInv
<1> QED
  BY <1>1, <1>2, <1>3, <1>4, <1>5, <1>6, <1>7 DEF Next

-----------------------------------------------------------------------------
(* Theorems *)

\* The inductive invariant: one synchronisation of the type at a time lists and writes,
\* and what it has listed since a task's action was accepted the task's history holds.
THEOREM Invariance == Spec => []IInv
<1> QED
  BY InitIInv, NextIInv, PTL DEF Spec

\* The rows, the lock, the synchronisations and the tasks keep their types.
THEOREM TypeCorrect == Spec => []TypeOK
<1>1. IInv => TypeOK
  BY DEF IInv
<1> QED
  BY <1>1, Invariance, PTL

\* best_effort_post_action_sync records a success only if the provider's list showed the
\* effect since the action was accepted, if the task's own sync_resource_type succeeded
\* and nobody changes the address of the server.
THEOREM SuccessIsEvidence == Spec => []OwnSyncIsEvidence
<1>1. IInv => OwnSyncIsEvidence
  BY DEF IInv, Proves, Undisturbed, OwnSyncIsEvidence
<1> QED
  BY <1>1, Invariance, PTL

\* An address that apply_confirmed_ecs_private_ip has put into a row is shown until its
\* fifteen minutes are over, through every commit of a list that still has the old one.
THEOREM PromisedIsShown == Spec => []ConfirmedIpShown
<1>1. IInv => ConfirmedIpShown
  BY DEF IInv, Promise, ConfirmedIpShown
<1> QED
  BY <1>1, Invariance, PTL
=============================================================================
