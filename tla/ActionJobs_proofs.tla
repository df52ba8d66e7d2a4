-------------------------- MODULE ActionJobs_proofs -------------------------
(***************************************************************************)
(* Proofs about ActionJobs, for every set of accounts, resources, jobs and *)
(* handlers, every MaxAttempts, BatchLimit and number of restarts.         *)
(*                                                                         *)
(* One lemma per action shows that IInv is preserved; under it, one step   *)
(* per conjunct of IInv that the action can disturb.  The second part      *)
(* shows that ActionJobs implements JobLifecycle.                          *)
(***************************************************************************)
EXTENDS ActionJobsInv, TLAPS

LEMMA InitIInv == Init => IInv
<1> SUFFICES ASSUME Init PROVE IInv
  OBVIOUS
<1>1. TypeOK
  BY MaxFaultsAssumption
  DEF Init, TypeOK, Row, NoRow, JobRow, NoJobRow, WorkerRecord, Idle,
      CurrentRecord, NoCurrent, RequestRecord, Status
<1>2. SyncExclusive /\ GuardInv
  BY DEF Init, SyncExclusive, GuardInv, Idle, NoCurrent, Worker
<1>3. RequestInv /\ SinceInv /\ JobInv
  BY DEF Init, RequestInv, SinceInv, JobInv, NoCurrent, NoJobRow, FinalStatus, IsOpen
<1>4. AttemptInv
  BY MaxAttemptsAssumption DEF Init, AttemptInv, AttemptsBounded, NoCurrent, NoJobRow
<1>5. RowInv /\ EvidenceInv /\ ConfirmedByEvidence
  BY DEF Init, RowInv, EvidenceInv, ConfirmedByEvidence, NoCurrent, NoJobRow, NoRow
<1> QED
  BY <1>1, <1>2, <1>3, <1>4, <1>5 DEF IInv

\* Steps that change only accounts or pending disturb nothing but the types.
LEMMA Undisturbed ==
  ASSUME IInv, TypeOK',
         UNCHANGED <<rows, jobs, due, cloud, request, syncing, worker, batch,
                     current, faults, since>>
  PROVE  IInv'
<1>1. SyncExclusive' /\ GuardInv' /\ RequestInv' /\ SinceInv'
  BY DEF IInv, SyncExclusive, GuardInv, RequestInv, SinceInv
<1>2. JobInv' /\ AttemptInv' /\ RowInv'
  BY DEF IInv, JobInv, IsOpen, AttemptInv, AttemptsBounded, RowInv
<1>3. EvidenceInv' /\ ConfirmedByEvidence'
  BY DEF IInv, EvidenceInv, ConfirmedByEvidence
<1> QED
  BY <1>1, <1>2, <1>3 DEF IInv

\* The evidence is about the job in hand alone, and more may have been shown of it.
LEMMA SameEvidence ==
  ASSUME current \in CurrentRecord, EvidenceInv, UNCHANGED <<rows, worker, current>>,
         \A k \in Job : k = current.job =>
           /\ jobs'[k] = jobs[k]
           /\ request'[k].res = request[k].res /\ request'[k].action = request[k].action
           /\ since[k] \subseteq since'[k]
  PROVE  EvidenceInv'
<1>1. CASE current.job = None
  BY <1>1 DEF EvidenceInv
<1>2. CASE current.job # None
  <2> DEFINE j == current.job
             Shows(shown, status) ==
               status \in shown \/ (status = "absent" /\ "omitted" \in shown)
  <2>1. /\ j \in Job /\ current'.job = j /\ jobs'[j] = jobs[j]
        /\ request'[j].res = request[j].res /\ request'[j].action = request[j].action
        /\ since[j] \subseteq since'[j]
    BY <1>2 DEF CurrentRecord
  <2>2. \A status : Shows(since[j], status) => Shows(since'[j], status)
    BY <2>1
  <2> QED
    BY <1>2, <2>1, <2>2 DEF EvidenceInv
<1> QED
  BY <1>1, <1>2

LEMMA AccountIInv ==
  ASSUME IInv, NEW a \in Account, CreateAccount(a)
  PROVE  IInv'
<1>1. TypeOK'
  BY DEF IInv, TypeOK, CreateAccount, memory, history
<1> QED
  BY <1>1, Undisturbed DEF CreateAccount, memory, history

LEMMA DeleteAccountIInv ==
  ASSUME IInv, NEW a \in Account, DeleteAccount(a)
  PROVE  IInv'
<1>1. TypeOK'
  BY DEF IInv, TypeOK, DeleteAccount, Row, NoRow, JobRow, NoJobRow, Status, memory, history
<1>2. SyncExclusive' /\ GuardInv' /\ RequestInv' /\ SinceInv'
  BY DEF IInv, SyncExclusive, GuardInv, RequestInv, SinceInv, DeleteAccount, memory, history
<1>3. \A j \in Job : /\ request[j].account # a => jobs'[j] = jobs[j]
                     /\ jobs'[j] = jobs[j] \/ (jobs'[j].status = "none" /\ jobs'[j].attempts = 0)
  BY DEF DeleteAccount, NoJobRow
<1>4. JobInv'
  <2>1. \A j \in due' : IsOpen(j)'
    BY <1>3 DEF IInv, TypeOK, JobInv, DeleteAccount, IsOpen
  <2>2. \A j \in batch : jobs'[j].status \notin FinalStatus
    BY <1>3 DEF IInv, TypeOK, JobInv, FinalStatus
  <2>3. current.job # None => jobs'[current.job].status \notin FinalStatus
    BY <1>3 DEF IInv, TypeOK, CurrentRecord, JobInv, FinalStatus
  <2> QED
    BY <1>3, <2>1, <2>2, <2>3 DEF IInv, JobInv, DeleteAccount, memory, history
<1>5. AttemptInv'
  <2>1. faults \in Nat
    BY MaxFaultsAssumption DEF IInv, TypeOK
  <2>2. 0 < MaxAttempts + faults
    BY <2>1, MaxAttemptsAssumption
  <2> QED
    BY <1>3, <2>1, <2>2, MaxAttemptsAssumption
    DEF IInv, TypeOK, CurrentRecord, AttemptInv, AttemptsBounded, DeleteAccount, memory, history
<1>6. RowInv'
  BY DEF IInv, TypeOK, RowInv, DeleteAccount, NoRow
<1>7. EvidenceInv'
  <2>1. CASE current.job # None /\ request[current.job].account = a
    <3>1. jobs'[current.job].status = "none"
      BY <2>1, SMTT(30) DEF IInv, TypeOK, CurrentRecord, DeleteAccount, NoJobRow
    <3> QED
      BY <2>1, <3>1 DEF IInv, EvidenceInv, DeleteAccount, memory, history
  <2>2. CASE current.job # None /\ request[current.job].account # a
    <3>1. jobs'[current.job] = jobs[current.job]
      BY <1>3, <2>2 DEF IInv, TypeOK, CurrentRecord
    <3>2. worker["jobs"].pc # "idle" => rows'[worker["jobs"].account] = rows[worker["jobs"].account]
      BY <2>2 DEF IInv, TypeOK, GuardInv, DeleteAccount, Worker
    <3> QED
      BY <2>2, <3>1, <3>2 DEF IInv, EvidenceInv, DeleteAccount, memory, history
  <2>3. CASE current.job = None
    BY <2>3 DEF EvidenceInv, DeleteAccount, memory
  <2> QED
    BY <2>1, <2>2, <2>3
<1>8. ConfirmedByEvidence'
  <2> SUFFICES ASSUME NEW j \in Job, jobs'[j].status = "completed",
                      request[j].action # "create_unnamed"
               PROVE  since[j] \cap Evidence(request[j].action) # {}
    BY DEF ConfirmedByEvidence, DeleteAccount, memory, history
  <2> QED
    BY <1>3 DEF IInv, ConfirmedByEvidence
<1> QED
  BY <1>1, <1>2, <1>4, <1>5, <1>6, <1>7, <1>8 DEF IInv

LEMMA ReceiveActionIInv ==
  ASSUME IInv, NEW j \in Job, NEW a \in Account, NEW r \in Res, NEW act \in Action,
         ReceiveAction(j, a, r, act)
  PROVE  IInv'
<1>1. TypeOK'
  BY DEF IInv, TypeOK, ReceiveAction, RequestRecord, store, history
<1>2. SyncExclusive' /\ AttemptInv' /\ RowInv'
  BY DEF IInv, SyncExclusive, AttemptInv, AttemptsBounded, RowInv, ReceiveAction, store, history
<1>3. RequestInv' /\ SinceInv'
  BY DEF IInv, TypeOK, RequestInv, SinceInv, ReceiveAction, store, history
<1>4. GuardInv' /\ JobInv'
  BY SMTT(30) DEF IInv, TypeOK, GuardInv, JobInv, IsOpen, ReceiveAction, store, history
<1>5. EvidenceInv' /\ ConfirmedByEvidence'
  <2>1. /\ UNCHANGED <<jobs, rows, worker, current, since>>
        /\ \A k \in Job : k # j => request'[k] = request[k]
    BY DEF IInv, TypeOK, ReceiveAction, store, history
  <2>2. jobs[j].status = "none" /\ j # current.job
    BY NoneAssumption DEF IInv, JobInv, ReceiveAction
  <2>3. current \in CurrentRecord /\ EvidenceInv /\ ConfirmedByEvidence
    BY DEF IInv, TypeOK
  <2>4. EvidenceInv'
    BY <2>1, <2>2, <2>3, SameEvidence
  <2>5. ConfirmedByEvidence'
    BY <2>1, <2>2, <2>3 DEF ConfirmedByEvidence
  <2> QED
    BY <2>4, <2>5
<1> QED
  BY <1>1, <1>2, <1>3, <1>4, <1>5 DEF IInv

LEMMA ProviderAcceptsIInv ==
  ASSUME IInv, NEW j \in Job, ProviderAccepts(j)
  PROVE  IInv'
<1>1. cloud[request[j].account][request[j].res] \in Status
  BY DEF IInv, TypeOK, RequestInv, ProviderAccepts
<1>2. TypeOK'
  BY <1>1, ZenonT(40) DEF IInv, TypeOK, ProviderAccepts, RequestRecord, store, Shown
<1>3. SyncExclusive' /\ AttemptInv' /\ RowInv'
  BY DEF IInv, SyncExclusive, AttemptInv, AttemptsBounded, RowInv, ProviderAccepts, store
<1>4. RequestInv' /\ SinceInv'
  BY DEF IInv, TypeOK, RequestInv, SinceInv, ProviderAccepts, store
<1>5. GuardInv' /\ JobInv'
  BY DEF IInv, TypeOK, GuardInv, JobInv, IsOpen, ProviderAccepts, store
<1>6. EvidenceInv' /\ ConfirmedByEvidence'
  <2>1. \A k \in Job : k # j => /\ since'[k] = since[k]
                                /\ request'[k] = request[k]
    BY DEF IInv, TypeOK, ProviderAccepts
  <2>2. jobs[j].status = "none" /\ j # current.job
    BY NoneAssumption DEF IInv, JobInv, ProviderAccepts
  <2>3. EvidenceInv'
    <3>1. current \in CurrentRecord /\ EvidenceInv
      BY DEF IInv, TypeOK
    <3>2. UNCHANGED <<jobs, rows, worker, current>>
      BY DEF ProviderAccepts, store
    <3> QED
      BY <2>1, <2>2, <3>1, <3>2, SameEvidence
  <2>4. ConfirmedByEvidence'
    BY <2>1, <2>2 DEF IInv, ConfirmedByEvidence, ProviderAccepts, store
  <2> QED
    BY <2>3, <2>4
<1> QED
  BY <1>2, <1>3, <1>4, <1>5, <1>6 DEF IInv

LEMMA RequestEndsIInv ==
  ASSUME IInv, NEW j \in Job, ProviderRejects(j) \/ CreateActionJobFails(j)
  PROVE  IInv'
<1>1. /\ request' = [request EXCEPT ![j].pc = "done"]
      /\ request[j].pc \in {"called", "accepted"}
      /\ UNCHANGED <<store, cloud, syncing, worker, batch, current, pending, history>>
  BY DEF ProviderRejects, CreateActionJobFails
<1>2. TypeOK'
  BY <1>1, ZenonT(40) DEF IInv, TypeOK, RequestRecord, store, history
<1>3. SyncExclusive' /\ AttemptInv' /\ RowInv'
  BY <1>1 DEF IInv, SyncExclusive, AttemptInv, AttemptsBounded, RowInv, store, history
<1>4. RequestInv' /\ SinceInv'
  BY <1>1 DEF IInv, TypeOK, RequestInv, SinceInv, store, history
<1>5. GuardInv' /\ JobInv'
  BY <1>1 DEF IInv, TypeOK, GuardInv, JobInv, IsOpen, store, history
<1>6. EvidenceInv' /\ ConfirmedByEvidence'
  <2>1. /\ UNCHANGED <<jobs, rows, worker, current, since>>
        /\ \A k \in Job : /\ request'[k].res = request[k].res
                          /\ request'[k].action = request[k].action
    BY <1>1 DEF IInv, TypeOK, RequestRecord, store, history
  <2>2. current \in CurrentRecord /\ EvidenceInv /\ ConfirmedByEvidence
    BY DEF IInv, TypeOK
  <2>3. EvidenceInv'
    BY <2>1, <2>2, SameEvidence
  <2>4. ConfirmedByEvidence'
    BY <2>1, <2>2 DEF ConfirmedByEvidence
  <2> QED
    BY <2>3, <2>4
<1> QED
  BY <1>2, <1>3, <1>4, <1>5, <1>6 DEF IInv

LEMMA CreateActionJobIInv ==
  ASSUME IInv, NEW j \in Job, CreateActionJob(j)
  PROVE  IInv'
<1>1. j \notin batch /\ j # current.job /\ j \notin due /\ since[j] # {}
  BY NoneAssumption DEF IInv, JobInv, IsOpen, OpenStatus, SinceInv, CreateActionJob
<1>2. TypeOK'
  BY ZenonT(40) DEF IInv, TypeOK, CreateActionJob, RequestRecord, JobRow, OpenStatus, history
<1>3. SyncExclusive' /\ RowInv'
  BY DEF IInv, SyncExclusive, RowInv, CreateActionJob, history
<1>4. RequestInv' /\ SinceInv'
  BY DEF IInv, TypeOK, RequestInv, SinceInv, CreateActionJob, history
<1>5. GuardInv' /\ JobInv'
  <2>1. \A k \in Job : k # j => jobs'[k] = jobs[k] /\ request'[k] = request[k]
    BY DEF IInv, TypeOK, CreateActionJob
  <2>2. /\ jobs'[j].status = "pending"
        /\ request'[j].pc = "done" /\ request'[j].account = request[j].account
    BY DEF IInv, TypeOK, RequestRecord, CreateActionJob
  <2>3. GuardInv'
    BY <1>1, <2>1 DEF IInv, TypeOK, CurrentRecord, GuardInv, CreateActionJob
  <2>4. JobInv'
    <3>1. \A k \in Job : jobs'[k].status # "none" => request'[k].pc = "done" /\ since'[k] # {}
      BY <1>1, <2>1, <2>2 DEF IInv, JobInv, CreateActionJob, history
    <3>2. \A k \in due' : IsOpen(k)'
      BY <1>1, <2>1 DEF IInv, TypeOK, JobInv, IsOpen, CreateActionJob
    <3>3. \A k \in batch' : /\ jobs'[k].status \notin FinalStatus
                            /\ request'[k].pc = "done" /\ since'[k] # {}
                            /\ k # current.job
      BY <1>1, <2>1 DEF IInv, TypeOK, JobInv, CreateActionJob, history
    <3>4. current.job # None =>
            /\ jobs'[current.job].status \notin FinalStatus
            /\ request'[current.job].pc = "done" /\ since'[current.job] # {}
      BY <1>1, <2>1 DEF IInv, TypeOK, CurrentRecord, JobInv, CreateActionJob, history
    <3> QED
      BY <3>1, <3>2, <3>3, <3>4 DEF JobInv, CreateActionJob
  <2> QED
    BY <2>3, <2>4
<1>6. AttemptInv'
  <2>1. faults \in Nat /\ 0 < MaxAttempts + faults
    BY MaxAttemptsAssumption, MaxFaultsAssumption DEF IInv, TypeOK
  <2> QED
    BY <1>1, <2>1, MaxAttemptsAssumption
    DEF IInv, TypeOK, CurrentRecord, AttemptInv, AttemptsBounded, CreateActionJob, history
<1>7. EvidenceInv' /\ ConfirmedByEvidence'
  <2>1. \A k \in Job : /\ request'[k].res = request[k].res
                       /\ request'[k].action = request[k].action
                       /\ k # j => jobs'[k] = jobs[k]
    BY DEF IInv, TypeOK, RequestRecord, CreateActionJob
  <2>2. EvidenceInv'
    <3>1. current \in CurrentRecord /\ EvidenceInv
      BY DEF IInv, TypeOK
    <3>2. UNCHANGED <<rows, worker, current, since>>
      BY DEF CreateActionJob, history
    <3> QED
      BY <1>1, <2>1, <3>1, <3>2, SameEvidence
  <2>3. ConfirmedByEvidence'
    <3>1. jobs'[j].status = "pending"
      BY DEF IInv, TypeOK, CreateActionJob
    <3> QED
      BY <2>1, <3>1 DEF IInv, ConfirmedByEvidence, CreateActionJob, history
  <2> QED
    BY <2>2, <2>3
<1> QED
  BY <1>2, <1>3, <1>4, <1>5, <1>6, <1>7 DEF IInv

LEMMA ProviderChangeIInv ==
  ASSUME IInv, NEW a \in Account, NEW r \in Res, NEW s \in Status, ProviderChange(a, r, s)
  PROVE  IInv'
<1>1. \A j \in Job : /\ since[j] \subseteq since'[j]
                     /\ since[j] = {} <=> since'[j] = {}
                     /\ since'[j] \subseteq Shown
  BY DEF IInv, TypeOK, ProviderChange, Shown
<1>2. TypeOK'
  BY <1>1 DEF IInv, TypeOK, ProviderChange, store, memory
<1>3. SyncExclusive' /\ GuardInv' /\ AttemptInv' /\ RowInv'
  BY DEF IInv, SyncExclusive, GuardInv, AttemptInv, AttemptsBounded, RowInv,
         ProviderChange, store, memory
<1>4. RequestInv' /\ JobInv'
  BY <1>1 DEF IInv, TypeOK, RequestInv, JobInv, IsOpen, CurrentRecord, ProviderChange,
              store, memory
<1>5. SinceInv'
  BY <1>1 DEF IInv, TypeOK, RequestInv, SinceInv, ProviderChange, store, memory
<1>6. EvidenceInv'
  <2>1. current \in CurrentRecord /\ EvidenceInv
    BY DEF IInv, TypeOK
  <2>2. UNCHANGED <<jobs, rows, request, worker, current>>
    BY DEF ProviderChange, store, memory
  <2> QED
    BY <1>1, <2>1, <2>2, SameEvidence
<1>7. ConfirmedByEvidence'
  BY <1>1 DEF IInv, ConfirmedByEvidence, ProviderChange, store, memory
<1> QED
  BY <1>2, <1>3, <1>4, <1>5, <1>6, <1>7 DEF IInv

LEMMA BecomeDueIInv ==
  ASSUME IInv, NEW j \in Job, BecomeDue(j)
  PROVE  IInv'
<1>1. TypeOK'
  BY DEF IInv, TypeOK, BecomeDue, memory, history
<1>2. SyncExclusive' /\ GuardInv' /\ RequestInv' /\ SinceInv' /\ AttemptInv'
  BY DEF IInv, SyncExclusive, GuardInv, RequestInv, SinceInv, AttemptInv,
         AttemptsBounded, BecomeDue, memory, history
<1>3. JobInv'
  BY DEF IInv, JobInv, BecomeDue, IsOpen, memory, history
<1>4. RowInv' /\ EvidenceInv' /\ ConfirmedByEvidence'
  BY DEF IInv, RowInv, EvidenceInv, ConfirmedByEvidence, BecomeDue, memory, history
<1> QED
  BY <1>1, <1>2, <1>3, <1>4 DEF IInv

-----------------------------------------------------------------------------
(* Synchronisation.  What the steps of a worker have in common: the account it *)
(* works on and the guard stay as they are.                                    *)

LEMMA WorkerStep ==
  ASSUME IInv, NEW w \in Worker, worker[w].pc # "idle",
         NEW rec \in WorkerRecord, worker' = [worker EXCEPT ![w] = rec],
         rec.account = worker[w].account,
         UNCHANGED <<accounts, jobs, due, cloud, request, syncing, batch, current,
                     pending, faults, since>>,
         rows' \in [Account -> [Res -> Row]], RowInv', EvidenceInv'
  PROVE  IInv'
<1>1. TypeOK'
  BY DEF IInv, TypeOK
<1>2. SyncExclusive' /\ GuardInv'
  BY DEF IInv, TypeOK, SyncExclusive, GuardInv, Worker
<1>3. RequestInv' /\ SinceInv' /\ JobInv' /\ AttemptInv'
  BY SMTT(30) DEF IInv, RequestInv, SinceInv, JobInv, IsOpen, AttemptInv, AttemptsBounded
<1>4. ConfirmedByEvidence'
  BY DEF IInv, ConfirmedByEvidence
<1> QED
  BY <1>1, <1>2, <1>3, <1>4 DEF IInv

\* The evidence of the job loop's worker is about the rows of its own account.
LEMMA OtherWorker ==
  ASSUME IInv, NEW w \in Worker, w # "jobs", worker[w].pc # "idle",
         NEW rec, worker' = [worker EXCEPT ![w] = rec],
         UNCHANGED <<jobs, request, current, since>>,
         NEW table, rows' = rows \/ rows' = [rows EXCEPT ![worker[w].account] = table]
  PROVE  EvidenceInv'
<1>1. worker'["jobs"] = worker["jobs"]
  BY DEF IInv, TypeOK, Worker
<1>2. worker["jobs"].pc # "idle" =>
        /\ worker["jobs"].account \in Account
        /\ rows'[worker["jobs"].account] = rows[worker["jobs"].account]
  BY DEF IInv, TypeOK, SyncExclusive, GuardInv, Worker
<1> QED
  BY <1>1, <1>2 DEF IInv, EvidenceInv

LEMMA ReadAccountIInv ==
  ASSUME IInv, NEW w \in Worker, ReadAccount(w) \/ AccountMissing(w)
  PROVE  IInv'
<1>1. PICK rec \in WorkerRecord :
        /\ worker' = [worker EXCEPT ![w] = rec]
        /\ rec.account = worker[w].account
        /\ \/ rec.pc = "list" /\ rec.list = worker[w].list
           \/ rec.pc = "end" /\ rec.ok = FALSE
  <2>1. CASE ReadAccount(w)
    <3> DEFINE rec == [worker[w] EXCEPT !.pc = "list"]
    <3>1. rec \in WorkerRecord /\ rec.account = worker[w].account
          /\ rec.pc = "list" /\ rec.list = worker[w].list
      BY DEF IInv, TypeOK, WorkerRecord
    <3> QED
      BY <2>1, <3>1 DEF ReadAccount
  <2>2. CASE AccountMissing(w)
    <3> DEFINE rec == [worker[w] EXCEPT !.pc = "end", !.ok = FALSE]
    <3>1. rec \in WorkerRecord /\ rec.account = worker[w].account
          /\ rec.pc = "end" /\ rec.ok = FALSE
      BY DEF IInv, TypeOK, WorkerRecord
    <3>2. worker' = [worker EXCEPT ![w] = rec]
      BY <2>2 DEF AccountMissing, IInv, TypeOK
    <3> QED
      BY <3>1, <3>2
  <2> QED
    BY <2>1, <2>2
<1>2. /\ worker[w].pc = "start"
      /\ UNCHANGED <<store, cloud, request, syncing, batch, current, pending, history>>
  BY SMTT(30) DEF ReadAccount, AccountMissing
<1>3. EvidenceInv'
  <2>1. UNCHANGED <<jobs, rows, request, current, since>>
    BY <1>2 DEF store, history
  <2>2. CASE w = "jobs"
    <3>1. worker'["jobs"] = rec
      BY <1>1, <2>2 DEF IInv, TypeOK
    <3>2. EvidenceInv
      BY DEF IInv
    <3> QED
      BY <1>1, <1>2, <2>1, <2>2, <3>1, <3>2 DEF EvidenceInv
  <2>3. CASE w # "jobs"
    BY <1>1, <1>2, <2>1, <2>3, OtherWorker
  <2> QED
    BY <2>2, <2>3
<1>4. RowInv' /\ rows' \in [Account -> [Res -> Row]]
  BY <1>2 DEF IInv, TypeOK, RowInv, store
<1> QED
  BY <1>1, <1>2, <1>3, <1>4, WorkerStep DEF store, history

LEMMA ListPageIInv ==
  ASSUME IInv, NEW w \in Worker, NEW r \in Res, ListPage(w, r)
  PROVE  IInv'
<1>1. worker[w].account \in Account
  BY DEF IInv, TypeOK, GuardInv, ListPage
<1> DEFINE rec == [worker[w] EXCEPT !.list[r] = cloud[worker[w].account][r]]
<1>2. /\ rec \in WorkerRecord
      /\ rec.account = worker[w].account /\ rec.pc = "list"
      /\ rec.list = [worker[w].list EXCEPT ![r] = cloud[worker[w].account][r]]
  <2>1. worker[w] \in WorkerRecord /\ worker[w].list \in [Res -> Status \cup {None}]
    BY DEF IInv, TypeOK, WorkerRecord
  <2>2. cloud[worker[w].account][r] \in Status
    BY <1>1 DEF IInv, TypeOK
  <2>3. rec = [pc |-> worker[w].pc, account |-> worker[w].account, ok |-> worker[w].ok,
               list |-> [worker[w].list EXCEPT ![r] = cloud[worker[w].account][r]]]
    BY <2>1 DEF WorkerRecord
  <2> QED
    BY <2>1, <2>2, <2>3 DEF WorkerRecord, ListPage
<1>3. /\ worker' = [worker EXCEPT ![w] = rec]
      /\ UNCHANGED <<store, cloud, request, syncing, batch, current, pending, history>>
  BY DEF ListPage
<1>4. EvidenceInv'
  <2>1. CASE w = "jobs"
    <3>0. GuardInv /\ JobInv /\ current \in CurrentRecord /\ worker[w].pc = "list"
      BY DEF IInv, TypeOK, ListPage
    <3>1. /\ current.job \in Job /\ since[current.job] # {}
          /\ worker[w].account = request[current.job].account
      BY <2>1, <3>0 DEF CurrentRecord, GuardInv, JobInv
    <3>2. cloud[worker[w].account][request[current.job].res] \in since[current.job]
      BY <3>1 DEF IInv, SinceInv
    <3>3. /\ worker'["jobs"].pc = "list"
          /\ worker'["jobs"].list = [worker[w].list EXCEPT ![r] = cloud[worker[w].account][r]]
          /\ worker[w].list \in [Res -> Status \cup {None}]
      BY <1>2, <1>3, <2>1 DEF IInv, TypeOK, WorkerRecord
    <3>4. request[current.job].res \in Res
      BY <3>1 DEF IInv, RequestInv
    <3>5. UNCHANGED <<jobs, rows, request, current, since>>
      BY <1>3 DEF store, history
    <3>6. EvidenceInv
      BY DEF IInv
    <3>7. worker'["jobs"].list[request[current.job].res] # None =>
            \/ worker'["jobs"].list[request[current.job].res] \in since[current.job]
            \/ worker["jobs"].list[request[current.job].res] # None
               /\ worker'["jobs"].list[request[current.job].res]
                    = worker["jobs"].list[request[current.job].res]
      BY <2>1, <3>2, <3>3, <3>4
    <3> QED
      BY <2>1, <3>0, <3>3, <3>5, <3>6, <3>7 DEF EvidenceInv
  <2>2. CASE w # "jobs"
    BY <1>3, <2>2, OtherWorker DEF ListPage, store, history
  <2> QED
    BY <2>1, <2>2
<1>5. RowInv' /\ rows' \in [Account -> [Res -> Row]]
  BY <1>3 DEF IInv, TypeOK, RowInv, store
<1>6. worker[w].pc # "idle"
  BY DEF ListPage
<1> HIDE DEF rec
<1> QED
  BY <1>2, <1>3, <1>4, <1>5, <1>6, WorkerStep DEF store, history

\* A resource left out of the list counts as absent, and as shown to the loop's job.
LEMMA ListOmitsIInv ==
  ASSUME IInv, NEW w \in Worker, NEW r \in Res, ListOmits(w, r)
  PROVE  IInv'
<1> DEFINE rec == [worker[w] EXCEPT !.list[r] = "absent"]
<1>1. /\ rec \in WorkerRecord
      /\ rec.account = worker[w].account /\ rec.pc = "list"
      /\ rec.list = [worker[w].list EXCEPT ![r] = "absent"]
  <2>1. worker[w] \in WorkerRecord /\ worker[w].list \in [Res -> Status \cup {None}]
    BY DEF IInv, TypeOK, WorkerRecord
  <2>2. rec = [pc |-> worker[w].pc, account |-> worker[w].account, ok |-> worker[w].ok,
               list |-> [worker[w].list EXCEPT ![r] = "absent"]]
    BY <2>1 DEF WorkerRecord
  <2> QED
    BY <2>1, <2>2 DEF WorkerRecord, ListOmits, Status
<1>2. /\ worker' = [worker EXCEPT ![w] = rec] /\ worker[w].pc = "list"
      /\ UNCHANGED <<accounts, rows, jobs, due, cloud, request, syncing, batch, current,
                     pending, faults>>
  BY DEF ListOmits, store
<1>3. w = "jobs" => current.job \in Job /\ since[current.job] # {}
  BY <1>2 DEF IInv, TypeOK, CurrentRecord, GuardInv, JobInv
<1>4. /\ since' \in [Job -> SUBSET Shown]
      /\ \A j \in Job : since[j] \subseteq since'[j] /\ (since[j] = {} <=> since'[j] = {})
      /\ w # "jobs" => since' = since
      /\ w = "jobs" /\ request[current.job].res = r => "omitted" \in since'[current.job]
  BY <1>3, SMTT(30) DEF IInv, TypeOK, ListOmits, Shown
<1>5. EvidenceInv'
  <2>1. CASE w = "jobs"
    <3>1. /\ worker'["jobs"].pc = "list"
          /\ worker'["jobs"].list = [worker[w].list EXCEPT ![r] = "absent"]
          /\ worker[w].list \in [Res -> Status \cup {None}]
      BY <1>1, <1>2, <2>1 DEF IInv, TypeOK, WorkerRecord
    <3>2. request[current.job].res \in Res
      BY <1>3, <2>1 DEF IInv, RequestInv
    <3>3. EvidenceInv /\ worker["jobs"].pc = "list"
      BY <1>2, <2>1 DEF IInv
    <3>4. /\ UNCHANGED <<jobs, rows, request, current>>
          /\ since[current.job] \subseteq since'[current.job]
      BY <1>2, <1>3, <1>4, <2>1
    <3>5. \/ worker'["jobs"].list[request[current.job].res]
               = worker["jobs"].list[request[current.job].res]
          \/ /\ worker'["jobs"].list[request[current.job].res] = "absent"
             /\ "omitted" \in since'[current.job]
      BY <1>4, <2>1, <3>1, <3>2
    <3> QED
      BY <3>1, <3>3, <3>4, <3>5 DEF EvidenceInv
  <2>2. CASE w # "jobs"
    BY <1>2, <1>4, <2>2, OtherWorker
  <2> QED
    BY <2>1, <2>2
<1> HIDE DEF rec
<1>6. TypeOK'
  BY <1>1, <1>2, <1>4 DEF IInv, TypeOK
<1>7. SyncExclusive' /\ GuardInv'
  BY <1>1, <1>2 DEF IInv, TypeOK, SyncExclusive, GuardInv, Worker
<1>8. RequestInv' /\ SinceInv' /\ JobInv'
  BY <1>2, <1>4 DEF IInv, TypeOK, CurrentRecord, RequestInv, SinceInv, JobInv, IsOpen
<1>9. AttemptInv' /\ RowInv' /\ ConfirmedByEvidence'
  BY <1>2, <1>4 DEF IInv, AttemptInv, AttemptsBounded, RowInv, ConfirmedByEvidence
<1> QED
  BY <1>5, <1>6, <1>7, <1>8, <1>9 DEF IInv

LEMMA MarkStaleType ==
  ASSUME NEW table \in [Res -> Row]
  PROVE  /\ MarkStale(table) \in [Res -> Row]
         /\ \A r \in Res : ~MarkStale(table)[r].fresh
  BY DEF MarkStale, Row

LEMMA ListFailsIInv ==
  ASSUME IInv, NEW w \in Worker, NEW recorded \in BOOLEAN, ListFails(w, recorded)
  PROVE  IInv'
<1>1. worker[w].account \in Account
  BY DEF IInv, TypeOK, GuardInv, ListFails
<1> DEFINE rec == [worker[w] EXCEPT !.pc = "end", !.ok = FALSE]
           table == MarkStale(rows[worker[w].account])
<1>2. /\ rec \in WorkerRecord
      /\ rec.account = worker[w].account /\ rec.pc = "end" /\ rec.ok = FALSE
  BY DEF IInv, TypeOK, WorkerRecord
<1>3. /\ worker' = [worker EXCEPT ![w] = rec]
      /\ rows' = rows \/ rows' = [rows EXCEPT ![worker[w].account] = table]
      /\ UNCHANGED <<accounts, jobs, due, cloud, request, syncing, batch, current,
                     pending, history>>
      /\ worker[w].pc # "idle"
  BY DEF ListFails, IInv, TypeOK
<1>4. /\ table \in [Res -> Row]
      /\ \A r \in Res : ~table[r].fresh
  BY <1>1, MarkStaleType DEF IInv, TypeOK
<1> HIDE DEF rec, table
<1>5. EvidenceInv'
  <2>1. CASE w = "jobs"
    BY <1>2, <1>3, <2>1 DEF IInv, TypeOK, EvidenceInv, history
  <2>2. CASE w # "jobs"
    BY <1>3, <2>2, OtherWorker DEF history
  <2> QED
    BY <2>1, <2>2
<1>6. RowInv' /\ rows' \in [Account -> [Res -> Row]]
  BY <1>1, <1>3, <1>4 DEF IInv, TypeOK, RowInv
<1> QED
  BY <1>2, <1>3, <1>5, <1>6, WorkerStep DEF history

LEMMA WriteRowsIInv ==
  ASSUME IInv, NEW w \in Worker, NEW ok \in BOOLEAN, WriteRows(w, ok)
  PROVE  IInv'
<1>1. worker[w].account \in Account
  BY DEF IInv, TypeOK, GuardInv, WriteRows
<1> DEFINE rec == [worker[w] EXCEPT !.pc = "end", !.ok = ok]
           table == ReplaceResources(worker[w].list)
<1>2. /\ rec \in WorkerRecord
      /\ rec.account = worker[w].account /\ rec.pc = "end"
  BY DEF IInv, TypeOK, WorkerRecord
<1>3. /\ worker' = [worker EXCEPT ![w] = rec]
      /\ rows' = [rows EXCEPT ![worker[w].account] = table]
      /\ UNCHANGED <<accounts, jobs, due, cloud, request, syncing, batch, current,
                     pending, history>>
      /\ worker[w].pc = "list"
  BY DEF WriteRows, IInv, TypeOK
<1>4. /\ table \in [Res -> Row]
      /\ \A r \in Res : table[r].status = worker[w].list[r]
      /\ \A r \in Res : table[r].fresh => table[r].status # "absent"
  BY SMTT(30) DEF IInv, TypeOK, WorkerRecord, WriteRows, ReplaceResources, NoRow, Row, Status
<1>5. EvidenceInv'
  <2>1. CASE w = "jobs"
    <3>1. current.job # None => /\ request[current.job].res \in Res
                                /\ current.job \in Job
      BY DEF IInv, TypeOK, CurrentRecord, JobInv, RequestInv
    <3>2. current.job # None =>
            \/ worker[w].list[request[current.job].res] \in since[current.job]
            \/ /\ worker[w].list[request[current.job].res] = "absent"
               /\ "omitted" \in since[current.job]
      BY <1>3, <2>1, <3>1 DEF IInv, EvidenceInv, WriteRows
    <3>3. /\ worker'["jobs"].account = worker[w].account
          /\ worker'["jobs"].pc = "end"
          /\ rows'[worker[w].account] = table
      BY <1>1, <1>2, <1>3, <2>1 DEF IInv, TypeOK
    <3> QED
      BY <1>3, <1>4, <2>1, <3>1, <3>2, <3>3 DEF IInv, EvidenceInv, history
  <2>2. CASE w # "jobs"
    BY <1>3, <2>2, OtherWorker DEF history
  <2> QED
    BY <2>1, <2>2
<1>6. RowInv' /\ rows' \in [Account -> [Res -> Row]]
  BY <1>1, <1>3, <1>4 DEF IInv, TypeOK, RowInv
<1> HIDE DEF rec, table
<1> QED
  BY <1>2, <1>3, <1>5, <1>6, WorkerStep DEF history

-----------------------------------------------------------------------------
(* Claiming and releasing an account *)

LEMMA ClaimLemma ==
  ASSUME IInv, NEW w \in Worker, NEW a \in Account, Claim(w, a), worker[w].pc = "idle"
  PROVE  /\ syncing' \subseteq Account
         /\ worker' \in [Worker -> WorkerRecord]
         /\ \A v \in Worker : v # w => worker'[v] = worker[v]
         /\ worker'[w].pc = "start" /\ worker'[w].account = a
         /\ \A r \in Res : worker'[w].list[r] = None
         /\ SyncExclusive'
         /\ \A v \in Worker : worker'[v].pc # "idle" => worker'[v].account \in syncing'
<1> DEFINE rec == [Idle EXCEPT !.pc = "start", !.account = a]
<1>1. /\ rec \in WorkerRecord /\ rec.pc = "start" /\ rec.account = a
      /\ \A r \in Res : rec.list[r] = None
  BY DEF Idle, WorkerRecord
<1>2. /\ worker' = [worker EXCEPT ![w] = rec] /\ worker \in [Worker -> WorkerRecord]
      /\ syncing' = syncing \cup {a} /\ a \notin syncing /\ syncing \subseteq Account
  BY DEF Claim, IInv, TypeOK
<1> HIDE DEF rec
<1>3. \A v \in Worker : v # w => worker'[v] = worker[v]
  BY <1>2
<1>4. worker'[w] = rec
  BY <1>2
<1>5. SyncExclusive'
  BY <1>1, <1>2, <1>3, <1>4 DEF IInv, SyncExclusive, GuardInv
<1>6. \A v \in Worker : worker'[v].pc # "idle" => worker'[v].account \in syncing'
  BY <1>1, <1>2, <1>3, <1>4 DEF IInv, GuardInv
<1> QED
  BY <1>1, <1>2, <1>3, <1>4, <1>5, <1>6

LEMMA ReleaseLemma ==
  ASSUME IInv, NEW w \in Worker, Release(w), worker[w].pc # "idle"
  PROVE  /\ syncing' \subseteq Account
         /\ worker' \in [Worker -> WorkerRecord]
         /\ \A v \in Worker : v # w => worker'[v] = worker[v]
         /\ worker'[w] = Idle
         /\ SyncExclusive'
         /\ \A v \in Worker : worker'[v].pc # "idle" => worker'[v].account \in syncing'
<1>1. Idle \in WorkerRecord /\ Idle.pc = "idle"
  BY DEF Idle, WorkerRecord
<1>2. /\ worker' = [worker EXCEPT ![w] = Idle] /\ worker \in [Worker -> WorkerRecord]
      /\ syncing' = syncing \ {worker[w].account} /\ syncing \subseteq Account
  BY DEF Release, IInv, TypeOK
<1>3. \A v \in Worker : v # w => worker'[v] = worker[v]
  BY <1>2
<1>4. worker'[w] = Idle
  BY <1>2
<1>5. SyncExclusive'
  BY <1>1, <1>3, <1>4 DEF IInv, SyncExclusive
<1>6. \A v \in Worker : worker'[v].pc # "idle" => worker'[v].account \in syncing'
  BY <1>1, <1>2, <1>3, <1>4 DEF IInv, GuardInv, SyncExclusive
<1> QED
  BY <1>1, <1>2, <1>3, <1>4, <1>5, <1>6

\* A worker other than the job loop's claims or releases an account.
LEMMA OtherClaimOrRelease ==
  ASSUME IInv, NEW w \in Worker, w # "jobs",
         \/ \E a \in Account : Claim(w, a) /\ worker[w].pc = "idle"
         \/ Release(w) /\ worker[w].pc # "idle",
         UNCHANGED <<accounts, rows, jobs, due, cloud, request, batch, current, faults, since>>,
         pending' \subseteq Account
  PROVE  IInv'
<1>1. /\ syncing' \subseteq Account
      /\ worker' \in [Worker -> WorkerRecord]
      /\ worker'["jobs"] = worker["jobs"]
      /\ SyncExclusive'
      /\ \A v \in Worker : worker'[v].pc # "idle" => worker'[v].account \in syncing'
  BY ClaimLemma, ReleaseLemma DEF Worker
<1>2. TypeOK'
  BY <1>1 DEF IInv, TypeOK
<1>3. GuardInv'
  BY <1>1 DEF IInv, GuardInv
<1>4. RequestInv' /\ SinceInv' /\ JobInv' /\ AttemptInv' /\ RowInv' /\ ConfirmedByEvidence'
  BY DEF IInv, RequestInv, SinceInv, JobInv, IsOpen, AttemptInv, AttemptsBounded, RowInv,
         ConfirmedByEvidence
<1>5. EvidenceInv'
  BY <1>1 DEF IInv, EvidenceInv
<1> QED
  BY <1>1, <1>2, <1>3, <1>4, <1>5 DEF IInv

LEMMA HandlerSyncIInv ==
  ASSUME IInv, NEW h \in Handler, NEW a \in Account, HandlerSync(h, a)
  PROVE  IInv'
<1>1. h \in Worker /\ h # "jobs"
  BY WorkerAssumption DEF Worker
<1> QED
  BY <1>1, OtherClaimOrRelease DEF HandlerSync, IInv, TypeOK, store, history

LEMMA BackgroundIInv ==
  ASSUME IInv, BackgroundStep
  PROVE  IInv'
<1>1. CASE BackgroundPass
  <2>1. TypeOK'
    BY <1>1 DEF IInv, TypeOK, BackgroundPass, store, history
  <2> QED
    BY <1>1, <2>1, Undisturbed DEF BackgroundPass, store, history
<1>2. ASSUME NEW a \in Account, BackgroundSync(a) PROVE IInv'
  BY <1>2, OtherClaimOrRelease DEF BackgroundSync, IInv, TypeOK, Worker, store, history
<1>3. ASSUME NEW a \in Account, BackgroundSkip(a) PROVE IInv'
  <2>1. TypeOK'
    BY <1>3 DEF IInv, TypeOK, BackgroundSkip, store, history
  <2> QED
    BY <1>3, <2>1, Undisturbed DEF BackgroundSkip, store, history
<1> QED
  BY <1>1, <1>2, <1>3 DEF BackgroundStep

LEMMA FinishSyncIInv ==
  ASSUME IInv, NEW w \in Worker, FinishSync(w)
  PROVE  IInv'
BY OtherClaimOrRelease DEF FinishSync, IInv, TypeOK, store, history

-----------------------------------------------------------------------------
(* The job loop *)

\* An UpdateActionJob of the loop, or its failure: the row changes as written, or
\* there is no row, or the write is lost and counted.
LEMMA UpdateActionJobLemma ==
  ASSUME IInv, NEW j \in Job, NEW status \in OpenStatus \cup FinalStatus,
         NEW attempts \in Nat,
         \/ UpdateActionJob(j, status, attempts) /\ due' = due \ {j} /\ UNCHANGED faults
         \/ Fault /\ UNCHANGED <<jobs, due>>
  PROVE  /\ jobs' \in [Job -> JobRow]
         /\ due' \subseteq Job /\ \A k \in due' : IsOpen(k)'
         /\ faults \in Nat /\ faults' \in 0..MaxFaults /\ faults' \in Nat
         /\ faults' \in {faults, faults + 1}
         /\ \A k \in Job : k # j => jobs'[k] = jobs[k]
         /\ \/ jobs'[j] = jobs[j] /\ jobs[j].status = "none"
            \/ jobs'[j] = jobs[j] /\ faults' = faults + 1
            \/ jobs'[j] = [status |-> status, attempts |-> attempts] /\ jobs[j].status # "none"
<1>1. faults \in Nat /\ faults \in 0..MaxFaults /\ MaxFaults \in Nat
  BY MaxFaultsAssumption DEF IInv, TypeOK
<1>2. CASE UpdateActionJob(j, status, attempts) /\ due' = due \ {j} /\ UNCHANGED faults
  BY <1>1, <1>2 DEF UpdateActionJob, IInv, TypeOK, JobInv, IsOpen, JobRow
<1>3. CASE Fault /\ UNCHANGED <<jobs, due>>
  BY <1>1, <1>3 DEF Fault, IInv, TypeOK, JobInv, IsOpen
<1> QED
  BY <1>2, <1>3

\* Reading the due jobs, or leaving one for the next pass, only changes batch.
LEMMA BatchIInv ==
  ASSUME IInv, DueActionJobs \/ \E j \in Job : SkipJob(j)
  PROVE  IInv'
<1>1. /\ batch' \subseteq due \/ batch' \subseteq batch
      /\ LoopBetweenJobs
      /\ UNCHANGED <<store, cloud, request, syncing, worker, current, pending, history>>
  BY DEF DueActionJobs, SkipJob
<1>2. TypeOK'
  BY <1>1 DEF IInv, TypeOK, store, history
<1>3. SyncExclusive' /\ GuardInv' /\ RequestInv' /\ SinceInv' /\ RowInv'
  BY <1>1 DEF IInv, SyncExclusive, GuardInv, RequestInv, SinceInv, RowInv, store, history
<1>4. JobInv'
  <2>1. \A j \in batch' : /\ jobs[j].status \notin FinalStatus
                          /\ request[j].pc = "done" /\ since[j] # {}
                          /\ j # current.job
    BY <1>1, NoneAssumption
    DEF IInv, TypeOK, JobInv, IsOpen, OpenStatus, FinalStatus, LoopBetweenJobs
  <2> QED
    BY <1>1, <2>1 DEF IInv, JobInv, IsOpen, store, history
<1>5. AttemptInv' /\ EvidenceInv' /\ ConfirmedByEvidence'
  BY <1>1 DEF IInv, AttemptInv, AttemptsBounded, EvidenceInv, ConfirmedByEvidence, store, history
<1> QED
  BY <1>2, <1>3, <1>4, <1>5 DEF IInv

LEMMA LeaseJobIInv ==
  ASSUME IInv, NEW j \in Job, LeaseJob(j)
  PROVE  IInv'
<1>1. /\ request[j].account \in Account
      /\ request[j].pc = "done" /\ since[j] # {}
      /\ jobs[j].status \notin FinalStatus
      /\ jobs[j].attempts \in Nat
      /\ current.job = None /\ worker["jobs"].pc = "idle" /\ j # None
  BY NoneAssumption
  DEF IInv, TypeOK, JobRow, LeaseJob, LoopBetweenJobs, JobInv, RequestInv
<1>2. /\ current' = [job |-> j, attempt |-> jobs[j].attempts + 1, confirmed |-> FALSE]
      /\ batch' = batch \ {j}
      /\ UNCHANGED <<accounts, rows, cloud, request, pending, since>>
  BY DEF LeaseJob
<1>3. /\ jobs' \in [Job -> JobRow]
      /\ due' \subseteq Job /\ \A k \in due' : IsOpen(k)'
      /\ faults \in Nat /\ faults' \in 0..MaxFaults /\ faults' \in Nat
      /\ faults' \in {faults, faults + 1}
      /\ \A k \in Job : k # j => jobs'[k] = jobs[k]
      /\ \/ jobs'[j] = jobs[j]
         \/ /\ jobs'[j] = [status |-> "retrying", attempts |-> jobs[j].attempts + 1]
            /\ jobs[j].status # "none"
  BY <1>1, UpdateActionJobLemma DEF LeaseJob, OpenStatus
<1>4. /\ syncing' \subseteq Account
      /\ worker' \in [Worker -> WorkerRecord]
      /\ worker'["jobs"].pc = "start" /\ worker'["jobs"].account = request[j].account
      /\ \A r \in Res : worker'["jobs"].list[r] = None
      /\ SyncExclusive'
      /\ \A v \in Worker : worker'[v].pc # "idle" => worker'[v].account \in syncing'
  <2>1. "jobs" \in Worker /\ Claim("jobs", request[j].account)
    BY DEF Worker, LeaseJob
  <2> QED
    BY <1>1, <2>1, ClaimLemma
<1>5. TypeOK'
  BY <1>1, <1>2, <1>3, <1>4 DEF IInv, TypeOK, CurrentRecord
<1>6. GuardInv' /\ RequestInv' /\ SinceInv' /\ RowInv'
  BY <1>1, <1>2, <1>4 DEF IInv, GuardInv, RequestInv, SinceInv, RowInv
<1>7. JobInv'
  <2>1. jobs'[j].status \notin FinalStatus
    BY <1>1, <1>3 DEF FinalStatus
  <2>2. \A k \in Job : jobs'[k].status # "none" => jobs[k].status # "none"
    BY <1>3
  <2>3. \A k \in batch' : jobs'[k].status \notin FinalStatus /\ k # j
    BY <1>2, <1>3 DEF IInv, TypeOK, JobInv
  <2> QED
    BY <1>1, <1>2, <1>3, <2>1, <2>2, <2>3 DEF IInv, JobInv
<1>8. AttemptInv'
  <2>1. jobs[j].attempts < MaxAttempts + faults
    BY <1>1, NoneAssumption DEF IInv, AttemptInv
  <2>2. \A k \in Job : jobs[k].attempts \in Nat
    BY DEF IInv, TypeOK, JobRow
  <2> QED
    BY <1>1, <1>2, <1>3, <2>1, <2>2, NoneAssumption, MaxAttemptsAssumption
    DEF IInv, AttemptInv, AttemptsBounded
<1>9. EvidenceInv'
  BY <1>1, <1>2, <1>4 DEF IInv, RequestInv, EvidenceInv
<1>10. ConfirmedByEvidence'
  BY <1>2, <1>3 DEF IInv, ConfirmedByEvidence
<1> QED
  BY <1>4, <1>5, <1>6, <1>7, <1>8, <1>9, <1>10 DEF IInv

\* What confirmActionJob finds in the rows is evidence, if the rows say what the
\* provider has shown since the action was accepted.
LEMMA ConfirmedIsEvidence ==
  ASSUME IInv, NEW j \in Job, request[j].account \in Account, request[j].res \in Res,
         request[j].action \in Action, request[j].action # "create_unnamed",
         LET row == rows[request[j].account][request[j].res]
         IN  row.status \in since[j] \/ (row.status = "absent" /\ "omitted" \in since[j]),
         Confirmed(j)
  PROVE  since[j] \cap Evidence(request[j].action) # {}
<1> DEFINE row == rows[request[j].account][request[j].res]
<1>1. request[j].action \in {"delete", "start", "stop", "modify", "create"}
  BY ActionAssumption DEF AllActions
<1>2. row.status \in Status /\ row.fresh => row.status # "absent"
  BY DEF IInv, TypeOK, Row, RowInv
<1>3. /\ row.status \in Evidence(request[j].action)
      /\ row.status = "absent" => "omitted" \in Evidence(request[j].action)
  BY <1>1, <1>2 DEF Confirmed, Evidence, Status, IInv, TypeOK, Row
<1> QED
  BY <1>3

LEMMA ConfirmJobIInv ==
  ASSUME IInv, NEW read \in BOOLEAN, ConfirmJob(read)
  PROVE  IInv'
<1>1. /\ worker["jobs"].pc = "end" /\ "jobs" \in Worker
      /\ current' = [current EXCEPT !.confirmed =
                       worker["jobs"].ok /\ read /\ Confirmed(current.job)]
      /\ UNCHANGED <<accounts, rows, jobs, due, cloud, request, batch, pending, faults, since>>
  BY DEF ConfirmJob, Worker, store, history
<1>2. /\ syncing' \subseteq Account
      /\ worker' \in [Worker -> WorkerRecord]
      /\ worker'["jobs"].pc = "idle"
      /\ SyncExclusive'
      /\ \A v \in Worker : worker'[v].pc # "idle" => worker'[v].account \in syncing'
  BY <1>1, ReleaseLemma DEF ConfirmJob, Idle
<1>3. /\ current.job \in Job
      /\ request[current.job].account = worker["jobs"].account
      /\ request[current.job].account \in Account
      /\ request[current.job].res \in Res
      /\ request[current.job].action \in Action
  BY <1>1 DEF IInv, TypeOK, CurrentRecord, GuardInv, JobInv, RequestInv
<1>4. /\ current' \in CurrentRecord
      /\ current'.job = current.job /\ current'.attempt = current.attempt
      /\ current'.confirmed => worker["jobs"].ok /\ Confirmed(current.job)
  <2>1. current'.confirmed \in BOOLEAN
    <3>1. Confirmed(current.job) \in BOOLEAN
      BY <1>3, ZenonT(40) DEF Confirmed, IInv, TypeOK, Row
    <3>2. worker["jobs"].ok \in BOOLEAN
      BY <1>1 DEF IInv, TypeOK, WorkerRecord
    <3> QED
      BY <1>1, <3>1, <3>2 DEF IInv, TypeOK, CurrentRecord
  <2> QED
    BY <1>1, <2>1 DEF IInv, TypeOK, CurrentRecord
<1>5. TypeOK'
  BY <1>1, <1>2, <1>4 DEF IInv, TypeOK
<1>6. GuardInv' /\ RequestInv' /\ SinceInv' /\ RowInv'
  BY <1>1, <1>2 DEF IInv, GuardInv, RequestInv, SinceInv, RowInv
<1>7. JobInv' /\ AttemptInv' /\ ConfirmedByEvidence'
  BY <1>1, <1>4 DEF IInv, JobInv, IsOpen, AttemptInv, AttemptsBounded, ConfirmedByEvidence
<1>8. EvidenceInv'
  <2> SUFFICES ASSUME current'.confirmed, jobs[current.job].status # "none",
                      request[current.job].action # "create_unnamed"
               PROVE  since[current.job] \cap Evidence(request[current.job].action) # {}
    BY <1>1, <1>2, <1>4 DEF EvidenceInv
  <2>1. LET row == rows[request[current.job].account][request[current.job].res]
        IN  \/ row.status \in since[current.job]
            \/ row.status = "absent" /\ "omitted" \in since[current.job]
    BY <1>1, <1>3, <1>4, NoneAssumption DEF IInv, EvidenceInv
  <2> QED
    BY <1>3, <1>4, <2>1, ConfirmedIsEvidence
<1> QED
  BY <1>2, <1>5, <1>6, <1>7, <1>8 DEF IInv

LEMMA RecordOutcomeIInv ==
  ASSUME IInv, RecordOutcome
  PROVE  IInv'
<1> DEFINE j == current.job
<1>1. /\ j \in Job /\ worker["jobs"].pc = "idle"
      /\ request[j].pc = "done" /\ since[j] # {}
      /\ Outcome \in OpenStatus \cup FinalStatus
      /\ current.attempt \in Nat /\ current.confirmed \in BOOLEAN
  BY DEF IInv, TypeOK, CurrentRecord, JobInv, RecordOutcome, Outcome, OpenStatus, FinalStatus
<1>2. /\ current' = NoCurrent
      /\ UNCHANGED <<accounts, rows, cloud, request, syncing, worker, batch, pending, since>>
  BY DEF RecordOutcome
<1>3. /\ jobs' \in [Job -> JobRow]
      /\ due' \subseteq Job /\ \A k \in due' : IsOpen(k)'
      /\ faults \in Nat /\ faults' \in 0..MaxFaults /\ faults' \in Nat
      /\ faults' \in {faults, faults + 1}
      /\ \A k \in Job : k # j => jobs'[k] = jobs[k]
      /\ \/ jobs'[j] = jobs[j] /\ jobs[j].status = "none"
         \/ jobs'[j] = jobs[j] /\ faults' = faults + 1
         \/ /\ jobs'[j] = [status |-> Outcome, attempts |-> current.attempt]
            /\ jobs[j].status # "none"
  BY <1>1, UpdateActionJobLemma DEF RecordOutcome
<1>4. current'.job = None /\ current' \in CurrentRecord /\ j # None /\ j \notin batch
  BY <1>1, <1>2, NoneAssumption DEF NoCurrent, CurrentRecord, IInv, JobInv
<1>5. TypeOK'
  BY <1>2, <1>3, <1>4 DEF IInv, TypeOK
<1>6. SyncExclusive' /\ GuardInv' /\ RequestInv' /\ SinceInv' /\ RowInv'
  BY <1>1, <1>2 DEF IInv, SyncExclusive, GuardInv, RequestInv, SinceInv, RowInv
<1>7. JobInv'
  <2>1. \A k \in Job : jobs'[k].status # "none" => jobs[k].status # "none"
    BY <1>3
  <2>2. \A k \in batch' : jobs'[k].status \notin FinalStatus /\ k # None
    BY <1>2, <1>3, <1>4, NoneAssumption DEF IInv, TypeOK, JobInv
  <2> QED
    BY <1>2, <1>3, <1>4, <2>1, <2>2 DEF IInv, JobInv
<1>8. AttemptInv'
  <2>1. \A k \in Job : jobs[k].attempts \in Nat
    BY DEF IInv, TypeOK, JobRow
  <2>2. CASE jobs'[j] = jobs[j] /\ jobs[j].status = "none"
    <3>1. jobs[j].attempts = 0
      BY <1>1, <2>2 DEF IInv, AttemptInv
    <3> QED
      BY <1>2, <1>3, <1>4, <2>1, <2>2, <3>1, MaxAttemptsAssumption
      DEF IInv, AttemptInv, AttemptsBounded
  <2>3. CASE jobs'[j] = jobs[j] /\ faults' = faults + 1
    BY <1>1, <1>3, <1>4, <2>1, <2>3, MaxAttemptsAssumption
    DEF IInv, AttemptInv, AttemptsBounded
  <2>4. CASE /\ jobs'[j] = [status |-> Outcome, attempts |-> current.attempt]
             /\ jobs[j].status # "none"
    <3>1. current.attempt <= MaxAttempts + faults'
      BY <1>1, <1>3, <1>4, <2>4, MaxAttemptsAssumption DEF IInv, AttemptInv
    <3>2. Outcome \notin FinalStatus => current.attempt < MaxAttempts + faults'
      BY <1>1, <1>3, MaxAttemptsAssumption DEF Outcome, FinalStatus
    <3>3. Outcome # "none"
      BY DEF Outcome
    <3> QED
      BY <1>3, <1>4, <2>1, <2>4, <3>1, <3>2, <3>3, MaxAttemptsAssumption
      DEF IInv, AttemptInv, AttemptsBounded
  <2> QED
    BY <1>3, <2>2, <2>3, <2>4
<1>9. EvidenceInv'
  BY <1>4 DEF EvidenceInv
<1>10. ConfirmedByEvidence'
  <2>1. jobs'[j].status = "completed" /\ request[j].action # "create_unnamed"
          => since[j] \cap Evidence(request[j].action) # {}
    BY <1>1, <1>3, <1>4, NoneAssumption DEF IInv, EvidenceInv, JobInv, FinalStatus, Outcome
  <2> QED
    BY <1>2, <1>3, <2>1 DEF IInv, ConfirmedByEvidence
<1> QED
  BY <1>5, <1>6, <1>7, <1>8, <1>9, <1>10 DEF IInv

-----------------------------------------------------------------------------
(* A restart keeps the tables and loses the memory. *)

LEMMA CrashIInv ==
  ASSUME IInv, Crash
  PROVE  IInv'
<1>1. /\ UNCHANGED <<accounts, rows, jobs, due, cloud, since>>
      /\ faults \in Nat /\ faults' = faults + 1 /\ faults' \in 0..MaxFaults
      /\ syncing' = {} /\ batch' = {} /\ pending' = {}
      /\ worker' = [w \in Worker |-> Idle]
      /\ current' = NoCurrent
  BY MaxFaultsAssumption DEF Crash, Fault, IInv, TypeOK, store
<1>2. /\ request' \in [Job -> RequestRecord]
      /\ \A j \in Job : /\ request'[j].account = request[j].account
                        /\ request'[j].res = request[j].res
                        /\ request'[j].action = request[j].action
                        /\ request'[j].pc \in {"idle", "done"}
                        /\ request'[j].pc = "idle" => request[j].pc = "idle"
                        /\ request[j].pc = "done" => request'[j].pc = "done"
  BY ZenonT(40) DEF Crash, IInv, TypeOK, RequestRecord
<1>3. TypeOK'
  BY <1>1, <1>2 DEF IInv, TypeOK, Idle, WorkerRecord, NoCurrent, CurrentRecord
<1>4. SyncExclusive' /\ GuardInv' /\ EvidenceInv'
  BY <1>1 DEF SyncExclusive, GuardInv, EvidenceInv, Idle, NoCurrent, Worker
<1>5. RequestInv' /\ SinceInv' /\ RowInv'
  BY <1>1, <1>2 DEF IInv, RequestInv, SinceInv, RowInv
<1>6. JobInv'
  BY <1>1, <1>2 DEF IInv, JobInv, IsOpen, NoCurrent
<1>7. AttemptInv'
  <2>1. \A j \in Job : jobs[j].attempts \in Nat
    BY DEF IInv, TypeOK, JobRow
  <2> QED
    BY <1>1, <2>1, MaxAttemptsAssumption DEF IInv, AttemptInv, AttemptsBounded, NoCurrent
<1>8. ConfirmedByEvidence'
  BY <1>1, <1>2 DEF IInv, ConfirmedByEvidence
<1> QED
  BY <1>3, <1>4, <1>5, <1>6, <1>7, <1>8 DEF IInv

-----------------------------------------------------------------------------

LEMMA NextIInv == IInv /\ [Next]_vars => IInv'
<1> SUFFICES ASSUME IInv, [Next]_vars PROVE IInv'
  OBVIOUS
<1>1. CASE \E a \in Account : CreateAccount(a) \/ DeleteAccount(a)
  BY <1>1, AccountIInv, DeleteAccountIInv
<1>2. CASE RequestStep
  BY <1>2, ReceiveActionIInv, ProviderAcceptsIInv, RequestEndsIInv, CreateActionJobIInv
  DEF RequestStep
<1>3. CASE \E a \in Account, r \in Res, s \in Status : ProviderChange(a, r, s)
  BY <1>3, ProviderChangeIInv
<1>4. CASE \E j \in Job : BecomeDue(j)
  BY <1>4, BecomeDueIInv
<1>5. CASE \E w \in Worker : SyncStep(w)
  BY <1>5, ReadAccountIInv, ListPageIInv, ListOmitsIInv, ListFailsIInv, WriteRowsIInv, FinishSyncIInv
  DEF SyncStep
<1>6. CASE \E h \in Handler, a \in Account : HandlerSync(h, a)
  BY <1>6, HandlerSyncIInv
<1>7. CASE BackgroundStep
  BY <1>7, BackgroundIInv
<1>8. CASE LoopStep
  BY <1>8, BatchIInv, LeaseJobIInv, ConfirmJobIInv, RecordOutcomeIInv DEF LoopStep
<1>9. CASE Crash
  BY <1>9, CrashIInv
<1>10. CASE UNCHANGED vars
  <2>1. TypeOK'
    BY <1>10 DEF IInv, TypeOK, vars, store, memory, history
  <2> QED
    BY <1>10, <2>1, Undisturbed DEF vars, store, memory, history
<1> QED
  BY <1>1, <1>2, <1>3, <1>4, <1>5, <1>6, <1>7, <1>8, <1>9, <1>10 DEF Next

\* Every reachable state satisfies the inductive invariant.
THEOREM Invariance == Spec => []IInv
BY InitIInv, NextIInv, PTL DEF Spec

\* Every variable keeps its type, and every step reads defined data.
THEOREM TypeCorrect == Spec => []TypeOK
<1>1. IInv => TypeOK
  BY DEF IInv
<1> QED
  BY <1>1, Invariance, PTL

\* The guard s.syncing keeps the synchronisations of one account apart, for any
\* number of handlers, accounts and restarts.
THEOREM Exclusion == Spec => []SyncExclusive
<1>1. IInv => SyncExclusive
  BY DEF IInv
<1> QED
  BY <1>1, Invariance, PTL

\* A completed job's effect was shown by the provider after it accepted the job's
\* action.
THEOREM Evidenced == Spec => []ConfirmedByEvidence
<1>1. IInv => ConfirmedByEvidence
  BY DEF IInv
<1> QED
  BY <1>1, Invariance, PTL

\* Attempts are bounded by MaxAttempts plus the restarts.
THEOREM BoundedAttempts == Spec => []AttemptsBounded
<1>1. IInv => AttemptsBounded
  BY DEF IInv, AttemptInv
<1> QED
  BY <1>1, Invariance, PTL

-----------------------------------------------------------------------------
(* Final jobs stay final. *)

LEMMA FinalStep ==
  ASSUME IInv, [Next]_vars, NEW j \in Job, jobs[j].status \in FinalStatus
  PROVE  jobs'[j] \in {jobs[j], NoJobRow}
<1> USE DEF FinalStatus
<1>1. CASE UNCHANGED jobs
  BY <1>1
<1>2. ASSUME NEW a \in Account, DeleteAccount(a) PROVE jobs'[j] \in {jobs[j], NoJobRow}
  BY <1>2 DEF DeleteAccount
<1>3. ASSUME NEW k \in Job, CreateActionJob(k) PROVE jobs'[j] \in {jobs[j], NoJobRow}
  BY <1>3 DEF CreateActionJob, IInv, TypeOK, JobInv
<1>4. ASSUME NEW k \in Job, LeaseJob(k) PROVE jobs'[j] \in {jobs[j], NoJobRow}
  BY <1>4 DEF LeaseJob, UpdateActionJob, IInv, TypeOK, JobInv
<1>5. CASE RecordOutcome
  BY <1>5 DEF RecordOutcome, UpdateActionJob, IInv, TypeOK, CurrentRecord, JobInv
<1>6. \/ UNCHANGED jobs
      \/ \E a \in Account : DeleteAccount(a)
      \/ \E k \in Job : CreateActionJob(k) \/ LeaseJob(k)
      \/ RecordOutcome
  BY DEF Next, vars, store, CreateAccount, RequestStep, ReceiveAction, ProviderAccepts,
         ProviderRejects, CreateActionJobFails, ProviderChange, BecomeDue, SyncStep,
         ReadAccount, AccountMissing, ListPage, ListOmits, ListFails, WriteRows, FinishSync,
         HandlerSync, BackgroundStep, BackgroundPass, BackgroundSync, BackgroundSkip,
         LoopStep, DueActionJobs, SkipJob, ConfirmJob, Crash
<1> QED
  BY <1>1, <1>2, <1>3, <1>4, <1>5, <1>6

\* A completed or unconfirmed job is never worked on again.
THEOREM FinalStays == Spec => FinalForever
<1>1. IInv /\ [Next]_vars =>
        [\A j \in Job : jobs[j].status \in FinalStatus => jobs'[j] \in {jobs[j], NoJobRow}]_vars
  BY FinalStep
<1> QED
  BY <1>1, Invariance, PTL DEF Spec, FinalForever

-----------------------------------------------------------------------------
(* Refinement: every step of the server is a step of the promise that JobLifecycle     *)
(* makes, or leaves it alone.                                                          *)

\* The abstract state, as ActionJobs maps to it.
phase == [j \in Job |-> IF IsOpen(j) THEN "open" ELSE jobs[j].status]
tries == [j \in Job |-> jobs[j].attempts]
goal  == [j \in Job |-> IF request[j].pc = "idle" THEN "?" ELSE request[j].action]
over  == {j \in Job : request[j].pc = "done"}

\* Only jobs, request and since carry the abstract state.
LEMMA Stutter ==
  ASSUME UNCHANGED <<jobs, request, since>>
  PROVE  UNCHANGED Lifecycle!vars
BY DEF Lifecycle!vars, IsOpen

\* The empty database is the abstract initial state.
LEMMA InitRefines ==
  ASSUME Init
  PROVE  Lifecycle!Init
BY DEF Init, Lifecycle!Init, IsOpen, OpenStatus, NoJobRow

\* Requests that end without a job, one alone or all of them in a restart.
LEMMA EndRefines ==
  ASSUME NEW S \in SUBSET Job,
         \A j \in S : /\ request[j].pc # "idle" /\ request'[j].pc = "done"
                      /\ request'[j].action = request[j].action,
         \A j \in Job \ S : request'[j] = request[j],
         UNCHANGED <<jobs, since>>
  PROVE  Lifecycle!Next
<1>1. UNCHANGED <<phase, goal, tries>>
  BY DEF phase, goal, tries, IsOpen
<1>2. over' = over \cup S
  BY DEF over
<1>3. Lifecycle!EndWithout(S)
  BY <1>1, <1>2 DEF Lifecycle!EndWithout, phase, goal, tries, over
<1> QED
  BY <1>3 DEF Lifecycle!Next

\* The steps of a request are Ask, Accept, EndWithout and WriteDown.
LEMMA RequestRefines ==
  ASSUME IInv, RequestStep
  PROVE  Lifecycle!Next
<1>1. ASSUME NEW j \in Job, NEW a \in Account, NEW r \in Res, NEW act \in Action,
             ReceiveAction(j, a, r, act)
      PROVE  Lifecycle!Next
  <2>1. Lifecycle!Ask(j, act)
    BY <1>1 DEF ReceiveAction, Lifecycle!Ask, IInv, TypeOK, IsOpen, store, history
  <2> QED
    BY <2>1 DEF Lifecycle!Next
<1>2. ASSUME NEW j \in Job, ProviderAccepts(j)
      PROVE  Lifecycle!Next
  <2> DEFINE s == cloud[request[j].account][request[j].res]
  <2>1. s \in Status
    BY <1>2 DEF IInv, TypeOK, RequestInv, ProviderAccepts
  <2>2. request[j].action \in Action /\ since[j] = {}
    BY <1>2 DEF IInv, RequestInv, SinceInv, ProviderAccepts
  <2>3. /\ request'[j].pc = "accepted" /\ request'[j].action = request[j].action
        /\ request[j].pc = "called"
        /\ \A k \in Job : k # j => request'[k] = request[k]
        /\ since' = [since EXCEPT ![j] = {s}]
        /\ UNCHANGED jobs
    BY <1>2 DEF ProviderAccepts, IInv, TypeOK, RequestRecord, store
  <2>4. UNCHANGED goal /\ UNCHANGED over /\ goal[j] = request[j].action
    BY <2>3 DEF goal, over
  <2>5. goal[j] # "?"
    BY <2>2, <2>4, ActionAssumption DEF AllActions
  <2>6. Lifecycle!Accept(j, s)
    BY <2>2, <2>3, <2>4, <2>5 DEF goal, over, Lifecycle!Accept, IsOpen
  <2> QED
    BY <2>1, <2>6 DEF Lifecycle!Next, Shown
<1>3. ASSUME NEW j \in Job, ProviderRejects(j) \/ CreateActionJobFails(j)
      PROVE  Lifecycle!Next
  <2>1. /\ request[j].pc # "idle" /\ request'[j].pc = "done"
        /\ request'[j].action = request[j].action
        /\ \A k \in Job \ {j} : request'[k] = request[k]
        /\ UNCHANGED <<jobs, since>>
    BY <1>3 DEF ProviderRejects, CreateActionJobFails, IInv, TypeOK, RequestRecord, store, history
  <2> QED
    BY <2>1, EndRefines
<1>4. ASSUME NEW j \in Job, CreateActionJob(j)
      PROVE  Lifecycle!Next
  <2>1. /\ request[j].pc = "accepted" /\ request'[j].pc = "done"
        /\ request'[j].action = request[j].action
        /\ \A k \in Job : k # j => request'[k] = request[k] /\ jobs'[k] = jobs[k]
        /\ jobs'[j].status = "pending" /\ jobs'[j].attempts = 0
        /\ UNCHANGED since
    BY <1>4 DEF CreateActionJob, IInv, TypeOK, RequestRecord, history
  <2>2. since[j] # {} /\ jobs[j].attempts = 0
    BY <2>1 DEF IInv, JobInv, SinceInv, AttemptInv
  <2>3. UNCHANGED <<goal, tries>>
    BY <2>1, <2>2 DEF goal, tries
  <2>4. phase' = [phase EXCEPT ![j] = "open"]
    BY <2>1 DEF phase, IsOpen, OpenStatus
  <2>5. over' = over \cup {j} /\ j \notin over
    BY <2>1 DEF over
  <2>6. Lifecycle!WriteDown(j)
    BY <2>1, <2>2, <2>3, <2>4, <2>5 DEF Lifecycle!WriteDown, phase, goal, tries, over
  <2> QED
    BY <2>6 DEF Lifecycle!Next
<1> QED
  BY <1>1, <1>2, <1>3, <1>4 DEF RequestStep
\* A deleted account takes its jobs along.
LEMMA DeleteRefines ==
  ASSUME IInv, NEW a \in Account, DeleteAccount(a)
  PROVE  Lifecycle!Next
<1>0. PICK S \in SUBSET Job : S = {j \in Job : request[j].account = a}
  OBVIOUS
<1>1. /\ \A j \in S : jobs'[j].status = "none" /\ jobs'[j].attempts = 0
      /\ \A j \in Job \ S : jobs'[j] = jobs[j]
      /\ UNCHANGED <<request, since>>
  BY <1>0 DEF DeleteAccount, NoJobRow, memory, history
<1>2. UNCHANGED <<goal, over>>
  BY <1>1 DEF goal, over
<1>3. phase' = [j \in Job |-> IF j \in S THEN "none" ELSE phase[j]]
  BY <1>1 DEF phase, IsOpen, OpenStatus
<1>4. tries' = [j \in Job |-> IF j \in S THEN 0 ELSE tries[j]]
  BY <1>1 DEF tries
<1>5. Lifecycle!Drop(S)
  BY <1>1, <1>2, <1>3, <1>4 DEF Lifecycle!Drop, phase, goal, tries, over
<1> QED
  BY <1>5 DEF Lifecycle!Next

\* A change of a resource is shown to the actions accepted on it.
LEMMA ChangeRefines ==
  ASSUME IInv, NEW a \in Account, NEW r \in Res, NEW s \in Status, ProviderChange(a, r, s)
  PROVE  Lifecycle!Next
<1> DEFINE S == {j \in Job : since[j] # {} /\ request[j].account = a /\ request[j].res = r}
<1>1. since' = [j \in Job |-> IF j \in S THEN since[j] \cup {s} ELSE since[j]]
  BY DEF ProviderChange
<1>2. UNCHANGED <<phase, goal, tries, over>>
  BY DEF ProviderChange, phase, goal, tries, over, IsOpen, store, memory
<1>3. Lifecycle!Show(S, s)
  BY <1>1, <1>2 DEF Lifecycle!Show, phase, goal, tries, over
<1>4. S \in SUBSET Job
  OBVIOUS
<1> HIDE DEF S
<1> QED
  BY <1>3, <1>4 DEF Lifecycle!Next, Shown

\* A list that leaves the job's resource out is shown to that job alone.
LEMMA OmissionRefines ==
  ASSUME IInv, NEW w \in Worker, NEW r \in Res, ListOmits(w, r)
  PROVE  Lifecycle!Next \/ UNCHANGED <<jobs, request, since>>
<1>1. UNCHANGED <<jobs, request>>
  BY DEF ListOmits, store
<1>2. CASE w = "jobs" /\ request[current.job].res = r
  <2>1. current.job \in Job /\ since[current.job] # {}
    BY <1>2 DEF IInv, TypeOK, CurrentRecord, GuardInv, JobInv, ListOmits
  <2>2. PICK S \in SUBSET Job : S = {current.job}
    BY <2>1
  <2>3. since' = [j \in Job |-> IF j \in S THEN since[j] \cup {"omitted"} ELSE since[j]]
    BY <1>2, <2>1, <2>2 DEF ListOmits, IInv, TypeOK
  <2>4. UNCHANGED <<phase, goal, tries, over>>
    BY <1>1 DEF phase, goal, tries, over, IsOpen
  <2>5. Lifecycle!Show(S, "omitted")
    BY <2>1, <2>2, <2>3, <2>4 DEF Lifecycle!Show, phase, goal, tries, over
  <2> QED
    BY <2>5 DEF Lifecycle!Next, Shown
<1>3. CASE ~(w = "jobs" /\ request[current.job].res = r)
  BY <1>1, <1>3 DEF ListOmits
<1> QED
  BY <1>2, <1>3

\* The loop changes one job's row: a try is counted, or the job is decided.
LEMMA RowRefines ==
  ASSUME NEW j \in Job, \A k \in Job \ {j} : jobs'[k] = jobs[k],
         UNCHANGED <<request, since>>
  PROVE  /\ UNCHANGED <<goal, over>>
         /\ phase' = [phase EXCEPT ![j] = IF IsOpen(j)' THEN "open" ELSE jobs'[j].status]
         /\ tries' = [tries EXCEPT ![j] = jobs'[j].attempts]
BY DEF goal, over, phase, tries, IsOpen

LEMMA LeaseRefines ==
  ASSUME IInv, NEW j \in Job, LeaseJob(j)
  PROVE  Lifecycle!Next \/ UNCHANGED <<jobs, request, since>>
<1>1. /\ jobs[j].attempts \in Nat /\ jobs[j].status \notin FinalStatus
      /\ jobs[j].status \in {"none"} \cup OpenStatus \cup FinalStatus
      /\ UNCHANGED <<request, since>>
  BY DEF LeaseJob, IInv, TypeOK, JobRow, JobInv
<1>2. CASE UNCHANGED jobs
  BY <1>1, <1>2
<1>3. CASE ~ UNCHANGED jobs
  <2>1. /\ jobs[j].status # "none"
        /\ jobs' = [jobs EXCEPT ![j] = [status |-> "retrying", attempts |-> jobs[j].attempts + 1]]
    BY <1>3 DEF LeaseJob, UpdateActionJob
  <2>2. /\ IsOpen(j) /\ IsOpen(j)'
        /\ jobs'[j].attempts = jobs[j].attempts + 1
        /\ \A k \in Job \ {j} : jobs'[k] = jobs[k]
    BY <1>1, <2>1 DEF IsOpen, OpenStatus, IInv, TypeOK
  <2>3. phase[j] = "open" /\ phase' = phase
    BY <1>1, <2>2, RowRefines DEF phase
  <2>4. tries' = [tries EXCEPT ![j] = @ + 1] /\ UNCHANGED <<goal, over>>
    BY <1>1, <2>2, RowRefines DEF tries
  <2>5. Lifecycle!Try(j)
    BY <1>1, <2>3, <2>4 DEF Lifecycle!Try, phase, goal, tries, over
  <2> QED
    BY <2>5 DEF Lifecycle!Next
<1> QED
  BY <1>2, <1>3

\* The outcome counts the try that was not counted by its lease, if so it is.
LEMMA OutcomeRefines ==
  ASSUME IInv, RecordOutcome, "create_unnamed" \notin Action
  PROVE  Lifecycle!Next \/ UNCHANGED Lifecycle!vars
<1>0. PICK j \in Job : j = current.job
  BY DEF RecordOutcome, IInv, TypeOK, CurrentRecord
<1>1. /\ j \in Job /\ request[j].pc = "done" /\ request[j].action # "create_unnamed"
      /\ jobs[j].attempts \in Nat /\ current.attempt \in Nat
      /\ jobs[j].status \notin FinalStatus
      /\ jobs[j].status \in {"none"} \cup OpenStatus \cup FinalStatus
      /\ UNCHANGED <<request, since>>
      /\ current.confirmed \in BOOLEAN
  BY <1>0 DEF RecordOutcome, IInv, TypeOK, CurrentRecord, JobRow, JobInv, RequestInv
<1>2. CASE UNCHANGED jobs
  BY <1>1, <1>2, Stutter
<1>3. CASE ~ UNCHANGED jobs
  <2>1. /\ jobs[j].status # "none"
        /\ jobs' = [jobs EXCEPT ![j] = [status |-> Outcome, attempts |-> current.attempt]]
    BY <1>0, <1>3 DEF RecordOutcome, UpdateActionJob
  <2>2. /\ jobs'[j].status = Outcome /\ jobs'[j].attempts = current.attempt
        /\ \A k \in Job \ {j} : jobs'[k] = jobs[k]
        /\ IsOpen(j)
    BY <1>1, <2>1 DEF IsOpen, IInv, TypeOK
  <2>3. current.attempt \in {jobs[j].attempts, jobs[j].attempts + 1}
    BY <1>0, <1>1, <2>1, NoneAssumption DEF IInv, AttemptInv
  <2>4. phase[j] = "open" /\ tries[j] = jobs[j].attempts
    BY <1>1, <2>2 DEF phase, tries
  <2>5. /\ UNCHANGED <<goal, over>>
        /\ tries' = [tries EXCEPT ![j] = current.attempt]
        /\ phase' = [phase EXCEPT ![j] = IF IsOpen(j)' THEN "open" ELSE Outcome]
    BY <1>1, <2>2, RowRefines
  <2>6. CASE Outcome = "retrying"
    <3>1. phase' = phase
      BY <2>2, <2>4, <2>5, <2>6 DEF IsOpen, OpenStatus, phase
    <3>2. CASE current.attempt = jobs[j].attempts
      <4>1. tries' = tries
        BY <2>4, <2>5, <3>2 DEF tries
      <4> QED
        BY <1>1, <2>5, <3>1, <4>1 DEF Lifecycle!vars, phase, goal, tries, over
    <3>3. CASE current.attempt = jobs[j].attempts + 1
      <4>1. tries' = [tries EXCEPT ![j] = @ + 1]
        BY <2>4, <2>5, <3>3
      <4>2. Lifecycle!Try(j)
        BY <1>1, <2>4, <2>5, <3>1, <4>1 DEF Lifecycle!Try, phase, goal, tries, over
      <4> QED
        BY <1>1, <4>2 DEF Lifecycle!Next
    <3> QED
      BY <2>3, <3>2, <3>3
  <2>7. CASE Outcome \in FinalStatus
    <3> DEFINE Decided(verdict) ==
          \E n \in {tries[j], tries[j] + 1} :
             n = current.attempt /\ Lifecycle!Decide(j, n, verdict)
    <3>1. ASSUME NEW verdict \in FinalStatus, Outcome = verdict
          PROVE  Decided(verdict)
      <4>1. phase' = [phase EXCEPT ![j] = verdict]
        BY <2>2, <2>5, <3>1 DEF IsOpen, OpenStatus, FinalStatus
      <4>2. PICK n \in {tries[j], tries[j] + 1} : n = current.attempt
        BY <2>3, <2>4
      <4>3. Lifecycle!Decide(j, n, verdict)
        BY <1>1, <2>4, <2>5, <4>1, <4>2 DEF Lifecycle!Decide, phase, goal, tries, over
      <4> QED
        BY <4>2, <4>3
    <3>2. CASE Outcome = "completed"
      <4>1. since[j] \cap Evidence(goal[j]) # {}
        <5>1. current.confirmed
          BY <3>2 DEF Outcome
        <5>2. since[j] \cap Evidence(request[j].action) # {}
          BY <1>0, <1>1, <2>1, <5>1, NoneAssumption DEF IInv, EvidenceInv
        <5> QED
          BY <1>1, <5>2 DEF goal
      <4>2. PICK n \in {tries[j], tries[j] + 1} : Lifecycle!Decide(j, n, "completed")
        BY <3>1, <3>2 DEF FinalStatus
      <4>3. Lifecycle!Complete(j, n)
        BY <4>1, <4>2 DEF Lifecycle!Complete, goal
      <4> QED
        BY <4>3 DEF Lifecycle!Next, tries
    <3>3. CASE Outcome = "unconfirmed"
      <4>1. current.attempt >= MaxAttempts
        BY <3>3 DEF Outcome
      <4>2. PICK n \in {tries[j], tries[j] + 1} :
              n = current.attempt /\ Lifecycle!Decide(j, n, "unconfirmed")
        BY <3>1, <3>3 DEF FinalStatus
      <4>3. Lifecycle!GiveUp(j, n)
        BY <4>1, <4>2 DEF Lifecycle!GiveUp
      <4> QED
        BY <4>3 DEF Lifecycle!Next, tries
    <3> QED
      BY <2>7, <3>2, <3>3 DEF FinalStatus
  <2> QED
    BY <2>6, <2>7 DEF Outcome, FinalStatus
<1> QED
  BY <1>2, <1>3
\* A restart ends every request that was under way.
LEMMA CrashRefines ==
  ASSUME IInv, Crash
  PROVE  Lifecycle!Next
<1>0. PICK S \in SUBSET Job : S = {j \in Job : request[j].pc # "idle"}
  OBVIOUS
<1>1. /\ \A j \in S : /\ request[j].pc # "idle" /\ request'[j].pc = "done"
                     /\ request'[j].action = request[j].action
      /\ \A j \in Job \ S : request'[j] = request[j]
      /\ UNCHANGED <<jobs, since>>
  BY <1>0 DEF Crash, IInv, TypeOK, RequestRecord, store
<1> QED
  BY <1>1, EndRefines

\* Every step of the server is a step of the promise, or leaves it alone.
LEMMA StepRefines ==
  ASSUME IInv, [Next]_vars, "create_unnamed" \notin Action
  PROVE  [Lifecycle!Next]_(Lifecycle!vars)
<1>1. CASE UNCHANGED <<jobs, request, since>>
  BY <1>1, Stutter
<1>2. CASE RequestStep
  BY <1>2, RequestRefines
<1>3. CASE \E a \in Account : DeleteAccount(a)
  BY <1>3, DeleteRefines
<1>4. CASE \E a \in Account, r \in Res, s \in Status : ProviderChange(a, r, s)
  BY <1>4, ChangeRefines
<1>5. CASE \/ \E j \in Job : LeaseJob(j)
           \/ \E w \in Worker, r \in Res : ListOmits(w, r)
  BY <1>5, LeaseRefines, OmissionRefines, Stutter
<1>6. CASE RecordOutcome
  BY <1>6, OutcomeRefines
<1>7. CASE Crash
  BY <1>7, CrashRefines
<1>8. \/ UNCHANGED <<jobs, request, since>>
      \/ RequestStep
      \/ \E a \in Account : DeleteAccount(a)
      \/ \E a \in Account, r \in Res, s \in Status : ProviderChange(a, r, s)
      \/ \E j \in Job : LeaseJob(j)
      \/ \E w \in Worker, r \in Res : ListOmits(w, r)
      \/ RecordOutcome
      \/ Crash
  BY DEF Next, vars, store, memory, history, CreateAccount, BecomeDue, SyncStep, ReadAccount,
         AccountMissing, ListPage, ListFails, WriteRows, FinishSync, HandlerSync,
         BackgroundStep, BackgroundPass, BackgroundSync, BackgroundSkip, LoopStep,
         DueActionJobs, SkipJob, ConfirmJob
<1> QED
  BY <1>1, <1>2, <1>3, <1>4, <1>5, <1>6, <1>7, <1>8

\* The server keeps the promise of JobLifecycle for every action that names its
\* resource: jobs are completed on evidence, given up after MaxAttempts tries,
\* and decided once.
THEOREM Promise == "create_unnamed" \notin Action => (Spec => PromiseKept)
<1> SUFFICES ASSUME "create_unnamed" \notin Action PROVE Spec => PromiseKept
  OBVIOUS
<1>1. Init => Lifecycle!Init
  BY InitRefines
<1>2. IInv /\ [Next]_vars => [Lifecycle!Next]_(Lifecycle!vars)
  BY StepRefines
<1> QED
  BY <1>1, <1>2, Invariance, PTL DEF Spec, PromiseKept, Lifecycle!Spec
=============================================================================
