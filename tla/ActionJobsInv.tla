---------------------------- MODULE ActionJobsInv ---------------------------
(***************************************************************************)
(* The inductive invariant behind the safety properties of ActionJobs:     *)
(* TLC checks it on small instances, ActionJobs_proofs proves it.          *)
(***************************************************************************)
EXTENDS ActionJobs

\* The memory guard and the workers agree: a worker that is not idle has its
\* account in s.syncing, and the job loop's worker has its job's account.
GuardInv ==
  /\ \A w \in Worker : worker[w].pc # "idle" => worker[w].account \in syncing
  /\ worker["jobs"].pc # "idle" =>
       /\ current.job # None
       /\ worker["jobs"].account = request[current.job].account

\* A request that left for the provider has its account, resource and action.
RequestInv ==
  \A j \in Job :
    request[j].pc \in {"called", "accepted"} \/ since[j] # {} =>
      request[j].account \in Account /\ request[j].res \in Res /\ request[j].action \in Action

\* A request that is idle or called has no acceptance yet; an accepted one has
\* seen the status its resource has now.
SinceInv ==
  \A j \in Job :
    /\ request[j].pc \in {"idle", "called"} => since[j] = {}
    /\ request[j].pc = "accepted" => since[j] # {}
    /\ since[j] # {} => cloud[request[j].account][request[j].res] \in since[j]

\* Where jobs can be: only ended requests have a row, only open rows are due, and
\* what the loop holds in memory is open or was deleted meanwhile, each job once.
JobInv ==
  /\ \A j \in Job : jobs[j].status # "none" => request[j].pc = "done" /\ since[j] # {}
  /\ \A j \in due : IsOpen(j)
  /\ \A j \in batch :
       /\ jobs[j].status \notin FinalStatus
       /\ request[j].pc = "done" /\ since[j] # {}
       /\ j # current.job
  /\ current.job # None =>
       /\ jobs[current.job].status \notin FinalStatus
       /\ request[current.job].pc = "done" /\ since[current.job] # {}

\* An open job that is not being worked on can still be leased once more, and the
\* attempt being worked on was counted unless the lease could not be written.
AttemptInv ==
  /\ AttemptsBounded
  /\ \A j \in Job : jobs[j].status = "none" => jobs[j].attempts = 0
  /\ \A j \in Job :
       jobs[j].status \notin FinalStatus /\ j # current.job
         => jobs[j].attempts < MaxAttempts + faults
  /\ current.job # None /\ jobs[current.job].status # "none"
       => /\ jobs[current.job].attempts \in {current.attempt - 1, current.attempt}
          /\ current.attempt <= MaxAttempts + faults

\* A row marked fresh is the row of a listed resource.
RowInv ==
  \A a \in Account, r \in Res : rows[a][r].fresh => rows[a][r].status # "absent"

\* What the loop's worker has listed, then written, then concluded about its job
\* was shown to the job after the provider accepted its action, as long as the
\* job has not been deleted with its account.  An absence may have been shown by a
\* list that left the resource out.
EvidenceInv ==
  LET j == current.job
      w == worker["jobs"]
      r == request[j].res
      WasShown(s) == s \in since[j] \/ (s = "absent" /\ "omitted" \in since[j])
  IN current.job # None =>
       /\ w.pc \in {"start", "list"} /\ w.list[r] # None => WasShown(w.list[r])
       /\ w.pc = "end" /\ w.ok /\ jobs[j].status # "none"
            => WasShown(rows[w.account][r].status)
       /\ current.confirmed /\ jobs[j].status # "none" /\ request[j].action # "create_unnamed"
            => since[j] \cap Evidence(request[j].action) # {}

IInv ==
  /\ TypeOK
  /\ SyncExclusive
  /\ GuardInv
  /\ RequestInv
  /\ SinceInv
  /\ JobInv
  /\ AttemptInv
  /\ RowInv
  /\ EvidenceInv
  /\ ConfirmedByEvidence
=============================================================================
