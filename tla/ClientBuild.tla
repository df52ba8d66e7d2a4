---------------------------- MODULE ClientBuild ----------------------------
(***************************************************************************)
(* Customised RustDesk clients (Python): the jobs of app/main.py and the   *)
(* build of services/rustdesk_customizer.py.                               *)
(*                                                                         *)
(* A request stores a job in a dictionary that keeps the newest Keep jobs, *)
(* saves a row and starts a thread.  The thread fetches the official       *)
(* source, patches it and pushes it as one commit to the user's            *)
(* repository, whose workflows build the clients.  A change of the         *)
(* dictionary is made under a lock and saved after it; any save may fail.  *)
(* A restart drops the threads and restores the newest Keep rows.          *)
(*                                                                         *)
(* The source tree is a record of what the patches leave in it.  Those     *)
(* that write what a client needs stop the build when they do not find     *)
(* their place; the other edits by text then leave the text as it is,      *)
(* without a word.  All jobs have one target repository, so that they      *)
(* compete.                                                                *)
(***************************************************************************)
EXTENDS Naturals, Sequences, FiniteSets

CONSTANTS
  Target,       \* clients that can be built (nine in the code)
  Form,         \* what users submit: see IsForm
  MaxJobs,      \* requests
  Keep,         \* jobs kept in the dictionary and restored (30 in the code)
  Stamp,        \* minutes the default release tag is made of
  MaxFaults,    \* saves that fail
  MaxRestarts   \* restarts of the server

Icons == {"none", "png", "broken"}
Versions == {"official", "restructured", "unknown", "prefixed"}
Scopes == {"repo", "public_repo", "workflow"}

\* The edits that may find nothing; a client stands for the condition of its job.
Edits == {"scripts", "permit", "offer", "pass", "declare", "links"} \cup Target

IsForm(f) ==
  /\ f.complete \in BOOLEAN     \* repository, version, server and key are given
  /\ f.repo \in {"public", "private", "malformed"}
  /\ f.targets \subseteq Target \cup {"other"}
  /\ f.version \in Versions     \* as expected, laid out anew, no tag, a tag with a v
  /\ f.lost \subseteq Edits     \* edits that find nothing in the release of this version
  /\ f.scopes \subseteq Scopes  \* GitHub names none for a fine-grained token
  /\ f.servers \in Seq(STRING)  \* the id server and, if it differs, the relay
  /\ f.password \in BOOLEAN /\ f.hide \in BOOLEAN /\ f.about \in BOOLEAN
  /\ f.icon \in Icons

ASSUME FormAssumption == \A f \in Form : IsForm(f)
ASSUME BoundsAssumption ==
  MaxJobs \in Nat /\ Keep \in Nat \ {0} /\ MaxFaults \in Nat /\ MaxRestarts \in Nat

Job == 1 .. MaxJobs
Live == {"queued", "running"}
Final == {"success", "failed"}

-----------------------------------------------------------------------------
(* The source tree and what each patch makes of it *)

Official ==
  [submodules |-> "linked", edits |-> {}, inputs |-> {}, release |-> "ref", node |-> "old",
   servers |-> <<"official">>, hard |-> {}, about |-> FALSE, icon |-> "none", notes |-> FALSE]

NoTree == [Official EXCEPT !.servers = <<>>]

\* An edit takes effect where the release has a place for it.
Edit(t, f, wanted) == [t EXCEPT !.edits = @ \cup (wanted \ f.lost)]

\* An empty choice stands for all clients.
Chosen(f) == IF f.targets = {} THEN Target ELSE f.targets

\* The inputs without which the workflow skips the job of a client.
Requires(t) ==
  CASE t = "appimage" -> {"appimage", "linux"}
    [] t = "flatpak"  -> {"flatpak", "linux", "linux_sciter"}
    [] OTHER          -> {t}

(* What a manual run builds without changing its inputs.  The workflow it  *)
(* calls takes only inputs it declares; one that is declared and not       *)
(* passed is true, one that is not offered is false.                       *)
Builds(t) ==
  LET allowed(c) == /\ "declare" \in t.edits
                    /\ "pass" \in t.edits => Requires(c) \subseteq t.inputs
  IN IF "pass" \in t.edits /\ "declare" \notin t.edits THEN {}
     ELSE {c \in Target : c \in t.edits => allowed(c)}

RemoveBundled(t, f) == Edit(t, f, {"scripts"})

\* The workflows may publish.
Permit(t, f) == Edit(t, f, {"permit"})

\* A manual run offers the inputs and passes them on, the called workflow
\* declares them and its jobs heed them.
OfferInputs(t, f, stamp) ==
  IF "offer" \in f.lost THEN t
  ELSE [Edit(t, f, {"offer"}) EXCEPT !.inputs = Chosen(f), !.release = stamp]
PassInputs(t, f) == Edit(t, f, {"pass"})
DeclareInputs(t, f) == Edit(t, f, {"declare"})
GateJobs(t, f) == Edit(t, f, Target)

ChooseTargets(t, f, stamp) ==
  GateJobs(DeclareInputs(PassInputs(OfferInputs(Permit(t, f), f, stamp), f), f), f)

UpgradeActions(t) == [t EXCEPT !.node = "24"]

WriteServers(t, f) == [t EXCEPT !.servers = f.servers]

HardSettings(f) ==
  {"api-server", "remote-config", "hide-cm"}
    \cup (IF f.password THEN {"password", "verification-method"} ELSE {})
    \cup (IF Len(f.servers) = 2 THEN {"relay-server"} ELSE {})

WriteHard(t, f) == [t EXCEPT !.hard = HardSettings(f)]

HideLinks(t, f) == IF f.hide THEN Edit(t, f, {"links"}) ELSE t

WriteAbout(t, f) == [t EXCEPT !.about = f.about]

DrawIcon(t, f) == [t EXCEPT !.icon = f.icon]

WriteNotes(t) == [t EXCEPT !.notes = TRUE]

\* The files and places of the constants and of the loader are found; the upload is a picture.
Locates(f) == f.version = "official"
Drawable(f) == f.icon # "broken"

Customized(t, f, stamp) ==
  LET a == UpgradeActions(ChooseTargets(RemoveBundled(t, f), f, stamp))
      b == WriteAbout(HideLinks(WriteHard(WriteServers(a, f), f), f), f)
  IN WriteNotes(DrawIcon(b, f))

-----------------------------------------------------------------------------
VARIABLES
  form,      \* history: [Job -> what was submitted]
  created,   \* jobs created; a job's number is its place in the order of created_at
  jobs,      \* the dictionary: [Job -> status or "absent"]
  rows,      \* the table: [Job -> status or "absent"]
  recent,    \* the order of updated_at: pairs of an older and a newer row
  at,        \* [Job -> where its request or thread is]
  tree,      \* [Job -> its checkout of the source]
  base,      \* [Job -> commits on the branch it cloned]
  ops,       \* recorded operations: pairs of a job and a result
  remote,    \* commits on the default branch of the target repository
  faults, restarts

vars == <<form, created, jobs, rows, recent, at, tree, base, ops, remote, faults, restarts>>

disk == <<rows, recent, faults>>
build == <<tree, base, remote>>

Steps == {"check", "tag", "fetch", "localize", "customize", "target", "copy", "stage", "push"}
Places == {"none", "saving", "ready", "starting", "returned", "succeeded", "recording",
           "raised", "failing", "noting", "logging", "over"} \cup Steps

Init ==
  /\ form \in [Job -> Form]
  /\ created = 0
  /\ jobs = [j \in Job |-> "absent"] /\ rows = jobs
  /\ recent = {}
  /\ at = [j \in Job |-> "none"]
  /\ tree = [j \in Job |-> NoTree]
  /\ base = [j \in Job |-> 0]
  /\ ops = {} /\ remote = <<>>
  /\ faults = 0 /\ restarts = 0

Goto(j, place) == at' = [at EXCEPT ![j] = place]

Listed == {j \in Job : jobs[j] # "absent"}
Saved == {j \in Job : rows[j] # "absent"}

(* persist_rustdesk_job: a row with this status, updated now. *)
Write(j, status) ==
  /\ rows' = [rows EXCEPT ![j] = status]
  /\ recent' = {p \in recent : j \notin {p[1], p[2]}} \cup ((Saved \ {j}) \X {j})
  /\ UNCHANGED faults

Fault ==
  /\ faults < MaxFaults
  /\ faults' = faults + 1
  /\ UNCHANGED <<rows, recent>>

(* progress: a line in the log of a job that is still kept, and its row. *)
Progress(j) ==
  IF jobs[j] = "absent" THEN UNCHANGED disk ELSE Write(j, jobs[j])

-----------------------------------------------------------------------------
(* Requests *)

\* Mutant: an off-by-one keeps one job too many.
Newest_OneMore(kept, order) ==
  {j \in kept : Cardinality({k \in kept : <<j, k>> \in order}) <= Keep}

\* Those with fewer than Keep newer ones.
Newest(kept, order) ==
  {j \in kept : Cardinality({k \in kept : <<j, k>> \in order}) < Keep}

Numbers == {p \in Job \X Job : p[1] < p[2]}

CreateJob ==
  /\ created < MaxJobs
  /\ created' = created + 1
  /\ LET j == created + 1
         kept == Newest(Listed \cup {j}, Numbers)
     IN /\ jobs' = [k \in Job |-> IF k \notin kept THEN "absent"
                                  ELSE IF k = j THEN "queued" ELSE jobs[k]]
        /\ Goto(j, "saving")
  /\ UNCHANGED <<form, disk, build, ops, restarts>>

(* A save that fails here leaves a job without a thread. *)
SaveJob(j) ==
  /\ at[j] = "saving"
  /\ \/ Write(j, "queued") /\ Goto(j, "ready")
     \/ Fault /\ Goto(j, "over")
  /\ UNCHANGED <<form, created, jobs, build, ops, restarts>>

-----------------------------------------------------------------------------
(* The thread *)

Begin(j) ==
  /\ at[j] = "ready"
  /\ IF jobs[j] = "absent"
       THEN Goto(j, "check") /\ UNCHANGED jobs
       ELSE Goto(j, "starting") /\ jobs' = [jobs EXCEPT ![j] = "running"]
  /\ UNCHANGED <<form, created, disk, build, ops, restarts>>

(* This save is made before the handlers of errors. *)
SaveRunning(j) ==
  /\ at[j] = "starting"
  /\ \/ Write(j, "running") /\ Goto(j, "check")
     \/ Fault /\ Goto(j, "over")
  /\ UNCHANGED <<form, created, jobs, build, ops, restarts>>

ScopesSuffice(scopes) ==
  \/ scopes = {}
  \/ IF "repo" \in scopes THEN "workflow" \in scopes
     ELSE {"public_repo", "workflow"} \subseteq scopes

WellNamed(f) == f.repo # "malformed"

RepoAccepted(f) == WellNamed(f) /\ ScopesSuffice(f.scopes) /\ f.repo # "private"

CheckRequest(j) ==
  /\ at[j] = "check"
  /\ form[j].targets \subseteq Target
  /\ form[j].complete
  /\ RepoAccepted(form[j])
  /\ Goto(j, "tag")
  /\ Progress(j)
  /\ UNCHANGED <<form, created, jobs, build, ops, restarts>>

CheckTag(j) ==
  /\ at[j] = "tag"
  /\ form[j].version \in {"official", "restructured"}
  /\ Goto(j, "fetch")
  /\ Progress(j)
  /\ UNCHANGED <<form, created, jobs, build, ops, restarts>>

FetchSource(j) ==
  /\ at[j] = "fetch"
  /\ tree' = [tree EXCEPT ![j] = Official]
  /\ Goto(j, "localize")
  /\ Progress(j)
  /\ UNCHANGED <<form, created, jobs, base, remote, ops, restarts>>

(* A list of submodules that cannot be made counts as an empty one: then   *)
(* only .gitmodules goes.                                                  *)
LocalizeSubmodules(j) ==
  /\ at[j] = "localize"
  /\ \E left \in {"files", "orphaned"} : tree' = [tree EXCEPT ![j].submodules = left]
  /\ Goto(j, "customize")
  /\ Progress(j)
  /\ UNCHANGED <<form, created, jobs, base, remote, ops, restarts>>

\* Mutant: a patch that does not find its place leaves the text as it is, too.
Customize_Silent(j) ==
  /\ at[j] = "customize"
  /\ Drawable(form[j])
  /\ \E s \in Stamp :
       LET t == Customized(tree[j], form[j], s)
       IN tree' = [tree EXCEPT ![j] = IF Locates(form[j]) THEN t
                                      ELSE [t EXCEPT !.servers = tree[j].servers, !.hard = {}]]
  /\ Goto(j, "target")
  /\ Progress(j)
  /\ UNCHANGED <<form, created, jobs, base, remote, ops, restarts>>

Customize(j) ==
  /\ at[j] = "customize"
  /\ Locates(form[j]) /\ Drawable(form[j])
  /\ \E s \in Stamp : tree' = [tree EXCEPT ![j] = Customized(tree[j], form[j], s)]
  /\ Goto(j, "target")
  /\ Progress(j)
  /\ UNCHANGED <<form, created, jobs, base, remote, ops, restarts>>

FetchTarget(j) ==
  /\ at[j] = "target"
  /\ base' = [base EXCEPT ![j] = Len(remote)]
  /\ Goto(j, "copy")
  /\ Progress(j)
  /\ UNCHANGED <<form, created, jobs, tree, remote, ops, restarts>>

CopySource(j) ==
  /\ at[j] = "copy"
  /\ Goto(j, "stage")
  /\ UNCHANGED <<form, created, jobs, disk, build, ops, restarts>>

(* git add and git status; without a difference nothing is pushed. *)
Unchanged(j) == base[j] > 0 /\ remote[base[j]].tree = tree[j]

Stage(j) ==
  /\ at[j] = "stage"
  /\ Goto(j, IF Unchanged(j) THEN "returned" ELSE "push")
  /\ Progress(j)
  /\ UNCHANGED <<form, created, jobs, build, ops, restarts>>

\* Mutant: a forced push.
Pushed_Forced(j) ==
  remote' = Append(SubSeq(remote, 1, base[j]), [by |-> j, tree |-> tree[j]])

(* git commit and git push.  GitHub takes a push only on top of the commit *)
(* it has, and from a token that may write; the scopes of a fine-grained   *)
(* one are not known before.                                               *)
Pushed(j) ==
  /\ Len(remote) = base[j]
  /\ remote' = Append(remote, [by |-> j, tree |-> tree[j]])

Push(j) ==
  /\ at[j] = "push"
  /\ Pushed(j)
  /\ Goto(j, "returned")
  /\ Progress(j)
  /\ UNCHANGED <<form, created, jobs, tree, base, ops, restarts>>

(* The push took effect, and its command ran into the timeout. *)
PushTimesOut(j) ==
  /\ at[j] = "push"
  /\ Pushed(j)
  /\ Goto(j, "raised")
  /\ UNCHANGED <<form, created, jobs, disk, tree, base, ops, restarts>>

(* The form is refused, or GitHub does not answer. *)
CheckFails(j) ==
  /\ at[j] = "check"
  /\ Goto(j, "raised")
  /\ UNCHANGED <<form, created, jobs, disk, build, ops, restarts>>

\* Mutant: the exit code of the last command is ignored.
CommandFails_PushIgnored(j) ==
  /\ at[j] \in Steps \ {"check"}
  /\ Goto(j, IF at[j] = "push" THEN "returned" ELSE "raised")
  /\ UNCHANGED <<form, created, jobs, disk, build, ops, restarts>>

(* Any command or patch may fail, and any save of a line of the log; the   *)
(* checkouts go.                                                           *)
CommandFails(j) ==
  /\ at[j] \in Steps \ {"check"}
  /\ Goto(j, "raised")
  /\ UNCHANGED <<form, created, jobs, disk, build, ops, restarts>>

(* A job that is no longer kept cannot be marked: a KeyError. *)
Succeed(j) ==
  /\ at[j] = "returned"
  /\ IF jobs[j] = "absent"
       THEN Goto(j, "raised") /\ UNCHANGED jobs
       ELSE Goto(j, "succeeded") /\ jobs' = [jobs EXCEPT ![j] = "success"]
  /\ UNCHANGED <<form, created, disk, build, ops, restarts>>

\* Mutant: the result is not saved before it is recorded.
SaveSuccess_Skipped(j) ==
  /\ at[j] = "succeeded"
  /\ Goto(j, "recording")
  /\ UNCHANGED <<form, created, jobs, disk, build, ops, restarts>>

SaveSuccess(j) ==
  /\ at[j] = "succeeded"
  /\ \/ Write(j, "success") /\ Goto(j, "recording")
     \/ Fault /\ Goto(j, "raised")
  /\ UNCHANGED <<form, created, jobs, build, ops, restarts>>

Record(j, result) ==
  \/ ops' = ops \cup {<<j, result>>} /\ Goto(j, "over") /\ UNCHANGED faults
  \/ /\ faults < MaxFaults /\ faults' = faults + 1
     /\ Goto(j, IF result = "success" THEN "raised" ELSE "over")
     /\ UNCHANGED ops

RecordSuccess(j) ==
  /\ at[j] = "recording"
  /\ Record(j, "success")
  /\ UNCHANGED <<form, created, jobs, rows, recent, build, restarts>>

(* The handlers of errors, the same for both kinds. *)
MarkFailed(j) ==
  /\ at[j] = "raised"
  /\ IF jobs[j] = "absent"
       THEN Goto(j, "logging") /\ UNCHANGED jobs
       ELSE Goto(j, "failing") /\ jobs' = [jobs EXCEPT ![j] = "failed"]
  /\ UNCHANGED <<form, created, disk, build, ops, restarts>>

SaveFailed(j) ==
  /\ at[j] = "failing"
  /\ \/ Write(j, "failed") /\ Goto(j, "noting")
     \/ Fault /\ Goto(j, "over")
  /\ UNCHANGED <<form, created, jobs, build, ops, restarts>>

NoteFailure(j) ==
  /\ at[j] = "noting"
  /\ \/ Progress(j) /\ Goto(j, "logging")
     \/ jobs[j] # "absent" /\ Fault /\ Goto(j, "over")
  /\ UNCHANGED <<form, created, jobs, build, ops, restarts>>

RecordFailure(j) ==
  /\ at[j] = "logging"
  /\ Record(j, "failed")
  /\ UNCHANGED <<form, created, jobs, rows, recent, build, restarts>>

-----------------------------------------------------------------------------
(* Restart *)

Restored == Newest(Saved, recent)

\* Mutant: no restored job counts as interrupted.
Interrupted_None == {}

Interrupted == {j \in Restored : rows[j] \in Live}

\* The newest row is handled first, so that among the interrupted it ends as the oldest.
RestoreJobs ==
  /\ rows' = [j \in Job |-> IF j \in Interrupted THEN "failed" ELSE rows[j]]
  /\ jobs' = [j \in Job |-> IF j \in Restored THEN rows'[j] ELSE "absent"]
  /\ recent' = {p \in Saved \X Saved :
                  IF p[2] \in Interrupted THEN p[1] \in Interrupted => <<p[2], p[1]>> \in recent
                  ELSE p[1] \notin Interrupted /\ p \in recent}

Restart ==
  /\ restarts < MaxRestarts
  /\ restarts' = restarts + 1
  /\ RestoreJobs
  /\ at' = [j \in Job |-> IF at[j] = "none" THEN "none" ELSE "over"]
  /\ UNCHANGED <<form, created, build, ops, faults>>

-----------------------------------------------------------------------------
Source(j) ==
  \/ CheckRequest(j) \/ CheckTag(j) \/ FetchSource(j) \/ LocalizeSubmodules(j)
  \/ Customize(j) \/ FetchTarget(j) \/ CopySource(j) \/ Stage(j)
  \/ Push(j) \/ PushTimesOut(j) \/ CheckFails(j) \/ CommandFails(j)

Thread(j) ==
  \/ SaveJob(j) \/ Begin(j) \/ SaveRunning(j) \/ Source(j)
  \/ Succeed(j) \/ SaveSuccess(j) \/ RecordSuccess(j)
  \/ MarkFailed(j) \/ SaveFailed(j) \/ NoteFailure(j) \/ RecordFailure(j)

Next ==
  \/ CreateJob
  \/ \E j \in Job : Thread(j)
  \/ Restart

Spec == Init /\ [][Next]_vars /\ \A j \in Job : WF_vars(Thread(j))

-----------------------------------------------------------------------------
Status == Live \cup Final \cup {"absent"}

\* A strict total order.
Orders(order, S) ==
  /\ order \subseteq S \X S
  /\ \A i, j \in S : <<i, j>> \in order <=> i # j /\ <<j, i>> \notin order
  /\ \A i, j, k \in S : <<i, j>> \in order /\ <<j, k>> \in order => <<i, k>> \in order

(* Every variable keeps its kind, the dictionary keeps at most Keep jobs,  *)
(* and the times of the rows order them.                                   *)
TypeOK ==
  /\ created \in 0 .. MaxJobs
  /\ jobs \in [Job -> Status] /\ rows \in [Job -> Status]
  /\ at \in [Job -> Places]
  /\ Cardinality(Listed) <= Keep
  /\ Orders(recent, Saved)
  /\ base \in [Job -> 0 .. Len(remote)]
  /\ ops \subseteq Job \X Final
  /\ faults \in 0 .. MaxFaults /\ restarts \in 0 .. MaxRestarts

\* The client's settings are in the tree, and every other edit that its release has a
\* place for.
Serves(t, f) ==
  /\ t.servers = f.servers
  /\ {"api-server", "remote-config", "hide-cm"} \subseteq t.hard
  /\ f.password <=> "password" \in t.hard
  /\ t.about = f.about /\ t.icon = f.icon /\ t.notes
  /\ ({"scripts", "permit"} \cup (IF f.hide THEN {"links"} ELSE {})) \ f.lost \subseteq t.edits
  /\ "pass" \notin f.lost => Builds(t) \subseteq Chosen(f) \cup f.lost

(* A job that says success is on the branch: the repository has a commit   *)
(* with the settings its form asks for, whatever the release looks like,   *)
(* and a manual run there builds, beside the chosen clients, only those    *)
(* whose job the release has under another name.  (Builds of several jobs, *)
(* failing commands, pushes whose answer is lost, failing saves, restarts. *)
(* That an edit may be lost and the job still say success is the code's.)  *)
SuccessHonest ==
  \A j \in Job : "success" \in {jobs[j], rows[j]} =>
    \E i \in DOMAIN remote : Serves(remote[i].tree, form[j])

(* A push never takes away what another job has pushed: the branch only    *)
(* grows, by a commit whose author cloned all of it.                       *)
HistoryKept ==
  [][/\ \A i \in DOMAIN remote : i \in DOMAIN remote' /\ remote'[i] = remote[i]
     /\ \A i \in DOMAIN remote' \ DOMAIN remote : base[remote'[i].by] = i - 1]_vars

(* The records of operations and the rows of jobs agree while saves        *)
(* succeed: an operation that succeeded is one of a job that says success, *)
(* one that failed is not.                                                 *)
OperationsAgree ==
  \A j \in Job :
    /\ <<j, "success">> \in ops => rows[j] = "success"
    /\ <<j, "failed">> \in ops /\ faults = 0 => rows[j] # "success"

(* A job that is listed ends, by its result or by its eviction, or a save  *)
(* has failed.                                                             *)
BuildsEnd ==
  \A j \in Job : (jobs[j] \in Live) ~> (jobs[j] \notin Live \/ faults > 0)
=============================================================================
