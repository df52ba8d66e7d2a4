------------------------- MODULE ClientBuild_proofs -------------------------
(***************************************************************************)
(* Proofs about ClientBuild, for any number of jobs, faults, restarts and  *)
(* kept jobs, any clients and forms: a job that says success is on the     *)
(* branch, operations agree with rows, and pushes never take anything      *)
(* away.                                                                   *)
(***************************************************************************)
EXTENDS ClientBuild, FiniteSetTheorems, TLAPS

-----------------------------------------------------------------------------
(* The inductive invariant *)

Settings ==
  {"api-server", "remote-config", "hide-cm", "password", "verification-method",
   "relay-server"}

Tree ==
  [submodules : {"linked", "files", "orphaned"}, edits : SUBSET Edits,
   inputs : SUBSET (Target \cup {"other"}), release : Stamp \cup {"ref"},
   node : {"old", "24"}, servers : {f.servers : f \in Form} \cup {<<>>, <<"official">>},
   hard : SUBSET Settings, about : BOOLEAN, icon : Icons, notes : BOOLEAN]

Commit == [by : Job, tree : Tree]

TypeInv ==
  /\ form \in [Job -> Form]
  /\ created \in 0 .. MaxJobs
  /\ jobs \in [Job -> Status] /\ rows \in [Job -> Status]
  /\ at \in [Job -> Places]
  /\ tree \in [Job -> Tree]
  /\ remote \in Seq(Commit)
  /\ base \in [Job -> 0 .. Len(remote)]
  /\ ops \subseteq Job \X Final
  /\ faults \in 0 .. MaxFaults /\ restarts \in 0 .. MaxRestarts

\* Where a job that may still succeed is before its result is known.
Working == {"starting", "returned"} \cup Steps
Failing == {"failing", "noting", "logging"}

\* What the dictionary says of a job at each place.
Known(place, status) ==
  /\ place = "none" => status = "absent"
  /\ place \in {"saving", "ready"} => status \in {"absent", "queued"}
  /\ place \in Working => status \in {"absent", "running"}
  /\ place \in {"succeeded", "recording"} => status \in {"absent", "success"}
  /\ place = "raised" => status \in {"absent", "running", "success"}
  /\ place \in Failing => status \in {"absent", "failed"}

\* What its row says.
Stored(place, status) ==
  /\ place = "none" => status = "absent"
  /\ place \in {"saving", "ready", "succeeded"} \cup Working => status # "success"
  /\ place = "recording" => status = "success"
  /\ place \in {"raised"} \cup Failing /\ faults = 0 => status # "success"

JobInv(j) ==
  /\ at[j] = "none" <=> j > created
  /\ Known(at[j], jobs[j])
  /\ Stored(at[j], rows[j])
  /\ \A r \in Final : <<j, r>> \in ops => at[j] = "over"
  /\ <<j, "success">> \in ops => rows[j] = "success"
  /\ <<j, "failed">> \in ops /\ faults = 0 => rows[j] # "success"

OnBranch(f) == \E i \in DOMAIN remote : Serves(remote[i].tree, f)

\* The source is as it was published until it is customised; then it serves its form
\* until it is pushed, and then the branch does.
Fresh(t) == t.edits = {} /\ t.inputs = {}

Honest(j) ==
  /\ at[j] \in {"localize", "customize"} => Fresh(tree[j])
  /\ at[j] \in {"target", "copy", "stage", "push"} => Serves(tree[j], form[j])
  /\ at[j] \in {"returned", "succeeded", "recording"} => OnBranch(form[j])
  /\ "success" \in {jobs[j], rows[j]} => OnBranch(form[j])

IInv ==
  /\ TypeInv
  /\ \A j \in Job : JobInv(j)
  /\ \A j \in Job : Honest(j)
  /\ Orders(recent, Saved)
  /\ Cardinality(Listed) <= Keep


-----------------------------------------------------------------------------
(* The newest of an ordered set *)

\* Any two are ordered, and one way only.
Total(order, S) ==
  /\ \A i, j \in S : <<i, j>> \in order <=> i # j /\ <<j, i>> \notin order
  /\ \A i, j, k \in S : <<i, j>> \in order /\ <<j, k>> \in order => <<i, k>> \in order

\* Of two jobs the older one has more newer ones, so that only Keep jobs have fewer
\* than Keep of them.
LEMMA NewestCount ==
  ASSUME NEW S, IsFiniteSet(S), NEW order, Total(order, S)
  PROVE  /\ Newest(S, order) \subseteq S
         /\ Cardinality(Newest(S, order)) <= Keep
<1> DEFINE After(j) == {k \in S : <<j, k>> \in order}
           N == Newest(S, order)
           f == [j \in N |-> Cardinality(After(j))]
<1>1. N \subseteq S /\ \A j \in N : Cardinality(After(j)) < Keep
  BY DEF Newest
<1>2. \A j \in S : IsFiniteSet(After(j)) /\ Cardinality(After(j)) \in Nat
  BY FS_Subset, FS_CardinalityType
<1>3. ASSUME NEW i \in N, NEW j \in N, <<i, j>> \in order PROVE f[i] # f[j]
  <2>1. After(j) \subseteq After(i) /\ j \in After(i) /\ j \notin After(j)
    BY <1>1, <1>3 DEF Total
  <2>2. After(j) \in SUBSET After(i) /\ After(i) # After(j)
    BY <2>1
  <2>3. IsFiniteSet(After(i))
    BY <1>1, <1>2
  <2> HIDE DEF After
  <2>4. Cardinality(After(i)) # Cardinality(After(j))
    BY <2>2, <2>3, FS_Subset
  <2> QED
    BY <2>4
<1>4. Keep \in Nat \ {0}
  BY BoundsAssumption
<1>5. f \in [N -> 0 .. (Keep - 1)]
  <2> HIDE DEF After, N
  <2>1. \A j \in N : Cardinality(After(j)) \in 0 .. (Keep - 1)
    BY <1>1, <1>2, <1>4
  <2> QED
    BY <2>1
<1>6. f \in Injection(N, 0 .. (Keep - 1))
  <2>1. ASSUME NEW i \in N, NEW j \in N, f[i] = f[j] PROVE i = j
    <3>1. i # j => <<i, j>> \in order \/ <<j, i>> \in order
      BY <1>1 DEF Total
    <3> QED
      BY <1>3, <2>1, <3>1
  <2> HIDE DEF f
  <2> QED
    BY <1>5, <2>1 DEF Injection, IsInjective
<1>7. IsFiniteSet(0 .. (Keep - 1)) /\ Cardinality(0 .. (Keep - 1)) = Keep
  BY <1>4, FS_Interval
<1> HIDE DEF f, N
<1>8. Cardinality(N) <= Keep
  BY <1>6, <1>7, FS_Injection
<1> QED
  BY <1>1, <1>8 DEF N

LEMMA JobFacts == IsFiniteSet(Job) /\ Total(Numbers, Job) /\ Keep \in Nat \ {0}
<1>1. MaxJobs \in Nat /\ Keep \in Nat \ {0}
  BY BoundsAssumption
<1>2. IsFiniteSet(Job)
  BY <1>1, FS_Interval DEF Job
<1>3. \A i, j \in Job : <<i, j>> \in Numbers <=> i < j
  BY DEF Numbers
<1>4. Total(Numbers, Job)
  BY <1>1, <1>3 DEF Total, Job
<1> QED
  BY <1>1, <1>2, <1>4


-----------------------------------------------------------------------------
(* The source tree *)

LEMMA OfficialFacts == Official \in Tree /\ NoTree \in Tree
<1>1. Official \in Tree
  BY DEF Official, Tree, Icons
<1>2. NoTree \in Tree
  BY <1>1 DEF NoTree, Tree
<1> QED
  BY <1>1, <1>2

\* The inputs of a chosen client's job are asked for by that job, too.
LEMMA RequiresFacts ==
  ASSUME NEW t
  PROVE  t \in Requires(t)
BY DEF Requires

\* An edit adds those that find their place and changes nothing else.
LEMMA EditFacts ==
  ASSUME NEW t \in Tree, NEW f \in Form, NEW wanted \in SUBSET Edits
  PROVE  /\ Edit(t, f, wanted) \in Tree
         /\ Edit(t, f, wanted).edits = t.edits \cup (wanted \ f.lost)
         /\ Edit(t, f, wanted).inputs = t.inputs
BY DEF Edit, Tree

\* The workflows have every edit that finds its place, and offer what was chosen.
LEMMA ChosenFacts ==
  ASSUME NEW t \in Tree, NEW f \in Form, NEW s \in Stamp, t.edits = {}, t.inputs = {}
  PROVE  LET u == ChooseTargets(RemoveBundled(t, f), f, s)
         IN /\ u \in Tree
            /\ u.edits = ({"scripts", "permit", "offer", "pass", "declare"} \cup Target) \ f.lost
            /\ u.inputs \subseteq Chosen(f)
<1> DEFINE t1 == RemoveBundled(t, f)
           t2 == Permit(t1, f)
           t3 == OfferInputs(t2, f, s)
           t4 == PassInputs(t3, f)
           t5 == DeclareInputs(t4, f)
           t6 == GateJobs(t5, f)
<1>1. /\ \A e \in {"scripts", "permit", "offer", "pass", "declare"} : {e} \in SUBSET Edits
      /\ Target \in SUBSET Edits
  BY DEF Edits
<1>2. Chosen(f) \in SUBSET (Target \cup {"other"})
  BY FormAssumption DEF IsForm, Chosen
<1>3. t1 \in Tree /\ t1.edits = {"scripts"} \ f.lost /\ t1.inputs = {}
  BY <1>1, EditFacts DEF RemoveBundled
<1> HIDE DEF t1
<1>4. t2 \in Tree /\ t2.edits = {"scripts", "permit"} \ f.lost /\ t2.inputs = {}
  BY <1>1, <1>3, EditFacts DEF Permit
<1> HIDE DEF t2
<1>5. /\ t3 \in Tree /\ t3.edits = {"scripts", "permit", "offer"} \ f.lost
      /\ t3.inputs \subseteq Chosen(f)
  <2>1. CASE "offer" \in f.lost
    BY <1>4, <2>1 DEF OfferInputs
  <2>2. CASE "offer" \notin f.lost
    <3> DEFINE u == Edit(t2, f, {"offer"})
    <3>1. u \in Tree /\ u.edits = t2.edits \cup ({"offer"} \ f.lost)
      BY <1>1, <1>4, EditFacts
    <3>2. t3 = [u EXCEPT !.inputs = Chosen(f), !.release = s]
      BY <2>2 DEF OfferInputs
    <3> HIDE DEF u, t3
    <3>3. t3 \in Tree /\ t3.edits = u.edits /\ t3.inputs = Chosen(f)
      BY <1>2, <3>1, <3>2 DEF Tree
    <3> QED
      BY <1>4, <3>1, <3>3
  <2> QED
    BY <2>1, <2>2
<1> HIDE DEF t3
<1>6. /\ t4 \in Tree /\ t4.edits = {"scripts", "permit", "offer", "pass"} \ f.lost
      /\ t4.inputs \subseteq Chosen(f)
  BY <1>1, <1>5, EditFacts DEF PassInputs
<1> HIDE DEF t4
<1>7. /\ t5 \in Tree /\ t5.edits = {"scripts", "permit", "offer", "pass", "declare"} \ f.lost
      /\ t5.inputs \subseteq Chosen(f)
  BY <1>1, <1>6, EditFacts DEF DeclareInputs
<1> HIDE DEF t5
<1>8. /\ t6 \in Tree /\ t6.inputs \subseteq Chosen(f)
      /\ t6.edits = ({"scripts", "permit", "offer", "pass", "declare"} \cup Target) \ f.lost
  BY <1>1, <1>7, EditFacts DEF GateJobs
<1>9. ChooseTargets(RemoveBundled(t, f), f, s) = t6
  BY DEF ChooseTargets, t1, t2, t3, t4, t5
<1> QED
  BY <1>8, <1>9

\* What the patches make of the official tree serves the form they are given.
LEMMA CustomizedServes ==
  ASSUME NEW t \in Tree, NEW f \in Form, NEW s \in Stamp, t.edits = {}, t.inputs = {}
  PROVE  Customized(t, f, s) \in Tree /\ Serves(Customized(t, f, s), f)
<1> DEFINE E == ({"scripts", "permit", "offer", "pass", "declare"} \cup Target) \ f.lost
           t5 == UpgradeActions(ChooseTargets(RemoveBundled(t, f), f, s))
           t6 == WriteServers(t5, f)
           t7 == WriteHard(t6, f)
           t8 == HideLinks(t7, f)
           t9 == WriteAbout(t8, f)
           t10 == DrawIcon(t9, f)
           t11 == WriteNotes(t10)
<1>1. Customized(t, f, s) = t11
  BY DEF Customized
<1>2. f.about \in BOOLEAN /\ f.icon \in Icons
  BY FormAssumption DEF IsForm
<1>3. t5 \in Tree /\ t5.edits = E /\ t5.inputs \subseteq Chosen(f)
  <2> DEFINE u == ChooseTargets(RemoveBundled(t, f), f, s)
  <2>1. u \in Tree /\ u.edits = E /\ u.inputs \subseteq Chosen(f)
    BY ChosenFacts
  <2>2. t5 = [u EXCEPT !.node = "24"]
    BY DEF UpgradeActions
  <2> HIDE DEF u, t5
  <2> QED
    BY <2>1, <2>2 DEF Tree
<1> HIDE DEF t5
<1>4. t6 \in Tree /\ t6.edits = E /\ t6.inputs \subseteq Chosen(f) /\ t6.servers = f.servers
  BY <1>3 DEF Tree, WriteServers
<1> HIDE DEF t6
<1>5. /\ t7 \in Tree /\ t7.edits = E /\ t7.inputs \subseteq Chosen(f)
      /\ t7.servers = f.servers /\ t7.hard = HardSettings(f)
  <2>1. HardSettings(f) \in SUBSET Settings
    BY DEF HardSettings, Settings
  <2> QED
    BY <1>4, <2>1 DEF Tree, WriteHard
<1> HIDE DEF t7
<1> DEFINE L == IF f.hide THEN {"links"} \ f.lost ELSE {}
<1>6. /\ t8 \in Tree /\ t8.edits = E \cup L /\ t8.inputs \subseteq Chosen(f)
      /\ t8.servers = f.servers /\ t8.hard = HardSettings(f)
  <2>1. CASE f.hide
    <3>1. {"links"} \in SUBSET Edits
      BY DEF Edits
    <3>2. t8 = Edit(t7, f, {"links"})
      BY <2>1 DEF HideLinks
    <3>3. t8.servers = t7.servers /\ t8.hard = t7.hard
      BY <1>5, <3>2 DEF Edit, Tree
    <3> QED
      BY <1>5, <2>1, <3>1, <3>2, <3>3, EditFacts
  <2>2. CASE ~f.hide
    BY <1>5, <2>2 DEF HideLinks
  <2> QED
    BY <2>1, <2>2
<1> HIDE DEF t8
<1>7. /\ t9 \in Tree /\ t9.edits = E \cup L /\ t9.inputs \subseteq Chosen(f)
      /\ t9.servers = f.servers /\ t9.hard = HardSettings(f) /\ t9.about = f.about
  BY <1>2, <1>6 DEF Tree, WriteAbout
<1> HIDE DEF t9
<1>8. /\ t10 \in Tree /\ t10.edits = E \cup L /\ t10.inputs \subseteq Chosen(f)
      /\ t10.servers = f.servers /\ t10.hard = HardSettings(f)
      /\ t10.about = f.about /\ t10.icon = f.icon
  BY <1>2, <1>7 DEF Tree, DrawIcon
<1> HIDE DEF t10
<1>9. /\ t11 \in Tree /\ t11.edits = E \cup L /\ t11.inputs \subseteq Chosen(f)
      /\ t11.servers = f.servers /\ t11.hard = HardSettings(f)
      /\ t11.about = f.about /\ t11.icon = f.icon /\ t11.notes
  BY <1>8 DEF Tree, WriteNotes
<1> HIDE DEF t11
<1>10. "pass" \notin f.lost => Builds(t11) \subseteq Chosen(f) \cup f.lost
  <2> SUFFICES ASSUME "pass" \notin f.lost, NEW c \in Builds(t11), c \notin f.lost
               PROVE  c \in Chosen(f)
    OBVIOUS
  <2>1. "pass" \in t11.edits
    BY <1>9
  <2>2. c \in Target /\ (c \in t11.edits => Requires(c) \subseteq t11.inputs)
    BY <2>1 DEF Builds
  <2>3. c \in t11.edits
    BY <1>9, <2>2
  <2> QED
    BY <1>9, <2>2, <2>3, RequiresFacts
<1>11. ({"scripts", "permit"} \cup (IF f.hide THEN {"links"} ELSE {})) \ f.lost \subseteq t11.edits
  BY <1>9
<1>12. /\ {"api-server", "remote-config", "hide-cm"} \subseteq HardSettings(f)
       /\ f.password <=> "password" \in HardSettings(f)
  BY DEF HardSettings
<1> QED
  BY <1>1, <1>9, <1>10, <1>11, <1>12 DEF Serves


-----------------------------------------------------------------------------
(* Saves *)

\* What a save, done or failed, leaves of the table.
DiskStep(j) ==
  /\ rows' \in [Job -> Status] /\ \A k \in Job \ {j} : rows'[k] = rows[k]
  /\ Orders(recent, Saved)'
  /\ faults' \in 0 .. MaxFaults /\ (faults' = 0 => faults = 0)

LEMMA WriteFacts ==
  ASSUME IInv, NEW j \in Job, NEW status \in Live \cup Final, Write(j, status)
  PROVE  DiskStep(j) /\ rows'[j] = status /\ faults' = faults
<1>1. /\ rows \in [Job -> Status] /\ Orders(recent, Saved) /\ Saved \subseteq Job
      /\ faults \in 0 .. MaxFaults
  BY DEF IInv, TypeInv, Saved
<1>2. /\ rows' = [rows EXCEPT ![j] = status] /\ faults' = faults
      /\ recent' = {p \in recent : j \notin {p[1], p[2]}} \cup ((Saved \ {j}) \X {j})
  BY DEF Write
<1>3. status \in Status /\ status # "absent"
  BY DEF Status, Live, Final
<1>4. /\ rows' \in [Job -> Status] /\ rows'[j] = status
      /\ \A k \in Job \ {j} : rows'[k] = rows[k]
  BY <1>1, <1>2, <1>3
<1>5. Saved' = Saved \cup {j}
  BY <1>1, <1>3, <1>4 DEF Saved
<1>6. \A a, b : <<a, b>> \in recent' <=>
        \/ <<a, b>> \in recent /\ a # j /\ b # j
        \/ a \in Saved \ {j} /\ b = j
  BY <1>2
<1>7. recent' \subseteq Saved' \X Saved'
  BY <1>1, <1>2, <1>5 DEF Orders
<1>8. \A a, b \in Saved : <<a, b>> \in recent <=> a # b /\ <<b, a>> \notin recent
  BY <1>1 DEF Orders
<1>9. \A a, b, c \in Saved : <<a, b>> \in recent /\ <<b, c>> \in recent => <<a, c>> \in recent
  BY <1>1 DEF Orders
<1>10. \A a, b \in Saved' : <<a, b>> \in recent' <=> a # b /\ <<b, a>> \notin recent'
  BY <1>5, <1>6, <1>8
<1>11. \A a, b, c \in Saved' : <<a, b>> \in recent' /\ <<b, c>> \in recent' => <<a, c>> \in recent'
  BY <1>5, <1>6, <1>9
<1>12. Orders(recent, Saved)'
  BY <1>7, <1>10, <1>11 DEF Orders
<1> QED
  BY <1>1, <1>2, <1>4, <1>12 DEF DiskStep

LEMMA FaultFacts ==
  ASSUME IInv, NEW j \in Job, Fault
  PROVE  DiskStep(j) /\ rows' = rows /\ faults' # 0
<1>1. /\ faults < MaxFaults /\ faults' = faults + 1 /\ UNCHANGED <<rows, recent>>
      /\ MaxFaults \in Nat /\ faults \in 0 .. MaxFaults
  BY BoundsAssumption DEF Fault, IInv, TypeInv
<1>2. Orders(recent, Saved)'
  BY <1>1 DEF IInv, Orders, Saved
<1>3. faults' \in 0 .. MaxFaults /\ faults' # 0
  BY <1>1
<1> QED
  BY <1>1, <1>2, <1>3 DEF DiskStep, IInv, TypeInv

LEMMA NoSave ==
  ASSUME IInv, NEW j \in Job, UNCHANGED disk
  PROVE  DiskStep(j) /\ rows' = rows /\ faults' = faults
<1>1. UNCHANGED <<rows, recent, faults>>
  BY DEF disk
<1>2. Orders(recent, Saved)'
  BY <1>1 DEF IInv, Orders, Saved
<1> QED
  BY <1>1, <1>2 DEF DiskStep, IInv, TypeInv

LEMMA ProgressFacts ==
  ASSUME IInv, NEW j \in Job, Progress(j)
  PROVE  /\ DiskStep(j) /\ faults' = faults
         /\ jobs[j] = "absent" => rows'[j] = rows[j]
         /\ jobs[j] # "absent" => rows'[j] = jobs[j]
<1>1. CASE jobs[j] = "absent"
  BY <1>1, NoSave DEF Progress
<1>2. CASE jobs[j] # "absent"
  <2>1. jobs[j] \in Live \cup Final
    BY <1>2 DEF IInv, TypeInv, Status
  <2> QED
    BY <1>2, <2>1, WriteFacts DEF Progress
<1> QED
  BY <1>1, <1>2

-----------------------------------------------------------------------------
(* A step of one thread *)

\* Commits stay.
Grows == \A i \in DOMAIN remote : i \in DOMAIN remote' /\ remote'[i] = remote[i]

LEMMA BranchKept ==
  ASSUME Grows, NEW f, OnBranch(f)
  PROVE  OnBranch(f)'
BY DEF Grows, OnBranch

\* It leaves the other jobs alone.
LEMMA ThreadStep ==
  ASSUME IInv, NEW j \in Job, TypeInv', UNCHANGED <<form, created>>, Grows, DiskStep(j),
         NEW place, at' = [at EXCEPT ![j] = place],
         NEW status, jobs' = [jobs EXCEPT ![j] = status],
         status = "absent" <=> jobs[j] = "absent",
         NEW t, tree' = [tree EXCEPT ![j] = t],
         \A k \in Job \ {j} : \A r \in Final : <<k, r>> \in ops' <=> <<k, r>> \in ops,
         JobInv(j)', Honest(j)'
  PROVE  IInv'
<1>1. \A k \in Job \ {j} : /\ at'[k] = at[k] /\ jobs'[k] = jobs[k] /\ tree'[k] = tree[k]
                           /\ rows'[k] = rows[k]
  BY DEF DiskStep, IInv, TypeInv
<1>2. \A k \in Job : JobInv(k)'
  <2>1. ASSUME NEW k \in Job \ {j} PROVE JobInv(k)'
    <3>1. /\ JobInv(k) /\ created' = created
          /\ at'[k] = at[k] /\ jobs'[k] = jobs[k] /\ rows'[k] = rows[k]
          /\ faults' = 0 => faults = 0
      BY <1>1 DEF IInv, DiskStep
    <3>2. /\ <<k, "success">> \in ops' <=> <<k, "success">> \in ops
          /\ <<k, "failed">> \in ops' <=> <<k, "failed">> \in ops
      BY DEF Final
    <3>3. Known(at[k], jobs[k])'
      BY <3>1 DEF JobInv, Known
    <3>4. Stored(at[k], rows[k])'
      BY <3>1 DEF JobInv, Stored
    <3> QED
      BY <3>1, <3>2, <3>3, <3>4 DEF JobInv, Final, Stored
  <2> QED
    BY <2>1
<1>3. \A k \in Job : Honest(k)'
  <2>1. \A k \in Job \ {j} : Honest(k)'
    BY <1>1, BranchKept DEF IInv, Honest
  <2> QED
    BY <2>1
<1>4. Listed' = Listed
  BY <1>1 DEF Listed, IInv, TypeInv
<1> QED
  BY <1>2, <1>3, <1>4 DEF IInv, DiskStep

\* Most steps record no operation.
LEMMA PlaceStep ==
  ASSUME IInv, NEW j \in Job, at[j] \notin {"none", "over"},
         NEW place \in Places \ {"none"}, Goto(j, place), DiskStep(j),
         NEW status \in Status, jobs' = [jobs EXCEPT ![j] = status],
         status = "absent" <=> jobs[j] = "absent",
         NEW t \in Tree, tree' = [tree EXCEPT ![j] = t],
         remote' \in Seq(Commit), base' \in [Job -> 0 .. Len(remote')], Grows,
         UNCHANGED <<form, created, ops, restarts>>,
         Known(place, status), Stored(place, rows[j])',
         place \in {"localize", "customize"} => Fresh(t),
         place \in {"target", "copy", "stage", "push"} => Serves(t, form[j]),
         place \in {"returned", "succeeded", "recording"} => OnBranch(form[j])',
         "success" \in {status, rows'[j]} => OnBranch(form[j])'
  PROVE  IInv'
<1>1. at' = [at EXCEPT ![j] = place] /\ at \in [Job -> Places] /\ jobs \in [Job -> Status]
  BY DEF Goto, IInv, TypeInv
<1>2. at'[j] = place /\ jobs'[j] = status /\ tree'[j] = t
  BY <1>1 DEF IInv, TypeInv
<1>3. TypeInv'
  BY <1>1 DEF IInv, TypeInv, DiskStep
<1>4. JobInv(j)'
  <2>1. JobInv(j) /\ \A r \in Final : <<j, r>> \notin ops
    BY DEF IInv, JobInv
  <2>2. at'[j] = "none" <=> j > created'
    BY <1>2, <2>1 DEF JobInv
  <2>3. Known(at'[j], jobs'[j]) /\ Stored(at[j], rows[j])'
    BY <1>2 DEF Stored
  <2> QED
    BY <2>1, <2>2, <2>3 DEF JobInv, Final, Known, Stored
<1>5. Honest(j)'
  BY <1>2 DEF Honest
<1> QED
  BY <1>1, <1>3, <1>4, <1>5, ThreadStep

-----------------------------------------------------------------------------
(* The steps before the thread ends *)

\* What a step that only moves a job needs of a state.
LEMMA Here ==
  ASSUME IInv, NEW j \in Job
  PROVE  /\ at[j] \in Places /\ jobs[j] \in Status /\ rows[j] \in Status /\ tree[j] \in Tree
         /\ form[j] \in Form /\ JobInv(j) /\ Honest(j)
         /\ jobs = [jobs EXCEPT ![j] = jobs[j]] /\ tree = [tree EXCEPT ![j] = tree[j]]
         /\ remote \in Seq(Commit) /\ base \in [Job -> 0 .. Len(remote)]
BY DEF IInv, TypeInv

\* A step that changes neither trees nor branch.
LEMMA MoveStep ==
  ASSUME IInv, NEW j \in Job, at[j] \notin {"none", "over"},
         NEW place \in Places \ {"none"}, Goto(j, place), DiskStep(j),
         NEW status \in Status, jobs' = [jobs EXCEPT ![j] = status],
         status = "absent" <=> jobs[j] = "absent",
         UNCHANGED <<form, created, build, ops, restarts>>,
         Known(place, status), Stored(place, rows[j])',
         place \notin {"localize", "customize"},
         place \in {"target", "copy", "stage", "push"} => Serves(tree[j], form[j]),
         place \in {"returned", "succeeded", "recording"} => OnBranch(form[j]),
         "success" \in {status, rows'[j]} => OnBranch(form[j])
  PROVE  IInv'
<1>1. UNCHANGED <<form, created, tree, base, remote, ops, restarts>>
  BY DEF build
<1>2. tree' = [tree EXCEPT ![j] = tree[j]] /\ tree[j] \in Tree
      /\ remote' \in Seq(Commit) /\ base' \in [Job -> 0 .. Len(remote')]
  BY <1>1, Here
<1>3. Grows
  BY <1>1 DEF Grows
<1>4. OnBranch(form[j])' <=> OnBranch(form[j])
  BY <1>1 DEF OnBranch
<1> QED
  BY <1>1, <1>2, <1>3, <1>4, PlaceStep

LEMMA SaveJobInv ==
  ASSUME IInv, NEW j \in Job, SaveJob(j)
  PROVE  IInv'
<1>1. /\ at[j] = "saving" /\ jobs' = jobs
      /\ UNCHANGED <<form, created, build, ops, restarts>>
  BY DEF SaveJob
<1>2. /\ jobs[j] \in {"absent", "queued"} /\ jobs[j] \in Status /\ rows[j] # "success"
      /\ jobs' = [jobs EXCEPT ![j] = jobs[j]]
  BY <1>1, Here DEF JobInv, Known, Stored
<1>3. CASE Write(j, "queued") /\ Goto(j, "ready")
  <2>1. DiskStep(j) /\ rows'[j] = "queued"
    BY <1>3, WriteFacts DEF Live
  <2>2. Known("ready", jobs[j]) /\ Stored("ready", rows[j])'
    BY <1>2, <2>1 DEF Known, Stored, Working, Failing, Steps
  <2> QED
    BY <1>1, <1>2, <1>3, <2>1, <2>2, MoveStep DEF Places
<1>4. CASE Fault /\ Goto(j, "over")
  <2>1. DiskStep(j) /\ rows' = rows
    BY <1>4, FaultFacts
  <2>2. Known("over", jobs[j]) /\ Stored("over", rows[j])'
    BY <1>2, <2>1 DEF Known, Stored, Working, Failing, Steps
  <2> QED
    BY <1>1, <1>2, <1>4, <2>1, <2>2, MoveStep DEF Places
<1> QED
  BY <1>3, <1>4 DEF SaveJob

LEMMA BeginInv ==
  ASSUME IInv, NEW j \in Job, Begin(j)
  PROVE  IInv'
<1>1. at[j] = "ready" /\ UNCHANGED <<form, created, disk, build, ops, restarts>>
  BY DEF Begin
<1>2. /\ jobs[j] \in {"absent", "queued"} /\ jobs[j] \in Status /\ rows[j] # "success"
      /\ jobs = [jobs EXCEPT ![j] = jobs[j]]
  BY <1>1, Here DEF JobInv, Known, Stored
<1>3. DiskStep(j) /\ rows' = rows
  BY <1>1, NoSave
<1>4. \A p \in Working : Stored(p, rows[j])'
  BY <1>2, <1>3 DEF Stored, Working, Failing, Steps
<1>5. CASE jobs[j] = "absent"
  <2>1. Known("check", jobs[j]) /\ "check" \in Working
    BY <1>5 DEF Known, Working, Failing, Steps
  <2>2. Goto(j, "check") /\ jobs' = jobs
    BY <1>5 DEF Begin
  <2> QED
    BY <1>1, <1>2, <1>3, <1>4, <1>5, <2>1, <2>2, MoveStep DEF Places, Steps
<1>6. CASE jobs[j] # "absent"
  <2>1. Known("starting", "running") /\ "starting" \in Working
    BY DEF Known, Working, Failing, Steps
  <2>2. Goto(j, "starting") /\ jobs' = [jobs EXCEPT ![j] = "running"]
    BY <1>6 DEF Begin
  <2> QED
    BY <1>1, <1>2, <1>3, <1>4, <1>6, <2>1, <2>2, MoveStep DEF Places, Status, Live
<1> QED
  BY <1>5, <1>6

LEMMA SaveRunningInv ==
  ASSUME IInv, NEW j \in Job, SaveRunning(j)
  PROVE  IInv'
<1>1. /\ at[j] = "starting" /\ jobs' = jobs
      /\ UNCHANGED <<form, created, build, ops, restarts>>
  BY DEF SaveRunning
<1>2. /\ jobs[j] \in {"absent", "running"} /\ jobs[j] \in Status /\ rows[j] # "success"
      /\ jobs' = [jobs EXCEPT ![j] = jobs[j]]
  BY <1>1, Here DEF JobInv, Known, Stored, Working
<1>3. CASE Write(j, "running") /\ Goto(j, "check")
  <2>1. DiskStep(j) /\ rows'[j] = "running"
    BY <1>3, WriteFacts DEF Live
  <2>2. Known("check", jobs[j]) /\ Stored("check", rows[j])'
    BY <1>2, <2>1 DEF Known, Stored, Working, Failing, Steps
  <2> QED
    BY <1>1, <1>2, <1>3, <2>1, <2>2, MoveStep DEF Places, Steps
<1>4. CASE Fault /\ Goto(j, "over")
  <2>1. DiskStep(j) /\ rows' = rows
    BY <1>4, FaultFacts
  <2>2. Known("over", jobs[j]) /\ Stored("over", rows[j])'
    BY <1>2, <2>1 DEF Known, Stored, Working, Failing, Steps
  <2> QED
    BY <1>1, <1>2, <1>4, <2>1, <2>2, MoveStep DEF Places
<1> QED
  BY <1>3, <1>4 DEF SaveRunning

\* At work a job says running, or is no longer listed, and its row is not a success.
LEMMA WorkFacts ==
  ASSUME IInv, NEW j \in Job, at[j] \in Steps, Progress(j) \/ UNCHANGED disk
  PROVE  /\ DiskStep(j) /\ rows'[j] # "success" /\ jobs[j] \in {"absent", "running"}
         /\ at[j] \notin {"none", "over"}
         /\ jobs[j] \in Status /\ jobs = [jobs EXCEPT ![j] = jobs[j]]
         /\ tree = [tree EXCEPT ![j] = tree[j]] /\ tree[j] \in Tree
         /\ remote \in Seq(Commit) /\ base \in [Job -> 0 .. Len(remote)]
         /\ \A p \in Steps \cup {"returned", "raised"} :
              Known(p, jobs[j]) /\ Stored(p, rows[j])' /\ p \in Places \ {"none"}
<1>1. /\ jobs[j] \in {"absent", "running"} /\ rows[j] # "success"
      /\ at[j] \notin {"none", "over"}
  BY Here DEF JobInv, Known, Stored, Working, Steps
<1>2. DiskStep(j) /\ rows'[j] # "success"
  BY <1>1, NoSave, ProgressFacts
<1>3. \A p \in Steps \cup {"returned", "raised"} :
        Known(p, jobs[j]) /\ Stored(p, rows[j])' /\ p \in Places \ {"none"}
  BY <1>1, <1>2 DEF Known, Stored, Working, Failing, Steps, Places
<1> QED
  BY <1>1, <1>2, <1>3, Here

\* A step of the work that changes neither trees nor branch.
LEMMA WorkStep ==
  ASSUME IInv, NEW j \in Job, at[j] \in Steps, Progress(j) \/ UNCHANGED disk,
         NEW place \in Steps \cup {"returned", "raised"}, Goto(j, place),
         UNCHANGED <<form, created, jobs, build, ops, restarts>>,
         place \notin {"localize", "customize"},
         place \in {"target", "copy", "stage", "push"} => Serves(tree[j], form[j]),
         place = "returned" => OnBranch(form[j])
  PROVE  IInv'
<1>1. /\ DiskStep(j) /\ jobs[j] \in Status /\ jobs' = [jobs EXCEPT ![j] = jobs[j]]
      /\ Known(place, jobs[j]) /\ Stored(place, rows[j])' /\ place \in Places \ {"none"}
      /\ "success" \notin {jobs[j], rows'[j]} /\ at[j] \notin {"none", "over"}
  BY WorkFacts
<1>2. place \in {"returned", "succeeded", "recording"} => OnBranch(form[j])
  BY DEF Steps
<1> QED
  BY <1>1, <1>2, MoveStep

LEMMA ChecksInv ==
  ASSUME IInv, NEW j \in Job, CheckRequest(j) \/ CheckTag(j)
  PROVE  IInv'
<1>1. /\ at[j] \in Steps /\ Progress(j)
      /\ UNCHANGED <<form, created, jobs, build, ops, restarts>>
      /\ Goto(j, "tag") \/ Goto(j, "fetch")
  BY DEF CheckRequest, CheckTag, Steps
<1> QED
  BY <1>1, WorkStep DEF Steps

LEMMA FailsInv ==
  ASSUME IInv, NEW j \in Job, CheckFails(j) \/ CommandFails(j)
  PROVE  IInv'
<1>1. /\ at[j] \in Steps /\ UNCHANGED disk /\ Goto(j, "raised")
      /\ UNCHANGED <<form, created, jobs, build, ops, restarts>>
  BY DEF CheckFails, CommandFails, Steps
<1> QED
  BY <1>1, WorkStep DEF Steps

LEMMA CopySourceInv ==
  ASSUME IInv, NEW j \in Job, CopySource(j)
  PROVE  IInv'
<1>1. /\ at[j] \in Steps /\ UNCHANGED disk /\ Goto(j, "stage")
      /\ UNCHANGED <<form, created, jobs, build, ops, restarts>>
      /\ Serves(tree[j], form[j])
  BY Here DEF CopySource, Steps, Honest
<1> QED
  BY <1>1, WorkStep DEF Steps

\* Nothing to push: the newest commit that was cloned has the tree already.
LEMMA StageInv ==
  ASSUME IInv, NEW j \in Job, Stage(j)
  PROVE  IInv'
<1>1. /\ at[j] \in Steps /\ Progress(j)
      /\ UNCHANGED <<form, created, jobs, build, ops, restarts>>
      /\ Serves(tree[j], form[j])
  BY Here DEF Stage, Steps, Honest
<1>2. CASE Unchanged(j)
  <2>1. base[j] \in DOMAIN remote /\ remote[base[j]].tree = tree[j]
    BY <1>2, Here DEF Unchanged
  <2>2. OnBranch(form[j])
    BY <1>1, <2>1 DEF OnBranch
  <2>3. Goto(j, "returned")
    BY <1>2 DEF Stage
  <2> QED
    BY <1>1, <2>2, <2>3, WorkStep
<1>3. CASE ~Unchanged(j)
  <2>1. Goto(j, "push")
    BY <1>3 DEF Stage
  <2> QED
    BY <1>1, <2>1, WorkStep DEF Steps
<1> QED
  BY <1>2, <1>3

\* A step of the work that changes the job's tree.
LEMMA PatchStep ==
  ASSUME IInv, NEW j \in Job, at[j] \in Steps, Progress(j),
         NEW place \in {"localize", "customize", "target"}, Goto(j, place),
         NEW t \in Tree, tree' = [tree EXCEPT ![j] = t],
         UNCHANGED <<form, created, jobs, base, remote, ops, restarts>>,
         place # "target" => Fresh(t),
         place = "target" => Serves(t, form[j])
  PROVE  IInv'
<1>1. /\ DiskStep(j) /\ jobs[j] \in Status /\ jobs' = [jobs EXCEPT ![j] = jobs[j]]
      /\ at[j] \notin {"none", "over"} /\ "success" \notin {jobs[j], rows'[j]}
      /\ remote' \in Seq(Commit) /\ base' \in [Job -> 0 .. Len(remote')]
      /\ Known(place, jobs[j]) /\ Stored(place, rows[j])' /\ place \in Places \ {"none"}
  BY WorkFacts DEF Steps
<1>2. Grows
  BY DEF Grows
<1> QED
  BY <1>1, <1>2, PlaceStep

LEMMA FetchSourceInv ==
  ASSUME IInv, NEW j \in Job, FetchSource(j)
  PROVE  IInv'
<1>1. Fresh(Official)
  BY DEF Fresh, Official
<1> QED
  BY <1>1, PatchStep, OfficialFacts DEF FetchSource, Steps

LEMMA LocalizeInv ==
  ASSUME IInv, NEW j \in Job, LocalizeSubmodules(j)
  PROVE  IInv'
<1>1. PICK left \in {"files", "orphaned"} : tree' = [tree EXCEPT ![j].submodules = left]
  BY DEF LocalizeSubmodules
<1> DEFINE t == [tree[j] EXCEPT !.submodules = left]
<1>2. t \in Tree /\ Fresh(t)
  <2>1. \A u \in Tree : Fresh(u) => /\ [u EXCEPT !.submodules = left] \in Tree
                                    /\ Fresh([u EXCEPT !.submodules = left])
    BY <1>1 DEF Tree, Fresh
  <2>2. Fresh(tree[j])
    BY Here DEF LocalizeSubmodules, Honest
  <2> QED
    BY <2>1, <2>2, Here
<1>3. tree' = [tree EXCEPT ![j] = t]
  BY <1>1
<1> HIDE DEF t
<1> QED
  BY <1>2, <1>3, PatchStep DEF LocalizeSubmodules, Steps

LEMMA CustomizeInv ==
  ASSUME IInv, NEW j \in Job, Customize(j)
  PROVE  IInv'
<1>1. PICK s \in Stamp : tree' = [tree EXCEPT ![j] = Customized(tree[j], form[j], s)]
  BY DEF Customize
<1> DEFINE t == Customized(tree[j], form[j], s)
<1>2. t \in Tree /\ Serves(t, form[j])
  BY Here, CustomizedServes DEF Customize, Honest, Fresh
<1>3. tree' = [tree EXCEPT ![j] = t]
  BY <1>1
<1> HIDE DEF t
<1> QED
  BY <1>2, <1>3, PatchStep DEF Customize, Steps

LEMMA FetchTargetInv ==
  ASSUME IInv, NEW j \in Job, FetchTarget(j)
  PROVE  IInv'
<1>1. /\ at[j] \in Steps /\ at[j] = "target" /\ Progress(j) /\ Goto(j, "copy")
      /\ base' = [base EXCEPT ![j] = Len(remote)]
      /\ UNCHANGED <<form, created, jobs, tree, remote, ops, restarts>>
  BY DEF FetchTarget, Steps
<1>2. /\ DiskStep(j) /\ jobs[j] \in Status /\ jobs' = [jobs EXCEPT ![j] = jobs[j]]
      /\ at[j] \notin {"none", "over"} /\ "success" \notin {jobs[j], rows'[j]}
      /\ tree' = [tree EXCEPT ![j] = tree[j]] /\ tree[j] \in Tree
      /\ Known("copy", jobs[j]) /\ Stored("copy", rows[j])' /\ "copy" \in Places \ {"none"}
  BY <1>1, WorkFacts DEF Steps
<1>3. remote' \in Seq(Commit) /\ base' \in [Job -> 0 .. Len(remote')]
  <2>1. remote \in Seq(Commit) /\ base \in [Job -> 0 .. Len(remote)]
    BY Here
  <2>2. Len(remote) \in 0 .. Len(remote)
    BY <2>1
  <2> QED
    BY <1>1, <2>1, <2>2
<1>4. Grows
  BY <1>1 DEF Grows
<1>5. Serves(tree[j], form[j])
  BY <1>1, Here DEF Honest
<1> QED
  BY <1>1, <1>2, <1>3, <1>4, <1>5, PlaceStep

\* A push adds the tree of the job to what is on the branch.
LEMMA PushedFacts ==
  ASSUME IInv, NEW j \in Job, at[j] = "push", Pushed(j), UNCHANGED <<form, base>>
  PROVE  /\ remote' \in Seq(Commit) /\ base' \in [Job -> 0 .. Len(remote')]
         /\ Grows /\ OnBranch(form[j])'
         /\ remote' = Append(remote, [by |-> j, tree |-> tree[j]])
<1>1. /\ remote \in Seq(Commit) /\ base \in [Job -> 0 .. Len(remote)] /\ tree[j] \in Tree
      /\ Serves(tree[j], form[j])
  BY Here DEF Honest
<1> DEFINE c == [by |-> j, tree |-> tree[j]]
<1>2. c \in Commit /\ c.tree = tree[j]
  BY <1>1 DEF Commit
<1>3. remote' = Append(remote, c)
  BY DEF Pushed
<1> HIDE DEF c
<1>4. /\ remote' \in Seq(Commit) /\ Len(remote') = Len(remote) + 1
      /\ remote'[Len(remote) + 1] = c /\ Len(remote) + 1 \in DOMAIN remote'
  BY <1>1, <1>2, <1>3
<1>5. Grows
  BY <1>1, <1>2, <1>3 DEF Grows
<1>6. OnBranch(form[j])'
  BY <1>1, <1>2, <1>4 DEF OnBranch
<1>7. base' \in [Job -> 0 .. Len(remote')]
  <2>1. 0 .. Len(remote) \subseteq 0 .. Len(remote')
    BY <1>1, <1>4
  <2> QED
    BY <1>1, <2>1
<1> QED
  BY <1>1, <1>2, <1>3, <1>4, <1>5, <1>6, <1>7 DEF c

LEMMA PushInv ==
  ASSUME IInv, NEW j \in Job, Push(j) \/ PushTimesOut(j)
  PROVE  IInv'
<1>1. /\ at[j] = "push" /\ at[j] \in Steps /\ Pushed(j)
      /\ Progress(j) \/ UNCHANGED disk
      /\ UNCHANGED <<form, created, jobs, tree, base, ops, restarts>>
  BY DEF Push, PushTimesOut, Steps
<1>2. PICK place \in {"returned", "raised"} : Goto(j, place)
  BY DEF Push, PushTimesOut
<1>3. /\ DiskStep(j) /\ jobs[j] \in Status /\ jobs' = [jobs EXCEPT ![j] = jobs[j]]
      /\ at[j] \notin {"none", "over"} /\ "success" \notin {jobs[j], rows'[j]}
      /\ tree' = [tree EXCEPT ![j] = tree[j]] /\ tree[j] \in Tree
      /\ Known(place, jobs[j]) /\ Stored(place, rows[j])' /\ place \in Places \ {"none"}
  BY <1>1, WorkFacts
<1>4. /\ remote' \in Seq(Commit) /\ base' \in [Job -> 0 .. Len(remote')]
      /\ Grows /\ OnBranch(form[j])'
  BY <1>1, PushedFacts
<1> QED
  BY <1>1, <1>2, <1>3, <1>4, PlaceStep

-----------------------------------------------------------------------------
(* The end of a thread *)

LEMMA SucceedInv ==
  ASSUME IInv, NEW j \in Job, Succeed(j)
  PROVE  IInv'
<1>1. at[j] = "returned" /\ UNCHANGED <<form, created, disk, build, ops, restarts>>
  BY DEF Succeed
<1>2. /\ jobs[j] \in {"absent", "running"} /\ jobs[j] \in Status /\ rows[j] # "success"
      /\ jobs = [jobs EXCEPT ![j] = jobs[j]] /\ OnBranch(form[j])
  BY <1>1, Here DEF JobInv, Honest, Known, Stored, Working
<1>3. DiskStep(j) /\ rows' = rows
  BY <1>1, NoSave
<1>4. Stored("raised", rows[j])' /\ Stored("succeeded", rows[j])'
  BY <1>2, <1>3 DEF Stored, Working, Failing, Steps
<1>5. CASE jobs[j] = "absent"
  <2>1. Known("raised", jobs[j])
    BY <1>5 DEF Known, Working, Failing, Steps
  <2>2. Goto(j, "raised") /\ jobs' = jobs
    BY <1>5 DEF Succeed
  <2> QED
    BY <1>1, <1>2, <1>3, <1>4, <2>1, <2>2, MoveStep DEF Places
<1>6. CASE jobs[j] # "absent"
  <2>1. Known("succeeded", "success")
    BY DEF Known, Working, Failing, Steps
  <2>2. Goto(j, "succeeded") /\ jobs' = [jobs EXCEPT ![j] = "success"]
    BY <1>6 DEF Succeed
  <2> QED
    BY <1>1, <1>2, <1>3, <1>4, <1>6, <2>1, <2>2, MoveStep DEF Places, Status, Final
<1> QED
  BY <1>5, <1>6

LEMMA SaveSuccessInv ==
  ASSUME IInv, NEW j \in Job, SaveSuccess(j)
  PROVE  IInv'
<1>1. /\ at[j] = "succeeded" /\ jobs' = jobs
      /\ UNCHANGED <<form, created, build, ops, restarts>>
  BY DEF SaveSuccess
<1>2. /\ jobs[j] \in {"absent", "success"} /\ jobs[j] \in Status /\ rows[j] # "success"
      /\ jobs' = [jobs EXCEPT ![j] = jobs[j]] /\ OnBranch(form[j])
  BY <1>1, Here DEF JobInv, Honest, Known, Stored
<1>3. CASE Write(j, "success") /\ Goto(j, "recording")
  <2>1. DiskStep(j) /\ rows'[j] = "success"
    BY <1>3, WriteFacts DEF Final
  <2>2. Known("recording", jobs[j]) /\ Stored("recording", rows[j])'
    BY <1>2, <2>1 DEF Known, Stored, Working, Failing, Steps
  <2> QED
    BY <1>1, <1>2, <1>3, <2>1, <2>2, MoveStep DEF Places
<1>4. CASE Fault /\ Goto(j, "raised")
  <2>1. DiskStep(j) /\ rows' = rows
    BY <1>4, FaultFacts
  <2>2. Known("raised", jobs[j]) /\ Stored("raised", rows[j])'
    BY <1>2, <2>1 DEF Known, Stored, Working, Failing, Steps
  <2> QED
    BY <1>1, <1>2, <1>4, <2>1, <2>2, MoveStep DEF Places
<1> QED
  BY <1>3, <1>4 DEF SaveSuccess

LEMMA MarkFailedInv ==
  ASSUME IInv, NEW j \in Job, MarkFailed(j)
  PROVE  IInv'
<1>1. at[j] = "raised" /\ UNCHANGED <<form, created, disk, build, ops, restarts>>
  BY DEF MarkFailed
<1>2. /\ jobs[j] \in Status /\ jobs = [jobs EXCEPT ![j] = jobs[j]]
      /\ faults = 0 => rows[j] # "success"
      /\ rows[j] = "success" => OnBranch(form[j])
  BY <1>1, Here DEF JobInv, Honest, Stored
<1>3. DiskStep(j) /\ rows' = rows /\ faults' = faults
  BY <1>1, NoSave
<1>4. \A p \in Failing : Stored(p, rows[j])'
  BY <1>2, <1>3 DEF Stored, Working, Failing, Steps
<1>5. CASE jobs[j] = "absent"
  <2>1. Known("logging", jobs[j])
    BY <1>5 DEF Known, Working, Failing, Steps
  <2>2. Goto(j, "logging") /\ jobs' = jobs
    BY <1>5 DEF MarkFailed
  <2> QED
    BY <1>1, <1>2, <1>3, <1>4, <1>5, <2>1, <2>2, MoveStep DEF Places, Failing
<1>6. CASE jobs[j] # "absent"
  <2>1. Known("failing", "failed")
    BY DEF Known, Working, Failing, Steps
  <2>2. Goto(j, "failing") /\ jobs' = [jobs EXCEPT ![j] = "failed"]
    BY <1>6 DEF MarkFailed
  <2> QED
    BY <1>1, <1>2, <1>3, <1>4, <1>6, <2>1, <2>2, MoveStep DEF Places, Failing, Status, Final
<1> QED
  BY <1>5, <1>6

LEMMA SaveFailedInv ==
  ASSUME IInv, NEW j \in Job, SaveFailed(j)
  PROVE  IInv'
<1>1. /\ at[j] = "failing" /\ jobs' = jobs
      /\ UNCHANGED <<form, created, build, ops, restarts>>
  BY DEF SaveFailed
<1>2. /\ jobs[j] \in {"absent", "failed"} /\ jobs[j] \in Status
      /\ jobs' = [jobs EXCEPT ![j] = jobs[j]]
      /\ rows[j] = "success" => OnBranch(form[j])
  BY <1>1, Here DEF JobInv, Honest, Known, Failing
<1>3. CASE Write(j, "failed") /\ Goto(j, "noting")
  <2>1. DiskStep(j) /\ rows'[j] = "failed"
    BY <1>3, WriteFacts DEF Final
  <2>2. Known("noting", jobs[j]) /\ Stored("noting", rows[j])'
    BY <1>2, <2>1 DEF Known, Stored, Working, Failing, Steps
  <2> QED
    BY <1>1, <1>2, <1>3, <2>1, <2>2, MoveStep DEF Places
<1>4. CASE Fault /\ Goto(j, "over")
  <2>1. DiskStep(j) /\ rows' = rows
    BY <1>4, FaultFacts
  <2>2. Known("over", jobs[j]) /\ Stored("over", rows[j])'
    BY DEF Known, Stored, Working, Failing, Steps
  <2> QED
    BY <1>1, <1>2, <1>4, <2>1, <2>2, MoveStep DEF Places
<1> QED
  BY <1>3, <1>4 DEF SaveFailed

LEMMA NoteFailureInv ==
  ASSUME IInv, NEW j \in Job, NoteFailure(j)
  PROVE  IInv'
<1>1. /\ at[j] = "noting" /\ jobs' = jobs
      /\ UNCHANGED <<form, created, build, ops, restarts>>
  BY DEF NoteFailure
<1>2. /\ jobs[j] \in {"absent", "failed"} /\ jobs[j] \in Status
      /\ jobs' = [jobs EXCEPT ![j] = jobs[j]]
      /\ rows[j] = "success" => OnBranch(form[j])
      /\ faults = 0 => rows[j] # "success"
  BY <1>1, Here DEF JobInv, Honest, Known, Stored, Failing
<1>3. CASE Progress(j) /\ Goto(j, "logging")
  <2>1. DiskStep(j) /\ faults' = faults /\ rows'[j] \in {rows[j], "failed"}
    BY <1>2, <1>3, ProgressFacts
  <2>2. Known("logging", jobs[j]) /\ Stored("logging", rows[j])'
    BY <1>2, <2>1 DEF Known, Stored, Working, Failing, Steps
  <2> QED
    BY <1>1, <1>2, <1>3, <2>1, <2>2, MoveStep DEF Places
<1>4. CASE Fault /\ Goto(j, "over")
  <2>1. DiskStep(j) /\ rows' = rows
    BY <1>4, FaultFacts
  <2>2. Known("over", jobs[j]) /\ Stored("over", rows[j])'
    BY DEF Known, Stored, Working, Failing, Steps
  <2> QED
    BY <1>1, <1>2, <1>4, <2>1, <2>2, MoveStep DEF Places
<1> QED
  BY <1>3, <1>4 DEF NoteFailure

\* An operation that could not be recorded changes nothing but the count of faults.
LEMMA NotRecorded ==
  ASSUME IInv, NEW j \in Job, at[j] \in {"recording", "logging"},
         faults < MaxFaults, faults' = faults + 1,
         NEW place \in {"raised", "over"}, Goto(j, place),
         place = "raised" => at[j] = "recording",
         UNCHANGED <<form, created, jobs, rows, recent, build, ops, restarts>>
  PROVE  IInv'
<1>1. DiskStep(j) /\ rows' = rows /\ faults' # 0
  BY FaultFacts DEF Fault
<1>2. /\ jobs[j] \in Status /\ jobs' = [jobs EXCEPT ![j] = jobs[j]]
      /\ "success" \in {jobs[j], rows[j]} => OnBranch(form[j])
      /\ place = "raised" => jobs[j] \in {"absent", "success"}
  BY Here DEF JobInv, Known, Honest
<1>3. Known(place, jobs[j]) /\ Stored(place, rows[j])'
  BY <1>1, <1>2 DEF Known, Stored, Working, Failing, Steps
<1> QED
  BY <1>1, <1>2, <1>3, MoveStep DEF Places

\* A recorded operation is the job's only one.
LEMMA Recorded ==
  ASSUME IInv, NEW j \in Job, NEW result \in Final,
         at[j] = IF result = "success" THEN "recording" ELSE "logging",
         ops' = ops \cup {<<j, result>>}, Goto(j, "over"),
         UNCHANGED <<form, created, jobs, rows, recent, faults, build, restarts>>
  PROVE  IInv'
<1>1. UNCHANGED <<form, created, jobs, rows, recent, faults, tree, base, remote, restarts>>
  BY DEF build
<1>2. DiskStep(j)
  BY <1>1, NoSave DEF disk
<1>3. /\ JobInv(j) /\ Honest(j)
      /\ jobs' = [jobs EXCEPT ![j] = jobs[j]] /\ tree' = [tree EXCEPT ![j] = tree[j]]
      /\ at \in [Job -> Places] /\ at[j] # "over" /\ at[j] # "none"
  BY <1>1, Here DEF IInv, TypeInv
<1>4. at' = [at EXCEPT ![j] = "over"] /\ at'[j] = "over" /\ "over" \in Places
  BY <1>3 DEF Goto, Places
<1>5. \A k \in Job : \A r \in Final :
        <<k, r>> \in ops' <=> <<k, r>> \in ops \/ (k = j /\ r = result)
  OBVIOUS
<1>6. TypeInv'
  BY <1>1, <1>3, <1>4 DEF IInv, TypeInv
<1>7. JobInv(j)'
  <2>1. at'[j] = "none" <=> j > created'
    BY <1>1, <1>3, <1>4 DEF JobInv
  <2>2. Known(at[j], jobs[j])' /\ Stored(at[j], rows[j])'
    BY <1>4 DEF Known, Stored, Working, Failing, Steps
  <2>3. \A r \in Final : <<j, r>> \in ops' => r = result
    BY <1>3, <1>5 DEF JobInv
  <2>4. /\ result = "success" => rows'[j] = "success"
        /\ result = "failed" /\ faults' = 0 => rows'[j] # "success"
    BY <1>1, <1>3 DEF JobInv, Stored, Failing
  <2>5. /\ <<j, "success">> \in ops' => rows'[j] = "success"
        /\ <<j, "failed">> \in ops' /\ faults' = 0 => rows'[j] # "success"
    BY <2>3, <2>4 DEF Final
  <2> QED
    BY <1>4, <2>1, <2>2, <2>5 DEF JobInv
<1>8. Honest(j)'
  <2>1. OnBranch(form[j])' <=> OnBranch(form[j])
    BY <1>1 DEF OnBranch
  <2> QED
    BY <1>1, <1>3, <1>4, <2>1 DEF Honest
<1>9. Grows
  BY <1>1 DEF Grows
<1>10. \A k \in Job \ {j} : \A r \in Final : <<k, r>> \in ops' <=> <<k, r>> \in ops
  BY <1>5
<1> QED
  BY <1>1, <1>2, <1>3, <1>4, <1>6, <1>7, <1>8, <1>9, <1>10, ThreadStep

LEMMA RecordInv ==
  ASSUME IInv, NEW j \in Job, RecordSuccess(j) \/ RecordFailure(j)
  PROVE  IInv'
<1>1. UNCHANGED <<form, created, jobs, rows, recent, build, restarts>>
  BY DEF RecordSuccess, RecordFailure
<1>2. CASE RecordSuccess(j)
  <2>1. at[j] = "recording" /\ Record(j, "success")
    BY <1>2 DEF RecordSuccess
  <2>2. CASE ops' = ops \cup {<<j, "success">>} /\ Goto(j, "over") /\ UNCHANGED faults
    BY <1>1, <2>1, <2>2, Recorded DEF Final
  <2>3. CASE faults < MaxFaults /\ faults' = faults + 1 /\ Goto(j, "raised") /\ UNCHANGED ops
    BY <1>1, <2>1, <2>3, NotRecorded
  <2> QED
    BY <2>1, <2>2, <2>3 DEF Record
<1>3. CASE RecordFailure(j)
  <2>1. at[j] = "logging" /\ Record(j, "failed")
    BY <1>3 DEF RecordFailure
  <2>2. CASE ops' = ops \cup {<<j, "failed">>} /\ Goto(j, "over") /\ UNCHANGED faults
    BY <1>1, <2>1, <2>2, Recorded DEF Final
  <2>3. CASE faults < MaxFaults /\ faults' = faults + 1 /\ Goto(j, "over") /\ UNCHANGED ops
    BY <1>1, <2>1, <2>3, NotRecorded
  <2> QED
    BY <2>1, <2>2, <2>3 DEF Record
<1> QED
  BY <1>2, <1>3

-----------------------------------------------------------------------------
(* Requests and restarts *)

\* The new job is the newest and others may be evicted.
LEMMA CreateJobInv ==
  ASSUME IInv, CreateJob
  PROVE  IInv'
<1>1. created \in Nat /\ created < MaxJobs /\ MaxJobs \in Nat
  BY BoundsAssumption DEF CreateJob, IInv, TypeInv
<1>2. PICK j \in Job : j = created + 1
  BY <1>1 DEF Job
<1> DEFINE S == Listed \cup {j}
           kept == Newest(S, Numbers)
<1>3. /\ created' = j
      /\ UNCHANGED <<form, rows, recent, faults, tree, base, remote, ops, restarts>>
      /\ jobs' = [k \in Job |-> IF k \notin kept THEN "absent"
                                ELSE IF k = j THEN "queued" ELSE jobs[k]]
      /\ at' = [at EXCEPT ![j] = "saving"]
  BY <1>2 DEF CreateJob, Goto, disk, build
<1>4. /\ j \in Nat /\ created' \in 0 .. MaxJobs
      /\ \A k \in Job : k > created <=> k = j \/ k > j
      /\ ~(j > j)
  BY <1>1, <1>2, <1>3 DEF Job
<1>5. TypeInv /\ \A k \in Job : JobInv(k) /\ Honest(k)
  BY DEF IInv
<1>6. at[j] = "none" /\ rows[j] = "absent" /\ jobs[j] = "absent"
  BY <1>4, <1>5 DEF JobInv, Known, Stored
<1>7. S \subseteq Job
  BY <1>4 DEF Listed
<1>8. kept \subseteq S /\ Cardinality(kept) <= Keep
  <2>1. IsFiniteSet(S)
    BY <1>7, JobFacts, FS_Subset
  <2>2. Total(Numbers, S)
    BY <1>7, JobFacts DEF Total
  <2> HIDE DEF S
  <2> QED
    BY <2>1, <2>2, NewestCount
<1>9. IsFiniteSet(kept) /\ Cardinality(kept) \in Nat
  <2>1. kept \subseteq Job
    BY <1>7, <1>8
  <2> HIDE DEF kept
  <2> QED
    BY <2>1, JobFacts, FS_Subset, FS_CardinalityType
<1> HIDE DEF S, kept
<1>10. at'[j] = "saving" /\ \A k \in Job \ {j} : at'[k] = at[k]
  BY <1>3, <1>4, <1>5 DEF TypeInv
<1>11. jobs'[j] \in {"absent", "queued"} /\ \A k \in Job \ {j} : jobs'[k] \in {"absent", jobs[k]}
  BY <1>3, <1>4
<1>12. TypeInv'
  <2>1. jobs' \in [Job -> Status]
    BY <1>3, <1>4, <1>5 DEF TypeInv, Status, Live
  <2>2. at' \in [Job -> Places]
    BY <1>3, <1>5 DEF TypeInv, Places
  <2> QED
    BY <1>3, <1>4, <1>5, <2>1, <2>2 DEF TypeInv
<1>13. \A k \in Job : JobInv(k)'
  <2>1. JobInv(j)'
    <3>1. at'[j] = "none" <=> j > created'
      BY <1>3, <1>4, <1>10
    <3>2. Known(at[j], jobs[j])' /\ Stored(at[j], rows[j])'
      BY <1>3, <1>6, <1>10, <1>11 DEF Known, Stored, Working, Failing, Steps
    <3>3. \A r \in Final : <<j, r>> \notin ops'
      BY <1>3, <1>4, <1>5, <1>6 DEF JobInv
    <3> QED
      BY <3>1, <3>2, <3>3 DEF JobInv, Final
  <2>2. ASSUME NEW k \in Job \ {j} PROVE JobInv(k)'
    <3>1. at'[k] = "none" <=> k > created'
      BY <1>3, <1>4, <1>5, <1>10 DEF JobInv
    <3>2. Known(at[k], jobs[k])'
      BY <1>5, <1>10, <1>11 DEF JobInv, Known, Working, Failing, Steps
    <3>3. Stored(at[k], rows[k])'
      BY <1>3, <1>5, <1>10 DEF JobInv, Stored
    <3> QED
      BY <1>3, <1>5, <1>10, <3>1, <3>2, <3>3 DEF JobInv
  <2> QED
    BY <2>1, <2>2
<1>14. \A k \in Job : Honest(k)'
  <2>1. Honest(j)'
    BY <1>3, <1>6, <1>10, <1>11 DEF Honest
  <2>2. ASSUME NEW k \in Job \ {j} PROVE Honest(k)'
    <3>1. OnBranch(form[k])' <=> OnBranch(form[k])
      BY <1>3 DEF OnBranch
    <3> QED
      BY <1>3, <1>5, <1>10, <1>11, <3>1 DEF Honest
  <2> QED
    BY <2>1, <2>2
<1>15. Orders(recent, Saved)'
  BY <1>3 DEF IInv, Orders, Saved
<1>16. (Cardinality(Listed) <= Keep)'
  <2>1. Listed' \subseteq kept
    BY <1>3 DEF Listed
  <2>2. Cardinality(Listed') <= Cardinality(kept) /\ Cardinality(Listed') \in Nat
    BY <1>9, <2>1, FS_Subset, FS_CardinalityType
  <2>3. Keep \in Nat
    BY BoundsAssumption
  <2> QED
    BY <1>8, <1>9, <2>2, <2>3
<1> QED
  BY <1>12, <1>13, <1>14, <1>15, <1>16 DEF IInv

\* Interrupted jobs fail and their rows become the newest, the newest of them as the oldest.
LEMMA RestoredOrder ==
  ASSUME IInv, RestoreJobs
  PROVE  Orders(recent, Saved)'
<1> DEFINE I == Interrupted
<1>1. \A j \in Job : rows'[j] = IF j \in I THEN "failed" ELSE rows[j]
  BY DEF RestoreJobs
<1>2. I \subseteq Saved
  BY DEF Interrupted, Restored, Newest
<1>3. Saved' = Saved
  BY <1>1, <1>2 DEF Saved
<1>4. Orders(recent, Saved)
  BY DEF IInv
<1>5. recent' = {p \in Saved \X Saved : IF p[2] \in I THEN p[1] \in I => <<p[2], p[1]>> \in recent
                                       ELSE p[1] \notin I /\ p \in recent}
  BY DEF RestoreJobs
<1> HIDE DEF I
<1>6. recent' \subseteq Saved \X Saved
  BY <1>5
<1>7. \A a, b \in Saved :
        <<a, b>> \in recent' <=>
          IF b \in I THEN a \in I => <<b, a>> \in recent ELSE a \notin I /\ <<a, b>> \in recent
  BY <1>5
<1>8. \A a, b \in Saved : <<a, b>> \in recent <=> a # b /\ <<b, a>> \notin recent
  BY <1>4 DEF Orders
<1>9. \A a, b, c \in Saved : <<a, b>> \in recent /\ <<b, c>> \in recent => <<a, c>> \in recent
  BY <1>4 DEF Orders
<1>10. \A a, b \in Saved : <<a, b>> \in recent' <=> a # b /\ <<b, a>> \notin recent'
  BY <1>7, <1>8
<1>11. \A a, b, c \in Saved : <<a, b>> \in recent' /\ <<b, c>> \in recent' => <<a, c>> \in recent'
  BY <1>7, <1>9
<1> QED
  BY <1>3, <1>6, <1>10, <1>11 DEF Orders

LEMMA RestartInv ==
  ASSUME IInv, Restart
  PROVE  IInv'
<1>1. /\ RestoreJobs /\ UNCHANGED <<form, created, tree, base, remote, ops, faults>>
      /\ at' = [j \in Job |-> IF at[j] = "none" THEN "none" ELSE "over"]
      /\ restarts' \in 0 .. MaxRestarts
  <2>1. /\ RestoreJobs /\ UNCHANGED <<form, created, tree, base, remote, ops, faults>>
        /\ at' = [j \in Job |-> IF at[j] = "none" THEN "none" ELSE "over"]
        /\ restarts < MaxRestarts /\ restarts' = restarts + 1
    BY DEF Restart, build
  <2>2. restarts \in 0 .. MaxRestarts /\ MaxRestarts \in Nat
    BY BoundsAssumption DEF IInv, TypeInv
  <2> QED
    BY <2>1, <2>2
<1>2. /\ TypeInv /\ \A k \in Job : JobInv(k) /\ Honest(k)
      /\ Orders(recent, Saved)
  BY DEF IInv
<1>3. /\ rows' = [j \in Job |-> IF j \in Interrupted THEN "failed" ELSE rows[j]]
      /\ jobs' = [j \in Job |-> IF j \in Restored THEN rows'[j] ELSE "absent"]
  BY <1>1 DEF RestoreJobs
<1>4. \A j \in Interrupted : rows[j] \in Live
  BY DEF Interrupted
<1>5. \A j \in Job : /\ rows'[j] \in {rows[j], "failed"} /\ jobs'[j] \in {rows'[j], "absent"}
                     /\ rows[j] \notin Live => rows'[j] = rows[j]
                     /\ at'[j] = IF at[j] = "none" THEN "none" ELSE "over"
  BY <1>1, <1>3, <1>4
<1>6. TypeInv'
  <2>1. rows' \in [Job -> Status]
    BY <1>2, <1>3 DEF TypeInv, Status, Final
  <2>2. jobs' \in [Job -> Status]
    BY <1>3, <2>1 DEF Status
  <2>3. at' \in [Job -> Places]
    BY <1>1 DEF Places
  <2> QED
    BY <1>1, <1>2, <2>1, <2>2, <2>3 DEF TypeInv
<1>7. \A k \in Job : JobInv(k)'
  <2> SUFFICES ASSUME NEW k \in Job PROVE JobInv(k)'
    OBVIOUS
  <2>1. at'[k] = "none" <=> k > created'
    BY <1>1, <1>2, <1>5 DEF JobInv
  <2>2. at[k] = "none" => rows[k] = "absent"
    BY <1>2 DEF JobInv, Stored
  <2>3. Known(at[k], jobs[k])' /\ Stored(at[k], rows[k])'
    BY <1>5, <2>2 DEF Known, Stored, Working, Failing, Steps, Live
  <2>4. \A r \in Final : <<k, r>> \in ops' => at'[k] = "over"
    BY <1>1, <1>2, <1>5 DEF JobInv
  <2>5. /\ <<k, "success">> \in ops' => rows'[k] = "success"
        /\ <<k, "failed">> \in ops' /\ faults' = 0 => rows'[k] # "success"
    BY <1>1, <1>2, <1>5 DEF JobInv, Live
  <2> QED
    BY <2>1, <2>3, <2>4, <2>5 DEF JobInv
<1>8. \A k \in Job : Honest(k)'
  <2> SUFFICES ASSUME NEW k \in Job PROVE Honest(k)'
    OBVIOUS
  <2>1. OnBranch(form[k])' <=> OnBranch(form[k])
    BY <1>1 DEF OnBranch
  <2> QED
    BY <1>2, <1>5, <2>1 DEF Honest
<1>9. Orders(recent, Saved)'
  BY <1>1, RestoredOrder
<1>10. (Cardinality(Listed) <= Keep)'
  <2>1. Saved \subseteq Job /\ IsFiniteSet(Saved) /\ Total(recent, Saved)
    BY <1>2, JobFacts, FS_Subset DEF Saved, Orders, Total
  <2>2. Restored \subseteq Saved /\ Cardinality(Restored) <= Keep
    <3> HIDE DEF Saved
    <3> QED
      BY <2>1, NewestCount DEF Restored
  <2>3. Listed' \subseteq Restored
    BY <1>3 DEF Listed
  <2>4. /\ Cardinality(Listed') <= Cardinality(Restored)
        /\ Cardinality(Listed') \in Nat /\ Cardinality(Restored) \in Nat
    <3>1. IsFiniteSet(Restored)
      BY <2>1, <2>2, FS_Subset
    <3> QED
      BY <2>3, <3>1, FS_Subset, FS_CardinalityType
  <2> QED
    BY <2>2, <2>4, BoundsAssumption
<1> QED
  BY <1>6, <1>7, <1>8, <1>9, <1>10 DEF IInv

-----------------------------------------------------------------------------
(* The theorems *)

LEMMA InitIInv == Init => IInv
<1> SUFFICES ASSUME Init PROVE IInv
  OBVIOUS
<1> USE DEF Init
<1>1. MaxJobs \in Nat /\ Keep \in Nat /\ MaxFaults \in Nat /\ MaxRestarts \in Nat
  BY BoundsAssumption
<1>2. TypeInv
  <2>1. remote \in Seq(Commit) /\ base \in [Job -> 0 .. Len(remote)]
    OBVIOUS
  <2>2. tree \in [Job -> Tree]
    BY OfficialFacts
  <2> QED
    BY <1>1, <2>1, <2>2 DEF TypeInv, Status, Places
<1>3. \A j \in Job : JobInv(j)
  BY <1>1 DEF JobInv, Known, Stored, Working, Failing, Steps, Job
<1>4. \A j \in Job : Honest(j)
  BY DEF Honest
<1>5. Listed = {} /\ Saved = {}
  BY DEF Listed, Saved
<1>6. Orders(recent, Saved)
  BY <1>5 DEF Orders
<1>7. Cardinality(Listed) <= Keep
  BY <1>1, <1>5, FS_EmptySet
<1> QED
  BY <1>2, <1>3, <1>4, <1>6, <1>7 DEF IInv

LEMMA StutterIInv == IInv /\ UNCHANGED vars => IInv'
<1> SUFFICES ASSUME IInv, UNCHANGED vars PROVE IInv'
  OBVIOUS
<1> USE DEF vars
<1>1. TypeInv'
  BY DEF IInv, TypeInv
<1>2. \A j \in Job : JobInv(j)'
  BY DEF IInv, JobInv, Stored
<1>3. \A j \in Job : Honest(j)'
  BY DEF IInv, Honest, OnBranch
<1>4. Orders(recent, Saved)' /\ (Cardinality(Listed) <= Keep)'
  BY DEF IInv, Orders, Saved, Listed
<1> QED
  BY <1>1, <1>2, <1>3, <1>4 DEF IInv

LEMMA ThreadInv ==
  ASSUME IInv, NEW j \in Job, Thread(j)
  PROVE  IInv'
<1>1. CASE SaveJob(j)
  BY <1>1, SaveJobInv
<1>2. CASE Begin(j)
  BY <1>2, BeginInv
<1>3. CASE SaveRunning(j)
  BY <1>3, SaveRunningInv
<1>4. CASE Source(j)
  <2>1. CASE CheckRequest(j) \/ CheckTag(j)
    BY <2>1, ChecksInv
  <2>2. CASE FetchSource(j)
    BY <2>2, FetchSourceInv
  <2>3. CASE LocalizeSubmodules(j)
    BY <2>3, LocalizeInv
  <2>4. CASE Customize(j)
    BY <2>4, CustomizeInv
  <2>5. CASE FetchTarget(j)
    BY <2>5, FetchTargetInv
  <2>6. CASE CopySource(j)
    BY <2>6, CopySourceInv
  <2>7. CASE Stage(j)
    BY <2>7, StageInv
  <2>8. CASE Push(j) \/ PushTimesOut(j)
    BY <2>8, PushInv
  <2>9. CASE CheckFails(j) \/ CommandFails(j)
    BY <2>9, FailsInv
  <2> QED
    BY <1>4, <2>1, <2>2, <2>3, <2>4, <2>5, <2>6, <2>7, <2>8, <2>9 DEF Source
<1>5. CASE Succeed(j)
  BY <1>5, SucceedInv
<1>6. CASE SaveSuccess(j)
  BY <1>6, SaveSuccessInv
<1>7. CASE RecordSuccess(j) \/ RecordFailure(j)
  BY <1>7, RecordInv
<1>8. CASE MarkFailed(j)
  BY <1>8, MarkFailedInv
<1>9. CASE SaveFailed(j)
  BY <1>9, SaveFailedInv
<1>10. CASE NoteFailure(j)
  BY <1>10, NoteFailureInv
<1> QED
  BY <1>1, <1>2, <1>3, <1>4, <1>5, <1>6, <1>7, <1>8, <1>9, <1>10 DEF Thread

LEMMA NextIInv == IInv /\ [Next]_vars => IInv'
<1> SUFFICES ASSUME IInv, [Next]_vars PROVE IInv'
  OBVIOUS
<1>1. CASE CreateJob
  BY <1>1, CreateJobInv
<1>2. CASE \E j \in Job : Thread(j)
  BY <1>2, ThreadInv
<1>3. CASE Restart
  BY <1>3, RestartInv
<1>4. CASE UNCHANGED vars
  BY <1>4, StutterIInv
<1> QED
  BY <1>1, <1>2, <1>3, <1>4 DEF Next

(* What a job says at each place, what its row says, what its tree and the *)
(* branch have of its form, the order of the rows and the size of the      *)
(* dictionary hold in every reachable state.                               *)
THEOREM Invariance == Spec => []IInv
BY InitIInv, NextIInv, PTL DEF Spec

(* Every variable keeps its kind, the dictionary never has more than Keep  *)
(* jobs, whatever is created, evicted and restored, and the times of the   *)
(* rows order them.                                                        *)
THEOREM TypeCorrect == Spec => []TypeOK
<1>1. IInv => TypeOK
  BY DEF IInv, TypeInv, TypeOK
<1> QED
  BY <1>1, Invariance, PTL

(* A job that says success, in the dictionary or in its row, has a commit  *)
(* on the branch with all that its form asks for: whatever fails, times    *)
(* out, races or restarts.                                                 *)
THEOREM SuccessIsHonest == Spec => []SuccessHonest
<1>1. IInv => SuccessHonest
  BY DEF IInv, Honest, OnBranch, SuccessHonest
<1> QED
  BY <1>1, Invariance, PTL

(* An operation that is recorded as a success is one of a row that says    *)
(* success; while saves succeed, one recorded as failed is not.            *)
THEOREM OperationsMatch == Spec => []OperationsAgree
<1>1. IInv => OperationsAgree
  BY DEF IInv, JobInv, OperationsAgree
<1> QED
  BY <1>1, Invariance, PTL

\* Only a push changes the branch.
LEMMA StepKeepsHistory ==
  ASSUME IInv, [Next]_vars
  PROVE  /\ \A i \in DOMAIN remote : i \in DOMAIN remote' /\ remote'[i] = remote[i]
         /\ \A i \in DOMAIN remote' \ DOMAIN remote : base[remote'[i].by] = i - 1
<1>1. CASE UNCHANGED remote
  BY <1>1
<1>2. ASSUME NEW j \in Job, Push(j) \/ PushTimesOut(j)
      PROVE  /\ \A i \in DOMAIN remote : i \in DOMAIN remote' /\ remote'[i] = remote[i]
             /\ \A i \in DOMAIN remote' \ DOMAIN remote : base[remote'[i].by] = i - 1
  <2> DEFINE c == [by |-> j, tree |-> tree[j]]
  <2>1. /\ Len(remote) = base[j] /\ remote' = Append(remote, c) /\ c.by = j
    BY <1>2 DEF Push, PushTimesOut, Pushed
  <2>2. remote \in Seq(Commit) /\ c \in Commit
    BY Here DEF Commit
  <2> HIDE DEF c
  <2>3. DOMAIN remote = 1 .. Len(remote) /\ DOMAIN remote' = 1 .. (Len(remote) + 1)
        /\ Len(remote) \in Nat /\ remote'[Len(remote) + 1] = c
        /\ \A i \in 1 .. Len(remote) : remote'[i] = remote[i]
    BY <2>1, <2>2
  <2>4. \A i \in DOMAIN remote' \ DOMAIN remote : i = Len(remote) + 1
    BY <2>3
  <2> QED
    BY <2>1, <2>3, <2>4
<1>3. \/ UNCHANGED remote
      \/ \E j \in Job : Push(j) \/ PushTimesOut(j)
  BY DEF Next, Thread, Source, CreateJob, Restart, SaveJob, Begin, SaveRunning, CheckRequest,
         CheckTag, FetchSource, LocalizeSubmodules, Customize, FetchTarget, CopySource, Stage,
         CheckFails, CommandFails, Succeed, SaveSuccess, RecordSuccess, MarkFailed, SaveFailed,
         NoteFailure, RecordFailure, build, vars
<1> QED
  BY <1>1, <1>2, <1>3

(* A push adds one commit on top of what its author cloned and takes       *)
(* nothing away; no other step touches the branch.                         *)
THEOREM HistoryIsKept == Spec => HistoryKept
<1>1. IInv /\ [Next]_vars =>
        [/\ \A i \in DOMAIN remote : i \in DOMAIN remote' /\ remote'[i] = remote[i]
         /\ \A i \in DOMAIN remote' \ DOMAIN remote : base[remote'[i].by] = i - 1]_vars
  BY StepKeepsHistory
<1> QED
  BY <1>1, Invariance, PTL DEF Spec, HistoryKept
=============================================================================
