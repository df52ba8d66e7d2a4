--------------------------- MODULE VpnHosts_proofs ---------------------------
(***************************************************************************)
(* Proofs about VpnHosts, for any number of requests, faults and lists:    *)
(* a run that had the host to itself repairs it, and a save that is        *)
(* reported as applied was applied.                                        *)
(***************************************************************************)
EXTENDS VpnHosts, FiniteSetTheorems, TLAPS

-----------------------------------------------------------------------------
(* The inductive invariant *)

Appends(k) == run[k].pc \in {"user", "end"}

\* What a run has just written is at the end of the file while it appends.
Block(k) ==
  /\ run[k].pc = "replace" => run[k].rest = <<>>
  /\ run[k].pc = "user" => chap # <<>> /\ chap[Len(chap)] = "begin"
  /\ run[k].pc = "end" =>
       Len(chap) >= 2 /\ chap[Len(chap) - 1] = "begin" /\ chap[Len(chap)] = run[k].conf

\* Unless a run cut into the lines of another, every line is in a block, so that the
\* next run takes all of them out.
Blocks ==
  /\ Outside(chap) = {}
  /\ \A j, k \in Run : Appends(j) /\ Appends(k) => j = k
  /\ \A k \in Run : Block(k)

\* What a run has written that has the host to itself.
Wrote(k) ==
  /\ run[k].pc = "begin" => chap = <<>>
  /\ run[k].pc = "user" => chap = <<"begin">>
  /\ run[k].pc = "end" => chap = <<"begin", run[k].conf>>
  /\ run[k].pc \in {"map", "ok"} => chap = <<"begin", run[k].conf, "end">>
  /\ run[k].pc = "ok" => map = run[k].conf

Written == {"replace", "begin", "user", "end", "map", "ok"}

Sole(k) ==
  run[k].alone =>
    /\ run[k].pc \in Busy \cup {"ok"}
    /\ \A j \in Run \ {k} : ~Active(j)
    /\ run[k].pc = "read" /\ file # None => run[k].conf = file
    /\ run[k].pc \in Written => run[k].conf = file
    /\ ~torn => Wrote(k)

\* It has read a list before it writes.
Reads(k) == run[k].pc \in Written \cup {"read"} => run[k].conf # None

HealInv == (~torn => Blocks) /\ \A k \in Run : Sole(k) /\ Reads(k)

\* A request that waits for its run, or has its result, knows the lists that were
\* there since it put its own in place: the run has read one of them.
Saves(r) ==
  /\ req[r].pc # "idle" /\ req[r].kind = "save" => req[r].content # None
  /\ req[r].since # {} => file \in req[r].since
  /\ req[r].pc = "running" /\ req[r].kind = "save" =>
       /\ req[r].since # {}
       /\ run[r].pc \in Written \cup {"read"} => run[r].conf \in req[r].since
  /\ req[r].pc = "ended" /\ req[r].kind = "save" /\ req[r].apply /\ req[r].ok =>
       req[r].applied \in req[r].since

SaveInv == \A r \in Req : Saves(r)

IInv == TypeOK /\ HealInv /\ SaveInv

-----------------------------------------------------------------------------
(* Lines of a file *)

\* A line that opens a block, or follows an open one, is in a block.
LEMMA OutsideAppend ==
  ASSUME NEW S, NEW s \in Seq(S), NEW x \in S, Outside(s) = {},
         \/ x = "begin"
         \/ s # <<>> /\ s[Len(s)] = "begin"
         \/ Len(s) >= 2 /\ s[Len(s) - 1] = "begin" /\ s[Len(s)] # "end"
  PROVE  Outside(Append(s, x)) = {}
<1> DEFINE t == Append(s, x)
           n == Len(s)
<1>1. /\ n \in Nat /\ t \in Seq(S) /\ Len(t) = n + 1
      /\ t[n + 1] = x /\ \A i \in 1..n : t[i] = s[i]
      /\ DOMAIN s = 1..n /\ DOMAIN t = 1..(n + 1)
  OBVIOUS
<1> HIDE DEF t
<1>2. ASSUME NEW i \in 1..n
      PROVE  \E b \in 1..i : t[b] = "begin" /\ \A e \in (b + 1)..(i - 1) : t[e] # "end"
  <2>1. PICK b \in 1..i : s[b] = "begin" /\ \A e \in (b + 1)..(i - 1) : s[e] # "end"
    BY <1>1 DEF Outside
  <2>2. b \in 1..n /\ \A e \in (b + 1)..(i - 1) : e \in 1..n
    BY <1>1, <1>2
  <2> QED
    BY <1>1, <2>1, <2>2
<1>3. \E b \in 1..(n + 1) : t[b] = "begin" /\ \A e \in (b + 1)..(n + 1 - 1) : t[e] # "end"
  <2>1. CASE x = "begin"
    <3>1. n + 1 \in 1..(n + 1) /\ (n + 1 + 1)..(n + 1 - 1) = {}
      BY <1>1
    <3> QED
      BY <1>1, <2>1, <3>1
  <2>2. CASE s # <<>> /\ s[n] = "begin"
    <3>1. n \in 1..n /\ n \in 1..(n + 1) /\ (n + 1)..(n + 1 - 1) = {}
      BY <1>1, <2>2, SMTT(30)
    <3> QED
      BY <1>1, <2>2, <3>1
  <2>3. CASE n >= 2 /\ s[n - 1] = "begin" /\ s[n] # "end"
    <3>1. /\ n - 1 \in 1..n /\ n \in 1..n /\ n - 1 \in 1..(n + 1)
          /\ \A e \in ((n - 1) + 1)..(n + 1 - 1) : e = n
      BY <1>1, <2>3
    <3> QED
      BY <1>1, <2>3, <3>1
  <2> QED
    BY <2>1, <2>2, <2>3
<1>4. \A i \in DOMAIN t : i \in 1..n \/ i = n + 1
  BY <1>1
<1>5. \A i \in DOMAIN t :
        \E b \in 1..i : t[b] = "begin" /\ \A e \in (b + 1)..(i - 1) : t[e] # "end"
  <2> TAKE i \in DOMAIN t
  <2>1. CASE i \in 1..n
    BY <1>2, <2>1
  <2>2. CASE i = n + 1
    BY <1>3, <2>2
  <2> QED
    BY <1>4, <2>1, <2>2
<1>6. Outside(t) = {}
  BY <1>5 DEF Outside
<1> QED
  BY <1>6 DEF t

\* Where every line is in a block nothing is left.
LEMMA PurgedNothing ==
  ASSUME NEW s, Outside(s) = {}
  PROVE  Purged(s) = <<>>
<1>1. Cardinality(Outside(s)) = 0
  BY FS_EmptySet
<1>2. 1..Cardinality(Outside(s)) = {}
  BY <1>1
<1> QED
  BY <1>2 DEF Purged

\* What is left are lines of the file: each place from 1 to their number is one line's.
LEMMA PurgedType ==
  ASSUME NEW S, NEW s \in Seq(S)
  PROVE  Purged(s) \in Seq(S)
<1> DEFINE K == Outside(s)
           place(i) == Cardinality({m \in K : m <= i})
           f == [i \in K |-> place(i)]
           c == Cardinality(K)
<1>1. Len(s) \in Nat /\ DOMAIN s = 1..Len(s) /\ \A i \in DOMAIN s : s[i] \in S
  OBVIOUS
<1>2. K \subseteq 1..Len(s)
  BY <1>1 DEF Outside
<1>3. Purged(s) = [n \in 1..c |-> s[CHOOSE i \in K : place(i) = n]]
  BY DEF Purged
<1> HIDE DEF K
<1>4. IsFiniteSet(K) /\ c \in Nat
  <2>1. IsFiniteSet(1..Len(s))
    BY <1>1, FS_Interval
  <2> QED
    BY <1>2, <2>1, FS_Subset, FS_CardinalityType
<1>5. \A i \in K : place(i) \in 1..c
  <2> TAKE i \in K
  <2> DEFINE M == {m \in K : m <= i}
  <2>1. i \in M /\ M \subseteq K
    BY <1>2
  <2> HIDE DEF M
  <2>2. IsFiniteSet(M) /\ Cardinality(M) <= c /\ Cardinality(M) \in Nat
    BY <1>4, <2>1, FS_Subset, FS_CardinalityType
  <2>3. Cardinality(M) # 0
    BY <2>1, <2>2, FS_EmptySet
  <2>4. place(i) = Cardinality(M)
    BY DEF M
  <2> HIDE DEF place
  <2> QED
    BY <1>4, <2>2, <2>3, <2>4
<1>6. ASSUME NEW i \in K, NEW j \in K, i < j PROVE place(i) # place(j)
  <2> DEFINE M == {m \in K : m <= i}
             N == {m \in K : m <= j}
  <2>1. M \subseteq N /\ j \in N /\ j \notin M
    <3>1. \A m \in K : m \in Nat
      BY <1>1, <1>2
    <3>2. j <= j /\ ~(j <= i)
      BY <1>6, <3>1
    <3>3. \A m \in K : m <= i => m <= j
      BY <1>6, <3>1
    <3> QED
      BY <3>2, <3>3
  <2>2. N \subseteq K
    OBVIOUS
  <2> HIDE DEF M, N
  <2>3. IsFiniteSet(N)
    BY <1>4, <2>2, FS_Subset
  <2>4. Cardinality(M) # Cardinality(N)
    BY <2>1, <2>3, FS_Subset
  <2> QED
    BY <2>4 DEF M, N
<1>7. f \in Injection(K, 1..c)
  <2>1. f \in [K -> 1..c]
    <3> HIDE DEF place
    <3> QED
      BY <1>5
  <2>2. \A i, j \in K : f[i] = f[j] => i = j
    <3>1. \A i, j \in K : i = j \/ i < j \/ j < i
      BY <1>2
    <3> HIDE DEF place
    <3> QED
      BY <1>6, <3>1
  <2> HIDE DEF f
  <2> QED
    BY <2>1, <2>2 DEF Injection, IsInjective
<1>8. f \in Surjection(K, 1..c)
  <2>1. IsFiniteSet(1..c) /\ Cardinality(1..c) = c
    BY <1>4, FS_Interval
  <2> HIDE DEF f
  <2> QED
    BY <1>7, <2>1, FS_Injection
<1>9. ASSUME NEW n \in 1..c PROVE s[CHOOSE i \in K : place(i) = n] \in S
  <2>1. \E i \in K : f[i] = n
    <3> HIDE DEF f
    <3> QED
      BY <1>8 DEF Surjection
  <2>2. \E i \in K : place(i) = n
    <3> HIDE DEF place
    <3> QED
      BY <2>1
  <2>3. (CHOOSE i \in K : place(i) = n) \in K
    <3> HIDE DEF place
    <3> QED
      BY <2>2
  <2> QED
    BY <1>1, <1>2, <2>3
<1>10. [n \in 1..c |-> s[CHOOSE i \in K : place(i) = n]] \in [1..c -> S]
  <2> HIDE DEF place
  <2> QED
    BY <1>9
<1> DEFINE g == [n \in 1..c |-> s[CHOOSE i \in K : place(i) = n]]
<1>11. Purged(s) = g /\ g \in [1..c -> S] /\ c \in Nat
  BY <1>3, <1>4, <1>10
<1> HIDE DEF g, c
<1> QED
  BY <1>11

-----------------------------------------------------------------------------
(* Requests *)

LEMMA HealKept ==
  ASSUME HealInv, UNCHANGED <<run, chap, file, map, torn>>
  PROVE  HealInv'
BY DEF HealInv, Blocks, Appends, Block, Sole, Reads, Wrote, Active

LEMMA NoRequestType == NoRequest \in RequestType
BY DEF NoRequest, RequestType

\* A step of one request that touches neither the host nor a run.
LEMMA RequestStep ==
  ASSUME IInv, NEW r \in Req, NEW q \in RequestType, req' = [req EXCEPT ![r] = q],
         UNCHANGED <<host, torn>>,
         asked' \in 0..MaxAsked, faults' \in 0..MaxFaults,
         q.pc # "running", q.since \in {{}, req[r].since},
         q.pc # "idle" /\ q.kind = "save" => q.content # None,
         q.pc = "ended" /\ q.kind = "save" /\ q.apply /\ q.ok => q.applied \in q.since
  PROVE  IInv'
<1>1. TypeOK /\ HealInv /\ \A s \in Req : Saves(s)
  BY DEF IInv, TypeOK, SaveInv
<1>2. UNCHANGED <<file, chap, map, helper, watched, changed, run, torn>>
  BY DEF host
<1>3. req'[r] = q /\ \A s \in Req \ {r} : req'[s] = req[s]
  BY <1>1 DEF TypeOK
<1>4. TypeOK'
  BY <1>1, <1>2 DEF TypeOK
<1>5. Saves(r)'
  BY <1>1, <1>2, <1>3 DEF Saves
<1>6. \A s \in Req \ {r} : Saves(s)'
  BY <1>1, <1>2, <1>3 DEF Saves
<1> QED
  BY <1>1, <1>2, <1>4, <1>5, <1>6, HealKept DEF IInv, SaveInv

\* The numbers that a step leaves alone or counts up.
LEMMA Counts ==
  ASSUME IInv
  PROVE  /\ asked \in 0..MaxAsked /\ faults \in 0..MaxFaults
         /\ Fault => faults' \in 0..MaxFaults
         /\ req \in [Req -> RequestType]
<1>1. MaxAsked \in Nat /\ MaxFaults \in Nat
  BY BoundAssumption
<1>2. asked \in 0..MaxAsked /\ faults \in 0..MaxFaults
  BY DEF IInv, TypeOK
<1>3. Fault => faults' \in 0..MaxFaults
  BY <1>1, <1>2 DEF Fault
<1> QED
  BY <1>2, <1>3 DEF IInv, TypeOK

LEMMA BeginInv ==
  ASSUME IInv, NEW r \in Req, NEW kind \in Kinds, NEW content \in Config \cup Bad \cup {None},
         NEW apply \in BOOLEAN, kind = "save" => content # None,
         Begin(r, kind, content, apply)
  PROVE  IInv'
<1> DEFINE p == IF kind = "apply" THEN "command" ELSE "upload"
           q == [NoRequest EXCEPT !.pc = p, !.kind = kind, !.content = content,
                                  !.apply = apply]
<1>1. p \in {"upload", "command"}
  OBVIOUS
<1>2. req' = [req EXCEPT ![r] = q]
  BY DEF Begin
<1> HIDE DEF p
<1>3. q \in RequestType /\ q.pc = p /\ q.kind = kind /\ q.since = {} /\ q.content = content
  BY <1>1, NoRequestType, Counts DEF NoRequest, RequestType
<1> HIDE DEF q
<1>4. asked' \in 0..MaxAsked
  BY Counts, BoundAssumption DEF Begin
<1>5. UNCHANGED <<host, torn>> /\ UNCHANGED faults
  BY Counts DEF Begin
<1> QED
  BY <1>1, <1>2, <1>3, <1>4, <1>5, Counts, RequestStep

\* A request that is answered.
LEMMA AnsweredInv ==
  ASSUME IInv, NEW r \in Req, req' = Answered(r), UNCHANGED <<host, asked, torn>>,
         faults' \in 0..MaxFaults
  PROVE  IInv'
<1>1. req' = [req EXCEPT ![r] = NoRequest]
  BY DEF Answered
<1>2. NoRequest.pc = "idle" /\ NoRequest.since = {}
  BY DEF NoRequest
<1> QED
  BY <1>1, <1>2, NoRequestType, Counts, RequestStep

\* A request that goes on to its next step.
LEMMA MovedInv ==
  ASSUME IInv, NEW r \in Req, NEW pc \in {"uploaded", "command"}, req[r].pc # "idle",
         req' = [req EXCEPT ![r].pc = pc], UNCHANGED <<host, asked, faults, torn>>
  PROVE  IInv'
<1> DEFINE q == [req[r] EXCEPT !.pc = pc]
<1>1. req' = [req EXCEPT ![r] = q]
  OBVIOUS
<1>2. req[r] \in RequestType /\ (req[r].kind = "save" => req[r].content # None)
  BY Counts DEF IInv, SaveInv, Saves
<1>3. /\ q \in RequestType /\ q.pc = pc /\ q.since = req[r].since
      /\ q.kind = req[r].kind /\ q.content = req[r].content
  BY <1>2 DEF RequestType
<1> HIDE DEF q
<1> QED
  BY <1>1, <1>2, <1>3, Counts, RequestStep

LEMMA UploadInv ==
  ASSUME IInv, NEW r \in Req, Upload(r)
  PROVE  IInv'
<1>1. UNCHANGED <<host, asked, torn>> /\ req[r].pc # "idle"
  BY Counts DEF Upload
<1>2. CASE req' = [req EXCEPT ![r].pc = "uploaded"] /\ UNCHANGED faults
  BY <1>1, <1>2, MovedInv
<1>3. CASE Breaks(r)
  BY <1>1, <1>3, Counts, AnsweredInv DEF Breaks
<1> QED
  BY <1>2, <1>3 DEF Upload

LEMMA EnsureFingerprintInv ==
  ASSUME IInv, NEW r \in Req, EnsureFingerprint(r)
  PROVE  IInv'
<1>1. UNCHANGED <<host, asked, faults, torn>> /\ req[r].pc # "idle"
  BY DEF EnsureFingerprint
<1>2. CASE req' = Answered(r)
  BY <1>1, <1>2, Counts, AnsweredInv
<1>3. CASE req' = [req EXCEPT ![r].pc = "command"]
  BY <1>1, <1>3, MovedInv
<1> QED
  BY <1>2, <1>3 DEF EnsureFingerprint

LEMMA FailsInv ==
  ASSUME IInv, NEW r \in Req, CommandFails(r) \/ Deadline(r)
  PROVE  IInv'
<1>1. /\ UNCHANGED <<host, asked, torn>> /\ req' = Answered(r)
      /\ Fault \/ UNCHANGED faults
  BY Counts DEF CommandFails, Deadline, Breaks
<1> QED
  BY <1>1, Counts, AnsweredInv

-----------------------------------------------------------------------------
(* Lists put in place and runs started *)

LEMMA NoRunType ==
  /\ NoRun \in RunType /\ Failed \in RunType
  /\ NoRun.pc = "none" /\ ~NoRun.alone /\ Failed.pc = "failed" /\ ~Failed.alone
<1>1. <<>> \in Seq(Line)
  OBVIOUS
<1> QED
  BY <1>1 DEF NoRun, Failed, RunType

\* Where the runs are disturbed they go on as before, but none is alone.
LEMMA DisturbedFacts ==
  ASSUME IInv
  PROVE  /\ Disturbed(None) \in [Run -> RunType]
         /\ \A j \in Run : /\ Disturbed(None)[j].pc = run[j].pc
                           /\ Disturbed(None)[j].conf = run[j].conf
                           /\ Disturbed(None)[j].rest = run[j].rest
                           /\ ~Disturbed(None)[j].alone
<1>1. \A j \in Run : j # None /\ run[j] \in RunType
  BY NameAssumption DEF IInv, TypeOK, Run
<1>2. Disturbed(None) = [j \in Run |-> [run[j] EXCEPT !.alone = FALSE]]
  BY <1>1 DEF Disturbed
<1>3. \A x \in RunType : /\ [x EXCEPT !.alone = FALSE] \in RunType
                         /\ [x EXCEPT !.alone = FALSE].pc = x.pc
                         /\ [x EXCEPT !.alone = FALSE].conf = x.conf
                         /\ [x EXCEPT !.alone = FALSE].rest = x.rest
                         /\ ~[x EXCEPT !.alone = FALSE].alone
  BY DEF RunType
<1> QED
  BY <1>1, <1>2, <1>3

LEMMA StartedFacts ==
  ASSUME IInv, NEW k \in Run, run' = Started(k, Disturbed(None))
  PROVE  /\ run' \in [Run -> RunType]
         /\ run'[k].pc = "parse"
         /\ run'[k].alone => \A j \in Run \ {k} : ~Active(j)
         /\ \A j \in Run \ {k} : /\ run'[j].pc = run[j].pc
                                 /\ run'[j].conf = run[j].conf
                                 /\ run'[j].rest = run[j].rest
                                 /\ ~run'[j].alone
<1> DEFINE a == \A j \in Run \ {k} : ~Active(j)
           x == [NoRun EXCEPT !.pc = "parse", !.alone = a]
<1>1. run' = [Disturbed(None) EXCEPT ![k] = x]
  BY DEF Started
<1>2. a \in BOOLEAN
  OBVIOUS
<1> HIDE DEF a
<1>3. x \in RunType /\ x.pc = "parse" /\ x.alone = a
  BY <1>2, NoRunType DEF RunType, NoRun, Busy
<1> HIDE DEF x
<1> QED
  BY <1>1, <1>3, DisturbedFacts DEF a

\* No one appends who did not, and no one is alone but a run that begins.
LEMMA HealDisturbed ==
  ASSUME IInv, NEW K \in SUBSET Run, \A k \in K : run'[k].pc = "parse",
         \A k \in K : run'[k].alone => \A j \in Run \ {k} : run'[j].pc \notin Busy,
         \A j \in Run \ K : /\ run'[j].pc = run[j].pc /\ run'[j].conf = run[j].conf
                            /\ run'[j].rest = run[j].rest /\ ~run'[j].alone,
         UNCHANGED <<chap, map, torn>>
  PROVE  HealInv'
<1>1. HealInv
  BY DEF IInv
<1>2. \A j \in Run : Appends(j)' => Appends(j) /\ j \notin K
  BY DEF Appends
<1>3. ASSUME ~torn', NEW j \in Run PROVE Block(j)'
  <2>1. CASE j \in K
    BY <2>1 DEF Block
  <2>2. CASE j \notin K
    BY <1>1, <1>3, <2>2 DEF Block, HealInv, Blocks
  <2> QED
    BY <2>1, <2>2
<1>4. ~torn' => Blocks'
  BY <1>1, <1>2, <1>3 DEF HealInv, Blocks
<1>5. \A j \in Run : Sole(j)'
  BY DEF Sole, Written, Wrote, Busy, Active
<1>6. \A j \in Run : Reads(j)'
  BY <1>1 DEF HealInv, Reads, Written
<1> QED
  BY <1>4, <1>5, <1>6 DEF HealInv

LEMMA HealStarted ==
  ASSUME IInv, NEW k \in Run, run' = Started(k, Disturbed(None)), UNCHANGED <<chap, map, torn>>
  PROVE  HealInv'
<1> DEFINE K == {k}
<1>1. K \in SUBSET Run /\ \A i \in K : run'[i].pc = "parse"
  BY StartedFacts
<1>2. \A i \in K : run'[i].alone => \A j \in Run \ {i} : run'[j].pc \notin Busy
  BY StartedFacts DEF Active
<1>3. \A j \in Run \ K : /\ run'[j].pc = run[j].pc /\ run'[j].conf = run[j].conf
                          /\ run'[j].rest = run[j].rest /\ ~run'[j].alone
  BY StartedFacts
<1> HIDE DEF K
<1> QED
  BY <1>1, <1>2, <1>3, HealDisturbed

LEMMA HealUndisturbed ==
  ASSUME IInv, run' = Disturbed(None), UNCHANGED <<chap, map, torn>>
  PROVE  HealInv'
<1>1. {} \in SUBSET Run /\ \A j \in Run \ {} : j \in Run
  OBVIOUS
<1> QED
  BY <1>1, DisturbedFacts, HealDisturbed

LEMMA MetFacts ==
  ASSUME IInv, NEW c \in List
  PROVE  /\ Met(req, c) \in [Req -> RequestType]
         /\ \A s \in Req :
              /\ Met(req, c)[s].pc = req[s].pc /\ Met(req, c)[s].kind = req[s].kind
              /\ Met(req, c)[s].apply = req[s].apply /\ Met(req, c)[s].ok = req[s].ok
              /\ Met(req, c)[s].applied = req[s].applied
              /\ Met(req, c)[s].content = req[s].content
              /\ req[s].since = {} => Met(req, c)[s].since = {}
              /\ req[s].since # {} => Met(req, c)[s].since = req[s].since \cup {c}
<1>1. \A s \in Req : req[s] \in RequestType
  BY Counts
<1>2. \A q \in RequestType :
        LET m == [q EXCEPT !.since = @ \cup {c}]
        IN /\ m \in RequestType
           /\ m.pc = q.pc /\ m.kind = q.kind /\ m.apply = q.apply /\ m.ok = q.ok
           /\ m.applied = q.applied /\ m.content = q.content /\ m.since = q.since \cup {c}
  BY DEF RequestType
<1> QED
  BY <1>1, <1>2 DEF Met

\* Request r puts list c in place; runs go on, but its own may begin.
LEMMA SavePut ==
  ASSUME IInv, NEW r \in Req, NEW c \in List, NEW q,
         req' = [Met(req, c) EXCEPT ![r] = q], file' = c,
         \A j \in Run \ {r} : run'[j].pc = run[j].pc /\ run'[j].conf = run[j].conf,
         Saves(r)'
  PROVE  SaveInv'
<1>1. \A s \in Req \ {r} : req'[s] = Met(req, c)[s]
  BY MetFacts
<1>2. ASSUME NEW s \in Req \ {r} PROVE Saves(s)'
  <2>1. Saves(s)
    BY DEF IInv, SaveInv
  <2>2. run'[s].pc = run[s].pc /\ run'[s].conf = run[s].conf
    BY DEF Run
  <2>3. /\ req'[s].pc = req[s].pc /\ req'[s].kind = req[s].kind
        /\ req'[s].apply = req[s].apply /\ req'[s].ok = req[s].ok
        /\ req'[s].applied = req[s].applied /\ req'[s].content = req[s].content
        /\ req[s].since = {} => req'[s].since = {}
        /\ req[s].since # {} => req'[s].since = req[s].since \cup {c}
    BY <1>1, MetFacts
  <2> QED
    BY <2>1, <2>2, <2>3 DEF Saves
<1> QED
  BY <1>2 DEF SaveInv

LEMMA ChangedType ==
  ASSUME IInv, NEW c, ListBecomes(c)
  PROVE  changed' \in BOOLEAN /\ file' = c
BY DEF ListBecomes

LEMMA TypeKept ==
  ASSUME IInv, UNCHANGED <<chap, map, watched, asked, faults, torn>>,
         req' \in [Req -> RequestType], file' \in List \cup {None}, helper' \in BOOLEAN,
         changed' \in BOOLEAN, run' \in [Run -> RunType]
  PROVE  TypeOK'
BY DEF IInv, TypeOK

\* The list of a request that saves one.
LEMMA ContentFacts ==
  ASSUME IInv, NEW r \in Req, req[r].pc = "command", req[r].kind = "save"
  PROVE  req[r].content \in Config \cup Bad /\ req[r].content \in List
<1>1. req[r] \in RequestType /\ req[r].content # None
  BY Counts DEF IInv, SaveInv, Saves
<1> QED
  BY <1>1 DEF RequestType, List

LEMMA SaveOnlyInv ==
  ASSUME IInv, NEW r \in Req, SaveOnly(r)
  PROVE  IInv'
<1>1. req[r].pc = "command" /\ req[r].kind = "save" /\ ~req[r].apply
  BY DEF SaveOnly
<1>2. PICK c \in List : c = req[r].content
  BY <1>1, ContentFacts
<1> DEFINE p == Met(req, c)[r]
           q == [p EXCEPT !.pc = "ended"]
<1>3. /\ UNCHANGED <<chap, map, helper, watched, asked, faults, torn>>
      /\ run' = Disturbed(None) /\ ListBecomes(c) /\ req' = [Met(req, c) EXCEPT ![r] = q]
  BY <1>2 DEF SaveOnly
<1>4. /\ p \in RequestType /\ ~p.apply /\ p.kind = "save" /\ p.content = c
      /\ p.since = {} \/ c \in p.since
  BY <1>1, <1>2, MetFacts
<1> HIDE DEF p
<1>5. /\ q \in RequestType /\ q.pc = "ended" /\ ~q.apply /\ q.content = c
      /\ q.since = {} \/ c \in q.since
  BY <1>4, Counts DEF RequestType
<1> HIDE DEF q
<1>6. req' \in [Req -> RequestType] /\ req'[r] = q
  BY <1>3, <1>5, MetFacts
<1>7. changed' \in BOOLEAN /\ file' = c /\ helper' \in BOOLEAN
  BY <1>3, ChangedType DEF IInv, TypeOK
<1>8. TypeOK'
  BY <1>3, <1>6, <1>7, DisturbedFacts, TypeKept
<1>9. Saves(r)'
  BY <1>5, <1>6, <1>7, NameAssumption DEF Saves, List
<1>10. SaveInv'
  BY <1>3, <1>7, <1>9, DisturbedFacts, SavePut
<1> QED
  BY <1>3, <1>8, <1>10, HealUndisturbed DEF IInv

LEMMA SaveAndApplyInv ==
  ASSUME IInv, NEW r \in Req, SaveAndApply(r)
  PROVE  IInv'
<1>1. req[r].pc = "command" /\ req[r].kind = "save"
  BY DEF SaveAndApply
<1>2. PICK c \in List : c = req[r].content
  BY <1>1, ContentFacts
<1> DEFINE p == Met(req, c)[r]
           pc == IF helper THEN "running" ELSE "ended"
           q == [p EXCEPT !.pc = pc, !.ok = FALSE, !.since = {c}]
<1>3. /\ UNCHANGED <<chap, map, helper, watched, asked, faults, torn>>
      /\ run' = IF helper THEN Started(r, Disturbed(None)) ELSE Disturbed(None)
      /\ ListBecomes(c) /\ req' = [Met(req, c) EXCEPT ![r] = q]
  BY <1>2 DEF SaveAndApply
<1>4. p \in RequestType /\ p.kind = "save" /\ p.content = c
  BY <1>1, <1>2, MetFacts
<1>5. pc \in {"running", "ended"} /\ (pc = "running" => helper)
  OBVIOUS
<1> HIDE DEF p, pc
<1>6. /\ q \in RequestType /\ q.pc = pc /\ ~q.ok /\ q.content = c /\ q.since = {c}
  BY <1>4, <1>5, Counts DEF RequestType
<1> HIDE DEF q
<1>7. req' \in [Req -> RequestType] /\ req'[r] = q
  BY <1>3, <1>6, MetFacts
<1>8. changed' \in BOOLEAN /\ file' = c /\ helper' \in BOOLEAN
  BY <1>3, ChangedType DEF IInv, TypeOK
<1>9. r \in Run
  BY DEF Run
<1>10. /\ run' \in [Run -> RunType]
       /\ helper => run'[r].pc = "parse"
       /\ \A j \in Run \ {r} : run'[j].pc = run[j].pc /\ run'[j].conf = run[j].conf
       /\ HealInv'
  <2>1. CASE helper
    BY <1>3, <1>9, <2>1, StartedFacts, HealStarted
  <2>2. CASE ~helper
    BY <1>3, <2>2, DisturbedFacts, HealUndisturbed
  <2> QED
    BY <2>1, <2>2
<1>11. TypeOK'
  BY <1>3, <1>7, <1>8, <1>10, TypeKept
<1>12. Saves(r)'
  BY <1>2, <1>5, <1>6, <1>7, <1>8, <1>10, NameAssumption DEF Saves, List, Written
<1>13. SaveInv'
  BY <1>3, <1>8, <1>10, <1>12, SavePut
<1> QED
  BY <1>10, <1>11, <1>13 DEF IInv

\* A step of a request that leaves the list alone; its run may begin or be forgotten.
LEMMA SaveKept ==
  ASSUME IInv, NEW r \in Req, NEW q, req' = [req EXCEPT ![r] = q], UNCHANGED file,
         \A j \in Run \ {r} : run'[j].pc = run[j].pc /\ run'[j].conf = run[j].conf,
         Saves(r)'
  PROVE  SaveInv'
<1>1. \A s \in Req \ {r} : req'[s] = req[s] /\ s \in Run \ {r}
  BY Counts DEF Run
<1>2. \A s \in Req \ {r} : Saves(s)'
  BY <1>1 DEF IInv, SaveInv, Saves
<1> QED
  BY <1>2 DEF SaveInv

LEMMA ApplyOrInstallInv ==
  ASSUME IInv, NEW r \in Req, ApplyOrInstall(r)
  PROVE  IInv'
<1> DEFINE starts == helper \/ req[r].kind = "install"
           pc == IF starts THEN "running" ELSE "ended"
           q == [req[r] EXCEPT !.pc = pc, !.ok = FALSE]
<1>1. /\ UNCHANGED <<file, chap, map, helper, watched, changed, asked, faults, torn>>
      /\ run' = IF starts THEN Started(r, Disturbed(None)) ELSE run
      /\ req' = [req EXCEPT ![r] = q]
      /\ req[r].kind \in {"apply", "install"}
  BY DEF ApplyOrInstall
<1>2. pc \in {"running", "ended"} /\ starts \in BOOLEAN
  OBVIOUS
<1> HIDE DEF starts, pc
<1>3. req[r] \in RequestType /\ Saves(r)
  BY Counts DEF IInv, SaveInv
<1>4. /\ q \in RequestType /\ q.pc = pc /\ ~q.ok /\ q.kind = req[r].kind
      /\ q.since = req[r].since
  BY <1>2, <1>3, Counts DEF RequestType
<1> HIDE DEF q
<1>5. req' \in [Req -> RequestType] /\ req'[r] = q /\ r \in Run
  BY <1>1, <1>4, Counts DEF Run
<1>6. /\ run' \in [Run -> RunType] /\ HealInv'
      /\ \A j \in Run \ {r} : run'[j].pc = run[j].pc /\ run'[j].conf = run[j].conf
  <2>1. CASE starts
    BY <1>1, <1>5, <2>1, StartedFacts, HealStarted
  <2>2. CASE ~starts
    BY <1>1, <2>2, HealKept DEF IInv, TypeOK
  <2> QED
    BY <2>1, <2>2
<1>7. TypeOK'
  BY <1>1, <1>5, <1>6, TypeKept DEF IInv, TypeOK
<1>8. Saves(r)'
  BY <1>1, <1>2, <1>3, <1>4, <1>5 DEF Saves
<1>9. SaveInv'
  BY <1>1, <1>6, <1>8, SaveKept
<1> QED
  BY <1>6, <1>7, <1>9 DEF IInv

\* The result of a run that ended well is the list it has read.
LEMMA CommandExitsInv ==
  ASSUME IInv, NEW r \in Req, CommandExits(r)
  PROVE  IInv'
<1> DEFINE ok == run[r].pc = "ok"
           q == [req[r] EXCEPT !.pc = "ended", !.ok = ok, !.applied = run[r].conf]
<1>1. /\ UNCHANGED <<file, chap, map, helper, watched, changed, asked, faults, torn>>
      /\ run' = [run EXCEPT ![r] = NoRun] /\ req' = [req EXCEPT ![r] = q]
      /\ req[r].pc = "running" /\ ~Active(r) /\ r \in Run
  BY DEF CommandExits, Run
<1>2. /\ req[r] \in RequestType /\ run \in [Run -> RunType] /\ run[r] \in RunType /\ Saves(r)
  BY <1>1, Counts DEF IInv, SaveInv, TypeOK
<1>3. ok \in BOOLEAN /\ run[r].conf \in List \cup {None}
  BY <1>2 DEF RunType, List
<1> HIDE DEF ok
<1>4. /\ q \in RequestType /\ q.pc = "ended" /\ q.ok = ok /\ q.applied = run[r].conf
      /\ q.since = req[r].since /\ q.kind = req[r].kind /\ q.content = req[r].content
  BY <1>2, <1>3 DEF RequestType
<1> HIDE DEF q
<1>5. req' \in [Req -> RequestType] /\ req'[r] = q
  BY <1>1, <1>4, Counts
<1>6. run' \in [Run -> RunType] /\ run'[r] = NoRun /\ \A j \in Run \ {r} : run'[j] = run[j]
  BY <1>1, <1>2, NoRunType
<1>7. TypeOK'
  BY <1>1, <1>5, <1>6, TypeKept DEF IInv, TypeOK
<1>8. Saves(r)'
  BY <1>1, <1>2, <1>4, <1>5 DEF Saves, ok, Written
<1>9. SaveInv'
  BY <1>1, <1>6, <1>8, SaveKept
<1>10. HealInv'
  <2>1. HealInv
    BY DEF IInv
  <2>2. Block(r)' /\ ~Appends(r)' /\ Sole(r)' /\ ~Active(r)'
    BY <1>6, NoRunType DEF Block, Appends, Sole, Active, Busy
  <2>3. ASSUME ~torn' PROVE Blocks'
    BY <1>1, <1>6, <2>1, <2>2, <2>3 DEF HealInv, Blocks, Block, Appends
  <2>4. \A k \in Run \ {r} : Sole(k)'
    BY <1>1, <1>6, <2>1, <2>2 DEF HealInv, Sole, Wrote, Active
  <2>5. \A k \in Run : Reads(k)'
    BY <1>6, <2>1, NoRunType DEF HealInv, Reads, Written
  <2> QED
    BY <2>2, <2>3, <2>4, <2>5 DEF HealInv
<1> QED
  BY <1>7, <1>9, <1>10 DEF IInv

LEMMA WatcherStartsInv ==
  ASSUME IInv, WatcherStarts
  PROVE  IInv'
<1>1. /\ UNCHANGED <<req, file, chap, map, helper, watched, asked, faults, torn>>
      /\ changed' = FALSE /\ run' = Started(Watch, Disturbed(None))
  BY DEF WatcherStarts
<1>2. Watch \in Run /\ \A r \in Req : r \in Run \ {Watch}
  BY NameAssumption DEF Run
<1>3. TypeOK'
  BY <1>1, <1>2, StartedFacts, TypeKept DEF IInv, TypeOK
<1>4. SaveInv'
  BY <1>1, <1>2, StartedFacts DEF IInv, SaveInv, Saves
<1> QED
  BY <1>1, <1>2, <1>3, <1>4, HealStarted DEF IInv

-----------------------------------------------------------------------------
(* The script *)

\* A step of run k that leaves requests and list alone.
LEMMA ScriptStep ==
  ASSUME IInv, NEW k \in Run, Active(k), NEW x \in RunType, run' = [run EXCEPT ![k] = x],
         UNCHANGED <<req, file, asked>>,
         chap' \in Seq(Line), map' \in Config \cup {Default, None},
         {helper', watched', changed', torn'} \subseteq BOOLEAN, torn => torn',
         faults' \in 0..MaxFaults,
         x.pc \in Written \cup {"read"} =>
           /\ x.conf # None
           /\ \/ run[k].pc \in Written \cup {"read"} /\ x.conf = run[k].conf
              \/ file # None => x.conf = file,
         x.alone => run[k].alone /\ x.pc \in Busy \cup {"ok"},
         x.alone /\ x.pc = "read" /\ file # None => x.conf = file,
         x.alone /\ x.pc \in Written => x.conf = file,
         x.alone /\ ~torn' => Wrote(k)',
         ~torn' => Blocks'
  PROVE  IInv'
<1>1. TypeOK /\ HealInv /\ \A s \in Req : Saves(s)
  BY DEF IInv, TypeOK, SaveInv
<1>2. run' \in [Run -> RunType] /\ run'[k] = x /\ \A j \in Run \ {k} : run'[j] = run[j]
  BY <1>1 DEF TypeOK
<1>3. TypeOK'
  BY <1>1, <1>2 DEF TypeOK
<1>4. \A r \in Req : Saves(r)'
  <2> TAKE r \in Req
  <2>1. r \in Run /\ Saves(r)
    BY <1>1 DEF Run
  <2>2. CASE r # k
    BY <1>2, <2>1, <2>2 DEF Saves
  <2>3. CASE r = k
    <3>1. req[r].since \subseteq List /\ None \notin List
      BY Counts, NameAssumption DEF RequestType, List
    <3>2. req[r].since # {} => file # None
      BY <2>1, <3>1 DEF Saves
    <3>3. req[r].pc = "running" /\ req[r].kind = "save" /\ x.pc \in Written \cup {"read"} =>
            x.conf \in req[r].since
      BY <2>1, <2>3, <3>2 DEF Saves
    <3> QED
      BY <1>2, <2>1, <2>3, <3>3 DEF Saves
  <2> QED
    BY <2>2, <2>3
<1>5. \A j \in Run : Reads(j)'
  BY <1>1, <1>2 DEF Reads, HealInv
<1>6. \A j \in Run \ {k} : ~run'[j].alone
  BY <1>1, <1>2 DEF HealInv, Sole
<1>7. Sole(k)'
  <2>1. x.alone => \A j \in Run \ {k} : ~Active(j)'
    BY <1>1, <1>2 DEF HealInv, Sole, Active
  <2> QED
    BY <1>2, <2>1 DEF Sole
<1>8. HealInv'
  BY <1>5, <1>6, <1>7 DEF HealInv, Sole
<1> QED
  BY <1>3, <1>4, <1>8 DEF IInv, TypeOK, SaveInv

\* While the file is left alone only a run that has just read it needs to be looked at.
LEMMA BlocksKept ==
  ASSUME IInv, NEW k \in Run, NEW x \in RunType, run' = [run EXCEPT ![k] = x],
         UNCHANGED <<chap, torn>>, x.pc \notin {"user", "end"},
         x.pc = "replace" => x.rest = Purged(chap)
  PROVE  ~torn' => Blocks'
<1> SUFFICES ASSUME ~torn' PROVE Blocks'
  OBVIOUS
<1>1. Blocks
  BY DEF IInv, HealInv
<1>2. run'[k] = x /\ \A j \in Run \ {k} : run'[j] = run[j]
  BY DEF IInv, TypeOK
<1>3. x.pc = "replace" => x.rest = <<>>
  BY <1>1, PurgedNothing DEF Blocks
<1>4. \A j \in Run : Block(j)'
  BY <1>1, <1>2, <1>3 DEF Blocks, Block
<1>5. \A i, j \in Run : Appends(i)' /\ Appends(j)' => i = j
  BY <1>1, <1>2 DEF Blocks, Appends
<1> QED
  BY <1>1, <1>4, <1>5 DEF Blocks

\* What a step of a run finds.
LEMMA RunFacts ==
  ASSUME IInv, NEW k \in Run
  PROVE  /\ run \in [Run -> RunType] /\ run[k] \in RunType /\ file \in List \cup {None}
         /\ chap \in Seq(Line) /\ map \in Config \cup {Default, None}
         /\ {helper, watched, changed, torn} \subseteq BOOLEAN
         /\ Sole(k) /\ Reads(k)
BY DEF IInv, TypeOK, HealInv

LEMMA ParseUsersInv ==
  ASSUME IInv, NEW k \in Run, ParseUsers(k)
  PROVE  IInv'
<1>1. /\ UNCHANGED <<req, file, chap, map, helper, watched, changed, asked, faults,
                     torn>>
      /\ run[k].pc = "parse" /\ Active(k)
  BY DEF ParseUsers, Active, Busy
<1>2. CASE file \in Bad
  <2>1. run' = [run EXCEPT ![k] = Failed]
    BY <1>2 DEF ParseUsers
  <2>2. ~torn' => Blocks'
    BY <1>1, <2>1, NoRunType, BlocksKept
  <2>3. Failed.pc \notin Written \cup {"read"}
    BY NoRunType DEF Written
  <2> QED
    BY <1>1, <2>1, <2>2, <2>3, NoRunType, RunFacts, Counts, ScriptStep
<1>3. CASE file \notin Bad
  <2> DEFINE c == IF file = None THEN Default ELSE file
             x == [run[k] EXCEPT !.pc = "read", !.conf = c]
  <2>1. run' = [run EXCEPT ![k] = x]
    BY <1>3 DEF ParseUsers
  <2>2. c \in Config \cup {Default} /\ c # None /\ (file # None => c = file)
    BY <1>3, RunFacts, NameAssumption DEF List
  <2> HIDE DEF c
  <2>3. x \in RunType /\ x.pc = "read" /\ x.conf = c /\ x.alone = run[k].alone
    BY <2>2, RunFacts DEF RunType, Busy
  <2> HIDE DEF x
  <2>4. ~torn' => Blocks'
    BY <1>1, <2>1, <2>3, BlocksKept
  <2>5. Wrote(k)'
    <3>1. run'[k].pc = "read"
      BY <2>1, <2>3, RunFacts
    <3> QED
      BY <3>1 DEF Wrote
  <2> QED
    BY <1>1, <2>1, <2>2, <2>3, <2>4, <2>5, RunFacts, Counts, ScriptStep DEF Written, Busy
<1> QED
  BY <1>2, <1>3

\* With the list there.
LEMMA ReadChapInv ==
  ASSUME IInv, NEW k \in Run, ReadChap(k), file # None
  PROVE  IInv'
<1> DEFINE x == [run[k] EXCEPT !.pc = "replace", !.rest = Purged(chap)]
<1>1. /\ UNCHANGED <<chap, map, watched, asked, faults, torn>>
      /\ UNCHANGED <<file, changed, req>> /\ helper' = TRUE
      /\ run[k].pc = "read" /\ Active(k) /\ run' = [run EXCEPT ![k] = x]
  BY DEF ReadChap, Active, Busy
<1>2. Purged(chap) \in Seq(Line)
  BY RunFacts, PurgedType
<1>3. /\ x \in RunType /\ x.pc = "replace" /\ x.conf = run[k].conf /\ x.alone = run[k].alone
      /\ x.rest = Purged(chap)
  BY <1>2, RunFacts DEF RunType, Busy
<1> HIDE DEF x
<1>4. ~torn' => Blocks'
  BY <1>1, <1>3, BlocksKept
<1>5. Wrote(k)'
  <2>1. run'[k].pc = "replace"
    BY <1>1, <1>3, RunFacts
  <2> QED
    BY <2>1 DEF Wrote
<1>6. run[k].conf # None /\ (run[k].alone => run[k].conf = file)
  BY <1>1, RunFacts DEF Sole, Reads
<1> QED
  BY <1>1, <1>3, <1>4, <1>5, <1>6, RunFacts, Counts, ScriptStep DEF Written, Busy

\* Without one: the run puts the list it made up in place.
LEMMA ReadChapFirstInv ==
  ASSUME IInv, NEW k \in Run, ReadChap(k), file = None
  PROVE  IInv'
<1> DEFINE x == [run[k] EXCEPT !.pc = "replace", !.rest = Purged(chap)]
           c == run[k].conf
<1>1. /\ UNCHANGED <<chap, map, watched, asked, faults, torn>> /\ helper' = TRUE
      /\ run[k].pc = "read" /\ Active(k) /\ ListBecomes(c)
      /\ run' = [Disturbed(k) EXCEPT ![k] = x] /\ req' = Met(req, c)
  BY DEF ReadChap, Active, Busy
<1>2. /\ c # None /\ c \in Config \cup {Default} /\ c \in List
      /\ changed' \in BOOLEAN /\ file' = c
  BY <1>1, RunFacts, ChangedType DEF Reads, RunType, List
<1>3. Purged(chap) \in Seq(Line)
  BY RunFacts, PurgedType
<1>4. /\ x \in RunType /\ x.pc = "replace" /\ x.conf = c /\ x.alone = run[k].alone
      /\ x.rest = Purged(chap)
  BY <1>3, RunFacts DEF RunType, Busy
<1> HIDE DEF x, c
<1>5. /\ run' \in [Run -> RunType] /\ run'[k] = x
      /\ \A j \in Run \ {k} : /\ run'[j].pc = run[j].pc /\ run'[j].conf = run[j].conf
                              /\ run'[j].rest = run[j].rest /\ ~run'[j].alone
  <2>1. \A y \in RunType : LET z == [y EXCEPT !.alone = FALSE]
                           IN /\ z \in RunType /\ z.pc = y.pc /\ z.conf = y.conf
                              /\ z.rest = y.rest /\ ~z.alone
    BY DEF RunType
  <2>2. \A j \in Run : run[j] \in RunType
    BY RunFacts
  <2>3. Disturbed(k) \in [Run -> RunType]
    BY <2>1, <2>2 DEF Disturbed
  <2> QED
    BY <1>1, <1>4, <2>1, <2>2, <2>3 DEF Disturbed
<1>6. req' \in [Req -> RequestType]
  BY <1>1, <1>2, MetFacts
<1>7. TypeOK'
  BY <1>1, <1>2, <1>5, <1>6, TypeKept
<1>8. \A s \in Req : Saves(s)'
  <2> TAKE s \in Req
  <2>1. Saves(s) /\ s \in Run
    BY DEF IInv, SaveInv, Run
  <2>2. /\ req'[s].pc = req[s].pc /\ req'[s].kind = req[s].kind
        /\ req'[s].apply = req[s].apply /\ req'[s].ok = req[s].ok
        /\ req'[s].applied = req[s].applied /\ req'[s].content = req[s].content
        /\ req[s].since = {} => req'[s].since = {}
        /\ req[s].since # {} => req'[s].since = req[s].since \cup {c}
    BY <1>1, <1>2, MetFacts
  <2>3. run'[s].conf = run[s].conf
    BY <1>4, <1>5, <2>1 DEF c
  <2>4. run'[s].pc = run[s].pc \/ run[s].pc = "read"
    BY <1>1, <1>5, <2>1
  <2> QED
    BY <1>2, <2>1, <2>2, <2>3, <2>4 DEF Saves
<1>9. HealInv'
  <2>1. HealInv /\ Sole(k)
    BY RunFacts DEF IInv
  <2>2. ASSUME ~torn' PROVE Blocks'
    <3>1. Blocks
      BY <1>1, <2>1, <2>2 DEF HealInv
    <3>2. x.rest = <<>>
      BY <1>4, <3>1, PurgedNothing DEF Blocks
    <3>3. \A j \in Run : Block(j)'
      BY <1>1, <1>4, <1>5, <3>1, <3>2 DEF Blocks, Block
    <3>4. \A i, j \in Run : Appends(i)' /\ Appends(j)' => i = j
      BY <1>4, <1>5, <3>1 DEF Blocks, Appends
    <3> QED
      BY <1>1, <3>1, <3>3, <3>4 DEF Blocks
  <2>3. Sole(k)'
    <3>1. x.alone => \A j \in Run \ {k} : ~Active(j)'
      BY <1>4, <1>5, <2>1 DEF Sole, Active
    <3> QED
      BY <1>2, <1>4, <1>5, <3>1 DEF Sole, Wrote, Busy
  <2>4. \A j \in Run : Reads(j)'
    BY <1>2, <1>4, <1>5, <2>1 DEF HealInv, Reads
  <2>5. \A j \in Run \ {k} : Sole(j)'
    BY <1>5 DEF Sole
  <2> QED
    BY <2>2, <2>3, <2>4, <2>5 DEF HealInv
<1> QED
  BY <1>7, <1>8, <1>9 DEF IInv, SaveInv

\* The lines of a block, one after another.
LEMMA AppendSecond ==
  ASSUME NEW S, NEW a \in S, NEW b \in S
  PROVE  Append(<<a>>, b) = <<a, b>>
<1> DEFINE s == Append(<<a>>, b)
           t == <<a, b>>
<1>1. s = [i \in 1..2 |-> s[i]] /\ t = [i \in 1..2 |-> t[i]]
  OBVIOUS
<1>2. s[1] = a /\ s[2] = b
  OBVIOUS
<1>3. \A i \in 1..2 : i = 1 \/ i = 2
  OBVIOUS
<1>4. \A i \in 1..2 : s[i] = t[i]
  BY <1>2, <1>3
<1> QED
  BY <1>1, <1>4

LEMMA AppendThird ==
  ASSUME NEW S, NEW a \in S, NEW b \in S, NEW c \in S
  PROVE  Append(<<a, b>>, c) = <<a, b, c>>
<1> DEFINE s == Append(<<a, b>>, c)
           t == <<a, b, c>>
<1>1. s = [i \in 1..3 |-> s[i]] /\ t = [i \in 1..3 |-> t[i]]
  OBVIOUS
<1>2. s[1] = a /\ s[2] = b /\ s[3] = c
  OBVIOUS
<1>3. \A i \in 1..3 : i = 1 \/ i = 2 \/ i = 3
  OBVIOUS
<1>4. \A i \in 1..3 : s[i] = t[i]
  BY <1>2, <1>3
<1> QED
  BY <1>1, <1>4

LEMMA ReplaceChapInv ==
  ASSUME IInv, NEW k \in Run, ReplaceChap(k)
  PROVE  IInv'
<1> DEFINE x == [run[k] EXCEPT !.pc = "begin", !.rest = <<>>]
<1>1. /\ UNCHANGED <<req, file, map, helper, watched, changed, asked, faults>>
      /\ run[k].pc = "replace" /\ Active(k) /\ run' = [run EXCEPT ![k] = x]
      /\ chap' = run[k].rest /\ torn' = (torn \/ Appending(k))
  BY DEF ReplaceChap, Active, Busy
<1>2. x \in RunType /\ x.pc = "begin" /\ x.conf = run[k].conf /\ x.alone = run[k].alone
  <2>1. <<>> \in Seq(Line)
    OBVIOUS
  <2> QED
    BY <2>1, RunFacts DEF RunType, Busy
<1> HIDE DEF x
<1>3. run'[k] = x /\ \A j \in Run \ {k} : run'[j] = run[j]
  BY <1>1, RunFacts
<1>4. ASSUME ~torn' PROVE Blocks' /\ chap' = <<>>
  <2>1. Blocks
    BY <1>1, <1>4 DEF IInv, HealInv
  <2>2. chap' = <<>>
    BY <1>1, <2>1 DEF Blocks, Block
  <2>3. \A j \in Run : ~Appends(j)'
    BY <1>1, <1>2, <1>3, <1>4 DEF Appending, Appends
  <2>4. Outside(chap)' = {}
    BY <2>2 DEF Outside
  <2>5. \A j \in Run : Block(j)'
    BY <1>2, <1>3, <2>1, <2>3 DEF Blocks, Block, Appends
  <2> QED
    BY <2>2, <2>3, <2>4, <2>5 DEF Blocks
<1>5. ~torn' => Wrote(k)'
  BY <1>2, <1>3, <1>4 DEF Wrote
<1>6. run[k].conf # None /\ (run[k].alone => run[k].conf = file)
  BY <1>1, RunFacts DEF Sole, Reads, Written
<1>7. chap' \in Seq(Line) /\ torn' \in BOOLEAN
  BY <1>1, RunFacts DEF RunType
<1> QED
  BY <1>1, <1>2, <1>4, <1>5, <1>6, <1>7, RunFacts, Counts, ScriptStep DEF Written, Busy

\* What a run appends stays in its block: the next line is its own, too.
LEMMA AppendStep ==
  ASSUME IInv, NEW k \in Run, AppendChap(k), NEW line \in Line, NEW pc \in {"user", "end", "map"},
         run[k].pc \in {"begin", "user", "end"}, Step(k, run[k].pc, pc),
         chap' = Append(chap, line), ~torn', Outside(chap') = {},
         pc = "user" => line = "begin",
         pc = "end" => run[k].pc = "user" /\ line = run[k].conf
  PROVE  Blocks'
<1>1. Blocks /\ (run[k].pc \in {"user", "end"} \/ ~Appending(k))
  BY DEF AppendChap, IInv, HealInv
<1>2. \A j \in Run \ {k} : ~Appends(j)
  BY <1>1 DEF Blocks, Appends, Appending
<1>3. /\ run'[k].pc = pc /\ run'[k].conf = run[k].conf
      /\ \A j \in Run \ {k} : run'[j] = run[j]
  BY RunFacts DEF Step, RunType
<1>4. \A i, j \in Run : Appends(i)' /\ Appends(j)' => i = j
  BY <1>2, <1>3 DEF Appends
<1>5. /\ Len(chap) \in Nat /\ Len(chap') = Len(chap) + 1 /\ chap'[Len(chap) + 1] = line
      /\ \A i \in 1..Len(chap) : chap'[i] = chap[i]
  BY RunFacts
<1>6. Block(k)'
  <2>1. CASE pc = "user"
    <3>1. Len(chap') # 0
      BY <1>5
    <3> QED
      BY <1>3, <1>5, <2>1, <3>1 DEF Block
  <2>2. CASE pc = "end"
    <3>1. Block(k) /\ run[k].pc = "user"
      BY <1>1, <2>2 DEF Blocks
    <3>2. Len(chap) # 0 /\ chap[Len(chap)] = "begin"
      BY <3>1, RunFacts DEF Block
    <3>3. Len(chap) \in 1..Len(chap) /\ Len(chap') >= 2 /\ Len(chap') - 1 = Len(chap)
      BY <1>5, <3>2
    <3> QED
      BY <1>3, <1>5, <2>2, <3>2, <3>3 DEF Block
  <2>3. CASE pc = "map"
    BY <1>3, <2>3 DEF Block
  <2> QED
    BY <2>1, <2>2, <2>3
<1>7. \A j \in Run \ {k} : Block(j)'
  BY <1>1, <1>2, <1>3 DEF Blocks, Block, Appends
<1> QED
  BY <1>4, <1>6, <1>7 DEF Blocks

LEMMA AppendChapInv ==
  ASSUME IInv, NEW k \in Run, AppendChap(k)
  PROVE  IInv'
<1>1. /\ UNCHANGED <<req, file, map, helper, watched, changed, asked, faults>>
      /\ torn' = (torn \/ (run[k].pc = "begin" /\ Appending(k)))
      /\ run[k].pc \in {"begin", "user", "end"} /\ Active(k)
  BY DEF AppendChap, Step, Active, Busy
<1>2. PICK pc \in {"user", "end", "map"}, line \in {"begin", run[k].conf, "end"} :
        /\ Step(k, run[k].pc, pc) /\ chap' = Append(chap, line)
        /\ \/ run[k].pc = "begin" /\ pc = "user" /\ line = "begin"
           \/ run[k].pc = "user" /\ pc = "end" /\ line = run[k].conf
           \/ run[k].pc = "end" /\ pc = "map" /\ line = "end"
  BY DEF AppendChap, Step
<1> DEFINE x == [run[k] EXCEPT !.pc = pc]
<1>3. run' = [run EXCEPT ![k] = x]
  BY <1>2 DEF Step
<1>4. x \in RunType /\ x.pc = pc /\ x.conf = run[k].conf /\ x.alone = run[k].alone
  BY RunFacts DEF RunType, Busy
<1> HIDE DEF x
<1>5. run'[k] = x
  BY <1>3, RunFacts
<1>6. run[k].conf # None /\ (run[k].alone => run[k].conf = file) /\ run[k].conf \in Line
      /\ run[k].conf # "end"
  <2>1. run[k].conf # None /\ (run[k].alone => run[k].conf = file)
    BY <1>1, RunFacts DEF Sole, Reads, Written
  <2>2. run[k].conf \in Config \cup {Default}
    BY <2>1, RunFacts DEF RunType
  <2> QED
    BY <2>1, <2>2, NameAssumption DEF Line
<1>7. line \in Line /\ chap' \in Seq(Line) /\ torn' \in BOOLEAN
  <2>1. line \in Line
    BY <1>6 DEF Line
  <2> QED
    BY <1>1, <1>2, <2>1, RunFacts
<1>8. ASSUME ~torn' PROVE Blocks'
  <2>1. Blocks
    BY <1>1, <1>8 DEF IInv, HealInv
  <2>2. \/ line = "begin"
        \/ chap # <<>> /\ chap[Len(chap)] = "begin"
        \/ Len(chap) >= 2 /\ chap[Len(chap) - 1] = "begin" /\ chap[Len(chap)] # "end"
    BY <1>2, <1>6, <2>1 DEF Blocks, Block
  <2>3. Outside(chap') = {}
    BY <1>2, <1>7, <2>1, <2>2, RunFacts, OutsideAppend DEF Blocks
  <2> QED
    BY <1>1, <1>2, <1>7, <1>8, <2>3, AppendStep
<1>9. x.alone /\ ~torn' => Wrote(k)'
  <2> SUFFICES ASSUME x.alone, ~torn' PROVE Wrote(k)'
    OBVIOUS
  <2>1. Wrote(k)
    BY <1>1, <1>4, RunFacts DEF Sole
  <2>2. CASE run[k].pc = "begin"
    BY <1>2, <1>4, <1>5, <2>1, <2>2 DEF Wrote
  <2>3. CASE run[k].pc = "user"
    <3>1. chap' = Append(<<"begin">>, x.conf)
      BY <1>2, <1>4, <2>1, <2>3 DEF Wrote
    <3>2. chap' = <<"begin", x.conf>>
      <4>1. x.conf \in Line /\ "begin" \in Line
        BY <1>4, <1>6 DEF Line
      <4>2. Append(<<"begin">>, x.conf) = <<"begin", x.conf>>
        BY <4>1, AppendSecond
      <4> QED
        BY <3>1, <4>2
    <3> QED
      BY <1>2, <1>4, <1>5, <2>3, <3>2 DEF Wrote
  <2>4. CASE run[k].pc = "end"
    <3>1. chap' = Append(<<"begin", x.conf>>, "end")
      BY <1>2, <1>4, <2>1, <2>4 DEF Wrote
    <3>2. chap' = <<"begin", x.conf, "end">>
      <4>1. x.conf \in Line /\ "begin" \in Line /\ "end" \in Line
        BY <1>4, <1>6 DEF Line
      <4>2. Append(<<"begin", x.conf>>, "end") = <<"begin", x.conf, "end">>
        BY <4>1, AppendThird
      <4> QED
        BY <3>1, <4>2
    <3> QED
      BY <1>2, <1>4, <1>5, <2>4, <3>2 DEF Wrote
  <2> QED
    BY <1>1, <2>2, <2>3, <2>4
<1>10. /\ pc \in {"user", "end", "map"} /\ run[k].pc \in Written /\ pc \in Written /\ pc \in Busy
       /\ pc # "read"
  BY <1>1 DEF Written, Busy
<1> QED
  BY <1>1, <1>3, <1>4, <1>6, <1>7, <1>8, <1>9, <1>10, RunFacts, Counts, ScriptStep

LEMMA WriteMapInv ==
  ASSUME IInv, NEW k \in Run, WriteMap(k)
  PROVE  IInv'
<1> DEFINE x == [run[k] EXCEPT !.pc = "ok"]
<1>1. /\ UNCHANGED <<req, file, chap, helper, changed, asked, faults, torn>>
      /\ run[k].pc = "map" /\ Active(k) /\ run' = [run EXCEPT ![k] = x]
      /\ map' = run[k].conf /\ watched' = TRUE
  BY DEF WriteMap, Step, Active, Busy
<1>2. x \in RunType /\ x.pc = "ok" /\ x.conf = run[k].conf /\ x.alone = run[k].alone
  BY RunFacts DEF RunType, Busy
<1> HIDE DEF x
<1>3. run'[k] = x
  BY <1>1, RunFacts
<1>4. run[k].conf # None /\ (run[k].alone => run[k].conf = file)
  BY <1>1, RunFacts DEF Sole, Reads, Written
<1>5. map' \in Config \cup {Default, None}
  BY <1>1, RunFacts DEF RunType
<1>6. ~torn' => Blocks'
  BY <1>1, <1>2, BlocksKept
<1>7. x.alone /\ ~torn' => Wrote(k)'
  <2> SUFFICES ASSUME x.alone, ~torn' PROVE Wrote(k)'
    OBVIOUS
  <2>1. Wrote(k)
    BY <1>1, <1>2, RunFacts DEF Sole, Written
  <2> QED
    BY <1>1, <1>2, <1>3, <2>1 DEF Wrote
<1> QED
  BY <1>1, <1>2, <1>4, <1>5, <1>6, <1>7, RunFacts, Counts, ScriptStep DEF Written, Busy

LEMMA RunDiesInv ==
  ASSUME IInv, NEW k \in Run, RunDies(k)
  PROVE  IInv'
<1>1. /\ UNCHANGED <<req, file, chap, map, helper, watched, changed, asked, torn>>
      /\ Active(k) /\ run' = [run EXCEPT ![k] = Failed]
      /\ faults' \in 0..MaxFaults
  BY Counts DEF RunDies
<1>2. ~torn' => Blocks'
  BY <1>1, NoRunType, BlocksKept
<1>3. Failed.pc \notin Written \cup {"read"}
  BY NoRunType DEF Written
<1> QED
  BY <1>1, <1>2, <1>3, NoRunType, RunFacts, Counts, ScriptStep

-----------------------------------------------------------------------------
(* The steps of the specification *)

LEMMA StutterInv ==
  ASSUME IInv, UNCHANGED vars
  PROVE  IInv'
<1>1. UNCHANGED <<req, file, chap, map, helper, watched, changed, run, asked, faults,
                  torn>>
  BY DEF vars, host
<1>2. HealInv'
  BY <1>1, HealKept DEF IInv
<1> QED
  BY <1>1, <1>2 DEF IInv, TypeOK, SaveInv, Saves

LEMMA InitIInv == Init => IInv
<1> SUFFICES ASSUME Init PROVE IInv
  OBVIOUS
<1>1. /\ req = [r \in Req |-> NoRequest] /\ run = [k \in Run |-> NoRun]
      /\ changed = FALSE /\ asked = 0 /\ faults = 0 /\ torn = FALSE
  BY DEF Init
<1>2. /\ file \in List \cup {None} /\ chap \in Seq(Line) /\ map \in Config \cup {Default, None}
      /\ helper \in BOOLEAN /\ watched \in BOOLEAN /\ Outside(chap) = {}
  <2>1. CASE file = None /\ chap = <<>> /\ map = None /\ helper = FALSE /\ watched = FALSE
    <3>1. DOMAIN chap = {} /\ chap \in Seq(Line)
      BY <2>1
    <3>2. Outside(chap) = {}
      BY <3>1 DEF Outside
    <3> QED
      BY <2>1, <3>1, <3>2
  <2>2. CASE /\ file \in Config /\ chap = <<"begin", file, "end">> /\ map = file
             /\ helper = TRUE /\ watched = TRUE
    <3>1. file # "end" /\ file \in Line
      BY <2>2, NameAssumption DEF Line
    <3>2. chap \in Seq(Line)
      BY <2>2, <3>1 DEF Line
    <3>3. /\ DOMAIN chap = 1..3 /\ chap[1] = "begin" /\ chap[2] # "end"
      BY <2>2, <3>1
    <3>4. \A i \in 1..3 : 1 \in 1..i /\ ~\E e \in (1 + 1)..(i - 1) : chap[e] = "end"
      <4>1. \A i \in 1..3 : 1 \in 1..i /\ \A e \in (1 + 1)..(i - 1) : e = 2
        OBVIOUS
      <4> QED
        BY <3>3, <4>1
    <3>5. Outside(chap) = {}
      BY <3>3, <3>4 DEF Outside
    <3> QED
      BY <2>2, <3>2, <3>5 DEF List
  <2> QED
    BY <2>1, <2>2 DEF Init
<1>3. TypeOK
  <2>1. 0 \in 0..MaxAsked /\ 0 \in 0..MaxFaults
    BY BoundAssumption
  <2> QED
    BY <1>1, <1>2, <2>1, NoRequestType, NoRunType DEF TypeOK
<1>4. \A k \in Run : run[k].pc = "none" /\ ~run[k].alone
  BY <1>1, NoRunType
<1>5. HealInv
  BY <1>2, <1>4 DEF HealInv, Blocks, Block, Appends, Sole, Reads, Written
<1>6. SaveInv
  BY <1>1 DEF SaveInv, Saves, NoRequest
<1> QED
  BY <1>1, <1>3, <1>5, <1>6 DEF IInv, TypeOK

LEMMA NextIInv == IInv /\ [Next]_vars => IInv'
<1> SUFFICES ASSUME IInv, [Next]_vars PROVE IInv'
  OBVIOUS
<1>1. ASSUME NEW r \in Req, Arrives(r) PROVE IInv'
  <2>1. ASSUME NEW c \in Config \cup Bad, NEW apply \in BOOLEAN, Begin(r, "save", c, apply)
        PROVE  IInv'
    <3>1. c # None /\ c \in Config \cup Bad \cup {None} /\ "save" \in Kinds
      BY NameAssumption DEF Kinds
    <3> QED
      BY <2>1, <3>1, BeginInv
  <2>2. ASSUME NEW kind \in Kinds \ {"save"}, Begin(r, kind, None, FALSE)
        PROVE  IInv'
    BY <2>2, BeginInv
  <2> QED
    BY <1>1, <2>1, <2>2 DEF Arrives
<1>2. ASSUME NEW r \in Req, Serve(r) PROVE IInv'
  BY <1>2, UploadInv, EnsureFingerprintInv, SaveOnlyInv, SaveAndApplyInv,
     ApplyOrInstallInv, CommandExitsInv, FailsInv DEF Serve
<1>3. ASSUME NEW r \in Req, CommandFails(r) PROVE IInv'
  BY <1>3, FailsInv
<1>4. ASSUME NEW k \in Run, Script(k) PROVE IInv'
  <2>1. CASE ReadChap(k)
    BY <2>1, ReadChapInv, ReadChapFirstInv
  <2> QED
    BY <1>4, <2>1, ParseUsersInv, ReplaceChapInv, AppendChapInv, WriteMapInv, RunDiesInv
       DEF Script
<1>5. CASE WatcherStarts
  BY <1>5, WatcherStartsInv
<1>6. CASE UNCHANGED vars
  BY <1>6, StutterInv
<1> QED
  BY <1>1, <1>2, <1>3, <1>4, <1>5, <1>6 DEF Next

-----------------------------------------------------------------------------
(* Theorems *)

\* The inductive invariant: requests, runs of the script and the files they write to are
\* related as the comments above say, however the runs interleave and fail.
THEOREM Invariance == Spec => []IInv
<1> QED
  BY InitIInv, NextIInv, PTL DEF Spec

\* The requests, the host's files and the runs keep their types; the account
\* lines that the sed of write_chap_users leaves are lines of the file.
THEOREM TypeCorrect == Spec => []TypeOK
<1>1. IInv => TypeOK
  BY DEF IInv, TypeOK
<1> QED
  BY <1>1, Invariance, PTL

\* A run of install-l2tp-server.sh that ends well and had the host to itself leaves the
\* accounts of users.conf, once, and their map, whatever earlier runs have left, as long
\* as none cut into the lines another was appending.
THEOREM HealedHolds == Spec => []Healed
<1>1. IInv => Healed
  BY DEF IInv, HealInv, Sole, Wrote, Healed, Written
<1> QED
  BY <1>1, Invariance, PTL

\* When linux_l2tp_save_config reports a list as applied, the script it started has read
\* that list or one that took its place after it.
THEOREM AppliedIsApplied == Spec => []SaveApplied
<1>1. IInv => SaveApplied
  BY DEF IInv, SaveInv, Saves, SaveApplied
<1> QED
  BY <1>1, Invariance, PTL

=============================================================================
