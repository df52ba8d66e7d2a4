------------------------- MODULE CloudActions_proofs ------------------------
(***************************************************************************)
(* Proofs about CloudActions, for any number of servers, names, requests   *)
(* and actions, and any number of alternatives and polls: which server an  *)
(* action takes effect on, what a change of a rule leaves in the group,    *)
(* and what a confirmed address says.                                      *)
(***************************************************************************)
EXTENDS CloudActions, TLAPS

-----------------------------------------------------------------------------
(* The inductive invariant *)

Limit == 2 + Alternatives + Polls

Rule == [id : ({None} \cup Req) \X {1, 2}, body : Body]

ReqRecord ==
  [pc : Stages, ask : Asks \cup {None}, server : Server \cup {None}, n : 0..Limit,
   body : Body, resolved : Server \cup {None}, read : SUBSET Server, names : SUBSET Server,
   words : BOOLEAN, answer : {"none", "ok", "failed"}, shown : BOOLEAN,
   gone : BOOLEAN, missed : BOOLEAN, shared : BOOLEAN, lost : BOOLEAN, left : SUBSET Rule]

TypeInv ==
  /\ live \subseteq Server
  /\ name \in [Server -> Name]
  /\ known \in [Server -> {"none", "order", "server"}]
  /\ rules \subseteq Rule
  /\ ip \in [Server -> Req \cup {None}]
  /\ jobs \subseteq Req
  /\ lock \in Req \cup {None}
  /\ confirmed \in [Server -> Req \cup {None}]
  /\ hits \in [Req -> SUBSET Server]
  /\ req \in [Req -> ReqRecord]

\* The stages of a family.
InstanceStages == {"instance", "scan", "resolved"}
RuleStages == {"create", "revoke", "rollback", "revoke2", "recreate"}
LockStages == {"port", "submit", "poll"}
ConsoleStages == {"lock"} \cup LockStages

\* A request is in a stage of its family, and counts no further than it may.
Staged(r) ==
  /\ r.pc = "idle" => r.ask = None /\ r.server = None /\ ~r.lost
  /\ r.pc # "idle" => /\ r.ask \in Asks
                      /\ r.ask[1] = "ecs" => r.server \in Server
                      /\ r.ask[1] # "ecs" => r.server = None
  /\ r.pc \in InstanceStages => Family(r.ask) = "instance"
  /\ r.pc = "network" => Family(r.ask) = "network" /\ r.n \in 1..Alternatives
  /\ r.pc = "single" => Family(r.ask) = "single"
  /\ r.pc \in RuleStages => Family(r.ask) = "rule"
  /\ r.pc \in ConsoleStages => Family(r.ask) = "console" /\ r.n \in 1..Polls
  /\ r.pc \notin {"idle", "done"} => r.answer = "none"

\* Another server may be taken for that of the row: it has the name that the row gives,
\* and the server has gone, or is not known by its own id and was passed over.
Namesake(r, s) ==
  /\ name[s] = name[r.server]
  /\ r.gone \/ (known[r.server] # "server" /\ r.missed)

\* What a look-up knows: the row's own id has failed because the server is gone, the
\* server has not been read unless it was passed over, and the others have its name.
Target(r, h) ==
  /\ r.pc = "idle" => h = {}
  /\ r.pc \notin {"idle", "done"} /\ r.ask[1] = "ecs" /\ r.server \notin live => r.gone
  /\ r.pc = "instance" => /\ r.n \in 1..2 /\ r.read = {} /\ r.names = {} /\ h \subseteq {r.server}
                          /\ r.n = 2 => known[r.server] = "server" /\ r.gone
  /\ r.pc = "scan" => /\ h \subseteq {r.server}
                      /\ known[r.server] = "server" => r.gone
                      /\ r.server \in r.read => r.missed
                      /\ \A s \in r.names : name[s] = name[r.server]
  /\ r.pc = "resolved" => /\ r.resolved \in Server
                          /\ r.resolved = r.server \/ Namesake(r, r.resolved)
  /\ \A s \in h : s = r.server \/ Namesake(r, s)

\* Requests to change a rule.
Changes(r) == r.ask # None /\ OnRules(r.ask)

\* What a change of a rule that no other one overlapped leaves in the group.
Group(r, left) ==
  /\ r.pc = "revoke" => \E x \in left : x.body = r.body /\ x.id # OldId
  /\ r.pc = "recreate" => \A x \in left : x.id # OldId
  /\ Changes(r) /\ r.answer = "ok" =>
       (\E x \in left : x.body = r.body) /\ OldRule \notin left

\* What it leaves if it was the only one there has been.
Only(t) == \A u \in Req \ {t} : ~Changes(req[u])

Kept(r, left) ==
  /\ r.pc \in {"revoke2", "recreate"} => r.words
  /\ r.pc \in {"create", "revoke", "rollback", "revoke2"} /\ ~r.lost => OldRule \in left
  /\ r.pc = "done" /\ ~r.lost /\ ~(r.words /\ r.n = 2) =>
       \E x \in left : x = OldRule \/ x.body = r.body

RuleInv ==
  /\ \A t \in Req : ~req[t].shared => /\ req[t].pc \in RuleStages => req[t].left = rules
                                      /\ Group(req[t], req[t].left)
  /\ \A t, u \in Req : t # u /\ req[t].pc \in RuleStages /\ req[u].pc \in RuleStages
                         => req[t].shared /\ req[u].shared
  /\ \A t \in Req : Changes(req[t]) /\ Only(t) => ~req[t].shared /\ Kept(req[t], req[t].left)
  /\ (\A t \in Req : ~Changes(req[t])) => OldRule \in rules

\* Who has changed an address, or still may.
Changer(t) == Family(req[t].ask) = "console" /\ req[t].pc \in {"poll", "done"}
                /\ req[t].server \in Server

\* Who has moved a port to another network.
Mover(t) == Family(req[t].ask) = "network" /\ req[t].pc # "idle"

\* A port has the address of a change of its server.  A confirmed one is that address,
\* or it was there before, or the port got another from a move or an unsettled change.
Address(s) ==
  /\ ip[s] # None => req[ip[s]].server = s /\ (Mover(ip[s]) \/ Changer(ip[s]))
  /\ confirmed[s] # None => /\ Changer(confirmed[s]) /\ req[confirmed[s]].server = s
                            /\ \/ ip[s] = confirmed[s]
                               \/ req[confirmed[s]].shown
                               \/ ip[s] # None /\ (Mover(ip[s]) \/ Unsettled(ip[s]))

AddressInv ==
  /\ \A t \in Req : lock = t <=> req[t].pc \in LockStages
  /\ \A t \in jobs : /\ Changer(t) /\ Unsettled(t)
                     /\ \A s \in Server : ip[s] # t
  /\ \A s \in Server : Address(s)

IInv ==
  /\ TypeInv
  /\ \A t \in Req : Staged(req[t])
  /\ \A t \in Req : Target(req[t], hits[t])
  /\ RuleInv
  /\ AddressInv

-----------------------------------------------------------------------------
(* Bounds, families and ids *)

LEMMA LimitFacts ==
  /\ Alternatives \in Nat \ {0} /\ Polls \in Nat \ {0} /\ Limit \in Nat
  /\ 2 < Limit /\ Alternatives < Limit /\ Polls < Limit
BY AlternativesAssumption, PollsAssumption DEF Limit

\* Only servers are looked up, moved to another network and given addresses.
LEMMA FamilyFacts ==
  ASSUME NEW ask
  PROVE  /\ Family(ask) \in {"instance", "network", "console", "rule", "single"}
         /\ Family(ask) \in {"instance", "network", "console"} => ask[1] = "ecs"
BY DEF Family

\* The first id is the server's own if the row knows it, and then it is not the last.
LEMMA CandidateFacts ==
  ASSUME NEW t \in Req, NEW s, s = req[t].server
  PROVE  /\ Len(Candidates(t)) = IF known[s] = "server" THEN 2 ELSE 1
         /\ known[s] = "server" => /\ Candidates(t)[1] = <<"server", s>>
                                   /\ Candidates(t)[2] = <<"order", s>>
         /\ known[s] # "server" => Candidates(t)[1] = <<"order", s>>
BY DEF Candidates

LEMMA ExistsFacts ==
  ASSUME NEW kind, NEW s
  PROVE  /\ Exists(<<kind, s>>) <=> kind = "server" /\ s \in live
         /\ ~Exists(<<"order", s>>) /\ ~Exists(<<"object", s>>)
BY DEF Exists

-----------------------------------------------------------------------------
(* The record of a request *)

\* The request is over, and what it was about is still in its record.
Over(q, r) ==
  /\ r \in ReqRecord /\ r.pc = "done"
  /\ r.ask = q.ask /\ r.server = q.server /\ r.body = q.body /\ r.n = q.n
  /\ r.words = q.words /\ r.shown = q.shown /\ r.gone = q.gone /\ r.missed = q.missed
  /\ r.shared = q.shared /\ r.left = q.left

LEMMA FinishedRecord ==
  ASSUME NEW q \in ReqRecord, NEW answer \in {"none", "ok", "failed"}
  PROVE  /\ Over(q, Finished(q, answer))
         /\ Finished(q, answer).answer = answer /\ Finished(q, answer).lost = q.lost
BY DEF Finished, Over, ReqRecord, Stages

LEMMA LostRecord ==
  ASSUME NEW q \in ReqRecord, NEW lost \in BOOLEAN, NEW answer \in {"none", "ok", "failed"}
  PROVE  /\ Over(q, Finished([q EXCEPT !.lost = lost], answer))
         /\ Finished([q EXCEPT !.lost = lost], answer).answer = answer
         /\ Finished([q EXCEPT !.lost = lost], answer).lost = lost
<1> DEFINE p == [q EXCEPT !.lost = lost]
<1>1. p \in ReqRecord
  BY DEF ReqRecord
<1>2. /\ p.ask = q.ask /\ p.server = q.server /\ p.body = q.body /\ p.n = q.n
      /\ p.words = q.words /\ p.shown = q.shown /\ p.gone = q.gone /\ p.missed = q.missed
      /\ p.shared = q.shared /\ p.left = q.left /\ p.lost = lost
  BY DEF ReqRecord
<1> HIDE DEF p
<1>3. /\ Over(p, Finished(p, answer))
      /\ Finished(p, answer).answer = answer /\ Finished(p, answer).lost = p.lost
  BY <1>1, FinishedRecord
<1>4. Over(q, Finished(p, answer)) /\ Finished(p, answer).lost = lost
  BY <1>2, <1>3 DEF Over
<1> QED
  BY <1>3, <1>4 DEF p

\* A call that answers or times out ends the request; after an error it goes on.
LEMMA AfterRecord ==
  ASSUME NEW q \in ReqRecord, NEW end, NEW next
  PROVE  /\ end \in {"ok", "timeout"} => Over(q, After(q, end, next))
         /\ end \notin {"ok", "timeout"} => After(q, end, next) = next
<1>1. CASE end = "ok"
  BY <1>1, FinishedRecord DEF After
<1>2. CASE end = "timeout"
  BY <1>2, LostRecord DEF After
<1>3. CASE end \notin {"ok", "timeout"}
  BY <1>3 DEF After
<1> QED
  BY <1>1, <1>2, <1>3

\* What is known of the effects of a request does not change when it ends.
LEMMA OverFacts ==
  ASSUME NEW q \in ReqRecord, q.pc # "idle", Staged(q), NEW h, Target(q, h), NEW r, Over(q, r)
  PROVE  Staged(r) /\ Target(r, h)
BY DEF Over, Staged, Target, Namesake, InstanceStages, RuleStages, ConsoleStages, LockStages

-----------------------------------------------------------------------------
(* What a step leaves alone *)

\* Changes of rules are not affected by a request of another family.
LEMMA RuleFrame ==
  ASSUME RuleInv, req \in [Req -> ReqRecord], NEW t \in Req, NEW r \in ReqRecord,
         req' = [req EXCEPT ![t] = r], UNCHANGED rules,
         ~Changes(req[t]), ~Changes(r), r.pc \notin RuleStages
  PROVE  RuleInv'
<1>1. req'[t] = r /\ \A u \in Req \ {t} : req'[u] = req[u]
  OBVIOUS
<1>2. Group(r, r.left)
  BY DEF Group, RuleStages
<1>3. ASSUME NEW u \in Req, ~req'[u].shared
      PROVE  /\ req'[u].pc \in RuleStages => req'[u].left = rules'
             /\ Group(req'[u], req'[u].left)
  BY <1>1, <1>2, <1>3 DEF RuleInv
<1>4. \A u \in Req : Changes(req'[u]) <=> Changes(req[u])
  BY <1>1
<1>5. \A u \in Req : Only(u)' <=> Only(u)
  BY <1>4 DEF Only, Changes
<1>6. \A u \in Req : Changes(req'[u]) /\ Only(u)' => ~req'[u].shared /\ Kept(req'[u], req'[u].left)
  BY <1>1, <1>4, <1>5 DEF RuleInv
<1>7. (\A u \in Req : ~Changes(req'[u])) => OldRule \in rules'
  BY <1>4 DEF RuleInv
<1>8. \A u, w \in Req : u # w /\ req'[u].pc \in RuleStages /\ req'[w].pc \in RuleStages
                          => req'[u].shared /\ req'[w].shared
  BY <1>1 DEF RuleInv
<1> QED
  BY <1>3, <1>6, <1>7, <1>8 DEF RuleInv, Changes, Kept, Group

\* Addresses, if no request that has changed one is forgotten.
LEMMA AddressKept ==
  ASSUME AddressInv, jobs \subseteq Req,
         ip \in [Server -> Req \cup {None}], confirmed \in [Server -> Req \cup {None}],
         \A u \in Req : lock' = u <=> req'[u].pc \in LockStages,
         \A u \in Req : Mover(u) => Mover(u)' /\ req'[u].server = req[u].server,
         \A u \in Req : Changer(u) => /\ Changer(u)' /\ req'[u].server = req[u].server
                                      /\ Unsettled(u) => Unsettled(u)'
                                      /\ req[u].shown => req'[u].shown,
         confirmed' = confirmed, jobs' \subseteq jobs,
         \A u \in jobs' : \A s \in Server : ip'[s] # u,
         \A s \in Server : \/ ip'[s] = ip[s]
                           \/ \E u \in Req : /\ ip'[s] = u /\ req'[u].server = s
                                             /\ Mover(u)' \/ (Changer(u)' /\ Unsettled(u)')
  PROVE  AddressInv'
<1>1. \A u \in jobs' : /\ Changer(u)' /\ Unsettled(u)'
                       /\ \A s \in Server : ip'[s] # u
  BY DEF AddressInv
<1>2. ASSUME NEW s \in Server PROVE Address(s)'
  <2>1. PICK i : i = ip[s]
    OBVIOUS
  <2>2. PICK j : j = ip'[s]
    OBVIOUS
  <2>3. PICK c : c = confirmed[s]
    OBVIOUS
  <2>4. /\ i \in Req \cup {None} /\ c \in Req \cup {None} /\ confirmed'[s] = c
    BY <2>1, <2>3
  <2>5. /\ i # None => req[i].server = s /\ (Mover(i) \/ Changer(i))
        /\ c # None => /\ Changer(c) /\ req[c].server = s
                       /\ \/ i = c
                          \/ req[c].shown
                          \/ i # None /\ (Mover(i) \/ Unsettled(i))
    BY <2>1, <2>3 DEF AddressInv, Address
  <2>6. /\ i # None => req'[i].server = s /\ (Mover(i)' \/ Changer(i)')
        /\ c # None => /\ Changer(c)' /\ req'[c].server = s
                       /\ \/ i = c
                          \/ req'[c].shown
                          \/ i # None /\ (Mover(i)' \/ Unsettled(i)')
    BY <2>4, <2>5
  <2>7. CASE j = i
    BY <2>2, <2>4, <2>6, <2>7 DEF Address
  <2>8. CASE /\ j \in Req /\ req'[j].server = s
             /\ Mover(j)' \/ (Changer(j)' /\ Unsettled(j)')
    <3>1. j # None
      BY <2>8, NoneAssumption
    <3> QED
      BY <2>2, <2>4, <2>6, <2>8, <3>1 DEF Address
  <2> QED
    BY <2>1, <2>2, <2>7, <2>8
<1> QED
  BY <1>1, <1>2 DEF AddressInv

\* A step of a request that changes no address, or moves a port to another network.
LEMMA AddressFrame ==
  ASSUME AddressInv, req \in [Req -> ReqRecord], NEW t \in Req, NEW r \in ReqRecord,
         req' = [req EXCEPT ![t] = r], UNCHANGED <<jobs, lock, confirmed>>,
         jobs \subseteq Req, ip \in [Server -> Req \cup {None}],
         confirmed \in [Server -> Req \cup {None}],
         \A s \in Server : \/ ip'[s] = ip[s]
                           \/ ip'[s] = t /\ s = r.server /\ Family(r.ask) = "network",
         r.ask = req[t].ask, r.server = req[t].server, r.pc # "idle",
         req[t].pc \notin {"done"} \cup ConsoleStages, r.pc \notin LockStages
  PROVE  AddressInv'
<1>1. req'[t] = r /\ \A u \in Req \ {t} : req'[u] = req[u]
  OBVIOUS
<1>2. \A u \in Req : lock' = u <=> req'[u].pc \in LockStages
  BY <1>1 DEF AddressInv, ConsoleStages
<1>3. ~Changer(t)
  BY DEF Changer, ConsoleStages, LockStages
<1>4. \A u \in Req : Mover(u) => Mover(u)' /\ req'[u].server = req[u].server
  BY <1>1 DEF Mover
<1>5. \A u \in Req : Changer(u) => /\ Changer(u)' /\ req'[u].server = req[u].server
                                   /\ Unsettled(u) => Unsettled(u)'
                                   /\ req[u].shown => req'[u].shown
  BY <1>1, <1>3 DEF Changer, Unsettled, Active
<1>6. \A s \in Server : \/ ip'[s] = ip[s]
                        \/ \E u \in Req : ip'[s] = u /\ req'[u].server = s /\ Mover(u)'
  BY <1>1 DEF Mover
<1>7. \A u \in jobs' : \A s \in Server : ip'[s] # u
  BY <1>3 DEF AddressInv
<1> QED
  BY <1>2, <1>4, <1>5, <1>6, <1>7, AddressKept

\* A step of a request that acts on a server or makes a single call.
LEMMA MoveStep ==
  ASSUME IInv, NEW t \in Req, NEW r \in ReqRecord,
         req[t].pc \in InstanceStages \cup {"network", "single"},
         req' = [req EXCEPT ![t] = r],
         UNCHANGED <<live, name, known, rules, jobs, lock, confirmed>>,
         ip' \in [Server -> Req \cup {None}],
         \A s \in Server : \/ ip'[s] = ip[s]
                           \/ ip'[s] = t /\ s = r.server /\ Family(r.ask) = "network",
         NEW h \in SUBSET Server, hits' = [hits EXCEPT ![t] = h],
         r.ask = req[t].ask, r.server = req[t].server, r.pc # "idle", Staged(r), Target(r, h)
  PROVE  IInv'
<1>1. /\ req' \in [Req -> ReqRecord] /\ hits' \in [Req -> SUBSET Server]
      /\ req'[t] = r /\ \A u \in Req \ {t} : req'[u] = req[u]
      /\ hits'[t] = h /\ \A u \in Req \ {t} : hits'[u] = hits[u]
  BY DEF IInv, TypeInv
<1>2. TypeInv'
  BY <1>1 DEF IInv, TypeInv
<1>3. \A u \in Req : Staged(req[u])'
  BY <1>1 DEF IInv, Staged
<1>4. ASSUME NEW u \in Req PROVE Target(req[u], hits[u])'
  <2>1. u = t => Target(req[u], hits[u])'
    BY <1>1 DEF Target, Namesake
  <2>2. u # t => Target(req[u], hits[u])'
    BY <1>1 DEF IInv, Target, Namesake
  <2> QED
    BY <2>1, <2>2
<1>5. Family(req[t].ask) \in {"instance", "network", "single"}
  BY DEF IInv, Staged
<1>6. /\ ~Changes(req[t]) /\ ~Changes(r)
      /\ r.pc \notin RuleStages /\ r.pc \notin LockStages
      /\ req[t].pc \notin {"done"} \cup ConsoleStages
  BY <1>5 DEF Changes, OnRules, Staged, InstanceStages, ConsoleStages, LockStages
<1>7. RuleInv'
  BY <1>6, RuleFrame DEF IInv, TypeInv
<1>8. AddressInv'
  BY <1>6, AddressFrame DEF IInv, TypeInv
<1> QED
  BY <1>2, <1>3, <1>4, <1>7, <1>8 DEF IInv

\* The same when the provider is as it was.
LEMMA PlainStep ==
  ASSUME IInv, NEW t \in Req, NEW r \in ReqRecord,
         req[t].pc \in InstanceStages \cup {"network", "single"},
         req' = [req EXCEPT ![t] = r],
         UNCHANGED <<provider, lock, confirmed>>,
         NEW h \in SUBSET Server, hits' = [hits EXCEPT ![t] = h],
         r.ask = req[t].ask, r.server = req[t].server, r.pc # "idle", Staged(r), Target(r, h)
  PROVE  IInv'
<1>1. /\ UNCHANGED <<live, name, known, rules, jobs, lock, confirmed>>
      /\ ip' = ip /\ ip' \in [Server -> Req \cup {None}]
  BY DEF IInv, TypeInv, provider
<1> QED
  BY <1>1, MoveStep

-----------------------------------------------------------------------------
(* Actions on a server, and single calls *)

\* What a call adds to the servers it took effect on.
LEMMA EffectFacts ==
  ASSUME IInv, NEW t \in Req, NEW kind, NEW s, NEW end, NEW took,
         kind = "server" => s \in Server,
         Effect(t, <<kind, s>>, end, took)
  PROVE  \E h \in SUBSET Server :
           /\ hits' = [hits EXCEPT ![t] = h]
           /\ h = hits[t] \/ (h = hits[t] \cup {s} /\ Exists(<<kind, s>>))
<1>1. hits[t] \in SUBSET Server /\ hits = [hits EXCEPT ![t] = hits[t]]
  BY DEF IInv, TypeInv
<1>2. CASE hits' = hits
  BY <1>1, <1>2
<1>3. CASE hits' # hits
  <2>1. /\ hits' = [hits EXCEPT ![t] = hits[t] \cup {s}] /\ Exists(<<kind, s>>)
    BY <1>3 DEF Effect, Acts
  <2>2. hits[t] \cup {s} \in SUBSET Server
    BY <1>1, <2>1, ExistsFacts
  <2> QED
    BY <2>1, <2>2
<1> QED
  BY <1>2, <1>3

\* A request on a server is over.
LEMMA EndsPlain ==
  ASSUME IInv, NEW t \in Req, NEW r, Over(req[t], r),
         req[t].pc \in InstanceStages \cup {"network", "single"},
         req' = [req EXCEPT ![t] = r], UNCHANGED <<provider, lock, confirmed>>,
         NEW h \in SUBSET Server, hits' = [hits EXCEPT ![t] = h], Target(req[t], h)
  PROVE  IInv'
<1>1. /\ req[t] \in ReqRecord /\ req[t].pc # "idle" /\ Staged(req[t])
  BY DEF IInv, TypeInv, InstanceStages
<1>2. Staged(r) /\ Target(r, h)
  BY <1>1, OverFacts
<1>3. r \in ReqRecord /\ r.ask = req[t].ask /\ r.server = req[t].server /\ r.pc # "idle"
  BY DEF Over
<1> QED
  BY <1>2, <1>3, PlainStep

\* The same without an effect.
LEMMA EndsQuietly ==
  ASSUME IInv, NEW t \in Req, NEW r, Over(req[t], r),
         req[t].pc \in InstanceStages \cup {"network", "single"},
         req' = [req EXCEPT ![t] = r], UNCHANGED <<provider, lock, confirmed, hits>>
  PROVE  IInv'
<1>1. hits[t] \in SUBSET Server /\ hits' = [hits EXCEPT ![t] = hits[t]] /\ Target(req[t], hits[t])
  BY DEF IInv, TypeInv
<1> QED
  BY <1>1, EndsPlain

LEMMA TryInstanceStep ==
  ASSUME IInv, NEW t \in Req, TryInstance(t)
  PROVE  IInv'
<1> DEFINE q == req[t]
           s == req[t].server
           c == Candidates(t)
           more == [q EXCEPT !.n = q.n + 1]
           scan == [q EXCEPT !.pc = "scan", !.n = 1]
<1>1. /\ q \in ReqRecord /\ q.pc = "instance" /\ q.ask \in Asks
      /\ Staged(q) /\ Target(q, hits[t]) /\ UNCHANGED <<provider, lock, confirmed>>
  BY DEF TryInstance, IInv, TypeInv, Staged
<1>2. s \in Server /\ q.ask[1] = "ecs" /\ (s \notin live => q.gone)
  BY <1>1, FamilyFacts DEF Staged, Target, InstanceStages
<1>3. PICK end \in Ends(c[q.n]), took \in BOOLEAN :
        /\ Effect(t, c[q.n], end, took)
        /\ Becomes(t, After(q, end,
             IF end # "missing" THEN Finished(q, "failed")
             ELSE IF q.n < Len(c) THEN more ELSE scan))
  BY DEF TryInstance
<1>4. /\ Len(c) = IF known[s] = "server" THEN 2 ELSE 1
      /\ known[s] = "server" => c[1] = <<"server", s>> /\ c[2] = <<"order", s>>
      /\ known[s] # "server" => c[1] = <<"order", s>>
  BY CandidateFacts
<1> HIDE DEF c, more, scan
<1>5. q.n \in {1, 2} /\ (q.n = 2 => known[s] = "server" /\ q.gone)
  BY <1>1 DEF Target
<1>6. PICK kind \in {"server", "order"} :
        /\ c[q.n] = <<kind, s>>
        /\ kind = "order" => (q.n = 2 <=> known[s] = "server")
        /\ kind = "server" => q.n = 1 /\ known[s] = "server"
  BY <1>4, <1>5
<1>7. PICK h \in SUBSET Server :
        /\ hits' = [hits EXCEPT ![t] = h]
        /\ h = hits[t] \/ (h = hits[t] \cup {s} /\ Exists(<<kind, s>>))
  <2>1. Effect(t, <<kind, s>>, end, took)
    BY <1>3, <1>6
  <2> HIDE DEF s
  <2> QED
    BY <1>2, <2>1, EffectFacts
<1>8. Target(q, h)
  BY <1>1, <1>7 DEF Target
<1>9. end = "missing" => ~Exists(<<kind, s>>)
  BY <1>3, <1>6 DEF Ends
<1>10. CASE end \in {"ok", "timeout"}
  <2>1. PICK r : Over(q, r) /\ req' = [req EXCEPT ![t] = r]
    BY <1>1, <1>3, <1>10, AfterRecord DEF Becomes
  <2> QED
    BY <1>1, <1>7, <1>8, <2>1, EndsPlain DEF InstanceStages
<1>11. CASE end \notin {"ok", "timeout", "missing"}
  <2>1. req' = [req EXCEPT ![t] = Finished(q, "failed")]
    BY <1>1, <1>3, <1>11, AfterRecord DEF Becomes
  <2>2. Over(q, Finished(q, "failed"))
    BY <1>1, FinishedRecord
  <2> QED
    BY <1>1, <1>7, <1>8, <2>1, <2>2, EndsPlain DEF InstanceStages
<1>12. CASE end = "missing" /\ q.n < Len(c)
  <2>1. req' = [req EXCEPT ![t] = more]
    BY <1>1, <1>3, <1>12, AfterRecord DEF Becomes
  <2>2. q.n = 1 /\ known[s] = "server" /\ kind = "server"
    BY <1>4, <1>5, <1>6, <1>12
  <2>3. q.n + 1 = 2 /\ 2 \in 0..Limit
    BY <2>2, LimitFacts
  <2>4. /\ more \in ReqRecord /\ more.n = 2 /\ more.pc = q.pc /\ more.ask = q.ask
        /\ more.server = s /\ more.gone = q.gone /\ more.missed = q.missed
        /\ more.answer = q.answer /\ more.read = q.read /\ more.names = q.names
    BY <1>1, <2>3 DEF more, ReqRecord
  <2>5. Staged(more)
    BY <1>1, <2>4 DEF Staged, InstanceStages, RuleStages, ConsoleStages, LockStages
  <2>6. q.gone
    BY <1>2, <1>9, <1>12, <2>2, ExistsFacts
  <2>7. Target(more, h)
    BY <1>1, <1>8, <2>2, <2>4, <2>6 DEF Target, Namesake
  <2> QED
    BY <1>1, <1>7, <2>1, <2>4, <2>5, <2>7, PlainStep DEF InstanceStages
<1>13. CASE end = "missing" /\ ~(q.n < Len(c))
  <2>1. req' = [req EXCEPT ![t] = scan]
    BY <1>1, <1>3, <1>13, AfterRecord DEF Becomes
  <2>2. known[s] = "server" => q.gone
    BY <1>4, <1>5, <1>13
  <2>3. /\ scan \in ReqRecord /\ scan.pc = "scan" /\ scan.ask = q.ask
        /\ scan.server = s /\ scan.gone = q.gone /\ scan.missed = q.missed
        /\ scan.answer = q.answer /\ scan.read = q.read /\ scan.names = q.names
    <3>1. 1 \in 0..Limit
      BY LimitFacts
    <3> QED
      BY <1>1, <3>1 DEF scan, ReqRecord, Stages
  <2>4. Staged(scan)
    BY <1>1, <2>3 DEF Staged, InstanceStages, RuleStages, ConsoleStages, LockStages
  <2>5. Target(scan, h)
    BY <1>1, <1>8, <2>2, <2>3 DEF Target, Namesake
  <2> QED
    BY <1>1, <1>7, <2>1, <2>3, <2>4, <2>5, PlainStep DEF InstanceStages
<1> QED
  BY <1>10, <1>11, <1>12, <1>13

\* A step of the look-up that goes on, or finds a server.
LEMMA ScanStep ==
  ASSUME IInv, NEW t \in Req, req[t].pc = "scan", NEW r \in ReqRecord,
         Becomes(t, r), UNCHANGED <<provider, lock, confirmed, hits>>,
         r.ask = req[t].ask, r.server = req[t].server, r.gone = req[t].gone,
         r.answer = req[t].answer,
         \/ /\ r.pc = "scan" /\ (r.server \in r.read => r.missed)
            /\ \A s \in r.names : name[s] = name[r.server]
         \/ /\ r.pc = "resolved" /\ r.resolved \in Server
            /\ r.resolved = r.server \/ Namesake(r, r.resolved)
  PROVE  IInv'
<1>1. /\ Staged(req[t]) /\ Target(req[t], hits[t])
      /\ hits[t] \in SUBSET Server /\ hits' = [hits EXCEPT ![t] = hits[t]]
  BY DEF IInv, TypeInv
<1>2. Staged(r)
  BY <1>1 DEF Staged, InstanceStages, RuleStages, ConsoleStages, LockStages
<1>3. Target(r, hits[t])
  BY <1>1 DEF Target
<1> QED
  BY <1>1, <1>2, <1>3, PlainStep DEF InstanceStages, Becomes

LEMMA ScanItemStep ==
  ASSUME IInv, NEW t \in Req, NEW s \in Server, ScanItem(t, s) \/ ScanMisses(t, s)
  PROVE  IInv'
<1> DEFINE q == req[t]
           found == [q EXCEPT !.pc = "resolved", !.resolved = s]
           both == IF name[s] = name[q.server] THEN q.names \cup {s} ELSE q.names
           more == [q EXCEPT !.read = q.read \cup {s}, !.names = both]
           own == q.missed \/ s = q.server
           over == [q EXCEPT !.read = q.read \cup {s}, !.missed = own]
<1>1. /\ q \in ReqRecord /\ q.pc = "scan" /\ UNCHANGED <<provider, lock, confirmed, hits>>
      /\ q.server \in q.read => q.missed
      /\ \A x \in q.names : name[x] = name[q.server]
  BY DEF ScanItem, ScanMisses, IInv, TypeInv, Target
<1>2. /\ both \in SUBSET Server /\ q.read \cup {s} \in SUBSET Server /\ own \in BOOLEAN
      /\ \A x \in both : name[x] = name[q.server]
  BY <1>1 DEF ReqRecord
<1>3. \/ s = q.server /\ Becomes(t, found)
      \/ s # q.server /\ Becomes(t, more)
      \/ Becomes(t, over)
  BY DEF ScanItem, ScanMisses, Becomes
<1>4. own <=> q.missed \/ s = q.server
  OBVIOUS
<1> HIDE DEF both, own
<1>5. /\ found \in ReqRecord /\ found.pc = "resolved" /\ found.resolved = s
      /\ found.ask = q.ask /\ found.server = q.server /\ found.gone = q.gone
      /\ found.answer = q.answer
  BY <1>1 DEF ReqRecord, Stages
<1>6. /\ more \in ReqRecord /\ more.pc = "scan" /\ more.read = q.read \cup {s}
      /\ more.names = both /\ more.missed = q.missed
      /\ more.ask = q.ask /\ more.server = q.server /\ more.gone = q.gone
      /\ more.answer = q.answer
  BY <1>1, <1>2 DEF ReqRecord
<1>7. /\ over \in ReqRecord /\ over.pc = "scan" /\ over.read = q.read \cup {s}
      /\ over.names = q.names /\ over.missed = own
      /\ over.ask = q.ask /\ over.server = q.server /\ over.gone = q.gone
      /\ over.answer = q.answer
  BY <1>1, <1>2 DEF ReqRecord
<1> HIDE DEF found, more, over
<1>8. CASE s = q.server /\ Becomes(t, found)
  BY <1>1, <1>5, <1>8, ScanStep
<1>9. CASE s # q.server /\ Becomes(t, more)
  BY <1>1, <1>2, <1>6, <1>9, ScanStep
<1>10. CASE Becomes(t, over)
  BY <1>1, <1>4, <1>7, <1>10, ScanStep
<1> QED
  BY <1>3, <1>8, <1>9, <1>10

\* The second list is read from its beginning; after it the request is over.
LEMMA NextScanStep ==
  ASSUME IInv, NEW t \in Req, req[t].pc = "scan", Becomes(t, NextScan(t)),
         UNCHANGED <<provider, lock, confirmed, hits>>
  PROVE  IInv'
<1> DEFINE q == req[t]
           again == [q EXCEPT !.n = 2, !.read = {}, !.names = {}, !.missed = FALSE]
<1>1. q \in ReqRecord
  BY DEF IInv, TypeInv
<1>2. CASE q.n = 1
  <2>1. 2 \in 0..Limit /\ {} \in SUBSET Server
    BY LimitFacts
  <2>2. /\ again \in ReqRecord /\ again.pc = "scan" /\ again.read = {} /\ again.names = {}
        /\ again.ask = q.ask /\ again.server = q.server /\ again.gone = q.gone
        /\ again.answer = q.answer
    BY <1>1, <2>1 DEF ReqRecord
  <2>3. Becomes(t, again)
    BY <1>2 DEF NextScan
  <2> HIDE DEF again
  <2> QED
    BY <2>2, <2>3, ScanStep
<1>3. CASE q.n # 1
  <2>1. Becomes(t, Finished(q, "failed"))
    BY <1>3 DEF NextScan
  <2>2. Over(q, Finished(q, "failed"))
    BY <1>1, FinishedRecord
  <2> QED
    BY <2>1, <2>2, EndsQuietly DEF Becomes, InstanceStages
<1> QED
  BY <1>2, <1>3

\* The name decides only when the server itself was not in the list, or was passed over.
LEMMA ScanEndsStep ==
  ASSUME IInv, NEW t \in Req, ScanEnds(t) \/ ScanFails(t)
  PROVE  IInv'
<1> DEFINE q == req[t]
           found(s) == [q EXCEPT !.pc = "resolved", !.resolved = s]
<1>1. /\ q.pc = "scan" /\ q \in ReqRecord /\ Staged(q) /\ Target(q, hits[t])
      /\ UNCHANGED <<provider, lock, confirmed, hits>>
  BY DEF ScanEnds, ScanFails, IInv, TypeInv
<1>2. CASE Becomes(t, NextScan(t))
  BY <1>1, <1>2, NextScanStep
<1>3. ASSUME NEW s \in q.names, s \in Server, live \subseteq q.read, Becomes(t, found(s))
      PROVE  IInv'
  <2>1. /\ found(s) \in ReqRecord /\ found(s).pc = "resolved" /\ found(s).resolved = s
        /\ found(s).ask = q.ask /\ found(s).server = q.server /\ found(s).gone = q.gone
        /\ found(s).missed = q.missed /\ found(s).answer = q.answer
    BY <1>1, <1>3 DEF ReqRecord, Stages
  <2>2. q.ask[1] = "ecs"
    BY <1>1, FamilyFacts DEF Staged, InstanceStages
  <2>3. Namesake(q, s)
    BY <1>1, <1>3, <2>2 DEF Target, Namesake
  <2> HIDE DEF found
  <2>4. Namesake(found(s), s)
    BY <2>1, <2>3 DEF Namesake
  <2> QED
    BY <1>1, <1>3, <2>1, <2>4, ScanStep
<1>4. q.names \subseteq Server
  BY <1>1 DEF ReqRecord
<1> QED
  BY <1>2, <1>3, <1>4 DEF ScanEnds, ScanFails

LEMMA CallResolvedStep ==
  ASSUME IInv, NEW t \in Req, CallResolved(t)
  PROVE  IInv'
<1> DEFINE q == req[t]
           s == req[t].resolved
<1>1. /\ q.pc = "resolved" /\ q \in ReqRecord /\ Staged(q) /\ Target(q, hits[t])
      /\ UNCHANGED <<provider, lock, confirmed>>
  BY DEF CallResolved, IInv, TypeInv
<1>2. /\ s \in Server
      /\ s = q.server \/ Namesake(q, s)
  BY <1>1 DEF Target
<1>3. PICK end, took :
        \/ Becomes(t, Finished(q, "failed")) /\ hits' = hits
        \/ /\ Effect(t, <<"server", s>>, end, took)
           /\ Becomes(t, After(q, end, Finished(q, "failed")))
  BY DEF CallResolved
<1>4. CASE Becomes(t, Finished(q, "failed")) /\ hits' = hits
  <2>1. Over(q, Finished(q, "failed"))
    BY <1>1, FinishedRecord
  <2> QED
    BY <1>1, <1>4, <2>1, EndsQuietly DEF Becomes, InstanceStages
<1>5. CASE /\ Effect(t, <<"server", s>>, end, took)
           /\ Becomes(t, After(q, end, Finished(q, "failed")))
  <2>1. PICK r : Over(q, r) /\ Becomes(t, r)
    BY <1>1, <1>5, AfterRecord, FinishedRecord
  <2>2. PICK h \in SUBSET Server :
          /\ hits' = [hits EXCEPT ![t] = h]
          /\ h = hits[t] \/ h = hits[t] \cup {s}
    <3> HIDE DEF s
    <3> QED
      BY <1>2, <1>5, EffectFacts
  <2>3. Target(q, h)
    BY <1>1, <1>2, <2>2 DEF Target
  <2> QED
    BY <1>1, <2>1, <2>2, <2>3, EndsPlain DEF Becomes, InstanceStages
<1> QED
  BY <1>3, <1>4, <1>5

\* The first id of a server is its own or that of an order.
LEMMA FirstId ==
  ASSUME IInv, NEW t \in Req, req[t].server \in Server, req[t].pc # "idle", NEW end, NEW took,
         Effect(t, Candidates(t)[1], end, took)
  PROVE  \E h \in SUBSET Server : hits' = [hits EXCEPT ![t] = h] /\ Target(req[t], h)
<1> DEFINE s == req[t].server
<1>1. PICK kind \in {"server", "order"} : Candidates(t)[1] = <<kind, s>>
  BY CandidateFacts
<1>2. PICK h \in SUBSET Server :
        /\ hits' = [hits EXCEPT ![t] = h]
        /\ h = hits[t] \/ h = hits[t] \cup {s}
  <2>1. Effect(t, <<kind, s>>, end, took)
    BY <1>1
  <2> HIDE DEF s
  <2>2. s \in Server
    BY DEF s
  <2> QED
    BY <2>1, <2>2, EffectFacts
<1>3. Target(req[t], hits[t])
  BY DEF IInv
<1>4. Target(req[t], h)
  BY <1>2, <1>3 DEF Target
<1> QED
  BY <1>2, <1>4

LEMMA NetworkStep ==
  ASSUME IInv, NEW t \in Req, NoInterface(t) \/ ChangeNetwork(t)
  PROVE  IInv'
<1> DEFINE q == req[t]
           more == [q EXCEPT !.n = q.n + 1]
<1>1. /\ q.pc = "network" /\ q \in ReqRecord /\ Staged(q)
  BY DEF NoInterface, ChangeNetwork, IInv, TypeInv
<1>2. /\ q.server \in Server /\ q.n \in 1..Alternatives
      /\ q.ask \in Asks /\ Family(q.ask) = "network"
  BY <1>1, FamilyFacts DEF Staged
<1>3. Over(q, Finished(q, "failed"))
  BY <1>1, FinishedRecord
<1>4. CASE NoInterface(t)
  BY <1>1, <1>3, <1>4, EndsQuietly DEF NoInterface, Becomes
<1>5. CASE ChangeNetwork(t)
  <2>1. PICK end, took :
          /\ Effect(t, Candidates(t)[1], end, took)
          /\ ip' = IF Acts(Candidates(t)[1], end, took)
                   THEN [ip EXCEPT ![Candidates(t)[1][2]] = t] ELSE ip
          /\ Becomes(t, After(q, end, IF q.n < Alternatives THEN more ELSE Finished(q, "failed")))
    BY <1>5 DEF ChangeNetwork
  <2>2. PICK h \in SUBSET Server : hits' = [hits EXCEPT ![t] = h] /\ Target(q, h)
    BY <1>1, <1>2, <2>1, FirstId
  <2>3. UNCHANGED <<live, name, known, rules, jobs, lock, confirmed>>
    BY <1>5 DEF ChangeNetwork
  <2>4. Candidates(t)[1][2] = q.server
    BY CandidateFacts
  <2>5. /\ ip' \in [Server -> Req \cup {None}]
        /\ \A s \in Server : ip'[s] = ip[s] \/ (ip'[s] = t /\ s = q.server)
    BY <1>2, <2>1, <2>4 DEF IInv, TypeInv
  <2> HIDE DEF more
  <2>6. ASSUME NEW r, Over(q, r), Becomes(t, r) PROVE IInv'
    <3>1. /\ r \in ReqRecord /\ r.ask = q.ask /\ r.server = q.server /\ r.pc # "idle"
          /\ Staged(r) /\ Target(r, h)
      BY <1>1, <2>2, <2>6, OverFacts DEF Over
    <3> QED
      BY <1>1, <1>2, <2>2, <2>3, <2>5, <2>6, <3>1, MoveStep DEF Becomes
  <2>7. CASE Becomes(t, more) /\ q.n < Alternatives
    <3>1. q.n + 1 \in 1..Alternatives /\ q.n + 1 \in 0..Limit
      BY <1>2, <2>7, LimitFacts
    <3>2. /\ more \in ReqRecord /\ more.n = q.n + 1 /\ more.pc = "network"
          /\ more.ask = q.ask /\ more.server = q.server /\ more.gone = q.gone
          /\ more.missed = q.missed /\ more.answer = q.answer
      BY <1>1, <3>1 DEF ReqRecord, more
    <3>3. Staged(more)
      BY <1>1, <3>1, <3>2 DEF Staged, InstanceStages, RuleStages, ConsoleStages, LockStages
    <3>4. Target(more, h)
      BY <1>1, <2>2, <3>2 DEF Target, Namesake
    <3> QED
      BY <1>1, <1>2, <2>2, <2>3, <2>5, <2>7, <3>2, <3>3, <3>4, MoveStep DEF Becomes
  <2> QED
    BY <1>1, <1>3, <2>1, <2>6, <2>7, AfterRecord
<1> QED
  BY <1>4, <1>5

LEMMA CallOnceStep ==
  ASSUME IInv, NEW t \in Req, CallOnce(t)
  PROVE  IInv'
<1> DEFINE q == req[t]
           id == IF q.ask[1] = "ecs" THEN Candidates(t)[1] ELSE <<"object", None>>
<1>1. /\ q.pc = "single" /\ q \in ReqRecord /\ Staged(q) /\ Target(q, hits[t])
      /\ hits[t] \in SUBSET Server
      /\ UNCHANGED <<provider, lock, confirmed>>
  BY DEF CallOnce, IInv, TypeInv
<1>2. PICK end, took : /\ Effect(t, id, end, took)
                       /\ Becomes(t, After(q, end, Finished(q, "failed")))
  BY DEF CallOnce
<1>3. PICK r : Over(q, r) /\ Becomes(t, r)
  BY <1>1, <1>2, AfterRecord, FinishedRecord
<1>4. \E h \in SUBSET Server : hits' = [hits EXCEPT ![t] = h] /\ Target(q, h)
  <2>1. CASE q.ask[1] = "ecs"
    <3>1. q.server \in Server
      BY <1>1, <2>1 DEF Staged
    <3> QED
      BY <1>1, <1>2, <2>1, <3>1, FirstId
  <2>2. CASE q.ask[1] # "ecs"
    <3>1. hits' = [hits EXCEPT ![t] = hits[t]]
      BY <1>2, <2>2, ExistsFacts DEF Effect, Acts, IInv, TypeInv
    <3> QED
      BY <1>1, <3>1
  <2> QED
    BY <2>1, <2>2
<1> QED
  BY <1>1, <1>3, <1>4, EndsPlain DEF Becomes

-----------------------------------------------------------------------------
(* Changes of a rule *)

LEMMA RuleAsk ==
  ASSUME NEW ask, Family(ask) = "rule"
  PROVE  ask[1] # "ecs" /\ OnRules(ask)
BY DEF Family, OnRules

\* The rules after a call that took effect.
LEMMA CreatedFacts ==
  ASSUME IInv, NEW t \in Req, NEW k \in {1, 2}
  PROVE  /\ Created(t, k) \in SUBSET Rule /\ rules \subseteq Created(t, k)
         /\ \E x \in Created(t, k) : x.body = req[t].body
         /\ ~(\E x \in rules : x.body = req[t].body) =>
              /\ Created(t, k) = rules \cup {[id |-> <<t, k>>, body |-> req[t].body]}
              /\ \E x \in Created(t, k) : x.body = req[t].body /\ x.id # OldId
<1> DEFINE new == [id |-> <<t, k>>, body |-> req[t].body]
<1>1. rules \subseteq Rule /\ req[t].body \in Body
  BY DEF IInv, TypeInv, ReqRecord
<1>2. new \in Rule /\ new.body = req[t].body /\ new.id # OldId /\ t # None
  BY <1>1, NoneAssumption DEF Rule, OldId
<1> HIDE DEF new
<1>3. Created(t, k) = IF \E x \in rules : x.body = req[t].body THEN rules ELSE rules \cup {new}
  BY DEF Created, new
<1>4. CASE \E x \in rules : x.body = req[t].body
  BY <1>1, <1>3, <1>4
<1>5. CASE ~(\E x \in rules : x.body = req[t].body)
  <2>1. Created(t, k) = rules \cup {new}
    BY <1>3, <1>5
  <2>2. new \in Created(t, k) /\ Created(t, k) \in SUBSET Rule
    BY <1>1, <1>2, <2>1
  <2> QED
    BY <1>2, <2>1, <2>2 DEF new
<1> QED
  BY <1>4, <1>5

LEMMA RevokedFacts ==
  ASSUME IInv, NEW i
  PROVE  /\ Revoked(i) \in SUBSET Rule
         /\ \A x \in Revoked(i) : x \in rules /\ x.id # i
         /\ \A x \in rules : x.id # i => x \in Revoked(i)
BY DEF Revoked, IInv, TypeInv

\* A step of a change of a rule that is no other's.
Alike(q, p) ==
  /\ p \in ReqRecord /\ p.ask = q.ask /\ p.server = q.server /\ p.body = q.body
  /\ p.gone = q.gone /\ p.missed = q.missed /\ p.shared = q.shared

LEMMA RuleStep ==
  ASSUME IInv, NEW t \in Req, req[t].pc \in RuleStages, NEW p, Alike(req[t], p),
         NEW after \in SUBSET Rule, rules' = after, Becomes(t, [p EXCEPT !.left = after]),
         UNCHANGED <<live, name, known, ip, jobs, lock, confirmed, hits>>,
         p.pc \in RuleStages \cup {"done"}, p.pc \in RuleStages => p.answer = "none",
         ~p.shared => Group(p, after), Only(t) /\ ~p.shared => Kept(p, after)
  PROVE  IInv'
<1> DEFINE r == [p EXCEPT !.left = after]
           q == req[t]
<1>1. /\ r \in ReqRecord /\ r.left = after
      /\ r.pc = p.pc /\ r.answer = p.answer /\ r.words = p.words /\ r.lost = p.lost
      /\ r.n = p.n /\ r.ask = q.ask /\ r.server = q.server /\ r.body = q.body
      /\ r.gone = q.gone /\ r.missed = q.missed /\ r.shared = q.shared
      /\ r.body = p.body /\ r.ask = p.ask /\ r.shared = p.shared
  BY DEF ReqRecord, Alike
<1>2. req' = [req EXCEPT ![t] = r]
  BY DEF Becomes
<1> HIDE DEF r
<1>3. /\ req' \in [Req -> ReqRecord] /\ req'[t] = r
      /\ \A u \in Req \ {t} : req'[u] = req[u]
  BY <1>1, <1>2 DEF IInv, TypeInv
<1>4. /\ q \in ReqRecord /\ Staged(q) /\ Target(q, hits[t])
      /\ q.ask \in Asks /\ Family(q.ask) = "rule" /\ q.ask[1] # "ecs"
      /\ Changes(q) /\ Changes(r)
  <2>1. /\ q \in ReqRecord /\ Staged(q) /\ Target(q, hits[t])
        /\ q.ask \in Asks /\ Family(q.ask) = "rule"
    BY DEF IInv, TypeInv, Staged, RuleStages
  <2>2. q.ask[1] # "ecs" /\ OnRules(q.ask) /\ q.ask # None
    BY <2>1, RuleAsk, NoneAssumption
  <2> QED
    BY <1>1, <2>1, <2>2 DEF Changes
<1>5. TypeInv'
  BY <1>3 DEF IInv, TypeInv
<1>6. \A u \in Req : Staged(req[u])'
  <2>1. Staged(r)
    BY <1>1, <1>4 DEF Staged, InstanceStages, RuleStages, ConsoleStages, LockStages
  <2> QED
    BY <1>3, <2>1 DEF IInv, Staged
<1>7. ASSUME NEW u \in Req PROVE Target(req[u], hits[u])'
  <2>1. Target(r, hits[t])
    BY <1>1, <1>4 DEF Target, Namesake, RuleStages
  <2>2. \A w \in Req \ {t} : Target(req[w], hits[w])
    BY DEF IInv
  <2> QED
    BY <1>3, <2>1, <2>2 DEF Target, Namesake
<1>8. AddressInv'
  <2>1. /\ q.pc \notin {"done"} \cup ConsoleStages
        /\ r.pc \notin LockStages /\ r.pc # "idle"
    BY <1>1 DEF RuleStages, ConsoleStages, LockStages
  <2> QED
    BY <1>1, <1>2, <2>1, AddressFrame DEF IInv, TypeInv
<1>9. RuleInv'
  <2>1. \A u \in Req : Changes(req'[u]) <=> Changes(req[u])
    BY <1>3, <1>4
  <2>2. \A u \in Req : Only(u)' <=> Only(u)
    BY <2>1 DEF Only, Changes
  <2>3. \A u \in Req \ {t} : req[u].pc \in RuleStages => req[u].shared
    BY DEF IInv, RuleInv
  <2>4. ~r.shared => Group(r, r.left)
    BY <1>1 DEF Group, Changes
  <2>5. ASSUME NEW u \in Req, ~req'[u].shared
        PROVE  /\ req'[u].pc \in RuleStages => req'[u].left = rules'
               /\ Group(req'[u], req'[u].left)
    BY <1>1, <1>3, <2>3, <2>4, <2>5 DEF IInv, RuleInv
  <2>6. \A u, w \in Req : u # w /\ req'[u].pc \in RuleStages /\ req'[w].pc \in RuleStages
                            => req'[u].shared /\ req'[w].shared
    BY <1>1, <1>3 DEF IInv, RuleInv
  <2>7. Only(t) => ~r.shared /\ Kept(r, r.left)
    <3>1. Only(t) => ~q.shared
      BY <1>4 DEF IInv, RuleInv
    <3> QED
      BY <1>1, <3>1 DEF Kept
  <2>8. ASSUME NEW u \in Req, Changes(req'[u]), Only(u)'
        PROVE  ~req'[u].shared /\ Kept(req'[u], req'[u].left)
    BY <1>3, <2>1, <2>2, <2>7, <2>8 DEF IInv, RuleInv
  <2>9. Changes(req'[t])
    BY <1>3, <1>4
  <2> QED
    BY <2>5, <2>6, <2>8, <2>9 DEF RuleInv, Changes, Kept, Group
<1> QED
  BY <1>5, <1>6, <1>7, <1>8, <1>9 DEF IInv

\* An answer that is lost ends the request.
LEMMA RuleTimesOut ==
  ASSUME IInv, NEW t \in Req, req[t].pc \in RuleStages,
         NEW after \in SUBSET Rule, rules' = after,
         Becomes(t, [After(req[t], "timeout", req[t]) EXCEPT !.left = after]),
         UNCHANGED <<live, name, known, ip, jobs, lock, confirmed, hits>>
  PROVE  IInv'
<1> DEFINE p == Finished([req[t] EXCEPT !.lost = TRUE], "none")
<1>1. After(req[t], "timeout", req[t]) = p
  BY DEF After
<1>2. Over(req[t], p) /\ p.answer = "none" /\ p.lost = TRUE
  BY LostRecord DEF IInv, TypeInv
<1> HIDE DEF p
<1>3. Alike(req[t], p) /\ p.pc = "done"
  BY <1>2 DEF Over, Alike
<1>4. Group(p, after) /\ Kept(p, after)
  BY <1>2, <1>3 DEF Group, Kept
<1> QED
  BY <1>1, <1>2, <1>3, <1>4, RuleStep DEF RuleStages

\* A step that is refused, or whose error hides that it took effect.
LEMMA RuleFails ==
  ASSUME IInv, NEW t \in Req, req[t].pc \in RuleStages,
         NEW p \in ReqRecord, Alike(req[t], p), p.pc \in RuleStages, NEW after \in SUBSET Rule,
         rules' = after, Becomes(t, [Finished(p, "failed") EXCEPT !.left = after]),
         UNCHANGED <<live, name, known, ip, jobs, lock, confirmed, hits>>,
         Only(t) /\ ~p.lost /\ ~(p.words /\ p.n = 2) =>
           \E x \in after : x = OldRule \/ x.body = p.body
  PROVE  IInv'
<1> DEFINE f == Finished(p, "failed")
<1>1. Over(p, f) /\ f.answer = "failed" /\ f.lost = p.lost
  BY FinishedRecord
<1> HIDE DEF f
<1>2. Alike(req[t], f) /\ f.pc = "done"
  BY <1>1 DEF Over, Alike
<1>3. Group(f, after)
  BY <1>1, <1>2 DEF Group
<1>4. Only(t) => Kept(f, after)
  BY <1>1, <1>2 DEF Kept, Over
<1>5. Becomes(t, [f EXCEPT !.left = after])
  BY DEF f
<1> QED
  BY <1>1, <1>2, <1>3, <1>4, <1>5, RuleStep DEF RuleStages

\* What is known of a change under way.
LEMMA RuleFacts ==
  ASSUME IInv, NEW t \in Req, req[t].pc \in RuleStages
  PROVE  /\ req[t] \in ReqRecord /\ Changes(req[t]) /\ req[t].answer = "none" /\ t # None
         /\ rules \in SUBSET Rule
         /\ ~req[t].shared => req[t].left = rules /\ Group(req[t], rules)
         /\ Only(t) => ~req[t].shared /\ Kept(req[t], rules)
<1>1. /\ req[t] \in ReqRecord /\ Staged(req[t]) /\ rules \in SUBSET Rule
      /\ req[t].ask \in Asks /\ Family(req[t].ask) = "rule" /\ req[t].answer = "none"
  BY DEF IInv, TypeInv, Staged, RuleStages
<1>2. Changes(req[t])
  BY <1>1, NoneAssumption DEF Changes, OnRules
<1> QED
  BY <1>1, <1>2, NoneAssumption DEF IInv, RuleInv

\* The record of a change whose answer says whether its effect is known.
LEMMA AnsweredRecord ==
  ASSUME NEW q \in ReqRecord, NEW lost \in BOOLEAN
  PROVE  LET s == [q EXCEPT !.lost = lost]
         IN /\ Alike(q, s) /\ s.pc = q.pc /\ s.lost = lost /\ s.words = q.words
            /\ s.n = q.n /\ s.answer = q.answer
BY DEF ReqRecord, Alike

\* It goes on in another stage.
LEMMA GoesRecord ==
  ASSUME NEW s \in ReqRecord, NEW pc \in Stages
  PROVE  LET p == [s EXCEPT !.pc = pc]
         IN /\ Alike(s, p) /\ p.pc = pc /\ p.lost = s.lost /\ p.words = s.words
            /\ p.n = s.n /\ p.answer = s.answer
BY DEF ReqRecord, Alike

LEMMA CreateRuleStep ==
  ASSUME IInv, NEW t \in Req, CreateRule(t)
  PROVE  IInv'
<1> DEFINE q == req[t]
<1>1. /\ q.pc = "create" /\ q.pc \in RuleStages
      /\ UNCHANGED <<live, name, known, ip, jobs, lock, confirmed, hits>>
  BY DEF CreateRule, RuleCall, RuleStages
<1>2. /\ q \in ReqRecord /\ q.answer = "none" /\ rules \in SUBSET Rule
      /\ Only(t) => Kept(q, rules)
  BY <1>1, RuleFacts, SMTT(30)
<1>3. PICK end \in CreateEnds(q.body), took \in BOOLEAN :
        /\ rules' = IF Took(end, took) THEN Created(t, 1) ELSE rules
        /\ LET s == [q EXCEPT !.lost = q.lost \/ end = "gateway"]
               r == IF end = "timeout" THEN After(q, end, q)
                    ELSE IF end = "ok" THEN [s EXCEPT !.pc = "revoke"]
                    ELSE IF Words(end) THEN [s EXCEPT !.pc = "revoke2", !.words = TRUE]
                    ELSE Finished(s, "failed")
           IN Becomes(t, [r EXCEPT !.left = rules'])
  BY DEF CreateRule, RuleCall
<1> DEFINE lost == q.lost \/ end = "gateway"
           s == [q EXCEPT !.lost = lost]
           goes == [s EXCEPT !.pc = "revoke"]
           swaps == [s EXCEPT !.pc = "revoke2", !.words = TRUE]
<1>4. /\ rules' \in SUBSET Rule /\ rules \subseteq rules'
      /\ end = "ok" => \E x \in rules' : x.body = q.body /\ x.id # OldId
  BY <1>2, <1>3, CreatedFacts DEF CreateEnds, Took
<1>5. lost \in BOOLEAN /\ "revoke" \in Stages /\ "revoke2" \in Stages
  BY <1>2 DEF ReqRecord, Stages
<1> HIDE DEF lost
<1>6. /\ Alike(q, goes) /\ goes.pc = "revoke" /\ goes.lost = lost /\ goes.answer = "none"
      /\ Alike(q, swaps) /\ swaps.pc = "revoke2" /\ swaps.lost = lost /\ swaps.words = TRUE
      /\ swaps.answer = "none"
      /\ Alike(q, s) /\ s.pc = "create" /\ s.lost = lost
  <2>1. Alike(q, s) /\ s.pc = "create" /\ s.lost = lost /\ s.answer = "none"
    BY <1>1, <1>2, <1>5, AnsweredRecord
  <2> HIDE DEF s
  <2>2. Alike(s, goes) /\ goes.pc = "revoke" /\ goes.lost = lost /\ goes.answer = "none"
    BY <1>5, <2>1, GoesRecord DEF Alike
  <2>3. /\ Alike(s, swaps) /\ swaps.pc = "revoke2" /\ swaps.lost = lost /\ swaps.words = TRUE
        /\ swaps.answer = "none"
    BY <1>5, <2>1 DEF ReqRecord, Alike
  <2> QED
    BY <2>1, <2>2, <2>3 DEF Alike
<1>7. Only(t) /\ ~lost => OldRule \in rules'
  BY <1>1, <1>2, <1>4 DEF Kept, lost
<1> HIDE DEF s, goes, swaps
<1>8. CASE end = "timeout"
  BY <1>1, <1>3, <1>4, <1>8, RuleTimesOut
<1>9. CASE end = "ok"
  <2>1. Becomes(t, [goes EXCEPT !.left = rules'])
    BY <1>3, <1>9 DEF goes, s, lost
  <2>2. Group(goes, rules') /\ (Only(t) => Kept(goes, rules'))
    BY <1>4, <1>6, <1>7, <1>9 DEF Group, Kept, Alike
  <2> QED
    BY <1>1, <1>4, <1>6, <2>1, <2>2, RuleStep DEF RuleStages
<1>10. CASE end \notin {"ok", "timeout"} /\ Words(end)
  <2>1. Becomes(t, [swaps EXCEPT !.left = rules'])
    BY <1>3, <1>10 DEF swaps, s, lost
  <2>2. Group(swaps, rules') /\ (Only(t) => Kept(swaps, rules'))
    BY <1>6, <1>7 DEF Group, Kept
  <2> QED
    BY <1>1, <1>4, <1>6, <2>1, <2>2, RuleStep DEF RuleStages
<1>11. CASE end \notin {"ok", "timeout"} /\ ~Words(end)
  <2>1. Becomes(t, [Finished(s, "failed") EXCEPT !.left = rules'])
    BY <1>3, <1>11 DEF s, lost
  <2>2. Only(t) /\ ~s.lost /\ ~(s.words /\ s.n = 2) => \E x \in rules' : x = OldRule \/ x.body = s.body
    BY <1>6, <1>7
  <2>3. s \in ReqRecord /\ s.pc \in RuleStages
    BY <1>6 DEF Alike, RuleStages
  <2> QED
    BY <1>1, <1>4, <1>6, <2>1, <2>2, <2>3, RuleFails
<1> QED
  BY <1>8, <1>9, <1>10, <1>11

\* The old rule is revoked, after the new one was created or before.
LEMMA RevokeOldStep ==
  ASSUME IInv, NEW t \in Req, RevokeOld(t)
  PROVE  IInv'
<1> DEFINE q == req[t]
<1>1. /\ q.pc = "revoke" /\ q.pc \in RuleStages
      /\ UNCHANGED <<live, name, known, ip, jobs, lock, confirmed, hits>>
  BY DEF RevokeOld, RuleCall, RuleStages
<1>2. /\ q \in ReqRecord /\ q.answer = "none" /\ rules \in SUBSET Rule
      /\ ~q.shared => Group(q, rules)
      /\ Only(t) => Kept(q, rules)
  BY <1>1, RuleFacts
<1>3. PICK end \in RevokeEnds(OldId), took \in BOOLEAN :
        /\ rules' = IF Took(end, took) THEN Revoked(OldId) ELSE rules
        /\ LET s == [q EXCEPT !.lost = q.lost \/ end = "gateway"]
               r == IF end = "timeout" THEN After(q, end, q)
                    ELSE IF end = "ok" THEN Finished(s, "ok")
                    ELSE [s EXCEPT !.pc = "rollback", !.words = Words(end)]
           IN Becomes(t, [r EXCEPT !.left = rules'])
  BY DEF RevokeOld, RuleCall
<1> DEFINE lost == q.lost \/ end = "gateway"
           words == Words(end)
           s == [q EXCEPT !.lost = lost]
           back == [s EXCEPT !.pc = "rollback", !.words = words]
<1>4. /\ rules' \in SUBSET Rule
      /\ end = "ok" => rules' = Revoked(OldId)
      /\ end \notin {"ok", "gateway", "timeout"} => rules' = rules
  BY <1>2, <1>3, RevokedFacts DEF Took
<1>5. lost \in BOOLEAN /\ words \in BOOLEAN /\ "rollback" \in Stages
  BY <1>2 DEF ReqRecord, Stages, Words
<1> HIDE DEF lost, words
<1>6. Alike(q, s) /\ s.pc = "revoke" /\ s.lost = lost /\ s.answer = "none" /\ s.n = q.n
  BY <1>1, <1>2, <1>5, AnsweredRecord
<1>7. CASE end = "timeout"
  BY <1>1, <1>3, <1>4, <1>7, RuleTimesOut
<1>8. CASE end = "ok"
  <2> DEFINE f == Finished(s, "ok")
  <2>1. Becomes(t, [f EXCEPT !.left = rules'])
    BY <1>3, <1>8 DEF lost
  <2> HIDE DEF s
  <2>2. Over(s, f) /\ f.answer = "ok" /\ f.lost = lost
    BY <1>6, FinishedRecord DEF Alike
  <2> HIDE DEF f
  <2>3. Alike(q, f) /\ f.pc = "done"
    BY <1>6, <2>2 DEF Alike, Over
  <2>4. ~q.shared => \E x \in rules' : x.body = q.body
    <3>1. ~q.shared => \E x \in rules : x.body = q.body /\ x.id # OldId
      BY <1>1, <1>2 DEF Group
    <3> QED
      BY <1>4, <1>8, <3>1, RevokedFacts
  <2>5. OldRule \notin rules'
    BY <1>4, <1>8, RevokedFacts DEF OldRule
  <2>6. ~f.shared => Group(f, rules') /\ Kept(f, rules')
    BY <2>3, <2>4, <2>5 DEF Group, Kept, Alike
  <2> QED
    BY <1>1, <1>4, <2>1, <2>3, <2>6, RuleStep DEF RuleStages
<1>9. CASE end \notin {"ok", "timeout"}
  <2>1. Becomes(t, [back EXCEPT !.left = rules'])
    BY <1>3, <1>9 DEF lost, words
  <2>2. /\ Alike(q, back) /\ back.pc = "rollback" /\ back.lost = lost
        /\ back.answer = "none"
    BY <1>2, <1>5 DEF ReqRecord, Alike
  <2> HIDE DEF back
  <2>3. Only(t) /\ ~lost => OldRule \in rules'
    BY <1>1, <1>2, <1>4, <1>9 DEF Kept, lost
  <2>4. Group(back, rules') /\ (Only(t) => Kept(back, rules'))
    BY <2>2, <2>3 DEF Group, Kept
  <2> QED
    BY <1>1, <1>4, <2>1, <2>2, <2>4, RuleStep DEF RuleStages
<1> QED
  BY <1>7, <1>8, <1>9

LEMMA RevokeFirstStep ==
  ASSUME IInv, NEW t \in Req, RevokeFirst(t)
  PROVE  IInv'
<1> DEFINE q == req[t]
<1>1. /\ q.pc = "revoke2" /\ q.pc \in RuleStages
      /\ UNCHANGED <<live, name, known, ip, jobs, lock, confirmed, hits>>
  BY DEF RevokeFirst, RuleCall, RuleStages
<1>2. /\ q \in ReqRecord /\ q.answer = "none" /\ rules \in SUBSET Rule
      /\ Only(t) => Kept(q, rules)
  BY <1>1, RuleFacts
<1>3. PICK end \in RevokeEnds(OldId), took \in BOOLEAN :
        /\ rules' = IF Took(end, took) THEN Revoked(OldId) ELSE rules
        /\ LET s == [q EXCEPT !.lost = q.lost \/ end = "gateway"]
               r == IF end = "timeout" THEN After(q, end, q)
                    ELSE IF end = "ok" THEN [s EXCEPT !.pc = "recreate"]
                    ELSE Finished(s, "failed")
           IN Becomes(t, [r EXCEPT !.left = rules'])
  BY DEF RevokeFirst, RuleCall
<1> DEFINE lost == q.lost \/ end = "gateway"
           s == [q EXCEPT !.lost = lost]
           goes == [s EXCEPT !.pc = "recreate"]
<1>4. /\ rules' \in SUBSET Rule
      /\ end = "ok" => rules' = Revoked(OldId)
      /\ end \notin {"ok", "gateway", "timeout"} => rules' = rules
  BY <1>2, <1>3, RevokedFacts DEF Took
<1>5. lost \in BOOLEAN /\ "recreate" \in Stages
  BY <1>2 DEF ReqRecord, Stages
<1> HIDE DEF lost
<1>6. Alike(q, s) /\ s.pc = "revoke2" /\ s.lost = lost /\ s.words = q.words /\ s.answer = "none"
  BY <1>1, <1>2, <1>5, AnsweredRecord
<1> HIDE DEF s, goes
<1>7. CASE end = "timeout"
  BY <1>1, <1>3, <1>4, <1>7, RuleTimesOut
<1>8. CASE end = "ok"
  <2>1. Becomes(t, [goes EXCEPT !.left = rules'])
    BY <1>3, <1>8 DEF lost, s, goes
  <2>2. /\ Alike(s, goes) /\ goes.pc = "recreate" /\ goes.lost = lost
        /\ goes.words = q.words /\ goes.answer = "none"
    BY <1>5, <1>6, GoesRecord DEF Alike, goes
  <2>3. Alike(q, goes)
    BY <1>6, <2>2 DEF Alike
  <2>4. \A x \in rules' : x.id # OldId
    BY <1>4, <1>8, RevokedFacts
  <2>5. Group(goes, rules') /\ (Only(t) => Kept(goes, rules'))
    BY <1>1, <1>2, <2>2, <2>4 DEF Group, Kept
  <2> QED
    BY <1>1, <1>4, <2>1, <2>2, <2>3, <2>5, RuleStep DEF RuleStages
<1>9. CASE end \notin {"ok", "timeout"}
  <2>1. Becomes(t, [Finished(s, "failed") EXCEPT !.left = rules'])
    BY <1>3, <1>9 DEF s, lost
  <2>2. Only(t) /\ ~s.lost => OldRule \in rules'
    BY <1>1, <1>2, <1>4, <1>6, <1>9 DEF Kept, lost
  <2>3. s \in ReqRecord /\ s.pc \in RuleStages
    BY <1>6 DEF Alike, RuleStages
  <2> QED
    BY <1>1, <1>4, <1>6, <2>1, <2>2, <2>3, RuleFails
<1> QED
  BY <1>7, <1>8, <1>9

\* The new rule is revoked again; the error then counts as that of a duplicate, or not.
LEMMA RollBackStep ==
  ASSUME IInv, NEW t \in Req, RollBack(t)
  PROVE  IInv'
<1> DEFINE q == req[t]
<1>1. /\ q.pc = "rollback" /\ q.pc \in RuleStages
      /\ UNCHANGED <<live, name, known, ip, jobs, lock, confirmed, hits>>
  BY DEF RollBack, RuleCall, RuleStages
<1>2. /\ q \in ReqRecord /\ q.answer = "none" /\ rules \in SUBSET Rule /\ t # None
      /\ Only(t) => Kept(q, rules)
  BY <1>1, RuleFacts
<1>3. PICK end \in RevokeEnds(<<t, 1>>) \cup {"refused"}, took \in BOOLEAN,
           effect \in {Revoked(<<t, 1>>), rules} :
        /\ rules' = IF Took(end, took) THEN effect ELSE rules
        /\ LET s == [q EXCEPT !.lost = q.lost \/ end = "gateway"]
               r == IF end = "timeout" THEN After(q, end, q)
                    ELSE AfterRollback(s, Words(end))
           IN Becomes(t, [r EXCEPT !.left = rules'])
  BY DEF RollBack, RuleCall
<1> DEFINE lost == q.lost \/ end = "gateway"
           s == [q EXCEPT !.lost = lost]
           swaps == [s EXCEPT !.pc = "revoke2", !.words = TRUE]
<1>4. rules' \in SUBSET Rule /\ (OldRule \in rules => OldRule \in rules')
  <2>1. OldRule.id # <<t, 1>>
    BY <1>2 DEF OldRule, OldId
  <2> QED
    BY <1>2, <1>3, <2>1, RevokedFacts
<1>5. lost \in BOOLEAN /\ "revoke2" \in Stages
  BY <1>2 DEF ReqRecord, Stages
<1> HIDE DEF lost
<1>6. Alike(q, s) /\ s.pc = "rollback" /\ s.lost = lost /\ s.answer = "none"
  BY <1>1, <1>2, <1>5, AnsweredRecord
<1> HIDE DEF s, swaps
<1>7. Only(t) /\ ~lost => OldRule \in rules'
  BY <1>1, <1>2, <1>4 DEF Kept, lost
<1>8. CASE end = "timeout"
  BY <1>1, <1>3, <1>4, <1>8, RuleTimesOut
<1>9. CASE end # "timeout" /\ Becomes(t, [swaps EXCEPT !.left = rules'])
  <2>1. /\ Alike(q, swaps) /\ swaps.pc = "revoke2" /\ swaps.lost = lost
        /\ swaps.words = TRUE /\ swaps.answer = "none"
    BY <1>5, <1>6 DEF ReqRecord, Alike, swaps
  <2>2. Group(swaps, rules') /\ (Only(t) => Kept(swaps, rules'))
    BY <1>7, <2>1 DEF Group, Kept
  <2> QED
    BY <1>1, <1>4, <1>9, <2>1, <2>2, RuleStep DEF RuleStages
<1>10. CASE end # "timeout" /\ Becomes(t, [Finished(s, "failed") EXCEPT !.left = rules'])
  <2>1. s \in ReqRecord /\ s.pc \in RuleStages
    BY <1>6 DEF Alike, RuleStages
  <2> QED
    BY <1>1, <1>4, <1>6, <1>7, <1>10, <2>1, RuleFails
<1> QED
  BY <1>3, <1>8, <1>9, <1>10 DEF AfterRollback, s, swaps, lost

LEMMA CreateAgainStep ==
  ASSUME IInv, NEW t \in Req, CreateAgain(t)
  PROVE  IInv'
<1> DEFINE q == req[t]
<1>1. /\ q.pc = "recreate" /\ q.pc \in RuleStages
      /\ UNCHANGED <<live, name, known, ip, jobs, lock, confirmed, hits>>
  BY DEF CreateAgain, RuleCall, RuleStages
<1>2. /\ q \in ReqRecord /\ q.answer = "none" /\ rules \in SUBSET Rule
      /\ ~q.shared => Group(q, rules)
      /\ Only(t) => Kept(q, rules)
  BY <1>1, RuleFacts
<1>3. PICK end \in CreateEnds(q.body), took \in BOOLEAN :
        /\ rules' = IF Took(end, took) THEN Created(t, 2) ELSE rules
        /\ LET s == [q EXCEPT !.lost = q.lost \/ end = "gateway"]
               r == IF end = "timeout" THEN After(q, end, q)
                    ELSE Finished([s EXCEPT !.n = 2], IF end = "ok" THEN "ok" ELSE "failed")
           IN Becomes(t, [r EXCEPT !.left = rules'])
  BY DEF CreateAgain, RuleCall
<1> DEFINE lost == q.lost \/ end = "gateway"
           s == [q EXCEPT !.lost = lost]
           twice == [s EXCEPT !.n = 2]
           answer == IF end = "ok" THEN "ok" ELSE "failed"
           f == Finished(twice, answer)
<1>4. /\ rules' \in SUBSET Rule
      /\ end = "ok" => /\ rules' = rules \cup {[id |-> <<t, 2>>, body |-> q.body]}
                       /\ \E x \in rules' : x.body = q.body
  BY <1>2, <1>3, CreatedFacts DEF CreateEnds, Took
<1>5. lost \in BOOLEAN /\ 2 \in 0..Limit
  BY <1>2, LimitFacts DEF ReqRecord
<1> HIDE DEF lost
<1>6. Alike(q, s) /\ s.words = q.words
  BY <1>2, <1>5, AnsweredRecord
<1> HIDE DEF s
<1>7. Alike(q, twice) /\ twice.n = 2 /\ twice.words = q.words
  BY <1>5, <1>6 DEF ReqRecord, Alike
<1> HIDE DEF twice
<1>8. Over(twice, f) /\ f.answer = answer
  BY <1>7, FinishedRecord DEF Alike
<1> HIDE DEF f
<1>9. Alike(q, f) /\ f.pc = "done" /\ f.n = 2 /\ f.words = q.words
  BY <1>7, <1>8 DEF Over, Alike
<1>10. CASE end = "timeout"
  BY <1>1, <1>3, <1>4, <1>10, RuleTimesOut
<1>11. CASE end # "timeout"
  <2>1. Becomes(t, [f EXCEPT !.left = rules'])
    BY <1>3, <1>11 DEF f, twice, s, lost
  <2>2. ~q.shared /\ end = "ok" => OldRule \notin rules'
    <3>1. ~q.shared => OldRule \notin rules
      BY <1>1, <1>2 DEF Group, OldRule
    <3>2. <<t, 2>> # OldId
      BY DEF OldId
    <3> QED
      BY <1>4, <3>1, <3>2 DEF OldRule
  <2>3. ~f.shared => Group(f, rules')
    BY <1>4, <1>8, <1>9, <2>2 DEF Group, Alike
  <2>4. Only(t) => Kept(f, rules')
    BY <1>1, <1>2, <1>9 DEF Kept
  <2> QED
    BY <1>1, <1>4, <1>9, <2>1, <2>3, <2>4, RuleStep DEF RuleStages
<1> QED
  BY <1>10, <1>11

-----------------------------------------------------------------------------
(* A request is received *)

LEMMA InitIInv == Init => IInv
<1> SUFFICES ASSUME Init PROVE IInv
  OBVIOUS
<1>1. 0 \in 0..Limit
  BY LimitFacts
<1>2. NoReq \in ReqRecord
  BY <1>1 DEF NoReq, ReqRecord, Stages, Body
<1>3. \A t \in Req : req[t] = NoReq /\ hits[t] = {}
  BY DEF Init
<1>4. OldRule \in Rule /\ OtherRule \in Rule
  BY DEF OldRule, OtherRule, OldId, Rule, Body
<1>5. TypeInv
  BY <1>2, <1>4 DEF Init, TypeInv
<1>6. /\ NoReq.pc = "idle" /\ NoReq.ask = None /\ NoReq.server = None /\ ~NoReq.lost
      /\ NoReq.answer = "none"
  BY DEF NoReq
<1>7. \A t \in Req : Staged(req[t]) /\ Target(req[t], hits[t])
  BY <1>3, <1>6 DEF Staged, Target, InstanceStages, RuleStages, ConsoleStages, LockStages
<1>8. OldRule \in rules
  BY DEF Init
<1>9. RuleInv
  BY <1>3, <1>6, <1>8 DEF RuleInv, Group, Changes, RuleStages
<1>10. AddressInv
  BY <1>3, <1>6, NoneAssumption DEF Init, AddressInv, Address, LockStages
<1> QED
  BY <1>5, <1>7, <1>9, <1>10 DEF IInv

\* The first stage is one of the family.
LEMMA FirstStageFacts ==
  ASSUME NEW ask, NEW s
  PROVE  /\ FirstStage(ask, s) \in {"done", "lock", "create", "instance", "network", "single"}
         /\ FirstStage(ask, s) = "lock" => Family(ask) = "console"
         /\ FirstStage(ask, s) = "create" => Family(ask) = "rule"
         /\ FirstStage(ask, s) \in {"instance", "network", "single"} =>
              Family(ask) = FirstStage(ask, s)
<1>1. Configured(ask) \in BOOLEAN
  BY DEF Configured
<1>2. CASE ~Configured(ask)
  BY <1>2, FamilyFacts DEF FirstStage
<1>3. CASE Configured(ask)
  BY <1>3, FamilyFacts DEF FirstStage
<1> QED
  BY <1>1, <1>2, <1>3

\* What a request knows at first.
Fresh(r, ask, s) ==
  /\ r \in ReqRecord
  /\ r.ask = ask /\ r.server = s /\ r.n = 1
  /\ r.read = {} /\ r.names = {} /\ ~r.words /\ ~r.lost
  /\ r.left = IF OnRules(ask) THEN rules ELSE {}
  /\ r.gone <=> ask[1] = "ecs" /\ s \notin live
  /\ r.shared <=> \E u \in Req : Active(u) /\ OnRules(req[u].ask)
  /\ r.pc \in {"done", "lock", "create", "instance", "network", "single"}
  /\ r.answer = IF r.pc = "done" THEN "failed" ELSE "none"
  /\ r.pc = "lock" => Family(ask) = "console"
  /\ r.pc = "create" => Family(ask) = "rule"
  /\ r.pc \in {"instance", "network", "single"} => Family(ask) = r.pc

LEMMA ReceiveRecord ==
  ASSUME IInv, NEW t \in Req, NEW ask \in Asks, NEW s \in Server \cup {None},
         NEW b \in Body, NEW given, Receive(t, ask, s, b, given)
  PROVE  \E r : /\ Fresh(r, ask, s)
                /\ req' = [u \in Req |->
                     IF u = t THEN r
                     ELSE IF OnRules(ask) /\ Active(u) THEN [req[u] EXCEPT !.shared = TRUE]
                     ELSE req[u]]
<1> DEFINE stage == IF Configured(ask) /\ ~(Needs[ask[1]][ask[2]] \subseteq given)
                    THEN "done" ELSE FirstStage(ask, s)
           left == IF OnRules(ask) THEN rules ELSE {}
           gone == ask[1] = "ecs" /\ s \notin live
           shared == \E u \in Req : Active(u) /\ OnRules(req[u].ask)
           start == [NoReq EXCEPT !.ask = ask, !.server = s, !.body = b, !.n = 1, !.pc = stage,
                                  !.left = left, !.gone = gone, !.shared = shared]
           r == IF stage = "done" THEN Finished(start, "failed") ELSE start
<1>1. req' = [u \in Req |->
                IF u = t THEN r
                ELSE IF OnRules(ask) /\ Active(u) THEN [req[u] EXCEPT !.shared = TRUE]
                ELSE req[u]]
  BY DEF Receive
<1>2. /\ stage \in {"done", "lock", "create", "instance", "network", "single"}
      /\ stage = "lock" => Family(ask) = "console"
      /\ stage = "create" => Family(ask) = "rule"
      /\ stage \in {"instance", "network", "single"} => Family(ask) = stage
  BY FirstStageFacts
<1>3. left \in SUBSET Rule /\ gone \in BOOLEAN /\ shared \in BOOLEAN
  BY DEF IInv, TypeInv
<1>4. stage \in Stages
  BY <1>2 DEF Stages
<1>5. PICK g \in BOOLEAN, h \in BOOLEAN : g = gone /\ h = shared
  BY <1>3
<1>6. 1 \in 0..Limit
  BY LimitFacts
<1> HIDE DEF stage, left, gone, shared
<1>7. start = [NoReq EXCEPT !.ask = ask, !.server = s, !.body = b, !.n = 1, !.pc = stage,
                            !.left = left, !.gone = g, !.shared = h]
  BY <1>5
<1> HIDE DEF start
<1>8. /\ start \in ReqRecord /\ start.ask = ask /\ start.server = s /\ start.n = 1
      /\ start.pc = stage /\ start.read = {} /\ start.names = {}
      /\ ~start.words /\ ~start.lost
      /\ start.left = left /\ start.gone = g /\ start.shared = h
      /\ start.answer = "none"
  BY <1>3, <1>4, <1>7, <1>6, ZenonT(40) DEF NoReq, ReqRecord
<1>9. CASE stage = "done"
  <2>1. /\ Over(start, r) /\ r.answer = "failed" /\ r.lost = start.lost
        /\ r.read = {} /\ r.names = {}
    BY <1>8, <1>9, FinishedRecord DEF Finished, ReqRecord
  <2> HIDE DEF r
  <2>2. Fresh(r, ask, s)
    BY <1>5, <1>8, <2>1 DEF Fresh, Over, left, gone, shared
  <2> QED
    BY <1>1, <2>2
<1>10. CASE stage # "done"
  <2>1. r = start
    BY <1>10
  <2>2. Fresh(r, ask, s)
    BY <1>2, <1>5, <1>8, <1>10, <2>1 DEF Fresh, left, gone, shared
  <2> HIDE DEF r
  <2> QED
    BY <1>1, <2>2
<1> QED
  BY <1>9, <1>10

LEMMA ReceiveStep ==
  ASSUME IInv, NEW t \in Req, NEW ask \in Asks,
         NEW s \in (IF ask[1] = "ecs" THEN Server ELSE {None}), NEW b \in Body, NEW given,
         Receive(t, ask, s, b, given)
  PROVE  IInv'
<1>1. PICK r : /\ Fresh(r, ask, s)
               /\ req' = [u \in Req |->
                    IF u = t THEN r
                    ELSE IF OnRules(ask) /\ Active(u) THEN [req[u] EXCEPT !.shared = TRUE]
                    ELSE req[u]]
  BY ReceiveRecord
<1>2. /\ req[t].pc = "idle" /\ UNCHANGED <<live, name, known, rules, ip, jobs>>
      /\ UNCHANGED <<lock, confirmed, hits>>
  BY DEF Receive, provider
<1>3. /\ req[t] \in ReqRecord /\ req[t].ask = None /\ hits[t] = {}
  BY <1>2 DEF IInv, TypeInv, Staged, Target
\* The other requests change in one flag only.
<1>4. ASSUME NEW u \in Req \ {t}
      PROVE  /\ req'[u] \in ReqRecord
             /\ req'[u].pc = req[u].pc /\ req'[u].ask = req[u].ask /\ req'[u].n = req[u].n
             /\ req'[u].server = req[u].server /\ req'[u].body = req[u].body
             /\ req'[u].resolved = req[u].resolved /\ req'[u].read = req[u].read
             /\ req'[u].names = req[u].names /\ req'[u].shown = req[u].shown
             /\ req'[u].words = req[u].words /\ req'[u].answer = req[u].answer
             /\ req'[u].gone = req[u].gone /\ req'[u].missed = req[u].missed
             /\ req'[u].lost = req[u].lost /\ req'[u].left = req[u].left
             /\ OnRules(ask) /\ Active(u) => req'[u].shared
             /\ req[u].shared => req'[u].shared
             /\ ~OnRules(ask) => req'[u].shared = req[u].shared
  <2>1. req[u] \in ReqRecord
    BY DEF IInv, TypeInv
  <2>2. CASE OnRules(ask) /\ Active(u)
    <3>1. req'[u] = [req[u] EXCEPT !.shared = TRUE]
      BY <1>1, <2>2
    <3> QED
      BY <2>1, <2>2, <3>1 DEF ReqRecord
  <2>3. CASE ~(OnRules(ask) /\ Active(u))
    <3>1. req'[u] = req[u]
      BY <1>1, <2>3
    <3> QED
      BY <2>1, <2>3, <3>1
  <2> QED
    BY <2>2, <2>3
<1>5. req'[t] = r /\ r \in ReqRecord
  BY <1>1 DEF Fresh
<1>6. TypeInv'
  <2>1. req' \in [Req -> ReqRecord]
    BY <1>1, <1>4, <1>5
  <2> QED
    BY <1>2, <2>1 DEF IInv, TypeInv
<1>7. ASSUME NEW u \in Req PROVE Staged(req[u])'
  <2>1. Staged(r)
    BY <1>1, LimitFacts DEF Fresh, Staged, InstanceStages, RuleStages, ConsoleStages, LockStages
  <2>2. u # t => Staged(req'[u])
    BY <1>4 DEF IInv, Staged
  <2> QED
    BY <1>5, <2>1, <2>2 DEF Staged
<1>8. ASSUME NEW u \in Req PROVE Target(req[u], hits[u])'
  <2>1. r.n = 1 /\ 1 \in 1..2 /\ r.n # 2
    BY <1>1 DEF Fresh
  <2>2. r.pc \notin {"idle", "scan", "resolved"} /\ r.read = {} /\ r.names = {}
    BY <1>1 DEF Fresh
  <2>3. r.ask[1] = "ecs" /\ r.server \notin live => r.gone
    BY <1>1 DEF Fresh
  <2>4. Target(r, {})
    BY <2>1, <2>2, <2>3 DEF Target
  <2>5. u # t => Target(req'[u], hits[u])
    BY <1>4 DEF IInv, Target, Namesake
  <2> QED
    BY <1>2, <1>3, <1>5, <2>4, <2>5 DEF Target, Namesake
<1>9. RuleInv'
  <2>1. /\ Changes(req'[t]) <=> OnRules(ask)
        /\ ~Changes(req[t])
        /\ \A u \in Req \ {t} : Changes(req'[u]) <=> Changes(req[u])
    BY <1>1, <1>3, <1>4, <1>5, NoneAssumption DEF Fresh, Changes
  <2>2. \A u \in Req : req[u].pc \in RuleStages => Active(u) /\ Changes(req[u])
    BY RuleFacts DEF Active, RuleStages
  <2>3. r.pc \in RuleStages => OnRules(ask)
    BY <1>1 DEF Fresh, RuleStages, OnRules
  <2>4. \A u \in Req \ {t} : ~req'[u].shared => ~req[u].shared
    BY <1>4
  <2>5. Group(r, r.left)
    BY <1>1 DEF Fresh, Group
  <2>6. ASSUME NEW u \in Req, ~req'[u].shared
        PROVE  /\ req'[u].pc \in RuleStages => req'[u].left = rules'
               /\ Group(req'[u], req'[u].left)
    <3>1. CASE u = t
      BY <1>1, <1>2, <1>5, <2>3, <2>5, <3>1 DEF Fresh
    <3>2. CASE u # t
      BY <1>2, <1>4, <2>4, <2>6, <3>2 DEF IInv, RuleInv, Group, Changes
    <3> QED
      BY <3>1, <3>2
  <2>7. ASSUME NEW u \in Req, NEW w \in Req, u # w,
               req'[u].pc \in RuleStages, req'[w].pc \in RuleStages
        PROVE  req'[u].shared /\ req'[w].shared
    <3>1. ASSUME NEW v \in Req \ {t}, req[v].pc \in RuleStages, r.pc \in RuleStages
          PROVE  req'[v].shared /\ r.shared
      BY <1>1, <1>4, <2>2, <2>3, <3>1 DEF Fresh, Changes
    <3>2. CASE u = t
      BY <1>4, <1>5, <2>7, <3>1, <3>2
    <3>3. CASE w = t
      BY <1>4, <1>5, <2>7, <3>1, <3>3
    <3>4. CASE u # t /\ w # t
      <4>1. req[u].shared /\ req[w].shared
        BY <1>4, <2>7, <3>4 DEF IInv, RuleInv
      <4> QED
        BY <1>4, <3>4, <4>1
    <3> QED
      BY <3>2, <3>3, <3>4
  <2>8. ASSUME NEW u \in Req, Changes(req'[u]), Only(u)'
        PROVE  ~req'[u].shared /\ Kept(req'[u], req'[u].left)
    <3>1. \A v \in Req \ {u} : ~Changes(req'[v])
      BY <2>8 DEF Only, Changes
    <3>2. CASE u = t
      <4>1. \A v \in Req : ~Changes(req[v])
        BY <2>1, <3>1, <3>2
      <4>2. OldRule \in rules
        BY <4>1 DEF IInv, RuleInv
      <4>3. \A v \in Req : Active(v) => req[v].ask # None
        BY NoneAssumption DEF IInv, Staged, Active
      <4>4. ~r.shared
        BY <1>1, <4>1, <4>3 DEF Fresh, Changes
      <4>5. OldRule \in r.left
        BY <1>1, <1>5, <2>1, <2>8, <3>2, <4>2 DEF Fresh
      <4>6. Kept(r, r.left)
        BY <1>1, <4>5 DEF Fresh, Kept
      <4> QED
        BY <1>5, <3>2, <4>4, <4>6
    <3>3. CASE u # t
      <4>1. ~OnRules(ask) /\ Changes(req[u]) /\ Only(u)
        BY <2>1, <2>8, <3>1, <3>3 DEF Only
      <4>2. ~req[u].shared /\ Kept(req[u], req[u].left)
        BY <4>1 DEF IInv, RuleInv
      <4> QED
        BY <1>4, <3>3, <4>1, <4>2 DEF Kept
    <3> QED
      BY <3>2, <3>3
  <2>9. (\A u \in Req : ~Changes(req'[u])) => OldRule \in rules'
    BY <1>2, <2>1 DEF IInv, RuleInv
  <2> QED
    BY <2>6, <2>7, <2>8, <2>9 DEF RuleInv, Changes, Kept, Group
<1>10. AddressInv'
  <2>1. ASSUME NEW u \in Req
        PROVE  /\ Mover(u) => Mover(u)' /\ req'[u].server = req[u].server
               /\ Changer(u) => /\ Changer(u)' /\ req'[u].server = req[u].server
                                /\ Unsettled(u) => Unsettled(u)'
                                /\ req[u].shown => req'[u].shown
               /\ req'[u].pc \in LockStages <=> req[u].pc \in LockStages
    <3>1. CASE u = t
      BY <1>1, <1>2, <1>5, <3>1 DEF Fresh, Mover, Changer, LockStages
    <3>2. CASE u # t
      BY <1>4, <3>2 DEF Mover, Changer, Unsettled, Active
    <3> QED
      BY <3>1, <3>2
  <2>2. \A u \in Req : lock' = u <=> req'[u].pc \in LockStages
    BY <1>2, <2>1 DEF IInv, AddressInv
  <2>3. \A u \in jobs' : \A q \in Server : ip'[q] # u
    BY <1>2 DEF IInv, AddressInv
  <2> QED
    BY <1>2, <2>1, <2>2, <2>3, AddressKept DEF IInv, TypeInv
<1> QED
  BY <1>6, <1>7, <1>8, <1>9, <1>10 DEF IInv

-----------------------------------------------------------------------------
(* Changes of addresses *)

\* What is known of a change of an address under way.
LEMMA ConsoleFacts ==
  ASSUME IInv, NEW t \in Req, req[t].pc \in ConsoleStages
  PROVE  /\ req[t] \in ReqRecord /\ req[t].ask \in Asks /\ Family(req[t].ask) = "console"
         /\ req[t].server \in Server /\ req[t].n \in 1..Polls /\ req[t].answer = "none"
         /\ req[t].pc \in LockStages => lock = t
         /\ lock = t => req[t].pc \in LockStages
         /\ req[t].pc # "poll" => t \notin jobs /\ \A s \in Server : ip[s] # t
         /\ t \in jobs => \A s \in Server : ip[s] # t
         /\ \A s \in Server : ip[s] = t => s = req[t].server
         /\ t # None
<1>1. /\ req[t] \in ReqRecord /\ Staged(req[t]) /\ req[t].ask \in Asks
      /\ Family(req[t].ask) = "console" /\ req[t].n \in 1..Polls /\ req[t].answer = "none"
  BY DEF IInv, TypeInv, Staged, ConsoleStages, LockStages
<1>2. req[t].server \in Server
  BY <1>1, FamilyFacts DEF Staged, ConsoleStages, LockStages
<1>3. t # None
  BY NoneAssumption
<1>4. \A s \in Server : ip[s] = t => s = req[t].server /\ Changer(t)
  BY <1>1, <1>3 DEF IInv, AddressInv, Address, Mover
<1> QED
  BY <1>1, <1>2, <1>3, <1>4 DEF IInv, AddressInv, Changer, ConsoleStages, LockStages

\* A step of such a change: the lock is held from the port to the last look, and an
\* address or a job that is the request's outlives it only as confirmed or as lost.
LEMMA ConsoleStep ==
  ASSUME IInv, NEW t \in Req, req[t].pc \in ConsoleStages, NEW r \in ReqRecord, Becomes(t, r),
         UNCHANGED <<live, name, known, rules, ip>>,
         r.ask = req[t].ask, r.server = req[t].server, r.gone = req[t].gone,
         r.missed = req[t].missed,
         r.pc \in LockStages \cup {"done"},
         r.pc # "done" => r.answer = "none" /\ r.n \in 1..Polls,
         req[t].pc = "poll" => r.pc \in {"poll", "done"} /\ (req[t].shown => r.shown),
         NEW h \in SUBSET (hits[t] \cup {req[t].server}), hits' = [hits EXCEPT ![t] = h],
         lock \in {t, None}, lock' = IF r.pc = "done" THEN None ELSE t,
         jobs' \subseteq jobs \cup {t},
         t \in jobs' => r.pc = "poll" \/ (r.pc = "done" /\ (r.lost \/ r.shown)),
         t \in jobs' => \A s \in Server : ip[s] # t,
         confirmed' \in [Server -> Req \cup {None}],
         \A s \in Server : \/ confirmed'[s] = confirmed[s]
                           \/ /\ s = req[t].server /\ confirmed'[s] = t
                              /\ r.pc = "done" /\ (ip[s] = t \/ r.shown),
         ip[req[t].server] = t =>
           \/ r.pc = "poll"
           \/ r.pc = "done" /\ (r.lost \/ confirmed'[req[t].server] = t)
  PROVE  IInv'
<1> DEFINE q == req[t]
<1>1. /\ q \in ReqRecord /\ q.ask \in Asks /\ Family(q.ask) = "console"
      /\ q.server \in Server /\ t # None /\ Staged(q) /\ Target(q, hits[t])
      /\ \A s \in Server : ip[s] = t => s = q.server
  BY ConsoleFacts DEF IInv
<1>2. req' = [req EXCEPT ![t] = r]
  BY DEF Becomes
<1>3. /\ req' \in [Req -> ReqRecord] /\ req'[t] = r
      /\ \A u \in Req \ {t} : req'[u] = req[u]
  BY <1>2 DEF IInv, TypeInv
<1>4. /\ h \in SUBSET Server /\ hits' \in [Req -> SUBSET Server] /\ hits'[t] = h
      /\ \A u \in Req \ {t} : hits'[u] = hits[u]
  BY <1>1 DEF IInv, TypeInv
<1>5. TypeInv'
  BY <1>3, <1>4 DEF IInv, TypeInv
<1>6. \A u \in Req : Staged(req[u])'
  <2>1. Staged(r)
    BY <1>1 DEF Staged, InstanceStages, RuleStages, ConsoleStages, LockStages
  <2> QED
    BY <1>3, <2>1 DEF IInv, Staged
<1>7. ASSUME NEW u \in Req PROVE Target(req[u], hits[u])'
  <2>1. Target(r, h)
    BY <1>1 DEF Target, Namesake, ConsoleStages, LockStages
  <2>2. u = t => Target(req[u], hits[u])'
    BY <1>3, <1>4, <2>1 DEF Target, Namesake
  <2>3. u # t => Target(req[u], hits[u])'
    BY <1>3, <1>4 DEF IInv, Target, Namesake
  <2> QED
    BY <2>2, <2>3
<1>8. RuleInv'
  <2>1. ~Changes(q) /\ ~Changes(r) /\ r.pc \notin RuleStages
    BY <1>1 DEF Changes, OnRules, RuleStages, LockStages
  <2> QED
    BY <1>2, <2>1, RuleFrame DEF IInv, TypeInv
<1>9. \A u \in Req : lock' = u <=> req'[u].pc \in LockStages
  <2>1. \A u \in Req \ {t} : lock # u /\ lock' # u
    BY <1>1, NoneAssumption
  <2>2. \A u \in Req \ {t} : req'[u].pc \notin LockStages
    BY <1>3, <2>1 DEF IInv, AddressInv
  <2>3. lock' = t <=> r.pc \in LockStages
    BY <1>1 DEF LockStages
  <2> QED
    BY <1>3, <2>1, <2>2, <2>3
<1>10. \A u \in jobs' : /\ Changer(u)' /\ Unsettled(u)'
                        /\ \A s \in Server : ip'[s] # u
  <2>1. t \in jobs' => /\ Changer(t)' /\ Unsettled(t)'
                       /\ \A s \in Server : ip'[s] # t
    BY <1>1, <1>3 DEF Changer, Unsettled, Active
  <2>2. \A u \in jobs' \ {t} : /\ Changer(u)' /\ Unsettled(u)'
                               /\ \A s \in Server : ip'[s] # u
    BY <1>3 DEF IInv, TypeInv, AddressInv, Changer, Unsettled, Active
  <2> QED
    BY <2>1, <2>2
<1>11. ASSUME NEW s \in Server PROVE Address(s)'
  <2>1. PICK i : i = ip[s]
    OBVIOUS
  <2>2. PICK c : c = confirmed[s]
    OBVIOUS
  <2>3. PICK d : d = confirmed'[s]
    OBVIOUS
  <2>4. i \in Req \cup {None} /\ c \in Req \cup {None} /\ d \in Req \cup {None} /\ ip'[s] = i
    BY <2>1, <2>2, <2>3 DEF IInv, TypeInv
  <2>5. /\ i # None => req[i].server = s /\ (Mover(i) \/ Changer(i))
        /\ c # None => /\ Changer(c) /\ req[c].server = s
                       /\ \/ i = c
                          \/ req[c].shown
                          \/ i # None /\ (Mover(i) \/ Unsettled(i))
    BY <2>1, <2>2 DEF IInv, AddressInv, Address
  <2>6. \/ d = c
        \/ s = q.server /\ d = t /\ r.pc = "done" /\ (i = t \/ r.shown)
    BY <2>1, <2>2, <2>3
  <2>7. /\ Changer(t) => q.pc = "poll" /\ Changer(t)'
        /\ ~Mover(t)
    BY <1>1, <1>3 DEF Changer, Mover, ConsoleStages, LockStages
  <2>8. \A u \in Req \ {t} : /\ Mover(u)' = Mover(u) /\ Changer(u)' = Changer(u)
                             /\ Unsettled(u)' = Unsettled(u)
    BY <1>3 DEF Mover, Changer, Unsettled, Active
  <2>9. i = t => s = q.server /\ (Unsettled(t)' \/ d = t)
    BY <1>1, <1>3, <2>1, <2>3 DEF Unsettled, Active
  <2>10. i # None => req'[i].server = s /\ (Mover(i)' \/ Changer(i)')
    BY <1>3, <2>4, <2>5, <2>7, <2>8
  <2>11. CASE d = c
    <3>1. c # None => Changer(c)' /\ req'[c].server = s /\ (req[c].shown => req'[c].shown)
      BY <1>3, <2>4, <2>5, <2>7, <2>8
    <3>2. c # None => \/ i = c
                      \/ req'[c].shown
                      \/ i # None /\ (Mover(i)' \/ Unsettled(i)')
      BY <2>4, <2>5, <2>7, <2>8, <2>9, <2>11, <3>1
    <3> QED
      BY <2>3, <2>4, <2>10, <2>11, <3>1, <3>2 DEF Address
  <2>12. CASE s = q.server /\ d = t /\ r.pc = "done" /\ (i = t \/ r.shown)
    <3>1. Changer(t)'
      BY <1>1, <1>3, <2>12 DEF Changer
    <3> QED
      BY <1>1, <1>3, <2>3, <2>4, <2>10, <2>12, <3>1 DEF Address
  <2> QED
    BY <2>6, <2>11, <2>12
<1>12. AddressInv'
  BY <1>9, <1>10, <1>11 DEF AddressInv
<1> QED
  BY <1>5, <1>6, <1>7, <1>8, <1>12 DEF IInv

\* The request ends, with or without the lock.
LEMMA ConsoleEnds ==
  ASSUME IInv, NEW t \in Req, req[t].pc \in LockStages, NEW r, Over(req[t], r), Becomes(t, r),
         UNCHANGED <<live, name, known, rules, ip>>, lock' = None,
         NEW h \in SUBSET (hits[t] \cup {req[t].server}), hits' = [hits EXCEPT ![t] = h],
         jobs' \subseteq jobs \cup {t},
         t \in jobs' => (r.lost \/ r.shown) /\ \A s \in Server : ip[s] # t,
         confirmed' \in [Server -> Req \cup {None}],
         \A s \in Server : \/ confirmed'[s] = confirmed[s]
                           \/ /\ s = req[t].server /\ confirmed'[s] = t
                              /\ ip[s] = t \/ r.shown,
         ip[req[t].server] = t => r.lost \/ confirmed'[req[t].server] = t
  PROVE  IInv'
<1>1. req[t].pc \in ConsoleStages /\ lock = t
  BY ConsoleFacts DEF ConsoleStages
<1>2. /\ r \in ReqRecord /\ r.pc = "done" /\ r.ask = req[t].ask /\ r.server = req[t].server
      /\ r.gone = req[t].gone /\ r.missed = req[t].missed /\ r.shown = req[t].shown
  BY DEF Over
<1> QED
  BY <1>1, <1>2, ConsoleStep

\* The request goes on.
LEMMA ConsoleGoes ==
  ASSUME IInv, NEW t \in Req, req[t].pc \in ConsoleStages, NEW pc \in LockStages,
         NEW n \in 1..Polls, NEW shown \in BOOLEAN,
         Becomes(t, [req[t] EXCEPT !.pc = pc, !.n = n, !.shown = shown]),
         lock \in {t, None}, lock' = t, UNCHANGED <<live, name, known, rules, ip, confirmed>>,
         NEW h \in SUBSET (hits[t] \cup {req[t].server}), hits' = [hits EXCEPT ![t] = h],
         jobs' \subseteq jobs \cup {t},
         t \in jobs' => pc = "poll" /\ \A s \in Server : ip[s] # t,
         req[t].pc = "poll" => pc = "poll" /\ shown = req[t].shown
  PROVE  IInv'
<1> DEFINE r == [req[t] EXCEPT !.pc = pc, !.n = n, !.shown = shown]
<1>1. /\ req[t] \in ReqRecord /\ req[t].answer = "none" /\ req[t].server \in Server
      /\ req[t].pc # "poll" => \A s \in Server : ip[s] # t
      /\ confirmed \in [Server -> Req \cup {None}]
  BY ConsoleFacts DEF IInv, TypeInv
<1>2. pc \in Stages /\ n \in 0..Limit
  BY LimitFacts DEF LockStages, Stages
<1>3. /\ r \in ReqRecord /\ r.ask = req[t].ask /\ r.server = req[t].server
      /\ r.gone = req[t].gone /\ r.missed = req[t].missed
      /\ r.answer = "none" /\ r.pc = pc /\ r.n = n /\ r.shown = shown
  BY <1>1, <1>2 DEF ReqRecord
<1>4. Becomes(t, r)
  OBVIOUS
<1> HIDE DEF r
<1>5. r.pc # "done"
  BY <1>3 DEF LockStages
<1> QED
  BY <1>1, <1>3, <1>4, <1>5, ConsoleStep

LEMMA TakeLockStep ==
  ASSUME IInv, NEW t \in Req, TakeLock(t)
  PROVE  IInv'
<1>1. /\ req[t].pc = "lock" /\ lock = None /\ lock' = t
      /\ UNCHANGED <<live, name, known, rules, ip, jobs, confirmed, hits>>
      /\ req' = [req EXCEPT ![t].pc = "port"]
  BY DEF TakeLock, provider
<1>2. /\ req[t].pc \in ConsoleStages /\ req[t] \in ReqRecord /\ req[t].n \in 1..Polls
      /\ t \notin jobs
  BY <1>1, ConsoleFacts DEF ConsoleStages
<1>3. Becomes(t, [req[t] EXCEPT !.pc = "port", !.n = req[t].n, !.shown = req[t].shown])
  BY <1>1, <1>2 DEF Becomes, ReqRecord
<1>4. hits' = [hits EXCEPT ![t] = hits[t]]
  BY <1>1 DEF IInv, TypeInv
<1> QED
  BY <1>1, <1>2, <1>3, <1>4, ConsoleGoes DEF LockStages, ReqRecord

LEMMA FindPortStep ==
  ASSUME IInv, NEW t \in Req, FindPort(t)
  PROVE  IInv'
<1>1. PICK shown \in BOOLEAN : Becomes(t, [req[t] EXCEPT !.pc = "submit", !.shown = shown])
  BY DEF FindPort
<1>2. /\ req[t].pc = "port"
      /\ UNCHANGED <<live, name, known, rules, ip, jobs, lock, confirmed, hits>>
  BY DEF FindPort, provider
<1>3. /\ req[t].pc \in ConsoleStages /\ req[t] \in ReqRecord /\ req[t].n \in 1..Polls
      /\ t \notin jobs /\ lock = t
  BY <1>2, ConsoleFacts DEF ConsoleStages, LockStages
<1>4. Becomes(t, [req[t] EXCEPT !.pc = "submit", !.n = req[t].n, !.shown = shown])
  BY <1>1, <1>3 DEF Becomes, ReqRecord
<1>5. hits' = [hits EXCEPT ![t] = hits[t]]
  BY <1>2 DEF IInv, TypeInv
<1> QED
  BY <1>2, <1>3, <1>4, <1>5, ConsoleGoes DEF LockStages

\* An address the request has asked for, and that is not confirmed, is told as lost.
LEMMA ConsoleFailsStep ==
  ASSUME IInv, NEW t \in Req, req[t].pc \in LockStages, ConsoleFails(t)
  PROVE  IInv'
<1> DEFINE lost == t \in jobs \/ ip[req[t].server] = t
           r == Finished([req[t] EXCEPT !.lost = lost], "failed")
<1>1. /\ lock' = None /\ Becomes(t, r)
      /\ UNCHANGED <<live, name, known, rules, ip, jobs, confirmed, hits>>
  BY DEF ConsoleFails, provider
<1>2. /\ req[t] \in ReqRecord /\ lost \in BOOLEAN
      /\ t \in jobs => \A s \in Server : ip[s] # t
  BY DEF IInv, TypeInv, AddressInv
<1>3. Over(req[t], r) /\ r.lost = lost
  BY <1>2, LostRecord
<1> HIDE DEF r
<1>4. hits' = [hits EXCEPT ![t] = hits[t]] /\ confirmed' \in [Server -> Req \cup {None}]
  BY <1>1 DEF IInv, TypeInv
<1> QED
  BY <1>1, <1>2, <1>3, <1>4, ConsoleEnds

LEMMA NoPortStep ==
  ASSUME IInv, NEW t \in Req, NoPort(t) \/ PollFails(t)
  PROVE  IInv'
BY ConsoleFailsStep DEF NoPort, PollFails, LockStages

LEMMA SubmitStep ==
  ASSUME IInv, NEW t \in Req, Submit(t)
  PROVE  IInv'
<1>1. /\ req[t].pc = "submit" /\ jobs' = jobs \cup {t}
      /\ UNCHANGED <<live, name, known, rules, ip, lock, confirmed>>
      /\ hits' = [hits EXCEPT ![t] = hits[t] \cup {req[t].server}]
      /\ req' = [req EXCEPT ![t].pc = "poll"]
  BY DEF Submit
<1>2. /\ req[t].pc \in ConsoleStages /\ req[t] \in ReqRecord /\ req[t].n \in 1..Polls
      /\ lock = t /\ \A s \in Server : ip[s] # t
  BY <1>1, ConsoleFacts DEF ConsoleStages, LockStages
<1>3. Becomes(t, [req[t] EXCEPT !.pc = "poll", !.n = req[t].n, !.shown = req[t].shown])
  BY <1>1, <1>2 DEF Becomes, ReqRecord
<1> QED
  BY <1>1, <1>2, <1>3, ConsoleGoes DEF LockStages, ReqRecord

LEMMA SubmitFailsStep ==
  ASSUME IInv, NEW t \in Req, SubmitFails(t)
  PROVE  IInv'
<1>1. PICK took \in BOOLEAN :
        /\ jobs' = IF took THEN jobs \cup {t} ELSE jobs
        /\ hits' = IF took THEN [hits EXCEPT ![t] = hits[t] \cup {req[t].server}] ELSE hits
        /\ Becomes(t, Finished([req[t] EXCEPT !.lost = took], "failed"))
  BY DEF SubmitFails
<1>2. /\ req[t].pc = "submit" /\ lock' = None
      /\ UNCHANGED <<live, name, known, rules, ip, confirmed>>
  BY DEF SubmitFails
<1> DEFINE r == Finished([req[t] EXCEPT !.lost = took], "failed")
<1>3. Over(req[t], r) /\ r.lost = took
  BY LostRecord DEF IInv, TypeInv
<1>4. Becomes(t, r)
  BY <1>1
<1> HIDE DEF r
<1>5. PICK h \in SUBSET (hits[t] \cup {req[t].server}) : hits' = [hits EXCEPT ![t] = h]
  <2>1. hits = [hits EXCEPT ![t] = hits[t]]
    BY DEF IInv, TypeInv
  <2> QED
    BY <1>1, <2>1
<1>6. /\ t \notin jobs /\ \A s \in Server : ip[s] # t
      /\ req[t].server \in Server /\ confirmed' \in [Server -> Req \cup {None}]
  BY <1>2, ConsoleFacts DEF ConsoleStages, LockStages, IInv, TypeInv
<1>7. jobs' \subseteq jobs \cup {t} /\ (t \in jobs' => r.lost)
  BY <1>1, <1>3, <1>6
<1> QED
  BY <1>2, <1>3, <1>4, <1>5, <1>6, <1>7, ConsoleEnds DEF LockStages

LEMMA PollStep ==
  ASSUME IInv, NEW t \in Req, Poll(t)
  PROVE  IInv'
<1> DEFINE s == req[t].server
<1>1. /\ req[t].pc = "poll" /\ UNCHANGED <<live, name, known, rules, ip, jobs, hits>>
  BY DEF Poll, provider
<1>2. /\ req[t].pc \in ConsoleStages /\ req[t] \in ReqRecord /\ req[t].n \in 1..Polls
      /\ lock = t /\ s \in Server
      /\ t \in jobs => \A x \in Server : ip[x] # t
  BY <1>1, ConsoleFacts DEF ConsoleStages, LockStages
<1>3. hits' = [hits EXCEPT ![t] = hits[t]] /\ confirmed \in [Server -> Req \cup {None}]
  BY <1>1 DEF IInv, TypeInv
<1>4. CASE /\ ip[s] = t \/ req[t].shown
           /\ lock' = None /\ confirmed' = [confirmed EXCEPT ![s] = t]
           /\ Becomes(t, Finished(req[t], "ok"))
  <2> DEFINE r == Finished(req[t], "ok")
  <2>1. Becomes(t, r)
    BY <1>4
  <2>2. Over(req[t], r) /\ r.lost = req[t].lost /\ r.shown = req[t].shown
    BY <1>2, FinishedRecord DEF Over
  <2> HIDE DEF r
  <2>3. /\ confirmed' \in [Server -> Req \cup {None}] /\ confirmed'[s] = t
        /\ \A x \in Server : \/ confirmed'[x] = confirmed[x]
                             \/ x = s /\ confirmed'[x] = t /\ (ip[x] = t \/ r.shown)
    BY <1>2, <1>3, <1>4, <2>2
  <2>4. t \in jobs' => (r.lost \/ r.shown) /\ \A x \in Server : ip[x] # t
    BY <1>1, <1>2, <1>4, <2>2
  <2>5. jobs' \subseteq jobs \cup {t} /\ req[t].pc \in LockStages
    BY <1>1 DEF LockStages
  <2> QED
    BY <1>1, <1>3, <1>4, <2>1, <2>2, <2>3, <2>4, <2>5, ConsoleEnds
<1>5. CASE /\ ip[s] # t /\ req[t].n < Polls /\ Becomes(t, [req[t] EXCEPT !.n = req[t].n + 1])
           /\ UNCHANGED <<lock, confirmed>>
  <2>1. req[t].n + 1 \in 1..Polls
    BY <1>2, <1>5, LimitFacts
  <2>2. Becomes(t, [req[t] EXCEPT !.pc = "poll", !.n = req[t].n + 1, !.shown = req[t].shown])
    BY <1>1, <1>2, <1>5 DEF Becomes, ReqRecord
  <2> QED
    BY <1>1, <1>2, <1>3, <1>5, <2>1, <2>2, ConsoleGoes DEF LockStages, ReqRecord
<1> QED
  BY <1>4, <1>5 DEF Poll

-----------------------------------------------------------------------------
(* The provider and the process *)

\* What changes of rules and of addresses know of a request.
Same(p, q) ==
  /\ p.pc = q.pc /\ p.ask = q.ask /\ p.server = q.server /\ p.n = q.n /\ p.body = q.body
  /\ p.words = q.words /\ p.answer = q.answer /\ p.shared = q.shared /\ p.lost = q.lost
  /\ p.left = q.left /\ p.shown = q.shown

LEMMA SameFrame ==
  ASSUME IInv, req' \in [Req -> ReqRecord], \A u \in Req : Same(req'[u], req[u]),
         UNCHANGED <<rules, ip, jobs, lock, confirmed>>
  PROVE  /\ \A u \in Req : Staged(req[u])'
         /\ RuleInv' /\ AddressInv'
<1>1. \A u \in Req : Staged(req[u])'
  BY DEF IInv, Staged, Same
<1>2. RuleInv'
  <2>1. \A u \in Req : Changes(req'[u]) <=> Changes(req[u])
    BY DEF Same, Changes
  <2>2. \A u \in Req : Only(u)' <=> Only(u)
    BY <2>1 DEF Only, Changes
  <2>3. ASSUME NEW u \in Req, ~req'[u].shared
        PROVE  /\ req'[u].pc \in RuleStages => req'[u].left = rules'
               /\ Group(req'[u], req'[u].left)
    BY <2>1, <2>3 DEF IInv, RuleInv, Group, Same
  <2>4. ASSUME NEW u \in Req, Changes(req'[u]), Only(u)'
        PROVE  ~req'[u].shared /\ Kept(req'[u], req'[u].left)
    BY <2>1, <2>2, <2>4 DEF IInv, RuleInv, Kept, Same
  <2>5. \A u, w \in Req : u # w /\ req'[u].pc \in RuleStages /\ req'[w].pc \in RuleStages
                            => req'[u].shared /\ req'[w].shared
    BY DEF IInv, RuleInv, Same
  <2>6. (\A u \in Req : ~Changes(req'[u])) => OldRule \in rules'
    BY <2>1 DEF IInv, RuleInv
  <2> QED
    BY <2>3, <2>4, <2>5, <2>6 DEF RuleInv, Changes, Kept, Group
<1>3. AddressInv'
  <2>1. ASSUME NEW u \in Req
        PROVE  /\ Mover(u) => Mover(u)' /\ req'[u].server = req[u].server
               /\ Changer(u) => /\ Changer(u)' /\ req'[u].server = req[u].server
                                /\ Unsettled(u) => Unsettled(u)'
                                /\ req[u].shown => req'[u].shown
    BY DEF Mover, Changer, Unsettled, Active, Same
  <2>2. \A u \in Req : lock' = u <=> req'[u].pc \in LockStages
    BY DEF IInv, AddressInv, Same
  <2>3. \A u \in jobs' : \A s \in Server : ip'[s] # u
    BY DEF IInv, AddressInv
  <2> QED
    BY <2>1, <2>2, <2>3, AddressKept DEF IInv, TypeInv
<1> QED
  BY <1>1, <1>2, <1>3

\* Nor does it matter for the target that a server goes.
LEMMA TargetFrame ==
  ASSUME IInv, NEW t \in Req, Same(req'[t], req[t]),
         req'[t].resolved = req[t].resolved, req'[t].read = req[t].read,
         req'[t].names = req[t].names, req'[t].missed = req[t].missed,
         req[t].gone => req'[t].gone,
         UNCHANGED <<name, known, hits>>,
         Active(t) /\ req[t].server \notin live' => req[t].server \notin live \/ req'[t].gone
  PROVE  Target(req[t], hits[t])'
<1> DEFINE q == req[t]
           p == req'[t]
<1>1. Target(q, hits[t])
  BY DEF IInv
<1>2. /\ p.pc = q.pc /\ p.ask = q.ask /\ p.server = q.server /\ p.n = q.n
      /\ p.resolved = q.resolved /\ p.read = q.read /\ p.names = q.names
      /\ p.missed = q.missed
      /\ q.gone => p.gone
  BY DEF Same
<1>3. \A s : Namesake(q, s) => Namesake(req[t], s)'
  BY <1>2 DEF Namesake
<1>4. p.pc = "idle" => hits'[t] = {}
  BY <1>1, <1>2 DEF Target
<1>5. p.pc \notin {"idle", "done"} /\ p.ask[1] = "ecs" /\ p.server \notin live' => p.gone
  BY <1>1, <1>2 DEF Target, Active
<1>6. p.pc = "instance" => /\ p.n \in 1..2 /\ p.read = {} /\ p.names = {}
                           /\ hits'[t] \subseteq {p.server}
                           /\ p.n = 2 => known'[p.server] = "server" /\ p.gone
  BY <1>1, <1>2 DEF Target
<1>7. p.pc = "scan" => /\ hits'[t] \subseteq {p.server}
                       /\ known'[p.server] = "server" => p.gone
                       /\ p.server \in p.read => p.missed
                       /\ \A s \in p.names : name'[s] = name'[p.server]
  BY <1>1, <1>2 DEF Target
<1>8. p.pc = "resolved" => /\ p.resolved \in Server
                           /\ p.resolved = p.server \/ Namesake(req[t], req[t].resolved)'
  BY <1>1, <1>2, <1>3 DEF Target
<1>9. \A s \in hits'[t] : s = p.server \/ Namesake(req[t], s)'
  BY <1>1, <1>2, <1>3 DEF Target
<1> QED
  BY <1>4, <1>5, <1>6, <1>7, <1>8, <1>9 DEF Target, Namesake

\* A server goes: the requests on it know, in every stage.
LEMMA ServerGoesStep ==
  ASSUME IInv, NEW s \in Server, ServerGoes(s)
  PROVE  IInv'
<1>1. /\ live' = live \ {s} /\ UNCHANGED <<name, known, rules, ip, jobs, lock, confirmed, hits>>
      /\ req' = [t \in Req |->
                   [req[t] EXCEPT !.gone = req[t].gone \/ (Active(t) /\ req[t].server = s)]]
  BY DEF ServerGoes
<1>2. ASSUME NEW t \in Req
      PROVE  /\ req'[t] \in ReqRecord /\ Same(req'[t], req[t])
             /\ req'[t].gone <=> req[t].gone \/ (Active(t) /\ req[t].server = s)
             /\ req'[t].resolved = req[t].resolved /\ req'[t].read = req[t].read
             /\ req'[t].names = req[t].names /\ req'[t].missed = req[t].missed
  <2> DEFINE g == req[t].gone \/ (Active(t) /\ req[t].server = s)
  <2>1. req[t] \in ReqRecord /\ g \in BOOLEAN
    BY DEF IInv, TypeInv, ReqRecord
  <2>2. req'[t] = [req[t] EXCEPT !.gone = g]
    BY <1>1
  <2> HIDE DEF g
  <2>3. /\ req'[t] \in ReqRecord /\ Same(req'[t], req[t]) /\ req'[t].gone = g
        /\ req'[t].resolved = req[t].resolved /\ req'[t].read = req[t].read
        /\ req'[t].names = req[t].names /\ req'[t].missed = req[t].missed
    BY <2>1, <2>2 DEF ReqRecord, Same
  <2> QED
    BY <2>3 DEF g
<1>3. req' \in [Req -> ReqRecord]
  BY <1>1, <1>2
<1>4. TypeInv'
  BY <1>1, <1>3 DEF IInv, TypeInv
<1>5. ASSUME NEW t \in Req PROVE Target(req[t], hits[t])'
  <2>1. /\ req[t].gone => req'[t].gone
        /\ Active(t) /\ req[t].server \notin live' => req[t].server \notin live \/ req'[t].gone
    BY <1>1, <1>2
  <2> QED
    BY <1>1, <1>2, <2>1, TargetFrame
<1> QED
  BY <1>1, <1>2, <1>3, <1>4, <1>5, SameFrame DEF IInv

\* A job is carried out: its request is being waited for, or was given up.
LEMMA RunJobStep ==
  ASSUME IInv, NEW t \in Req, NEW done \in BOOLEAN, RunJob(t, done)
  PROVE  IInv'
<1>1. /\ t \in jobs /\ jobs' = jobs \ {t}
      /\ ip' = IF done THEN [ip EXCEPT ![req[t].server] = t] ELSE ip
      /\ UNCHANGED <<live, name, known, rules, lock, req, confirmed, hits>>
  BY DEF RunJob
<1>2. /\ Changer(t) /\ Unsettled(t) /\ req[t].server \in Server
  BY <1>1 DEF IInv, AddressInv, Changer
<1>3. \A u \in Req : /\ Changer(u)' <=> Changer(u)
                     /\ Mover(u)' <=> Mover(u)
                     /\ Unsettled(u)' <=> Unsettled(u)
  BY <1>1 DEF Changer, Mover, Unsettled, Active
<1>4. TypeInv'
  BY <1>1, <1>2 DEF IInv, TypeInv
<1>5. \A u \in Req : Staged(req[u])' /\ Target(req[u], hits[u])'
  BY <1>1 DEF IInv, Staged, Target, Namesake
<1>6. RuleInv'
  BY <1>1 DEF IInv, RuleInv, Only, Changes, Kept, Group
<1>7. \A u \in jobs' : \A s \in Server : ip'[s] # u
  BY <1>1, <1>2 DEF IInv, TypeInv, AddressInv
<1>8. \A s \in Server : \/ ip'[s] = ip[s]
                        \/ \E u \in Req : /\ ip'[s] = u /\ req'[u].server = s
                                          /\ Changer(u)' /\ Unsettled(u)'
  <2>1. \A s \in Server : ip'[s] = ip[s] \/ (ip'[s] = t /\ s = req[t].server)
    BY <1>1, <1>2 DEF IInv, TypeInv
  <2> QED
    BY <1>1, <1>2, <1>3, <2>1
<1>9. \A u \in Req : lock' = u <=> req'[u].pc \in LockStages
  BY <1>1 DEF IInv, AddressInv
<1>10. AddressInv'
  BY <1>1, <1>3, <1>7, <1>8, <1>9, AddressKept DEF IInv, TypeInv
<1> QED
  BY <1>4, <1>5, <1>6, <1>10 DEF IInv

\* The process stops: every request under way is lost, and none holds the lock.
LEMMA StopStep ==
  ASSUME IInv, Stop
  PROVE  IInv'
<1>1. /\ lock' = None
      /\ UNCHANGED <<live, name, known, rules, ip, jobs, confirmed, hits>>
      /\ req' = [t \in Req |-> IF Active(t)
                               THEN Finished([req[t] EXCEPT !.lost = TRUE], "none") ELSE req[t]]
  BY DEF Stop, provider
<1>2. ASSUME NEW t \in Req
      PROVE  /\ req'[t] \in ReqRecord /\ req'[t].pc \in {"idle", "done"}
             /\ Active(t) => /\ Over(req[t], req'[t]) /\ req'[t].lost = TRUE
                             /\ req'[t].answer = "none"
             /\ ~Active(t) => req'[t] = req[t]
  <2>1. req[t] \in ReqRecord
    BY DEF IInv, TypeInv
  <2>2. CASE Active(t)
    <3>1. req'[t] = Finished([req[t] EXCEPT !.lost = TRUE], "none")
      BY <1>1, <2>2
    <3>2. /\ Over(req[t], Finished([req[t] EXCEPT !.lost = TRUE], "none"))
          /\ Finished([req[t] EXCEPT !.lost = TRUE], "none").lost = TRUE
          /\ Finished([req[t] EXCEPT !.lost = TRUE], "none").answer = "none"
      BY <2>1, LostRecord
    <3> QED
      BY <2>2, <3>1, <3>2 DEF Over
  <2>3. CASE ~Active(t)
    BY <1>1, <2>1, <2>3 DEF Active
  <2> QED
    BY <2>2, <2>3
<1>3. ASSUME NEW t \in Req
      PROVE  /\ req'[t].ask = req[t].ask /\ req'[t].server = req[t].server
             /\ req'[t].shared = req[t].shared /\ req'[t].left = req[t].left
             /\ Active(t) \/ req[t].lost => req'[t].lost
  BY <1>2, <1>3 DEF Over
<1>4. TypeInv'
  <2>1. req' \in [Req -> ReqRecord]
    BY <1>1, <1>2
  <2> QED
    BY <1>1, <2>1 DEF IInv, TypeInv
<1>5. ASSUME NEW t \in Req PROVE Staged(req[t])' /\ Target(req[t], hits[t])'
  <2>1. req[t] \in ReqRecord /\ Staged(req[t]) /\ Target(req[t], hits[t])
    BY DEF IInv, TypeInv
  <2>2. Staged(req'[t]) /\ Target(req'[t], hits[t])
    BY <1>2, <2>1, OverFacts DEF Active
  <2> QED
    BY <1>1, <2>2 DEF Staged, Target, Namesake
<1>6. RuleInv'
  <2>1. \A u \in Req : req'[u].pc \notin RuleStages
    BY <1>2 DEF RuleStages
  <2>2. \A u \in Req : Changes(req'[u]) <=> Changes(req[u])
    BY <1>3 DEF Changes
  <2>3. \A u \in Req : Only(u)' <=> Only(u)
    BY <2>2 DEF Only, Changes
  <2>4. ASSUME NEW u \in Req, ~req'[u].shared PROVE Group(req'[u], req'[u].left)
    <3>1. CASE Active(u)
      BY <1>2, <2>1, <3>1 DEF Group, RuleStages
    <3>2. CASE ~Active(u)
      <4>1. req'[u] = req[u]
        BY <1>2, <3>2
      <4>2. Group(req[u], req[u].left)
        BY <2>4, <4>1 DEF IInv, RuleInv
      <4> QED
        BY <4>1, <4>2
    <3> QED
      BY <3>1, <3>2
  <2>5. ASSUME NEW u \in Req, Changes(req'[u]), Only(u)'
        PROVE  ~req'[u].shared /\ Kept(req'[u], req'[u].left)
    <3>1. ~req[u].shared /\ Kept(req[u], req[u].left)
      BY <2>2, <2>3, <2>5 DEF IInv, RuleInv
    <3>2. CASE Active(u)
      BY <1>2, <1>3, <2>1, <3>1, <3>2 DEF Kept, RuleStages
    <3>3. CASE ~Active(u)
      BY <1>2, <3>1, <3>3
    <3> QED
      BY <3>2, <3>3
  <2>6. (\A u \in Req : ~Changes(req'[u])) => OldRule \in rules'
    BY <1>1, <2>2 DEF IInv, RuleInv
  <2> QED
    BY <2>1, <2>4, <2>5, <2>6 DEF RuleInv, Changes, Kept, Group
<1>7. AddressInv'
  <2>1. \A u \in Req : lock' = u <=> req'[u].pc \in LockStages
    BY <1>1, <1>2, NoneAssumption DEF LockStages
  <2>2. \A u \in Req : Active(u) => req'[u].pc = "done" /\ req'[u].shown = req[u].shown
    BY <1>2 DEF Over
  <2>3. ASSUME NEW u \in Req
        PROVE  /\ Mover(u) => Mover(u)' /\ req'[u].server = req[u].server
               /\ Changer(u) => /\ Changer(u)' /\ req'[u].server = req[u].server
                                /\ Unsettled(u) => Unsettled(u)'
                                /\ req[u].shown => req'[u].shown
    <3>1. CASE Active(u)
      BY <1>3, <2>2, <3>1 DEF Mover, Changer, Unsettled
    <3>2. CASE ~Active(u)
      BY <1>2, <3>2 DEF Mover, Changer, Unsettled, Active
    <3> QED
      BY <3>1, <3>2
  <2>4. \A u \in jobs' : \A s \in Server : ip'[s] # u
    BY <1>1 DEF IInv, AddressInv
  <2> QED
    BY <1>1, <2>1, <2>3, <2>4, AddressKept DEF IInv, TypeInv
<1> QED
  BY <1>4, <1>5, <1>6, <1>7 DEF IInv

-----------------------------------------------------------------------------
(* The theorems *)

LEMMA NextIInv == IInv /\ [Next]_vars => IInv'
<1> SUFFICES ASSUME IInv, [Next]_vars PROVE IInv'
  OBVIOUS
<1>1. ASSUME NEW t \in Req, NEW ask \in Asks,
             NEW s \in (IF ask[1] = "ecs" THEN Server ELSE {None}),
             NEW b \in (IF OnRules(ask) THEN Body ELSE {"a"}), NEW given \in Given(ask),
             Receive(t, ask, s, b, given)
      PROVE  IInv'
  <2>1. b \in Body
    BY DEF Body
  <2> QED
    BY <1>1, <2>1, ReceiveStep
<1>2. ASSUME NEW t \in Req, Step(t) PROVE IInv'
  <2>1. CASE TryInstance(t) \/ ScanEnds(t) \/ ScanFails(t) \/ CallResolved(t)
    BY <2>1, TryInstanceStep, ScanEndsStep, CallResolvedStep
  <2>2. CASE \E s \in Server : ScanItem(t, s) \/ ScanMisses(t, s)
    BY <2>2, ScanItemStep
  <2>3. CASE NoInterface(t) \/ ChangeNetwork(t) \/ CallOnce(t)
    BY <2>3, NetworkStep, CallOnceStep
  <2>4. CASE CreateRule(t) \/ RevokeOld(t) \/ RollBack(t) \/ RevokeFirst(t) \/ CreateAgain(t)
    BY <2>4, CreateRuleStep, RevokeOldStep, RollBackStep, RevokeFirstStep, CreateAgainStep
  <2>5. CASE TakeLock(t) \/ NoPort(t) \/ FindPort(t) \/ PollFails(t)
    BY <2>5, TakeLockStep, NoPortStep, FindPortStep
  <2>6. CASE Submit(t) \/ SubmitFails(t) \/ Poll(t)
    BY <2>6, SubmitStep, SubmitFailsStep, PollStep
  <2> QED
    BY <1>2, <2>1, <2>2, <2>3, <2>4, <2>5, <2>6 DEF Step
<1>3. ASSUME NEW s \in Server, ServerGoes(s) PROVE IInv'
  BY <1>3, ServerGoesStep
<1>4. ASSUME NEW t \in Req, NEW done \in BOOLEAN, RunJob(t, done) PROVE IInv'
  BY <1>4, RunJobStep
<1>5. CASE Stop
  BY <1>5, StopStep
<1>6. CASE UNCHANGED vars
  BY <1>6 DEF vars, IInv, TypeInv, Staged, Target, Namesake, RuleInv, Group, Changes, Only, Kept,
    AddressInv, Address, Changer, Mover, Unsettled, Active
<1> QED
  BY <1>1, <1>2, <1>3, <1>4, <1>5, <1>6 DEF Next

\* The inductive invariant holds: what each stage of a request knows of the server it
\* looks for, of the rules of the group and of the address it changes.
THEOREM Invariance == Spec => []IInv
BY InitIInv, NextIInv, PTL DEF Spec

\* Every variable keeps its type, a request counts within its bounds, and the lock of
\* the account is held exactly by the request that works in the console.
THEOREM TypeCorrect == Spec => []TypeOK
<1>1. IInv => TypeOK
  <2> SUFFICES ASSUME IInv PROVE TypeOK
    OBVIOUS
  <2>1. ASSUME NEW t \in Req
        PROVE  /\ DOMAIN req[t] = DOMAIN NoReq
               /\ req[t].pc \in Stages
               /\ req[t].answer \in {"none", "ok", "failed"}
               /\ req[t].n \in 0..(2 + Alternatives + Polls)
               /\ req[t].read \cup req[t].names \subseteq Server
    <3>1. req[t] \in ReqRecord
      BY DEF IInv, TypeInv
    <3> QED
      BY <3>1 DEF ReqRecord, NoReq, Limit
  <2>2. \A t \in Req : lock = t <=> req[t].pc \in {"port", "submit", "poll"}
    BY DEF IInv, AddressInv, LockStages
  <2> QED
    BY <2>1, <2>2 DEF TypeOK, IInv, TypeInv, Rule
<1> QED
  BY <1>1, Invariance, PTL

\* An action takes effect on the server of its row, or on one of the name that the row
\* gives if that server has gone, or is not known by its own id and was passed over by
\* the list that was looked up.
THEOREM OnTarget == Spec => []TargetOnly
<1>1. IInv => TargetOnly
  BY DEF IInv, Target, Namesake, TargetOnly
<1> QED
  BY <1>1, Invariance, PTL

\* A change of a rule that reports success, and that no other one overlapped, has put
\* the new rule into the group and taken the old one out.
THEOREM ReplacesRule == Spec => []RuleReplaced
<1>1. IInv => RuleReplaced
  BY DEF IInv, RuleInv, Group, Changes, RuleReplaced
<1> QED
  BY <1>1, Invariance, PTL

\* The group of the only change there has been keeps the old rule or has the new one,
\* whatever step of the change failed, as long as every answer arrived.
THEOREM KeepsARule == Spec => []RuleKept
<1>1. IInv => RuleKept
  BY DEF IInv, RuleInv, Kept, Only, Changes, RuleKept
<1> QED
  BY <1>1, Invariance, PTL

\* The address a row shows as confirmed is that of the port, unless a change of network
\* has moved the port since, or a change of the server's address is unsettled.
THEOREM ConfirmedIsShown == Spec => []ConfirmedHolds
<1>1. IInv => ConfirmedHolds
  <2> SUFFICES ASSUME IInv, NEW s \in Server, confirmed[s] # None
               PROVE  \/ ip[s] = confirmed[s]
                      \/ ip[s] # None /\ Family(req[ip[s]].ask) = "network"
                      \/ \E t \in Req : /\ req[t].server = s
                                        /\ Family(req[t].ask) = "console"
                                        /\ Unsettled(t)
    BY DEF ConfirmedHolds
  <2>1. Address(s) /\ ip[s] \in Req \cup {None} /\ confirmed[s] \in Req
    BY DEF IInv, AddressInv, TypeInv
  <2>2. CASE req[confirmed[s]].shown
    BY <2>1, <2>2 DEF Address, Changer, Unsettled
  <2>3. CASE ~req[confirmed[s]].shown
    BY <2>1, <2>3 DEF Address, Changer, Mover
  <2> QED
    BY <2>2, <2>3
<1> QED
  BY <1>1, Invariance, PTL
=============================================================================
