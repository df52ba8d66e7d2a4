---------------------------- MODULE CloudActions ----------------------------
(***************************************************************************)
(* What one action request does to the provider (Python): run_action of    *)
(* app/main.py, CtyunOpenApiClient.action of services/ctyun_client.py and  *)
(* change_console_ecs_private_ip of services/browser_automation.py.        *)
(*                                                                         *)
(* Most actions are a single call.  Four families are not: an action on a  *)
(* server tries the ids its row knows and then looks the server up in the  *)
(* provider's lists, at last by its name; a change of network tries a      *)
(* series of alternatives; a rule of a security group is changed by        *)
(* creating the new one and revoking the old, with a roll-back; an address *)
(* is changed by a job of the console that is polled.                      *)
(*                                                                         *)
(* A call may be refused, take effect while its answer is an error of a    *)
(* gateway, or end in a timeout, which is no CtyunClientError and leaves   *)
(* the handler past every handler of errors.                               *)
(*                                                                         *)
(* What follows the answer (rows, tasks, verdicts) is in PySync.           *)
(***************************************************************************)
EXTENDS Naturals, Sequences

CONSTANTS
  Server,        \* cloud servers of the account
  Name,          \* their names, which need not differ
  Req,           \* action requests
  Asks,          \* pairs <<type, verb>> that the requests ask for
  Alternatives,  \* payload variants of a change of network (18 or more in the code)
  Polls,         \* looks at the port after a change of address (5 in the code)
  None           \* no server, no request; the address a port had at first

-----------------------------------------------------------------------------
(* The requests: what each of them must be given *)

\* _ecs_create_body makes a name up, so that the check for one never refuses.
CreateNeeds == {"flavor", "image", "vpc"}

EcsNeeds ==
  [start |-> {"id"}, stop |-> {"id"}, reboot |-> {"id"}, release |-> {"id"},
   unsubscribe |-> {"id"}, deletion_protection |-> {"id"}, auto_renew |-> {"id"},
   create |-> CreateNeeds, update |-> {"id", "name"},
   reset_password |-> {"id", "password"}, rebuild |-> {"id", "password"},
   resize |-> {"id", "flavor"}, create_image |-> {"id", "name"},
   change_vpc |-> {"id", "subnet", "vpc"},
   change_private_ip |-> {"id", "region", "subnet", "ip"}]

EipNeeds ==
  [create |-> {"name"}, bind |-> {"id", "target"}, unbind |-> {"id"},
   rename |-> {"id", "name"}, release |-> {"id"}, unsubscribe |-> {"id"}]

NetworkNeeds ==
  [vpc    |-> [create |-> {"name", "cidr"}, create_subnet |-> {"name", "vpc", "cidr"},
               update |-> {"id"}, delete |-> {"id"}],
   subnet |-> [update |-> {"id"}, delete |-> {"id"}]]

GroupNeeds ==
  [create |-> {"vpc", "name"}, update |-> {"id"}, create_rule |-> {"id"},
   update_rule |-> {"id", "rule"}, delete_rule |-> {"id", "rule"}, delete |-> {"id"}]

TableNeeds ==
  [create |-> {"vpc", "name"}, update |-> {"id"}, delete |-> {"id"}]

ImageNeeds ==
  [share |-> {"id", "target"}, accept |-> {}, reject |-> {}, unshare |-> {"target"},
   copy |-> {"id", "name"}, delete |-> {"id"}]

VipNeeds ==
  [create |-> {"subnet"}, delete |-> {"id"},
   bind_ecs |-> {"id", "server", "nic"}, unbind_ecs |-> {"id", "server", "nic"},
   bind_eip |-> {"id", "eip"}, unbind_eip |-> {"id", "eip"}]

Needs ==
  [ecs |-> EcsNeeds, eip |-> EipNeeds, vpc |-> NetworkNeeds.vpc,
   subnet |-> NetworkNeeds.subnet, security_group |-> GroupNeeds,
   route_table |-> TableNeeds, acl |-> TableNeeds, image |-> ImageNeeds, vip |-> VipNeeds]

\* Requests without an interface are answered so.
Configured(ask) == ask[1] \in DOMAIN Needs /\ ask[2] \in DOMAIN Needs[ask[1]]

Family(ask) ==
  CASE ask[1] = "ecs" /\ ask[2] \in {"start", "stop", "reboot", "release", "unsubscribe"}
                                            -> "instance"
    [] ask = <<"ecs", "change_vpc">>        -> "network"
    [] ask = <<"ecs", "change_private_ip">> -> "console"
    [] ask = <<"security_group", "update_rule">> -> "rule"
    [] OTHER                                -> "single"

ASSUME AlternativesAssumption == Alternatives \in Nat \ {0}
ASSUME PollsAssumption == Polls \in Nat \ {0}
ASSUME NoneAssumption == None \notin Server \cup Req \cup Asks

-----------------------------------------------------------------------------
VARIABLES
  live,       \* servers that exist at the provider
  name,       \* [Server -> Name]
  known,      \* [Server -> what its row knows: nothing, the order's id, the server's]
  rules,      \* the rules of a security group: sets of [id, body]
  ip,         \* [Server -> None or the request whose address its port has]
  jobs,       \* accepted changes of address that have not been carried out
  lock,       \* holder of the account's operation lock (see Sessions)
  req,        \* [Req -> progress of the request]
  confirmed,  \* history: [Server -> the change its row shows as confirmed]
  hits        \* history: [Req -> servers its calls took effect on]

vars == <<live, name, known, rules, ip, jobs, lock, req, confirmed, hits>>

provider == <<live, name, known, rules, ip, jobs>>

Body == {"a", "b"}
OldId == <<None, 1>>
OldRule == [id |-> OldId, body |-> "a"]
OtherRule == [id |-> <<None, 2>>, body |-> "b"]

NoReq ==
  [pc |-> "idle", ask |-> None, server |-> None, n |-> 0, body |-> "a",
   resolved |-> None, read |-> {}, names |-> {}, words |-> FALSE, answer |-> "none",
   \* the port showed the address before it was asked for, as a secondary one
   shown |-> FALSE,
   \* history: the server was missing, the list that was read passed it over, another
   \* request on the group overlapped, an answer was lost, the rules after its last call
   gone |-> FALSE, missed |-> FALSE, shared |-> FALSE, lost |-> FALSE, left |-> {}]

Init ==
  /\ live \in {Server} \cup {Server \ {s} : s \in Server}
  /\ name \in [Server -> Name]
  /\ known \in [Server -> {"none", "order", "server"}]
  /\ rules \in {{OldRule}, {OldRule, OtherRule}}
  /\ ip = [s \in Server |-> None]
  /\ jobs = {}
  /\ lock = None
  /\ req = [t \in Req |-> NoReq]
  /\ confirmed = [s \in Server |-> None]
  /\ hits = [t \in Req |-> {}]

Active(t) == req[t].pc \notin {"idle", "done"}

Becomes(t, r) == req' = [req EXCEPT ![t] = r]

\* The request ends; the operation is recorded, caches are cleared, a task is queued.
Finished(r, answer) ==
  [r EXCEPT !.pc = "done", !.answer = answer, !.resolved = None, !.read = {}, !.names = {}]

-----------------------------------------------------------------------------
(* run_action: the row is read, the payload checked *)

OnRules(ask) == Family(ask) = "rule"

\* The first stage of a family; a server without any id is refused at once.
FirstStage(ask, s) ==
  CASE ~Configured(ask) -> "done"
    [] ask[1] = "ecs" /\ known[s] = "none" /\ Family(ask) # "console" -> "done"
    [] Family(ask) = "console" -> "lock"
    [] Family(ask) = "rule"    -> "create"
    [] OTHER                   -> Family(ask)

Receive(t, ask, s, b, given) ==
  LET stage == IF Configured(ask) /\ ~(Needs[ask[1]][ask[2]] \subseteq given)
               THEN "done" ELSE FirstStage(ask, s)
      start == [NoReq EXCEPT !.ask = ask, !.server = s, !.body = b, !.n = 1, !.pc = stage,
                             !.left = IF OnRules(ask) THEN rules ELSE {},
                             !.gone = ask[1] = "ecs" /\ s \notin live,
                             !.shared = \E u \in Req : Active(u) /\ OnRules(req[u].ask)]
  IN /\ req[t].pc = "idle"
     /\ req' = [u \in Req |->
          IF u = t THEN IF stage = "done" THEN Finished(start, "failed") ELSE start
          ELSE IF OnRules(ask) /\ Active(u) THEN [req[u] EXCEPT !.shared = TRUE] ELSE req[u]]
     /\ UNCHANGED <<provider, lock, confirmed, hits>>

-----------------------------------------------------------------------------
(* Calls on a server *)

\* Ids are pairs <<kind, server>>; the provider acts on a server's own id only.
\* _ecs_instance_id_candidates: what the row knows, the provider id of the row last.
Candidates(t) ==
  LET s == req[t].server
  IN IF known[s] = "server" THEN << <<"server", s>>, <<"order", s>> >>
     ELSE << <<"order", s>> >>

Exists(id) == id[1] = "server" /\ id[2] \in live

\* What a call on an id can end in: "ok" and "gateway" have taken effect, "timeout"
\* may have.
Ends(id) ==
  IF Exists(id) THEN {"ok", "refused", "gateway", "timeout"} ELSE {"missing", "timeout"}

Took(end, took) == end \in {"ok", "gateway"} \/ (end = "timeout" /\ took)

Acts(id, end, took) == Exists(id) /\ Took(end, took)

Effect(t, id, end, took) ==
  hits' = IF Acts(id, end, took) THEN [hits EXCEPT ![t] = @ \cup {id[2]}] ELSE hits

\* How a request goes on after a call: an answer or a timeout ends it, an error is
\* left to the family.
After(r, end, next) ==
  CASE end = "ok"      -> Finished(r, "ok")
    [] end = "timeout" -> Finished([r EXCEPT !.lost = TRUE], "none")
    [] OTHER           -> next

\* _post_ecs_instance_action: one id after the other while the server is not found.
TryInstance(t) ==
  LET c == Candidates(t) IN
  /\ req[t].pc = "instance"
  /\ \E end \in Ends(c[req[t].n]), took \in BOOLEAN :
       /\ Effect(t, c[req[t].n], end, took)
       /\ Becomes(t, After(req[t], end,
            IF end # "missing" THEN Finished(req[t], "failed")
            ELSE IF req[t].n < Len(c) THEN [req[t] EXCEPT !.n = @ + 1]
            ELSE [req[t] EXCEPT !.pc = "scan", !.n = 1]))
  /\ UNCHANGED <<provider, lock, confirmed>>

\* _resolve_ecs_instance_id: two lists are scanned, page by page.  An item with an id
\* of the row is the server; items with the name that the row gives are kept.
ScanItem(t, s) ==
  /\ req[t].pc = "scan"
  /\ s \in live \ req[t].read
  /\ Becomes(t, IF s = req[t].server THEN [req[t] EXCEPT !.pc = "resolved", !.resolved = s]
       ELSE [req[t] EXCEPT !.read = @ \cup {s},
                           !.names = IF name[s] = name[req[t].server] THEN @ \cup {s} ELSE @])
  /\ UNCHANGED <<provider, lock, confirmed, hits>>

\* A server that is there is passed over: it is beyond page 20, or beyond the first page
\* of an answer that tells no number of pages, the pages shifted as others went, or its
\* item has no instance id.
ScanMisses(t, s) ==
  /\ req[t].pc = "scan"
  /\ s \in live \ req[t].read
  /\ Becomes(t, [req[t] EXCEPT !.read = @ \cup {s}, !.missed = @ \/ s = req[t].server])
  /\ UNCHANGED <<provider, lock, confirmed, hits>>

NextScan(t) ==
  IF req[t].n = 1
  THEN [req[t] EXCEPT !.n = 2, !.read = {}, !.names = {}, !.missed = FALSE]
  ELSE Finished(req[t], "failed")

\* Mutant: any server of the name will do.
ScanEnds_AnyOfName(t) ==
  /\ req[t].pc = "scan"
  /\ req[t].names # {} \/ live \subseteq req[t].read
  /\ \/ \E s \in req[t].names :
          Becomes(t, [req[t] EXCEPT !.pc = "resolved", !.resolved = s])
     \/ req[t].names = {} /\ Becomes(t, NextScan(t))
  /\ UNCHANGED <<provider, lock, confirmed, hits>>

\* When a list has been read as far as it is read, the name decides, if one server that
\* it showed has it.
ScanEnds(t) ==
  /\ req[t].pc = "scan"
  /\ live \subseteq req[t].read
  /\ \/ \E s \in req[t].names :
          /\ req[t].names = {s}
          /\ Becomes(t, [req[t] EXCEPT !.pc = "resolved", !.resolved = s])
     \/ /\ \A s \in req[t].names : req[t].names # {s}
        /\ Becomes(t, NextScan(t))
  /\ UNCHANGED <<provider, lock, confirmed, hits>>

\* A list cannot be read: the next one is scanned.
ScanFails(t) ==
  /\ req[t].pc = "scan"
  /\ Becomes(t, NextScan(t))
  /\ UNCHANGED <<provider, lock, confirmed, hits>>

\* The server that was found is acted on, unless its id has been tried.
CallResolved(t) ==
  LET s == req[t].resolved
      tried == \E i \in 1..Len(Candidates(t)) : Candidates(t)[i] = <<"server", s>>
  IN /\ req[t].pc = "resolved"
     /\ \E end \in Ends(<<"server", s>>), took \in BOOLEAN :
          IF tried
          THEN /\ Becomes(t, Finished(req[t], "failed"))
               /\ hits' = hits
          ELSE /\ Effect(t, <<"server", s>>, end, took)
               /\ Becomes(t, After(req[t], end, Finished(req[t], "failed")))
     /\ UNCHANGED <<provider, lock, confirmed>>

\* Neither the row nor a list of the ports names an interface: the request is refused.
NoInterface(t) ==
  /\ req[t].pc = "network"
  /\ req[t].n = 1
  /\ Becomes(t, Finished(req[t], "failed"))
  /\ UNCHANGED <<provider, lock, confirmed, hits>>

\* The alternatives of a change of network: every error leads to the next.  The port
\* gets an address of its new subnet.
ChangeNetwork(t) ==
  LET id == Candidates(t)[1] IN
  /\ req[t].pc = "network"
  /\ \E end \in Ends(id), took \in BOOLEAN :
       /\ Effect(t, id, end, took)
       /\ ip' = IF Acts(id, end, took) THEN [ip EXCEPT ![id[2]] = t] ELSE ip
       /\ Becomes(t, After(req[t], end,
            IF req[t].n < Alternatives THEN [req[t] EXCEPT !.n = @ + 1]
            ELSE Finished(req[t], "failed")))
  /\ UNCHANGED <<live, name, known, rules, jobs, lock, confirmed>>

\* Every other action is one call; on a server it uses the first id only.
CallOnce(t) ==
  LET id == IF req[t].ask[1] = "ecs" THEN Candidates(t)[1] ELSE <<"object", None>> IN
  /\ req[t].pc = "single"
  /\ \E end \in {"refused"} \cup Ends(id) \cup (IF req[t].ask[1] = "ecs" THEN {} ELSE {"ok"}),
        took \in BOOLEAN :
       /\ Effect(t, id, end, took)
       /\ Becomes(t, After(req[t], end, Finished(req[t], "failed")))
  /\ UNCHANGED <<provider, lock, confirmed>>

-----------------------------------------------------------------------------
(* update_rule *)

\* The interface knows a rule by its id and refuses a second rule with one body.
\* Of an error only the words count: those of a duplicate, which those of a missing
\* rule ("not exist") or of another refusal ("already in use") resemble.
CreateEnds(b) ==
  IF \E x \in rules : x.body = b THEN {"duplicate", "timeout"}
  ELSE {"ok", "refused", "like duplicate", "gateway", "timeout"}

RevokeEnds(i) ==
  IF \E x \in rules : x.id = i
  THEN {"ok", "refused", "like duplicate", "gateway", "timeout"}
  ELSE {"missing", "like duplicate", "timeout"}

Words(end) == end \in {"duplicate", "like duplicate"}

\* The rules after a creation or a revocation that took effect.
Created(t, k) ==
  IF \E x \in rules : x.body = req[t].body THEN rules
  ELSE rules \cup {[id |-> <<t, k>>, body |-> req[t].body]}

Revoked(i) == {x \in rules : x.id # i}

\* One call on the group and how the request goes on.
RuleCall(t, ends, effect, Goes(_, _)) ==
  /\ \E end \in ends, took \in BOOLEAN :
       /\ rules' = IF Took(end, took) THEN effect ELSE rules
       /\ LET r == IF end = "timeout" THEN After(req[t], end, req[t])
                   ELSE Goes([req[t] EXCEPT !.lost = @ \/ end = "gateway"], end)
          IN Becomes(t, [r EXCEPT !.left = rules'])
  /\ UNCHANGED <<live, name, known, ip, jobs, lock, confirmed, hits>>

\* Mutant: every error is taken for that of a duplicate.
CreateRule_AnyError(t) ==
  LET Goes(r, end) == [r EXCEPT !.pc = IF end = "ok" THEN "revoke" ELSE "revoke2",
                                !.words = Words(end)]
  IN req[t].pc = "create" /\ RuleCall(t, CreateEnds(req[t].body), Created(t, 1), Goes)

\* The new rule is created first.
CreateRule(t) ==
  LET Goes(r, end) == IF end = "ok" THEN [r EXCEPT !.pc = "revoke"]
                      ELSE IF Words(end) THEN [r EXCEPT !.pc = "revoke2", !.words = TRUE]
                      ELSE Finished(r, "failed")
  IN req[t].pc = "create" /\ RuleCall(t, CreateEnds(req[t].body), Created(t, 1), Goes)

\* Mutant: the request succeeds although the old rule stays.
RevokeOld_Ignored(t) ==
  LET Goes(r, end) == Finished(r, "ok")
  IN req[t].pc = "revoke" /\ RuleCall(t, RevokeEnds(OldId), Revoked(OldId), Goes)

\* The old rule is revoked; if that fails, the new one is, as far as the answer of
\* the creation named it.
RevokeOld(t) ==
  LET Goes(r, end) == IF end = "ok" THEN Finished(r, "ok")
                      ELSE [r EXCEPT !.pc = "rollback", !.words = Words(end)]
  IN req[t].pc = "revoke" /\ RuleCall(t, RevokeEnds(OldId), Revoked(OldId), Goes)

\* The error that is raised then passes the handler of duplicates, too.
AfterRollback(r, words) ==
  IF r.words \/ words THEN [r EXCEPT !.pc = "revoke2", !.words = TRUE]
  ELSE Finished(r, "failed")

RollBack(t) ==
  LET Goes(r, end) == AfterRollback(r, Words(end)) IN
  /\ req[t].pc = "rollback"
  /\ \/ RuleCall(t, RevokeEnds(<<t, 1>>), Revoked(<<t, 1>>), Goes)
     \/ RuleCall(t, {"refused"}, rules, Goes)

\* A rule with the new body is there: the old one goes first, then the new is created.
RevokeFirst(t) ==
  LET Goes(r, end) == IF end = "ok" THEN [r EXCEPT !.pc = "recreate"]
                      ELSE Finished(r, "failed")
  IN req[t].pc = "revoke2" /\ RuleCall(t, RevokeEnds(OldId), Revoked(OldId), Goes)

CreateAgain(t) ==
  LET Goes(r, end) == Finished([r EXCEPT !.n = 2], IF end = "ok" THEN "ok" ELSE "failed")
  IN req[t].pc = "recreate" /\ RuleCall(t, CreateEnds(req[t].body), Created(t, 2), Goes)

-----------------------------------------------------------------------------
(* change_console_ecs_private_ip *)

TakeLock(t) ==
  /\ req[t].pc = "lock"
  /\ lock = None
  /\ lock' = t
  /\ req' = [req EXCEPT ![t].pc = "port"]
  /\ UNCHANGED <<provider, confirmed, hits>>

\* Mutant: the lock is not given back.
ConsoleFails_KeepsLock(t) ==
  /\ Becomes(t, Finished([req[t] EXCEPT !.lost = t \in jobs \/ ip[req[t].server] = t], "failed"))
  /\ UNCHANGED <<provider, lock, confirmed, hits>>

\* The request gives the lock back with an error.
ConsoleFails(t) ==
  /\ lock' = None
  /\ Becomes(t, Finished([req[t] EXCEPT !.lost = t \in jobs \/ ip[req[t].server] = t], "failed"))
  /\ UNCHANGED <<provider, confirmed, hits>>

\* The session, the console or the region cannot be used, or no port is found.
NoPort(t) == req[t].pc = "port" /\ ConsoleFails(t)

\* _console_find_port: the interface the row names, or one of the server.  That it may
\* have the address already, as a secondary one, is not looked at.
FindPort(t) ==
  /\ req[t].pc = "port"
  /\ req[t].server \in live
  /\ known[req[t].server] # "none"
  /\ \E shown \in BOOLEAN : Becomes(t, [req[t] EXCEPT !.pc = "submit", !.shown = shown])
  /\ UNCHANGED <<provider, lock, confirmed, hits>>

\* Mutant: what the console accepted is taken for done.
Submit_Trusts(t) ==
  /\ req[t].pc = "submit"
  /\ jobs' = jobs \cup {t}
  /\ lock' = None
  /\ Becomes(t, Finished(req[t], "ok"))
  /\ confirmed' = [confirmed EXCEPT ![req[t].server] = t]
  /\ hits' = [hits EXCEPT ![t] = @ \cup {req[t].server}]
  /\ UNCHANGED <<live, name, known, rules, ip>>

\* The console accepts the change as a job.
Submit(t) ==
  /\ req[t].pc = "submit"
  /\ jobs' = jobs \cup {t}
  /\ req' = [req EXCEPT ![t].pc = "poll"]
  /\ hits' = [hits EXCEPT ![t] = @ \cup {req[t].server}]
  /\ UNCHANGED <<live, name, known, rules, ip, lock, confirmed>>

\* It is refused, or its answer is lost although it was accepted.
SubmitFails(t) ==
  /\ req[t].pc = "submit"
  /\ \E took \in BOOLEAN :
       /\ jobs' = IF took THEN jobs \cup {t} ELSE jobs
       /\ hits' = IF took THEN [hits EXCEPT ![t] = @ \cup {req[t].server}] ELSE hits
       /\ Becomes(t, Finished([req[t] EXCEPT !.lost = took], "failed"))
  /\ lock' = None
  /\ UNCHANGED <<live, name, known, rules, ip, confirmed>>

\* A look at the addresses of the port, the secondary ones too.  The address is
\* confirmed and applied to the row, or looked for again.
Poll(t) ==
  /\ req[t].pc = "poll"
  /\ \/ /\ ip[req[t].server] = t \/ req[t].shown
        /\ lock' = None
        /\ confirmed' = [confirmed EXCEPT ![req[t].server] = t]
        /\ Becomes(t, Finished(req[t], "ok"))
     \/ /\ ip[req[t].server] # t
        /\ req[t].n < Polls
        /\ Becomes(t, [req[t] EXCEPT !.n = @ + 1])
        /\ UNCHANGED <<lock, confirmed>>
  /\ UNCHANGED <<provider, hits>>

\* A look fails, or it was the last.
PollFails(t) == req[t].pc = "poll" /\ ConsoleFails(t)

-----------------------------------------------------------------------------
(* The provider and the process *)

ServerGoes(s) ==
  /\ s \in live
  /\ live' = live \ {s}
  /\ req' = [t \in Req |-> [req[t] EXCEPT !.gone = @ \/ (Active(t) /\ req[t].server = s)]]
  /\ UNCHANGED <<name, known, rules, ip, jobs, lock, confirmed, hits>>

\* The console carries a job out, at any time and in any order, or gives it up.
RunJob(t, done) ==
  /\ t \in jobs
  /\ jobs' = jobs \ {t}
  /\ ip' = IF done THEN [ip EXCEPT ![req[t].server] = t] ELSE ip
  /\ UNCHANGED <<live, name, known, rules, lock, req, confirmed, hits>>

\* The process stops: no request goes on.
Stop ==
  /\ \E t \in Req : Active(t)
  /\ lock' = None
  /\ req' = [t \in Req |-> IF Active(t)
                           THEN Finished([req[t] EXCEPT !.lost = TRUE], "none") ELSE req[t]]
  /\ UNCHANGED <<provider, confirmed, hits>>

-----------------------------------------------------------------------------
\* Everything the action needs, or all but one thing.
Given(ask) ==
  IF Configured(ask)
  THEN LET n == Needs[ask[1]][ask[2]] IN {n} \cup {n \ {f} : f \in n}
  ELSE {{}}

Step(t) ==
  \/ TryInstance(t) \/ ScanEnds(t) \/ ScanFails(t) \/ CallResolved(t)
  \/ \E s \in Server : ScanItem(t, s) \/ ScanMisses(t, s)
  \/ NoInterface(t) \/ ChangeNetwork(t) \/ CallOnce(t)
  \/ CreateRule(t) \/ RevokeOld(t) \/ RollBack(t) \/ RevokeFirst(t) \/ CreateAgain(t)
  \/ TakeLock(t) \/ NoPort(t) \/ FindPort(t) \/ Submit(t) \/ SubmitFails(t)
  \/ Poll(t) \/ PollFails(t)

Next ==
  \/ \E t \in Req, ask \in Asks :
       \E s \in (IF ask[1] = "ecs" THEN Server ELSE {None}),
          b \in (IF OnRules(ask) THEN Body ELSE {"a"}), given \in Given(ask) :
         Receive(t, ask, s, b, given)
  \/ \E t \in Req : Step(t)
  \/ \E s \in Server : ServerGoes(s)
  \/ \E t \in Req, done \in BOOLEAN : RunJob(t, done)
  \/ Stop

Spec == Init /\ [][Next]_vars

-----------------------------------------------------------------------------
(* Properties *)

Stages == {"idle", "done", "instance", "scan", "resolved", "network", "single",
           "create", "revoke", "rollback", "revoke2", "recreate",
           "lock", "port", "submit", "poll"}

TypeOK ==
  /\ live \subseteq Server
  /\ name \in [Server -> Name]
  /\ known \in [Server -> {"none", "order", "server"}]
  /\ rules \subseteq [id : ({None} \cup Req) \X {1, 2}, body : Body]
  /\ ip \in [Server -> Req \cup {None}]
  /\ jobs \subseteq Req
  /\ lock \in Req \cup {None}
  /\ confirmed \in [Server -> Req \cup {None}]
  /\ hits \in [Req -> SUBSET Server]
  /\ DOMAIN req = Req
  /\ \A t \in Req :
       /\ DOMAIN req[t] = DOMAIN NoReq
       /\ req[t].pc \in Stages
       /\ req[t].answer \in {"none", "ok", "failed"}
       /\ req[t].n \in 0..(2 + Alternatives + Polls)
       /\ req[t].read \cup req[t].names \subseteq Server
  /\ \A t \in Req : lock = t <=> req[t].pc \in {"port", "submit", "poll"}

\* An action never takes effect on a server of another name than the one of the row, and
\* on a namesake only if the server has gone, or if its row has lost the server's id and
\* the list that was looked up had passed the server over.
TargetOnly ==
  \A t \in Req : \A s \in hits[t] :
    \/ s = req[t].server
    \/ /\ name[s] = name[req[t].server]
       /\ req[t].gone \/ (known[req[t].server] # "server" /\ req[t].missed)

\* A change of a rule that reports success has left the new rule in the group and not
\* the old one, if no other change of the group overlapped with it.
RuleReplaced ==
  \A t \in Req :
    (req[t].ask # None /\ OnRules(req[t].ask) /\ req[t].answer = "ok" /\ ~req[t].shared) =>
      /\ \E x \in req[t].left : x.body = req[t].body
      /\ OldRule \notin req[t].left

\* The group never ends without the old and the new rule, whatever step of the change
\* fails, if no other request changes it: only a lost answer, a stop, or a refusal of
\* the second creation (n = 2), for which the old rule was revoked because an error
\* read like that of a duplicate, can do that.
RuleKept ==
  \A t \in Req :
    (/\ req[t].ask # None /\ OnRules(req[t].ask) /\ req[t].pc = "done"
     /\ ~req[t].lost /\ ~(req[t].words /\ req[t].n = 2)
     /\ \A u \in Req \ {t} : req[u].ask = None \/ ~OnRules(req[u].ask))
      => \E x \in req[t].left : x = OldRule \/ x.body = req[t].body

\* A request that can still change an address: it is under way, it was given up while its
\* job was open, or it was confirmed by an address that the port had before.
Unsettled(t) == Active(t) \/ req[t].lost \/ req[t].shown

\* The address a row shows as confirmed is the address of the port, unless a change of
\* network has moved the port since, or a change of the server's address is unsettled.
ConfirmedHolds ==
  \A s \in Server :
    confirmed[s] # None =>
      \/ ip[s] = confirmed[s]
      \/ ip[s] # None /\ Family(req[ip[s]].ask) = "network"
      \/ \E t \in Req : /\ req[t].server = s
                        /\ Family(req[t].ask) = "console"
                        /\ Unsettled(t)
=============================================================================
