------------------------------ MODULE VpnHosts ------------------------------
(***************************************************************************)
(* A Linux server that the Python server manages over SSH as an L2TP VPN   *)
(* host: the handlers of /api/linux/servers (app/main.py), the calls of    *)
(* app/services/ssh_manager.py, and the script they start on the host      *)
(* (install-l2tp-server.sh).                                               *)
(*                                                                         *)
(* A handler reads the row of the server once and works over SSH in a      *)
(* thread.  Nothing keeps two of them apart, and none waits for the script *)
(* longer than its deadline; the script then runs on.  A watcher on the    *)
(* host (a systemd path unit) starts the script, too, when the user list   *)
(* changes.  The script has no lock: its runs interleave, step by step, on *)
(* the same files.                                                         *)
(*                                                                         *)
(* A user list stands for the text of users.conf; the account lines it     *)
(* yields in chap-secrets are one line, between the script's two markers.  *)
(* What else the script configures, and server.conf, are left out, and so  *)
(* is the row: of a host key it has the type and the constant beginning,   *)
(* which a request may find to fit or not, whatever key the host has.      *)
(***************************************************************************)
EXTENDS Naturals, Sequences, FiniteSets

CONSTANTS
  Req,        \* slots for requests under way
  Config,     \* user lists the script accepts
  Bad,        \* user lists it refuses
  Default,    \* the list the script makes up when there is none
  Watch,      \* the watcher's run of the script
  MaxAsked,   \* bound of the model on requests
  MaxFaults,  \* bound of the model on failed calls and killed runs
  None        \* no list

ASSUME BoundAssumption == {MaxAsked, MaxFaults} \subseteq Nat
ASSUME NameAssumption  ==
  /\ Watch \notin Req
  /\ Config \cap Bad = {} /\ Default \notin Config \cup Bad
  /\ {"begin", "end"} \cap (Config \cup Bad \cup {Default}) = {}
  /\ None \notin Config \cup Bad \cup {Default} \cup Req \cup {Watch}

VARIABLES
  req,      \* [Req -> the request in the slot], in memory of the server
  file,     \* users.conf
  chap,     \* the script's part of chap-secrets, line by line
  map,      \* users.tsv, what the hooks of a connection look up
  helper,   \* l2tp-vpn-apply-config.sh is there
  watched,  \* the watcher is enabled
  changed,  \* the watcher has seen a change
  run,      \* [Run -> a run of the script]
  asked, faults, \* counters that bound the model
  torn      \* history: a run cut into the lines another was appending

host == <<file, chap, map, helper, watched, changed, run>>
vars == <<req, host, asked, faults, torn>>

Run   == Req \cup {Watch}
Kinds == {"save", "apply", "install"}
Busy  == {"parse", "read", "replace", "begin", "user", "end", "map"}

NoRun == [pc |-> "none", conf |-> None, rest |-> <<>>, alone |-> FALSE]

NoRequest ==
  [pc |-> "idle", kind |-> None, content |-> None, apply |-> FALSE, ok |-> FALSE,
   applied |-> None, since |-> {}]

Failed == [NoRun EXCEPT !.pc = "failed"]

Active(k) == run[k].pc \in Busy

Fault == faults < MaxFaults /\ faults' = faults + 1

Init ==
  /\ req = [r \in Req |-> NoRequest]
  /\ \/ /\ file = None /\ chap = <<>> /\ map = None
        /\ helper = FALSE /\ watched = FALSE
     \/ /\ file \in Config /\ chap = <<"begin", file, "end">> /\ map = file
        /\ helper = TRUE /\ watched = TRUE
  /\ changed = FALSE
  /\ run = [k \in Run |-> NoRun]
  /\ asked = 0
  /\ faults = 0
  /\ torn = FALSE

-----------------------------------------------------------------------------
(* Requests *)

\* A request arrives; the list or the script goes to the host first.
Begin(r, kind, content, apply) ==
  /\ req[r].pc = "idle" /\ ~Active(r)
  /\ asked < MaxAsked
  /\ asked' = asked + 1
  /\ req' = [req EXCEPT ![r] =
       [NoRequest EXCEPT
          !.pc = IF kind = "apply" THEN "command" ELSE "upload",
          !.kind = kind, !.content = content, !.apply = apply]]
  /\ UNCHANGED <<host, faults, torn>>

\* The answer, good or bad, leaves nothing of the request in the server.
Answered(r) == [req EXCEPT ![r] = NoRequest]

Breaks(r) == Fault /\ req' = Answered(r)

\* write_remote_file of a temporary file with the list or the script.
Upload(r) ==
  /\ req[r].pc = "upload"
  /\ \/ req' = [req EXCEPT ![r].pc = "uploaded"] /\ UNCHANGED faults
     \/ Breaks(r)
  /\ UNCHANGED <<host, asked, torn>>

\* ensure_linux_fingerprint, after the upload and after the command: what is kept of the
\* host key fits the row that was read, or the request is refused.
EnsureFingerprint(r) ==
  /\ req[r].pc \in {"uploaded", "ended"}
  /\ \/ req[r].pc = "uploaded" /\ req' = [req EXCEPT ![r].pc = "command"]
     \/ req' = Answered(r)
  /\ UNCHANGED <<host, asked, faults, torn>>

-----------------------------------------------------------------------------
(* The command on the host *)

\* users.conf becomes c.  The watcher may miss a change while its run is on; a run
\* that is over, or under way elsewhere, is not the last word any more.
ListBecomes(c) ==
  /\ file' = c
  /\ changed' \in IF ~watched THEN {FALSE} ELSE IF Active(Watch) THEN BOOLEAN ELSE {TRUE}

Disturbed(k) == [j \in Run |-> IF j = k THEN run[j] ELSE [run[j] EXCEPT !.alone = FALSE]]

\* Every request that has installed its list has now also met list c.
Met(rs, c) ==
  [r \in Req |-> IF rs[r].since = {} THEN rs[r] ELSE [rs[r] EXCEPT !.since = @ \cup {c}]]

\* A run of the script begins; with others under way it is not alone, nor are they.
Started(k, runs) ==
  [runs EXCEPT ![k] = [NoRun EXCEPT !.pc = "parse",
                         !.alone = \A j \in Run \ {k} : ~Active(j)]]

\* Mutant: the command goes on when the list could not be put in place.
CommandFails_Ignored(r) ==
  /\ req[r].pc = "command" /\ req[r].apply /\ helper
  /\ Fault
  /\ run' = Started(r, Disturbed(r))
  /\ req' = [req EXCEPT ![r].pc = "running", ![r].since = {req[r].content}]
  /\ UNCHANGED <<file, chap, map, helper, watched, changed, asked, torn>>

\* The connection breaks before the command, or its first step fails on the host.
CommandFails(r) ==
  /\ req[r].pc = "command"
  /\ Breaks(r)
  /\ UNCHANGED <<host, asked, torn>>

\* linux_l2tp_save_config without apply.
SaveOnly(r) ==
  /\ req[r].pc = "command" /\ req[r].kind = "save" /\ ~req[r].apply
  /\ ListBecomes(req[r].content)
  /\ run' = Disturbed(None)
  /\ req' = [Met(req, req[r].content) EXCEPT ![r].pc = "ended"]
  /\ UNCHANGED <<chap, map, helper, watched, asked, faults, torn>>

\* linux_l2tp_save_config with apply: the list is put in place and the script started;
\* where it is not installed yet the command fails with the list in place.
SaveAndApply(r) ==
  /\ req[r].pc = "command" /\ req[r].kind = "save" /\ req[r].apply
  /\ ListBecomes(req[r].content)
  /\ run' = IF helper THEN Started(r, Disturbed(None)) ELSE Disturbed(None)
  /\ req' = [Met(req, req[r].content) EXCEPT
               ![r].pc = IF helper THEN "running" ELSE "ended",
               ![r].ok = FALSE, ![r].since = {req[r].content}]
  /\ UNCHANGED <<chap, map, helper, watched, asked, faults, torn>>

\* linux_l2tp_apply, and linux_l2tp_install, whose command brings the script along.
ApplyOrInstall(r) ==
  /\ req[r].pc = "command" /\ req[r].kind \in {"apply", "install"}
  /\ LET starts == helper \/ req[r].kind = "install"
     IN /\ run' = IF starts THEN Started(r, Disturbed(None)) ELSE run
        /\ req' = [req EXCEPT ![r].pc = IF starts THEN "running" ELSE "ended",
                              ![r].ok = FALSE]
  /\ UNCHANGED <<file, chap, map, helper, watched, changed, asked, faults, torn>>

\* run_ssh_command sees the exit status of the script.
CommandExits(r) ==
  /\ req[r].pc = "running" /\ ~Active(r)
  /\ req' = [req EXCEPT ![r].pc = "ended", ![r].ok = (run[r].pc = "ok"),
                        ![r].applied = run[r].conf]
  /\ run' = [run EXCEPT ![r] = NoRun]
  /\ UNCHANGED <<file, chap, map, helper, watched, changed, asked, faults, torn>>

\* The deadline of run_ssh_command: the request fails and the connection is closed; the
\* script is not stopped.
Deadline(r) ==
  /\ req[r].pc = "running"
  /\ req' = Answered(r)
  /\ UNCHANGED <<host, asked, faults, torn>>

-----------------------------------------------------------------------------
(* The script, for a request or for the watcher *)

Step(k, from, to) == run[k].pc = from /\ run' = [run EXCEPT ![k].pc = to]

\* l2tp-vpn-apply-users.service, which starts the script.
WatcherStarts ==
  /\ watched /\ changed /\ ~Active(Watch)
  /\ changed' = FALSE
  /\ run' = Started(Watch, Disturbed(None))
  /\ UNCHANGED <<req, file, chap, map, helper, watched, asked, faults, torn>>

\* parse_users: a list it refuses ends the run before it has written anything; without
\* a list it makes one up.
ParseUsers(k) ==
  /\ run[k].pc = "parse"
  /\ run' = IF file \in Bad THEN [run EXCEPT ![k] = Failed]
            ELSE [run EXCEPT ![k].pc = "read", ![k].conf = IF file = None THEN Default ELSE file]
  /\ UNCHANGED <<req, file, chap, map, helper, watched, changed, asked, faults,
                 torn>>

\* Mutant: only blocks with both markers are taken out.
Purged_Closed(s) == IF Len(s) > 0 /\ s[Len(s)] = "end" THEN <<>> ELSE s

\* The lines that sed '/begin/,/end/d' leaves: an end separates each from every begin.
Outside(s) ==
  {i \in DOMAIN s : \A b \in 1..i : s[b] = "begin" => \E e \in (b + 1)..(i - 1) : s[e] = "end"}

\* They move up; after a begin without an end nothing is left.
Purged(s) ==
  LET place(i) == Cardinality({m \in Outside(s) : m <= i})
  IN [n \in 1..Cardinality(Outside(s)) |-> s[CHOOSE i \in Outside(s) : place(i) = n]]

\* write_user_editable_config, for a host without a list, and write_apply_config_script;
\* then write_chap_users reads the accounts and puts the rest into a temporary file,
ReadChap(k) ==
  /\ run[k].pc = "read"
  /\ LET next == [run[k] EXCEPT !.pc = "replace", !.rest = Purged(chap)]
     IN IF file # None
        THEN run' = [run EXCEPT ![k] = next] /\ UNCHANGED <<file, changed, req>>
        ELSE /\ ListBecomes(run[k].conf)
             /\ run' = [Disturbed(k) EXCEPT ![k] = next]
             /\ req' = Met(req, run[k].conf)
  /\ helper' = TRUE
  /\ UNCHANGED <<chap, map, watched, asked, faults, torn>>

Appending(k) == \E j \in Run \ {k} : run[j].pc \in {"user", "end"}

\* puts that in the place of the file,
ReplaceChap(k) ==
  /\ run[k].pc = "replace"
  /\ chap' = run[k].rest
  /\ run' = [run EXCEPT ![k].pc = "begin", ![k].rest = <<>>]
  /\ torn' = (torn \/ Appending(k))
  /\ UNCHANGED <<req, file, map, helper, watched, changed, asked, faults>>

\* and appends the lines of the users between its markers, one after another.
AppendChap(k) ==
  /\ \/ Step(k, "begin", "user") /\ chap' = Append(chap, "begin")
     \/ Step(k, "user", "end")   /\ chap' = Append(chap, run[k].conf)
     \/ Step(k, "end", "map")    /\ chap' = Append(chap, "end")
  /\ torn' = (torn \/ (run[k].pc = "begin" /\ Appending(k)))
  /\ UNCHANGED <<req, file, map, helper, watched, changed, asked, faults>>

\* write_user_runtime_config, and restart_services, which enables the watcher.
WriteMap(k) ==
  /\ Step(k, "map", "ok")
  /\ map' = run[k].conf
  /\ watched' = TRUE
  /\ UNCHANGED <<req, file, chap, helper, changed, asked, faults, torn>>

\* A command of the script fails, the run is killed, or it writes to a connection that
\* the deadline has closed.
RunDies(k) ==
  /\ Active(k)
  /\ \/ Fault
     \/ k # Watch /\ req[k].pc # "running" /\ UNCHANGED faults
  /\ run' = [run EXCEPT ![k] = Failed]
  /\ UNCHANGED <<req, file, chap, map, helper, watched, changed, asked, torn>>

-----------------------------------------------------------------------------
Serve(r) ==
  \/ Upload(r) \/ EnsureFingerprint(r)
  \/ SaveOnly(r) \/ SaveAndApply(r) \/ ApplyOrInstall(r)
  \/ CommandExits(r) \/ Deadline(r)

Script(k) ==
  \/ ParseUsers(k) \/ ReadChap(k) \/ ReplaceChap(k)
  \/ AppendChap(k) \/ WriteMap(k) \/ RunDies(k)

Arrives(r) ==
  \/ \E c \in Config \cup Bad, apply \in BOOLEAN : Begin(r, "save", c, apply)
  \/ \E kind \in Kinds \ {"save"} : Begin(r, kind, None, FALSE)

Next ==
  \/ \E r \in Req : Arrives(r) \/ Serve(r) \/ CommandFails(r)
  \/ \E k \in Run : Script(k)
  \/ WatcherStarts

Spec == Init /\ [][Next]_vars

-----------------------------------------------------------------------------
(* Properties *)

List == Config \cup Bad \cup {Default}
Line == Config \cup {Default, "begin", "end"}

RequestType ==
  [pc : {"upload", "uploaded", "command", "running", "ended", "idle"},
   kind : Kinds \cup {None}, content : Config \cup Bad \cup {None}, apply : BOOLEAN,
   ok : BOOLEAN, applied : List \cup {None}, since : SUBSET List]

RunType ==
  [pc : Busy \cup {"none", "ok", "failed"}, conf : Config \cup {Default, None},
   rest : Seq(Line), alone : BOOLEAN]

\* Type correctness of the requests, the host's files and the runs.
TypeOK ==
  /\ req \in [Req -> RequestType]
  /\ file \in List \cup {None}
  /\ chap \in Seq(Line)
  /\ map \in Config \cup {Default, None}
  /\ {helper, watched, changed, torn} \subseteq BOOLEAN
  /\ run \in [Run -> RunType]
  /\ asked \in 0..MaxAsked
  /\ faults \in 0..MaxFaults

\* A run that ends well and had the host to itself leaves the accounts of the list,
\* once, and the map of the same list, whatever runs that failed, were killed or
\* overlapped have left, as long as none cut into the lines another was appending.
Healed ==
  \A k \in Run : run[k].pc = "ok" /\ run[k].alone /\ ~torn
                   => chap = <<"begin", file, "end">> /\ map = file

\* A save that is reported as applied was applied: the script has read its list, or one
\* that took its place after it, whatever other saves and runs were under way.
SaveApplied ==
  \A r \in Req : req[r].pc = "ended" /\ req[r].kind = "save" /\ req[r].apply /\ req[r].ok
                   => req[r].applied \in req[r].since
=============================================================================
