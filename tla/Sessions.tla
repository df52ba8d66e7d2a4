------------------------------ MODULE Sessions ------------------------------
(***************************************************************************)
(* Login data, saved cookie and browser session of one account in the      *)
(* Python server (app/main.py, app/services/browser_automation.py).        *)
(*                                                                         *)
(* A finance operation (a queue worker's, a one-off refresh, a handler's)  *)
(* reads the account's row, waits for the account's operation lock, reads  *)
(* the balance with the saved cookie or else through a browser session,    *)
(* and stores what it found when it releases the lock.  The login can      *)
(* change at any time; the session is then thrown away under the lock.  A  *)
(* clean-up closes idle sessions.  Everything runs in one event loop: a    *)
(* step below is what happens between two awaits.                          *)
(*                                                                         *)
(* A cookie is represented by the login it authenticates, a balance by the *)
(* login it belongs to.  Accounts share nothing but the browser process.   *)
(***************************************************************************)
EXTENDS OperationLock, Naturals, FiniteSets

CONSTANTS
  Worker,      \* finance_refresh_worker tasks
  Refresh,     \* refresh_account_finance_once tasks and balance handlers
  Login,       \* the logins the account may have
  MaxChanges,  \* bound of the model on changes of the login
  None         \* no cookie, no balance, nothing

ASSUME MaxChangesAssumption == MaxChanges \in Nat
ASSUME NoneAssumption == None \notin Login \cup {"out", "closed"}
ASSUME LoginAssumption == Login \cap {"out", "closed"} = {}
ASSUME OpAssumption ==
  /\ Worker \cap Refresh = {}
  /\ (Worker \cup Refresh) \cap {"reset", "cleanup"} = {}

Op == Worker \cup Refresh

VARIABLES
  row,      \* login and cookie_state_enc of the account's row      (SQLite)
  balance,  \* whose balance was stored under the present login     (SQLite)
  pending,  \* finance_refresh_pending holds the account            (memory)
  queued,   \* entries of the account in finance_refresh_queue      (memory)
  session,  \* login of the context in _sessions; "out", "closed"   (memory)
  idle,     \* the session was not used for browser_session_idle_seconds
  op,       \* [Op -> its progress, the row it read, what it found] (memory)
  cleanup,  \* the clean-up's reference to the session              (memory)
  changes,  \* changes of the login so far
  mixed     \* history: the login changed while an operation was under way

queue   == <<pending, queued>>
browser == <<session, idle>>
history == <<changes, mixed>>
vars    == <<row, balance, queue, browser, line, op, cleanup, history>>

AtRest(pc) == [pc |-> pc, login |-> None, cookie |-> None, saved |-> None]

NoOp == AtRest("idle")

InUse == {o \in Op : op[o].pc \notin {"idle", "discover"}}

Locked == line # <<>> /\ Head(line) \in Op /\ op[Head(line)].pc # "wait"

Init ==
  /\ \E l \in Login : row = [login |-> l, cookie |-> None]
  /\ balance = None
  /\ pending = FALSE
  /\ queued = 0
  /\ session = "closed"
  /\ idle = FALSE
  /\ line = <<>>
  /\ op = [o \in Op |-> NoOp]
  /\ cleanup = "off"
  /\ changes = 0
  /\ mixed = FALSE

-----------------------------------------------------------------------------
(* The queue of refreshes *)

\* queue_finance_refresh: at most one entry of an account at a time.
QueueRefresh ==
  /\ ~pending
  /\ pending' = TRUE
  /\ queued' = queued + 1
  /\ UNCHANGED <<row, balance, browser, line, op, cleanup, history>>

\* get_account and the request for the lock, without an await between them.
Begin(o) ==
  /\ op[o].pc = "idle"
  /\ op' = [op EXCEPT ![o] = [pc |-> "wait", login |-> row.login, cookie |-> row.cookie,
                              saved |-> None]]
  /\ line' = Append(line, o)

\* Mutant: the account leaves the pending set when a worker takes it.
TakeRefresh_Unpending(o) ==
  /\ queued > 0
  /\ queued' = queued - 1
  /\ pending' = FALSE
  /\ Begin(o)
  /\ UNCHANGED <<row, balance, browser, cleanup, history>>

TakeRefresh(o) ==
  /\ queued > 0
  /\ queued' = queued - 1
  /\ Begin(o)
  /\ UNCHANGED <<row, balance, pending, browser, cleanup, history>>

StartRefresh(o) ==
  /\ Begin(o)
  /\ UNCHANGED <<row, balance, queue, browser, cleanup, history>>

\* Mutant: a worker that fails leaves the account in the pending set.
AfterOp_KeepsPending(o) == pending

\* The finally of a worker takes the account out of the pending set.
AfterOp(o) == pending /\ o \notin Worker

-----------------------------------------------------------------------------
(* get_finance, for the row the operation read *)

Acquire(o) ==
  /\ op[o].pc = "wait"
  /\ Holds(o)
  /\ op' = [op EXCEPT ![o].pc = "cookie"]
  /\ UNCHANGED <<row, balance, queue, browser, line, cleanup, history>>

\* The lock is released and persist_finance follows without an await: the cookies
\* if there are any (those of a page logged out authenticate nobody), the balance
\* if one was found.
Store(o, saved, found) ==
  /\ row' = IF saved = None THEN row
            ELSE [row EXCEPT !.cookie = IF saved = "out" THEN None ELSE saved]
  /\ balance' = IF found = None THEN balance ELSE found
  /\ line' = Tail(line)
  /\ op' = [op EXCEPT ![o] = AtRest("discover")]

\* The saved cookie still works: no session is needed, there is no cookie to save.
CookieReads(o) ==
  /\ op[o].pc = "cookie"
  /\ op[o].cookie # None
  /\ Store(o, None, op[o].cookie)
  /\ UNCHANGED <<queue, browser, cleanup, history>>

\* The cookie is missing or refused.
CookieFails(o) ==
  /\ op[o].pc = "cookie"
  /\ op' = [op EXCEPT ![o].pc = "open"]
  /\ UNCHANGED <<row, balance, queue, browser, line, cleanup, history>>

\* _get_session: the existing session, or a new context with the read cookie.
GetSession(o) ==
  /\ op[o].pc = "open"
  /\ session' = IF session # "closed" THEN session
                ELSE IF op[o].cookie = None THEN "out" ELSE op[o].cookie
  /\ idle' = FALSE
  /\ op' = [op EXCEPT ![o].pc = "login"]
  /\ UNCHANGED <<row, balance, queue, line, cleanup, history>>

\* ensure_ctyun_session finds the page logged in ...
StillLoggedIn(o) ==
  /\ op[o].pc = "login"
  /\ session \in Login
  /\ op' = [op EXCEPT ![o].pc = "finance", ![o].saved = session]
  /\ UNCHANGED <<row, balance, queue, browser, line, cleanup, history>>

\* ... or logs in with the row that was read ...
LogsIn(o) ==
  /\ op[o].pc = "login"
  /\ session' = op[o].login
  /\ op' = [op EXCEPT ![o].pc = "finance", ![o].saved = op[o].login]
  /\ UNCHANGED <<row, balance, queue, idle, line, cleanup, history>>

\* ... or fails, logged out or as it was, and returns the cookies all the same.
LoginFails(o, s) ==
  /\ op[o].pc = "login"
  /\ s \in {"out", session}
  /\ session' = s
  /\ Store(o, s, None)
  /\ UNCHANGED <<queue, idle, cleanup, history>>

\* _read_finance_from_api in the session; without a balance the cookie is saved.
ReadFinance(o, ok) ==
  /\ op[o].pc = "finance"
  /\ Store(o, op[o].saved, IF ok THEN session ELSE None)
  /\ UNCHANGED <<queue, browser, cleanup, history>>

\* After discover_provider_account_id; or at an exception, or with an answer that
\* stores nothing (a payment page is open).
EndOp(o) ==
  /\ op[o].pc \notin {"idle", "wait"}
  /\ pending' = AfterOp(o)
  /\ line' = IF op[o].pc = "discover" THEN line ELSE Tail(line)
  /\ op' = [op EXCEPT ![o] = NoOp]
  /\ UNCHANGED <<row, balance, queued, browser, cleanup, history>>

-----------------------------------------------------------------------------
(* update_account and reset_browser_session *)

\* Mutant: the cookie of the old login is kept.
NewRow_KeepsCookie(l) == [row EXCEPT !.login = l]

\* A new user name, password or TOTP secret makes the saved cookie void.
NewRow(l) == [login |-> l, cookie |-> None]

UpdateAccount(l) ==
  /\ changes < MaxChanges
  /\ l # row.login
  /\ row' = NewRow(l)
  /\ line' = Append(line, "reset")
  /\ balance' = None
  /\ changes' = changes + 1
  /\ mixed' = (mixed \/ InUse # {})
  /\ UNCHANGED <<queue, browser, op, cleanup>>

\* Mutant: the session is closed without waiting for the lock.
ResetSession_Unlocked ==
  /\ "reset" \in {line[i] : i \in 1..Len(line)}
  /\ session' = "closed"
  /\ idle' = FALSE
  /\ line' = SelectSeq(line, LAMBDA x : x # "reset")
  /\ cleanup' = IF cleanup = "chosen" THEN "stale" ELSE cleanup
  /\ UNCHANGED <<row, balance, queue, op, history>>

ResetSession ==
  /\ Holds("reset")
  /\ session' = "closed"
  /\ idle' = FALSE
  /\ line' = Tail(line)
  /\ cleanup' = IF cleanup = "chosen" THEN "stale" ELSE cleanup
  /\ UNCHANGED <<row, balance, queue, op, history>>

-----------------------------------------------------------------------------
(* cleanup_idle_browser_sessions *)

GoIdle ==
  /\ session # "closed"
  /\ ~idle
  /\ idle' = TRUE
  /\ UNCHANGED <<row, balance, queue, session, line, op, cleanup, history>>

ChooseIdle ==
  /\ cleanup = "off"
  /\ session # "closed"
  /\ idle
  /\ ~Locked
  /\ cleanup' = "chosen"
  /\ line' = Append(line, "cleanup")
  /\ UNCHANGED <<row, balance, queue, browser, op, history>>

\* Mutant: the session is closed without waiting for the lock.
CleanUp_Unlocked ==
  /\ cleanup # "off"
  /\ session' = IF cleanup = "chosen" THEN "closed" ELSE session
  /\ idle' = (idle /\ session' # "closed")
  /\ line' = SelectSeq(line, LAMBDA x : x # "cleanup")
  /\ cleanup' = "off"
  /\ UNCHANGED <<row, balance, queue, op, history>>

\* Under the lock the session must be the one chosen and still be idle.
CleanUp ==
  /\ Holds("cleanup")
  /\ session' = IF cleanup = "chosen" /\ idle THEN "closed" ELSE session
  /\ idle' = (idle /\ session' # "closed")
  /\ line' = Tail(line)
  /\ cleanup' = "off"
  /\ UNCHANGED <<row, balance, queue, op, history>>

\* The process stops and starts again: memory is lost.
Restart ==
  /\ pending' = FALSE
  /\ queued' = 0
  /\ session' = "closed"
  /\ idle' = FALSE
  /\ line' = <<>>
  /\ op' = [o \in Op |-> NoOp]
  /\ cleanup' = "off"
  /\ UNCHANGED <<row, balance, history>>

-----------------------------------------------------------------------------
FinanceStep(o) ==
  \/ Acquire(o)
  \/ CookieReads(o) \/ CookieFails(o) \/ GetSession(o)
  \/ StillLoggedIn(o) \/ LogsIn(o)
  \/ \E s \in Login \cup {"out"} : LoginFails(o, s)
  \/ \E ok \in BOOLEAN : ReadFinance(o, ok)
  \/ EndOp(o)

Next ==
  \/ QueueRefresh
  \/ \E o \in Worker : TakeRefresh(o)
  \/ \E o \in Refresh : StartRefresh(o)
  \/ \E o \in Op : FinanceStep(o)
  \/ \E l \in Login : UpdateAccount(l)
  \/ ResetSession
  \/ GoIdle \/ ChooseIdle \/ CleanUp
  \/ Restart

\* Every await has a timeout and the event loop runs what is ready.
Fairness ==
  /\ \A o \in Worker : WF_vars(TakeRefresh(o))
  /\ \A o \in Op : WF_vars(FinanceStep(o))
  /\ WF_vars(ResetSession) /\ WF_vars(CleanUp)

Spec == Init /\ [][Next]_vars /\ Fairness

-----------------------------------------------------------------------------
(* Properties *)

OpRecord == [pc : {"idle", "wait", "cookie", "open", "login", "finance", "discover"},
             login : Login \cup {None}, cookie : Login \cup {None},
             saved : Login \cup {None}]

\* Every variable has its type.  The account is queued at most once.
TypeOK ==
  /\ row \in [login : Login, cookie : Login \cup {None}]
  /\ balance \in Login \cup {None}
  /\ pending \in BOOLEAN
  /\ queued \in 0..1
  /\ session \in Login \cup {"out", "closed"}
  /\ idle \in BOOLEAN
  /\ line \in Seq(Op \cup {"reset", "cleanup"})
  /\ op \in [Op -> OpRecord]
  /\ cleanup \in {"off", "chosen", "stale"}
  /\ changes \in 0..MaxChanges
  /\ mixed \in BOOLEAN

\* The session an operation works in is never closed under it, by the clean-up or
\* by a change of the login, from _get_session to the end of the balance's read.
SessionInUseStays ==
  \A o \in Op : op[o].pc \in {"login", "finance"} => session # "closed"

\* The workers never refresh one account at the same time, and the account is in
\* the pending set exactly while an entry or a worker has it.
RefreshedOnce ==
  queued + Cardinality({o \in Worker : op[o].pc # "idle"}) = IF pending THEN 1 ELSE 0

\* As long as the login never changed during an operation, the saved cookie, the
\* session and the balance stored since the change are those of the current login,
\* whatever expires, is refused, cleaned up or lost in between.
CurrentLogin ==
  ~mixed => /\ row.cookie \in {row.login, None}
            /\ \/ session \in {row.login, "out", "closed"}
               \/ \E i \in 1..Len(line) : line[i] = "reset"
            /\ balance \in {row.login, None}

\* An account in the pending set leaves it: no failure keeps it from being
\* refreshed ever again.
RefreshEnds == pending ~> ~pending

-----------------------------------------------------------------------------
(* The inductive invariant that Browser_proofs proves *)

Critical == {"cookie", "open", "login", "finance"}

\* Who works under the lock holds it; who is in the line has begun and not ended,
\* and is there once.
LockInv ==
  /\ \A o \in Op : op[o].pc \in Critical => Holds(o)
  /\ \A i \in 1..Len(line) : line[i] \in Op => op[line[i]].pc \in Critical \cup {"wait"}
  /\ \A i, j \in 1..Len(line) : line[i] \in Op /\ line[i] = line[j] => i = j

Busy == {w \in Worker : op[w].pc # "idle"}

QueueInv ==
  \/ pending /\ queued = 1 /\ Busy = {}
  \/ pending /\ queued = 0 /\ \E w \in Worker : Busy = {w}
  \/ ~pending /\ queued = 0 /\ Busy = {}

\* Who is under way has read a login, and who reads the balance is logged in.
SessionInv ==
  /\ \A o \in InUse : op[o].login \in Login
  /\ \A o \in Op : op[o].pc = "finance" => session \in Login

\* Without an overlap, who is under way has the row of the current login, and waits
\* behind the reset that the change of the login asked for.
LoginInv ==
  ~mixed => /\ \A o \in InUse : /\ op[o].login = row.login
                                /\ op[o].cookie \in {row.login, None}
                                /\ op[o].saved \in {row.login, None}
            /\ \A i, j \in 1..Len(line) : line[i] \in Op /\ line[j] = "reset" => j < i

IInv ==
  /\ TypeOK
  /\ LockInv
  /\ QueueInv
  /\ SessionInv
  /\ SessionInUseStays
  /\ LoginInv
  /\ CurrentLogin
=============================================================================
