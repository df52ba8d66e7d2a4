--------------------------- MODULE Browser_proofs ---------------------------
(***************************************************************************)
(* Proofs about the two parts of the browser service that take an          *)
(* account's operation lock.                                               *)
(*                                                                         *)
(* Sessions, for any number of workers, other refreshes, logins and        *)
(* changes: the lock protects the browser session, and a change of the     *)
(* login with no operation under way leaves nothing of the old login       *)
(* behind.                                                                 *)
(*                                                                         *)
(* Recharge, for any number of pages, requests, orders, codes and faults:  *)
(* a payment written back under the lock is the one on file, so that no    *)
(* closed or replaced order comes back, the code on file is of the order   *)
(* on file, and a refreshed code is not reported valid for too long.       *)
(***************************************************************************)
EXTENDS Sessions, Recharge, SequenceTheorems, FiniteSetTheorems, TLAPS

-----------------------------------------------------------------------------
(* The line of the operation lock *)

LEMMA TailOfLine ==
  ASSUME NEW S, NEW s \in Seq(S), s # <<>>
  PROVE  /\ Tail(s) \in Seq(S)
         /\ Len(s) \in Nat /\ Len(s) >= 1 /\ Len(Tail(s)) = Len(s) - 1
         /\ Head(s) = s[1]
         /\ \A i \in 1..Len(Tail(s)) : i + 1 \in 1..Len(s) /\ Tail(s)[i] = s[i + 1]
<1>1. Len(s) \in Nat /\ Len(s) >= 1
  BY EmptySeq
<1> QED
  BY <1>1, HeadTailProperties

LEMMA AppendToLine ==
  ASSUME NEW S, NEW s \in Seq(S), NEW x \in S
  PROVE  /\ Append(s, x) \in Seq(S)
         /\ Append(s, x) # <<>>
         /\ Len(s) \in Nat /\ Len(Append(s, x)) = Len(s) + 1
         /\ \A i \in 1..Len(s) : Append(s, x)[i] = s[i]
         /\ Append(s, x)[Len(s) + 1] = x
         /\ s # <<>> => Head(Append(s, x)) = Head(s)
BY AppendProperties, HeadTailAppend, LenProperties

-----------------------------------------------------------------------------
(* Sessions: the line *)

Member == Op \cup {"reset", "cleanup"}

\* Only one holds the lock.
LEMMA OneHolder ==
  ASSUME LockInv, NEW x, Holds(x), NEW o \in Op, op[o].pc \in Critical
  PROVE  o = x
BY DEF LockInv, Holds

\* Whoever holds the lock leaves the line; an operation is not critical afterwards.
LEMMA LeaveLine ==
  ASSUME LockInv, line \in Seq(Member), NEW x, Holds(x), line' = Tail(line),
         x \in Op => op'[x].pc \notin Critical,
         \A o \in Op \ {x} : op'[o] = op[o]
  PROVE  /\ line' \in Seq(Member)
         /\ LockInv'
         /\ \A i \in 1..Len(line') : i + 1 \in 1..Len(line) /\ line'[i] = line[i + 1]
<1>1. /\ line' \in Seq(Member)
      /\ Len(line) \in Nat /\ Len(line) >= 1 /\ Len(line') = Len(line) - 1
      /\ x = line[1]
      /\ \A i \in 1..Len(line') : i + 1 \in 1..Len(line) /\ line'[i] = line[i + 1]
  BY TailOfLine DEF Holds
<1>2. \A o \in Op : op'[o].pc \notin Critical
  BY OneHolder
<1>3. \A i \in 1..Len(line') : line'[i] \in Op => line'[i] # x
  <2>1. ASSUME NEW i \in 1..Len(line'), line'[i] \in Op, line'[i] = x PROVE FALSE
    <3>1. /\ i + 1 \in 1..Len(line) /\ 1 \in 1..Len(line)
          /\ line[i + 1] \in Op /\ line[i + 1] = line[1]
      BY <1>1, <2>1
    <3>2. i + 1 = 1
      BY <3>1 DEF LockInv
    <3> QED
      BY <3>2
  <2> QED
    BY <2>1
<1>4. \A i \in 1..Len(line') : line'[i] \in Op => op'[line'[i]].pc \in Critical \cup {"wait"}
  BY <1>1, <1>3 DEF LockInv
<1>5. \A i, j \in 1..Len(line') : line'[i] \in Op /\ line'[i] = line'[j] => i = j
  <2>1. ASSUME NEW i \in 1..Len(line'), NEW j \in 1..Len(line'),
               line'[i] \in Op, line'[i] = line'[j]
        PROVE  i = j
    <3>1. i + 1 = j + 1
      BY <1>1, <2>1 DEF LockInv
    <3> QED
      BY <3>1, <1>1
  <2> QED
    BY <2>1
<1> QED
  BY <1>1, <1>2, <1>4, <1>5 DEF LockInv

\* A newcomer goes to the end of the line.
LEMMA JoinLine ==
  ASSUME LockInv, line \in Seq(Member), NEW x \in Member, line' = Append(line, x),
         x \in Op => op[x].pc = "idle" /\ op'[x].pc = "wait",
         \A o \in Op \ {x} : op'[o] = op[o]
  PROVE  /\ line' \in Seq(Member)
         /\ LockInv'
         /\ Len(line) \in Nat /\ Len(line') = Len(line) + 1
         /\ \A i \in 1..Len(line) : line'[i] = line[i]
         /\ line'[Len(line')] = x
<1>1. /\ line' \in Seq(Member) /\ line' # <<>>
      /\ Len(line) \in Nat /\ Len(line') = Len(line) + 1
      /\ \A i \in 1..Len(line) : line'[i] = line[i]
      /\ line'[Len(line')] = x
      /\ line # <<>> => Head(line') = Head(line)
  BY AppendToLine
<1>2. \A i \in 1..Len(line) : x \in Op => line[i] # x
  BY DEF LockInv, Critical
<1>3. \A o \in Op : op'[o].pc \in Critical => Holds(o)'
  BY <1>1 DEF LockInv, Holds, Critical
<1>4. \A i \in 1..Len(line') : i \in 1..Len(line) \/ i = Len(line')
  BY <1>1
<1>5. \A i \in 1..Len(line') : line'[i] \in Op => op'[line'[i]].pc \in Critical \cup {"wait"}
  BY <1>1, <1>2, <1>4 DEF LockInv
<1>6. \A i, j \in 1..Len(line') : line'[i] \in Op /\ line'[i] = line'[j] => i = j
  BY <1>1, <1>2, <1>4 DEF LockInv
<1> QED
  BY <1>1, <1>3, <1>5, <1>6 DEF LockInv

\* A step under the lock.
LEMMA StayInLine ==
  ASSUME LockInv, NEW o \in Op, Holds(o), UNCHANGED line, op'[o].pc \in Critical,
         \A p \in Op \ {o} : op'[p] = op[p]
  PROVE  LockInv'
BY DEF LockInv, Holds

-----------------------------------------------------------------------------
(* Sessions: the invariant is established and preserved *)

LEMMA InitIInv ==
  ASSUME Init
  PROVE  IInv
<1>1. line = <<>> /\ Len(line) = 0 /\ line \in Seq(Member)
  BY EmptySeq DEF Init
<1>2. TypeOK
  <2>1. NoOp \in OpRecord
    BY DEF NoOp, AtRest, OpRecord
  <2>2. row \in [login : Login, cookie : Login \cup {None}]
    BY DEF Init
  <2>3. 0 \in 0..MaxChanges
    BY MaxChangesAssumption
  <2>4. pending \in BOOLEAN /\ idle \in BOOLEAN /\ mixed \in BOOLEAN
    BY DEF Init
  <2>5. op \in [Op -> OpRecord] /\ line \in Seq(Op \cup {"reset", "cleanup"})
    BY <1>1, <2>1 DEF Init, Member
  <2>6. queued \in 0..1 /\ balance \in Login \cup {None} /\ changes \in 0..MaxChanges
    BY <2>3 DEF Init
  <2>7. session \in Login \cup {"out", "closed"} /\ cleanup \in {"off", "chosen", "stale"}
    BY DEF Init
  <2> QED
    BY <2>2, <2>4, <2>5, <2>6, <2>7 DEF TypeOK
<1>3. Busy = {} /\ InUse = {}
  BY DEF Init, Busy, InUse, NoOp, AtRest, Op
<1>4. LockInv /\ SessionInv /\ SessionInUseStays
  BY <1>1, <1>3 DEF Init, LockInv, SessionInv, SessionInUseStays, NoOp, AtRest, Critical
<1>5. QueueInv /\ LoginInv /\ CurrentLogin
  BY <1>1, <1>3 DEF Init, QueueInv, LoginInv, CurrentLogin
<1> QED
  BY <1>2, <1>4, <1>5 DEF IInv

\* The queue changes, and nothing else.
LEMMA QueueRefreshIInv ==
  ASSUME IInv, QueueRefresh
  PROVE  IInv'
<1>1. queued = 0
  BY DEF IInv, QueueInv, QueueRefresh
<1>2. TypeOK'
  BY <1>1 DEF IInv, TypeOK, QueueRefresh, browser, history
<1>3. QueueInv'
  BY <1>1 DEF IInv, QueueInv, QueueRefresh, Busy
<1>4. LockInv' /\ SessionInv' /\ SessionInUseStays' /\ LoginInv' /\ CurrentLogin'
  BY DEF IInv, LockInv, SessionInv, SessionInUseStays, LoginInv, CurrentLogin, InUse, Holds,
         QueueRefresh, browser, history
<1> QED
  BY <1>2, <1>3, <1>4 DEF IInv

\* An operation begins, with the row as it is, at the end of the line.
LEMMA BeginIInv ==
  ASSUME IInv, NEW o \in Op, Begin(o), QueueInv', queued' \in 0..1, pending' \in BOOLEAN,
         UNCHANGED <<row, balance, browser, cleanup, history>>
  PROVE  IInv'
<1>1. /\ line' \in Seq(Member) /\ LockInv'
      /\ Len(line) \in Nat /\ Len(line') = Len(line) + 1
      /\ \A i \in 1..Len(line) : line'[i] = line[i]
      /\ line'[Len(line')] = o
  <2>1. line \in Seq(Member) /\ o \in Member
    BY DEF IInv, TypeOK, Member
  <2>2. op[o].pc = "idle" /\ op'[o].pc = "wait" /\ \A p \in Op \ {o} : op'[p] = op[p]
    BY DEF IInv, TypeOK, Begin
  <2>3. line' = Append(line, o) /\ LockInv
    BY DEF Begin, IInv
  <2> QED
    BY <2>1, <2>2, <2>3, JoinLine
<1>2. TypeOK'
  BY <1>1 DEF IInv, TypeOK, Begin, OpRecord, Member, browser, history
<1>3. \A p \in Op : p # o => op'[p] = op[p]
  BY DEF IInv, TypeOK, Begin
<1>4. op'[o] = [pc |-> "wait", login |-> row.login, cookie |-> row.cookie, saved |-> None]
  BY DEF IInv, TypeOK, Begin
<1>5. SessionInv' /\ SessionInUseStays'
  BY <1>3, <1>4 DEF IInv, TypeOK, SessionInv, SessionInUseStays, InUse, browser
<1>6. CurrentLogin'
  BY <1>1 DEF IInv, CurrentLogin, browser, history
<1>7. LoginInv'
  <2> SUFFICES ASSUME ~mixed PROVE LoginInv'
    BY DEF LoginInv, history
  <2>1. \A p \in InUse' : /\ op'[p].login = row.login
                          /\ op'[p].cookie \in {row.login, None}
                          /\ op'[p].saved \in {row.login, None}
    BY <1>3, <1>4 DEF IInv, LoginInv, CurrentLogin, InUse
  <2>2. o # "reset"
    BY OpAssumption DEF Op
  <2>3. \A i, j \in 1..Len(line') : line'[i] \in Op /\ line'[j] = "reset" => j < i
    BY <1>1, <2>2 DEF IInv, LoginInv
  <2> QED
    BY <2>1, <2>3 DEF LoginInv
<1> QED
  BY <1>1, <1>2, <1>5, <1>6, <1>7 DEF IInv

LEMMA TakeRefreshIInv ==
  ASSUME IInv, NEW o \in Worker, TakeRefresh(o)
  PROVE  IInv'
<1>1. pending /\ queued = 1 /\ Busy = {}
  BY DEF IInv, TypeOK, QueueInv, TakeRefresh
<1>2. Busy' = {o}
  BY <1>1 DEF IInv, TypeOK, TakeRefresh, Begin, Busy, NoOp, AtRest, Op
<1>3. QueueInv' /\ queued' \in 0..1 /\ pending' \in BOOLEAN
  BY <1>1, <1>2 DEF QueueInv, TakeRefresh, IInv, TypeOK
<1> QED
  BY <1>3, BeginIInv DEF TakeRefresh, Op

LEMMA StartRefreshIInv ==
  ASSUME IInv, NEW o \in Refresh, StartRefresh(o)
  PROVE  IInv'
<1>1. Busy' = Busy
  BY OpAssumption DEF IInv, TypeOK, StartRefresh, Begin, Busy, Op
<1>2. QueueInv' /\ queued' \in 0..1 /\ pending' \in BOOLEAN
  BY <1>1 DEF IInv, TypeOK, QueueInv, StartRefresh, queue
<1> QED
  BY <1>2, BeginIInv DEF StartRefresh, Op

\* A step of an operation that works under the lock, or is the first in the line.
LEMMA WorkIInv ==
  ASSUME IInv, NEW o \in Op, Holds(o), op[o].pc \in Critical \cup {"wait"},
         NEW rec \in OpRecord, op' = [op EXCEPT ![o] = rec], rec.pc \in Critical,
         rec.login = op[o].login, rec.cookie = op[o].cookie,
         ~mixed => rec.saved \in {row.login, None},
         session' \in Login \cup {"out", "closed"}, idle' \in BOOLEAN,
         rec.pc \in {"login", "finance"} => session' # "closed",
         rec.pc = "finance" => session' \in Login,
         ~mixed => session' \in {row.login, "out", "closed"} \/ session' = session,
         UNCHANGED <<row, balance, queue, line, cleanup, history>>
  PROVE  IInv'
<1>1. TypeOK'
  BY DEF IInv, TypeOK, queue, history
<1>2. op'[o] = rec /\ \A p \in Op \ {o} : op'[p] = op[p]
  BY DEF IInv, TypeOK
<1>3. LockInv'
  BY <1>2, StayInLine DEF IInv
<1>4. \A p \in Op \ {o} : op[p].pc \notin Critical
  BY OneHolder DEF IInv
<1>5. SessionInv' /\ SessionInUseStays'
  BY <1>2, <1>4 DEF IInv, SessionInv, SessionInUseStays, InUse, Critical
<1>6. QueueInv'
  <2>1. Busy' = Busy
    BY <1>2 DEF Busy, Critical, Op
  <2> QED
    BY <2>1 DEF IInv, QueueInv, queue
<1>7. LoginInv'
  <2>1. InUse' = InUse
    BY <1>2 DEF InUse, Critical
  <2>2. o \in InUse
    BY DEF InUse, Critical
  <2> QED
    BY <1>2, <2>1, <2>2 DEF IInv, LoginInv, history
<1>8. CurrentLogin'
  BY DEF IInv, CurrentLogin, history
<1> QED
  BY <1>1, <1>3, <1>5, <1>6, <1>7, <1>8 DEF IInv

\* Without an overlap, an operation at work finds no reset in the line: the session
\* is that of the current login.
LEMMA SessionOfHolder ==
  ASSUME IInv, NEW o \in Op, op[o].pc \in Critical, ~mixed
  PROVE  /\ session \in {row.login, "out", "closed"}
         /\ \A i \in 1..Len(line) : line[i] # "reset"
         /\ op[o].login = row.login
         /\ op[o].cookie \in {row.login, None}
         /\ op[o].saved \in {row.login, None}
<1>1. line # <<>> /\ Head(line) = o /\ line \in Seq(Member)
  BY DEF IInv, LockInv, Holds, TypeOK, Member
<1>2. Len(line) \in Nat /\ Len(line) >= 1 /\ line[1] = o
  BY <1>1, TailOfLine
<1>3. \A i \in 1..Len(line) : line[i] # "reset"
  BY <1>2 DEF IInv, LoginInv
<1>4. o \in InUse
  BY DEF InUse, Critical
<1> QED
  BY <1>3, <1>4 DEF IInv, LoginInv, CurrentLogin

LEMMA AcquireIInv ==
  ASSUME IInv, NEW o \in Op, Acquire(o) \/ CookieFails(o)
  PROVE  IInv'
<1>1. Holds(o) /\ op[o].pc \in Critical \cup {"wait"} /\ op[o] \in OpRecord
  BY DEF IInv, TypeOK, LockInv, Acquire, CookieFails, Critical
<1>2. PICK pc \in {"cookie", "open"} : op' = [op EXCEPT ![o].pc = pc]
  BY DEF Acquire, CookieFails
<1> DEFINE rec == [op[o] EXCEPT !.pc = pc]
<1>3. op' = [op EXCEPT ![o] = rec]
  BY <1>2
<1>4. /\ rec \in OpRecord /\ rec.pc = pc /\ rec.login = op[o].login
      /\ rec.cookie = op[o].cookie /\ rec.saved = op[o].saved
  BY <1>1 DEF OpRecord
<1>5. ~mixed => rec.saved \in {row.login, None}
  <2>1. o \in InUse
    BY <1>1 DEF InUse, Critical
  <2> QED
    BY <1>4, <2>1 DEF IInv, LoginInv
<1>6. UNCHANGED <<row, balance, queue, browser, line, cleanup, history>>
  BY DEF Acquire, CookieFails
<1>7. session \in Login \cup {"out", "closed"} /\ idle \in BOOLEAN
  BY DEF IInv, TypeOK
<1> HIDE DEF rec
<1> QED
  BY <1>1, <1>3, <1>4, <1>5, <1>6, <1>7, WorkIInv DEF Critical, browser

LEMMA GetSessionIInv ==
  ASSUME IInv, NEW o \in Op, GetSession(o)
  PROVE  IInv'
<1>1. Holds(o) /\ op[o].pc \in Critical /\ op[o] \in OpRecord
  BY DEF IInv, TypeOK, LockInv, GetSession, Critical
<1> DEFINE rec == [op[o] EXCEPT !.pc = "login"]
<1>2. op' = [op EXCEPT ![o] = rec]
  BY DEF GetSession
<1>3. /\ rec \in OpRecord /\ rec.pc = "login" /\ rec.login = op[o].login
      /\ rec.cookie = op[o].cookie /\ rec.saved = op[o].saved
  BY <1>1 DEF OpRecord
<1>4. session' \in Login \cup {"out"} /\ idle' \in BOOLEAN
  BY <1>1 DEF IInv, TypeOK, GetSession, OpRecord
<1>5. ~mixed => /\ rec.saved \in {row.login, None}
                /\ session' \in {row.login, "out", "closed"}
  BY <1>1, <1>3, SessionOfHolder DEF GetSession
<1>6. session' # "closed"
  BY <1>4, LoginAssumption
<1>7. UNCHANGED <<row, balance, queue, line, cleanup, history>>
  BY DEF GetSession
<1> HIDE DEF rec
<1> QED
  BY <1>1, <1>2, <1>3, <1>4, <1>5, <1>6, <1>7, WorkIInv DEF Critical

LEMMA LoggedInIInv ==
  ASSUME IInv, NEW o \in Op, StillLoggedIn(o) \/ LogsIn(o)
  PROVE  IInv'
<1>1. Holds(o) /\ op[o].pc = "login" /\ op[o] \in OpRecord
  BY DEF IInv, TypeOK, LockInv, StillLoggedIn, LogsIn, Critical
<1> DEFINE rec == [op[o] EXCEPT !.pc = "finance", !.saved = session']
<1>2. op' = [op EXCEPT ![o] = rec]
  BY DEF StillLoggedIn, LogsIn, browser
<1>3. session' \in Login /\ idle' \in BOOLEAN
  <2>1. idle' = idle /\ idle \in BOOLEAN
    BY DEF IInv, TypeOK, StillLoggedIn, LogsIn, browser
  <2>2. CASE StillLoggedIn(o)
    BY <2>1, <2>2 DEF StillLoggedIn, browser
  <2>3. CASE LogsIn(o)
    <3>1. op[o].login \in Login
      BY <1>1 DEF IInv, SessionInv, InUse
    <3> QED
      BY <2>1, <2>3, <3>1 DEF LogsIn
  <2> QED
    BY <2>2, <2>3
<1>4. /\ rec \in OpRecord /\ rec.pc = "finance" /\ rec.login = op[o].login
      /\ rec.cookie = op[o].cookie /\ rec.saved = session'
  BY <1>1, <1>3 DEF OpRecord
<1>5. ~mixed => session' = row.login
  BY <1>1, LoginAssumption, SessionOfHolder DEF StillLoggedIn, LogsIn, browser, Critical
<1>6. session' # "closed"
  BY <1>3, LoginAssumption
<1>7. UNCHANGED <<row, balance, queue, line, cleanup, history>>
  BY DEF StillLoggedIn, LogsIn, browser
<1> HIDE DEF rec
<1> QED
  BY <1>1, <1>2, <1>3, <1>4, <1>5, <1>6, <1>7, WorkIInv DEF Critical

\* An operation releases the lock.
LEMMA ReleaseIInv ==
  ASSUME IInv, NEW o \in Op, op[o].pc \in Critical, line' = Tail(line),
         NEW pc \in {"idle", "discover"}, op' = [op EXCEPT ![o] = AtRest(pc)],
         row' \in [login : Login, cookie : Login \cup {None}], row'.login = row.login,
         balance' \in Login \cup {None},
         session' \in Login \cup {"out", "closed"}, idle' \in BOOLEAN,
         ~mixed => /\ row'.cookie \in {row.login, None}
                   /\ balance' \in {row.login, None}
                   /\ session' \in {row.login, "out", "closed"},
         pending' \in BOOLEAN, queued' \in 0..1, QueueInv',
         UNCHANGED <<cleanup, history>>
  PROVE  IInv'
<1>1. Holds(o) /\ line \in Seq(Member) /\ LockInv
  BY DEF IInv, LockInv, TypeOK, Member
<1>2. AtRest(pc) \in OpRecord /\ AtRest(pc).pc = pc
  BY DEF AtRest, OpRecord
<1>3. op' \in [Op -> OpRecord] /\ op'[o] = AtRest(pc) /\ \A p \in Op \ {o} : op'[p] = op[p]
  BY <1>2 DEF IInv, TypeOK
<1>4. /\ line' \in Seq(Member) /\ LockInv'
      /\ \A i \in 1..Len(line') : i + 1 \in 1..Len(line) /\ line'[i] = line[i + 1]
  BY <1>1, <1>2, <1>3, LeaveLine DEF Critical
<1>5. TypeOK'
  BY <1>3, <1>4 DEF IInv, TypeOK, Member, history
<1>6. \A p \in Op : op'[p].pc \notin Critical
  BY <1>1, <1>2, <1>3, OneHolder DEF Critical
<1>7. InUse' \subseteq InUse \ {o}
  BY <1>2, <1>3 DEF InUse
<1>8. SessionInv' /\ SessionInUseStays'
  BY <1>3, <1>6, <1>7 DEF IInv, SessionInv, SessionInUseStays, Critical, InUse
<1>9. LoginInv'
  <2> SUFFICES ASSUME ~mixed PROVE LoginInv'
    BY DEF LoginInv, history
  <2>1. \A p \in InUse' : /\ op'[p].login = row'.login
                          /\ op'[p].cookie \in {row'.login, None}
                          /\ op'[p].saved \in {row'.login, None}
    BY <1>3, <1>7 DEF IInv, LoginInv, InUse
  <2>2. ASSUME NEW i \in 1..Len(line'), NEW j \in 1..Len(line'),
               line'[i] \in Op, line'[j] = "reset"
        PROVE  j < i
    <3>1. i + 1 \in 1..Len(line) /\ line[i + 1] \in Op
      BY <1>4, <2>2
    <3>2. j + 1 \in 1..Len(line) /\ line[j + 1] = "reset"
      BY <1>4, <2>2
    <3>3. j + 1 < i + 1
      BY <3>1, <3>2 DEF IInv, LoginInv
    <3> QED
      BY <3>3
  <2> QED
    BY <2>1, <2>2 DEF LoginInv
<1>10. CurrentLogin'
  BY DEF CurrentLogin, history
<1> QED
  BY <1>4, <1>5, <1>8, <1>9, <1>10 DEF IInv

\* An operation releases the lock and stores what it found.
LEMMA StoreIInv ==
  ASSUME IInv, NEW o \in Op, op[o].pc \in Critical,
         NEW saved \in Login \cup {"out", None}, NEW found \in Login \cup {None},
         Store(o, saved, found),
         ~mixed => saved \in {row.login, "out", None} /\ found \in {row.login, None},
         session' \in Login \cup {"out", "closed"},
         ~mixed => session' \in {row.login, "out", "closed"},
         UNCHANGED <<queue, idle, cleanup, history>>
  PROVE  IInv'
<1>1. row \in [login : Login, cookie : Login \cup {None}] /\ balance \in Login \cup {None}
  BY DEF IInv, TypeOK
<1>2. /\ row' \in [login : Login, cookie : Login \cup {None}] /\ row'.login = row.login
      /\ row' = row \/ row'.cookie \in {saved, None} \ {"out"}
  <2>1. CASE saved = None
    <3>1. row' = row
      BY <2>1 DEF Store
    <3> QED
      BY <1>1, <3>1
  <2>2. CASE saved = "out"
    <3>1. None # "out"
      BY NoneAssumption
    <3>2. row' = [row EXCEPT !.cookie = None]
      BY <2>2, <3>1 DEF Store
    <3> QED
      BY <1>1, <3>1, <3>2
  <2>3. CASE saved \in Login
    <3>1. saved # None /\ saved # "out"
      BY <2>3, NoneAssumption, LoginAssumption
    <3>2. row' = [row EXCEPT !.cookie = saved]
      BY <3>1 DEF Store
    <3> QED
      BY <1>1, <2>3, <3>1, <3>2
  <2> QED
    BY <2>1, <2>2, <2>3
<1>3. balance' \in Login \cup {None} /\ balance' \in {balance, found}
  BY <1>1 DEF Store
<1>4. ~mixed => row.cookie \in {row.login, None} /\ balance \in {row.login, None}
  BY DEF IInv, CurrentLogin
<1>5. ~mixed => row'.cookie \in {row.login, None} /\ balance' \in {row.login, None}
  BY <1>2, <1>3, <1>4
<1>6. /\ line' = Tail(line)
      /\ op' = [op EXCEPT ![o] = AtRest("discover")]
  BY DEF Store
<1>7. Busy' = Busy
  BY <1>6 DEF Busy, IInv, TypeOK, AtRest, Critical, Op
<1>8. QueueInv' /\ queued' \in 0..1 /\ pending' \in BOOLEAN /\ idle' \in BOOLEAN
  BY <1>7 DEF IInv, TypeOK, QueueInv, queue
<1> QED
  BY <1>2, <1>3, <1>5, <1>6, <1>8, ReleaseIInv

LEMMA CookieReadsIInv ==
  ASSUME IInv, NEW o \in Op, CookieReads(o)
  PROVE  IInv'
<1>1. op[o].pc \in Critical /\ op[o].cookie \in Login \cup {None}
  BY DEF CookieReads, Critical, IInv, TypeOK, OpRecord
<1>2. ~mixed => op[o].cookie \in {row.login, None} /\ session \in {row.login, "out", "closed"}
  BY <1>1, SessionOfHolder
<1>3. session \in Login \cup {"out", "closed"}
  BY DEF IInv, TypeOK
<1>4. Store(o, None, op[o].cookie) /\ UNCHANGED <<queue, session, idle, cleanup, history>>
  BY DEF CookieReads, browser
<1> QED
  BY <1>1, <1>2, <1>3, <1>4, StoreIInv

LEMMA LoginFailsIInv ==
  ASSUME IInv, NEW o \in Op, NEW s \in Login \cup {"out"}, LoginFails(o, s)
  PROVE  IInv'
<1>1. op[o].pc \in Critical
  BY DEF LoginFails, Critical
<1>2. ~mixed => s \in {row.login, "out"}
  BY <1>1, SessionOfHolder, LoginAssumption DEF LoginFails
<1>3. Store(o, s, None) /\ session' = s /\ UNCHANGED <<queue, idle, cleanup, history>>
  BY DEF LoginFails
<1> QED
  BY <1>1, <1>2, <1>3, StoreIInv

LEMMA ReadFinanceIInv ==
  ASSUME IInv, NEW o \in Op, NEW ok \in BOOLEAN, ReadFinance(o, ok)
  PROVE  IInv'
<1>1. op[o].pc \in Critical /\ op[o].saved \in Login \cup {"out", None} /\ session \in Login
  BY DEF ReadFinance, Critical, IInv, TypeOK, OpRecord, SessionInv
<1> DEFINE found == IF ok THEN session ELSE None
<1>2. found \in Login \cup {None} /\ found \in {session, None}
  BY <1>1
<1>3. ~mixed => op[o].saved \in {row.login, None} /\ session = row.login
  BY <1>1, SessionOfHolder, LoginAssumption
<1>4. Store(o, op[o].saved, found) /\ UNCHANGED <<queue, session, idle, cleanup, history>>
  BY DEF ReadFinance, browser
<1> HIDE DEF found
<1> QED
  BY <1>1, <1>2, <1>3, <1>4, StoreIInv

\* An operation ends, under the lock or after it.
LEMMA EndOpIInv ==
  ASSUME IInv, NEW o \in Op, EndOp(o)
  PROVE  IInv'
<1>1. /\ op' = [op EXCEPT ![o] = AtRest("idle")]
      /\ op'[o] = AtRest("idle") /\ AtRest("idle") \in OpRecord /\ AtRest("idle").pc = "idle"
      /\ \A p \in Op \ {o} : op'[p] = op[p]
      /\ op[o].pc \in Critical \cup {"discover"}
  BY DEF EndOp, NoOp, AtRest, OpRecord, IInv, TypeOK, Critical
<1>2. queued' = queued /\ queued \in 0..1 /\ pending \in BOOLEAN /\ pending' \in BOOLEAN
  BY DEF EndOp, IInv, TypeOK, AfterOp
<1>3. QueueInv'
  <2>1. CASE o \in Worker
    <3>1. o \in Busy /\ ~pending'
      BY <1>1, <2>1 DEF Busy, Critical, EndOp, AfterOp
    <3>2. Busy = {o} /\ queued = 0
      BY <3>1 DEF IInv, QueueInv
    <3>3. Busy' = {}
      BY <1>1, <3>2 DEF Busy, Op
    <3> QED
      BY <1>2, <3>1, <3>2, <3>3 DEF QueueInv
  <2>2. CASE o \notin Worker
    <3>1. Busy' = Busy /\ pending' = pending
      BY <1>1, <1>2, <2>2 DEF Busy, EndOp, AfterOp, Op
    <3> QED
      BY <1>2, <3>1 DEF IInv, QueueInv
  <2> QED
    BY <2>1, <2>2
<1>4. CASE op[o].pc \in Critical
  <2>1. line' = Tail(line)
    BY <1>4 DEF EndOp, Critical
  <2>2. /\ row' = row /\ balance' = balance /\ session' = session /\ idle' = idle
        /\ UNCHANGED <<cleanup, history>>
    BY DEF EndOp, browser
  <2>3. /\ row \in [login : Login, cookie : Login \cup {None}]
        /\ balance \in Login \cup {None}
        /\ session \in Login \cup {"out", "closed"} /\ idle \in BOOLEAN
    BY DEF IInv, TypeOK
  <2>4. ~mixed => /\ row.cookie \in {row.login, None} /\ balance \in {row.login, None}
                  /\ session \in {row.login, "out", "closed"}
    BY <1>4, SessionOfHolder DEF IInv, CurrentLogin
  <2>5. queued' \in 0..1
    BY <1>2
  <2> QED
    BY <1>1, <1>2, <1>3, <1>4, <2>1, <2>2, <2>3, <2>4, <2>5, ReleaseIInv
<1>5. CASE op[o].pc = "discover"
  <2>1. /\ line' = line /\ row' = row /\ balance' = balance /\ session' = session
        /\ idle' = idle /\ cleanup' = cleanup /\ history' = history
    BY <1>5 DEF EndOp, browser
  <2>2. TypeOK'
    BY <1>1, <1>2, <2>1 DEF IInv, TypeOK, history
  <2>3. LockInv'
    <3>1. \A i \in 1..Len(line) : line[i] # o
      BY <1>5 DEF IInv, LockInv, Critical
    <3>2. \A p \in Op : op'[p].pc \in Critical => Holds(p)'
      BY <1>1, <2>1 DEF IInv, LockInv, Critical, Holds
    <3>3. \A i \in 1..Len(line) : line[i] \in Op => op'[line[i]] = op[line[i]]
      BY <1>1, <3>1
    <3> QED
      BY <2>1, <3>2, <3>3 DEF IInv, LockInv
  <2>4. InUse' = InUse
    BY <1>1, <1>5 DEF InUse
  <2>5. SessionInv' /\ SessionInUseStays'
    BY <1>1, <2>1, <2>4 DEF IInv, SessionInv, SessionInUseStays, InUse
  <2>6. LoginInv'
    BY <1>1, <2>1, <2>4 DEF IInv, LoginInv, InUse, history
  <2>7. CurrentLogin'
    BY <2>1 DEF IInv, CurrentLogin, history
  <2> QED
    BY <1>3, <2>2, <2>3, <2>5, <2>6, <2>7 DEF IInv
<1> QED
  BY <1>1, <1>4, <1>5

\* Without an overlap nobody is under way: the line holds resets and a clean-up only.
LEMMA UpdateAccountIInv ==
  ASSUME IInv, NEW l \in Login, UpdateAccount(l)
  PROVE  IInv'
<1>1. line \in Seq(Member) /\ "reset" \in Member /\ "reset" \notin Op
  BY OpAssumption DEF IInv, TypeOK, Member, Op
<1>2. op' = op /\ line' = Append(line, "reset") /\ LockInv
  BY DEF UpdateAccount, IInv
<1>3. /\ line' \in Seq(Member) /\ LockInv'
      /\ Len(line) \in Nat /\ Len(line') = Len(line) + 1
      /\ \A i \in 1..Len(line) : line'[i] = line[i]
      /\ line'[Len(line')] = "reset"
  BY <1>1, <1>2, JoinLine
<1>4. /\ row' = [login |-> l, cookie |-> None] /\ balance' = None /\ session' = session
      /\ idle' = idle /\ pending' = pending /\ queued' = queued /\ cleanup' = cleanup
  BY DEF UpdateAccount, NewRow, queue, browser
<1>5. TypeOK'
  <2>1. changes' \in 0..MaxChanges
    BY MaxChangesAssumption DEF UpdateAccount, IInv, TypeOK
  <2>2. mixed' \in BOOLEAN
    BY DEF UpdateAccount
  <2> QED
    BY <1>2, <1>3, <1>4, <2>1, <2>2 DEF IInv, TypeOK, Member
<1>6. QueueInv' /\ SessionInv' /\ SessionInUseStays'
  BY <1>2, <1>4 DEF IInv, QueueInv, SessionInv, SessionInUseStays, Busy, InUse
<1>7. LoginInv' /\ CurrentLogin'
  <2> SUFFICES ASSUME ~mixed' PROVE LoginInv' /\ CurrentLogin'
    BY DEF LoginInv, CurrentLogin
  <2>1. InUse = {} /\ InUse' = {}
    BY <1>2 DEF UpdateAccount, InUse
  <2>2. \A i \in 1..Len(line) : line[i] \notin Op
    BY <2>1 DEF InUse, IInv, LockInv, Critical
  <2>3. \A i \in 1..Len(line') : i \in 1..Len(line) \/ i = Len(line')
    BY <1>3
  <2>4. \A i \in 1..Len(line') : line'[i] \notin Op
    BY <1>1, <1>3, <2>2, <2>3
  <2>5. \E i \in 1..Len(line') : line'[i] = "reset"
    <3>1. Len(line') \in 1..Len(line')
      BY <1>3
    <3> QED
      BY <1>3, <3>1
  <2> QED
    BY <1>4, <2>1, <2>4, <2>5 DEF LoginInv, CurrentLogin
<1> QED
  BY <1>3, <1>5, <1>6, <1>7 DEF IInv

\* The reset or the clean-up holds the lock: no operation works in the session.
LEMMA CloseIInv ==
  ASSUME IInv, NEW x \in {"reset", "cleanup"}, Holds(x), line' = Tail(line),
         session' \in {session, "closed"}, idle' \in BOOLEAN,
         cleanup' \in {"off", "chosen", "stale"},
         x = "reset" => session' = "closed",
         UNCHANGED <<row, balance, queue, op, history>>
  PROVE  IInv'
<1>1. line \in Seq(Member) /\ LockInv /\ x \notin Op
  BY OpAssumption DEF IInv, TypeOK, Member, Op
<1>2. /\ line' \in Seq(Member) /\ LockInv'
      /\ \A i \in 1..Len(line') : i + 1 \in 1..Len(line) /\ line'[i] = line[i + 1]
  BY <1>1, LeaveLine
<1>3. TypeOK'
  BY <1>2 DEF IInv, TypeOK, Member, queue, history
<1>4. \A o \in Op : op[o].pc \notin Critical
  BY <1>1, OneHolder
<1>5. SessionInv' /\ SessionInUseStays' /\ QueueInv'
  BY <1>4 DEF IInv, SessionInv, SessionInUseStays, QueueInv, Critical, InUse, Busy, queue
<1>6. LoginInv'
  <2> SUFFICES ASSUME ~mixed,
                      NEW i \in 1..Len(line'), NEW j \in 1..Len(line'),
                      line'[i] \in Op, line'[j] = "reset"
               PROVE  j < i
    BY DEF IInv, LoginInv, InUse, history
  <2>1. /\ i + 1 \in 1..Len(line) /\ line[i + 1] \in Op
        /\ j + 1 \in 1..Len(line) /\ line[j + 1] = "reset"
    BY <1>2
  <2>2. j + 1 < i + 1
    BY <2>1 DEF IInv, LoginInv
  <2> QED
    BY <2>2
<1>7. CurrentLogin'
  <2> SUFFICES ASSUME ~mixed, session' # "closed", session \notin {row.login, "out", "closed"}
               PROVE  \E i \in 1..Len(line') : line'[i] = "reset"
    BY DEF IInv, CurrentLogin, history
  <2>1. session' = session /\ x # "reset"
    OBVIOUS
  <2>2. PICK i \in 1..Len(line) : line[i] = "reset"
    BY <2>1 DEF IInv, CurrentLogin
  <2>3. /\ line[1] = x /\ Len(line) \in Nat /\ Len(line') = Len(line) - 1
        /\ \A k \in 1..Len(line') : line'[k] = line[k + 1]
    BY <1>1, TailOfLine DEF Holds
  <2>4. i # 1 /\ i - 1 \in 1..Len(line')
    BY <2>1, <2>2, <2>3
  <2>5. line'[i - 1] = line[i]
    BY <2>3, <2>4
  <2> QED
    BY <2>2, <2>4, <2>5
<1> QED
  BY <1>2, <1>3, <1>5, <1>6, <1>7 DEF IInv

LEMMA ResetSessionIInv ==
  ASSUME IInv, ResetSession
  PROVE  IInv'
<1>1. cleanup' \in {"off", "chosen", "stale"} /\ idle' \in BOOLEAN
  BY DEF IInv, TypeOK, ResetSession
<1> QED
  BY <1>1, CloseIInv DEF ResetSession

LEMMA CleanUpIInv ==
  ASSUME IInv, CleanUp
  PROVE  IInv'
<1>1. session' \in {session, "closed"} /\ idle' \in BOOLEAN
  BY DEF CleanUp
<1> QED
  BY <1>1, CloseIInv DEF CleanUp

LEMMA GoIdleIInv ==
  ASSUME IInv, GoIdle
  PROVE  IInv'
<1>1. /\ UNCHANGED <<row, balance, pending, queued, session, line, op, cleanup, changes, mixed>>
      /\ idle' \in BOOLEAN
  BY DEF GoIdle, queue, history
<1>2. TypeOK'
  BY <1>1 DEF IInv, TypeOK
<1>3. LockInv' /\ QueueInv'
  BY <1>1 DEF IInv, LockInv, QueueInv, Holds, Busy
<1>4. SessionInv' /\ SessionInUseStays' /\ LoginInv' /\ CurrentLogin'
  BY <1>1 DEF IInv, SessionInv, SessionInUseStays, LoginInv, CurrentLogin, InUse
<1> QED
  BY <1>2, <1>3, <1>4 DEF IInv

LEMMA ChooseIdleIInv ==
  ASSUME IInv, ChooseIdle
  PROVE  IInv'
<1>1. line \in Seq(Member) /\ "cleanup" \in Member /\ "cleanup" \notin Op /\ LockInv
  BY OpAssumption DEF IInv, TypeOK, Member, Op
<1>2. /\ UNCHANGED <<row, balance, pending, queued, session, idle, op, changes, mixed>>
      /\ line' = Append(line, "cleanup") /\ cleanup' = "chosen"
  BY DEF ChooseIdle, queue, browser, history
<1>3. /\ line' \in Seq(Member) /\ LockInv'
      /\ Len(line) \in Nat /\ Len(line') = Len(line) + 1
      /\ \A i \in 1..Len(line) : line'[i] = line[i]
      /\ line'[Len(line')] = "cleanup"
  BY <1>1, <1>2, JoinLine
<1>4. TypeOK'
  BY <1>2, <1>3 DEF IInv, TypeOK, Member
<1>5. QueueInv' /\ SessionInv' /\ SessionInUseStays'
  BY <1>2 DEF IInv, QueueInv, SessionInv, SessionInUseStays, Busy, InUse
<1>6. \A i \in 1..Len(line') : line'[i] \in Op \cup {"reset"} => i \in 1..Len(line)
  BY <1>1, <1>3
<1>7. LoginInv'
  BY <1>2, <1>3, <1>6 DEF IInv, LoginInv, InUse
<1>8. CurrentLogin'
  BY <1>2, <1>3 DEF IInv, CurrentLogin
<1> QED
  BY <1>3, <1>4, <1>5, <1>7, <1>8 DEF IInv

LEMMA RestartIInv ==
  ASSUME IInv, Restart
  PROVE  IInv'
<1>1. line' = <<>> /\ Len(line') = 0 /\ line' \in Seq(Member)
  BY EmptySeq DEF Restart
<1>2. NoOp \in OpRecord /\ NoOp.pc = "idle"
  BY DEF NoOp, AtRest, OpRecord
<1>3. \A o \in Op : op'[o].pc = "idle"
  BY <1>2 DEF Restart
<1>4. Busy' = {} /\ InUse' = {}
  BY <1>3 DEF Busy, InUse, Op
<1>5. TypeOK'
  <2>1. op' \in [Op -> OpRecord]
    BY <1>2 DEF Restart
  <2>2. pending' \in BOOLEAN /\ idle' \in BOOLEAN
    BY DEF Restart
  <2>3. queued' \in 0..1 /\ session' \in Login \cup {"out", "closed"}
        /\ cleanup' \in {"off", "chosen", "stale"}
    BY DEF Restart
  <2> QED
    BY <1>1, <2>1, <2>2, <2>3 DEF IInv, TypeOK, Restart, Member, history
<1>6. LockInv' /\ SessionInv' /\ SessionInUseStays'
  BY <1>1, <1>3, <1>4 DEF LockInv, SessionInv, SessionInUseStays, Critical
<1>7. QueueInv'
  BY <1>4 DEF QueueInv, Restart
<1>8. LoginInv' /\ CurrentLogin'
  BY <1>1, <1>4 DEF IInv, LoginInv, CurrentLogin, Restart, history
<1> QED
  BY <1>5, <1>6, <1>7, <1>8 DEF IInv

-----------------------------------------------------------------------------
(* The theorems *)

LEMMA FinanceStepIInv ==
  ASSUME IInv, NEW o \in Op, FinanceStep(o)
  PROVE  IInv'
BY AcquireIInv, GetSessionIInv, LoggedInIInv, CookieReadsIInv, LoginFailsIInv,
   ReadFinanceIInv, EndOpIInv DEF FinanceStep

LEMMA NextIInv ==
  ASSUME IInv, [Next]_vars
  PROVE  IInv'
<1>1. CASE UNCHANGED vars
  BY <1>1 DEF vars, queue, browser, history, IInv, TypeOK, LockInv, QueueInv, SessionInv,
              SessionInUseStays, LoginInv, CurrentLogin, Holds, Busy, InUse
<1>2. CASE Next
  BY <1>2, QueueRefreshIInv, TakeRefreshIInv, StartRefreshIInv, FinanceStepIInv,
     UpdateAccountIInv, ResetSessionIInv, GoIdleIInv, ChooseIdleIInv, CleanUpIInv,
     RestartIInv DEF Next
<1> QED
  BY <1>1, <1>2

\* Every reachable state satisfies the inductive invariant.
THEOREM Invariance == Spec => []IInv
BY InitIInv, NextIInv, PTL DEF Spec

\* Every variable keeps its type; the account is queued at most once.
THEOREM TypeCorrect == Spec => []TypeOK
<1>1. IInv => TypeOK
  BY DEF IInv
<1> QED
  BY <1>1, Invariance, PTL

\* The operation lock protects the session: neither the clean-up nor a change of the
\* login closes it while an operation logs in or reads the balance in it.
THEOREM SessionProtected == Spec => []SessionInUseStays
<1>1. IInv => SessionInUseStays
  BY DEF IInv
<1> QED
  BY <1>1, Invariance, PTL

\* A change of the login that met no operation under way leaves nothing of the old
\* login in the row, the session or the balance, however operations, resets,
\* clean-ups and restarts follow one another.
THEOREM LoginCurrent == Spec => []CurrentLogin
<1>1. IInv => CurrentLogin
  BY DEF IInv
<1> QED
  BY <1>1, Invariance, PTL

\* The pending set counts the refreshes of the queue and its workers exactly, for any
\* number of workers.
THEOREM OneRefresh == Spec => []RefreshedOnce
<1>1. IInv => RefreshedOnce
  <2> SUFFICES ASSUME IInv PROVE RefreshedOnce
    OBVIOUS
  <2>1. Cardinality({}) = 0
    BY FS_EmptySet
  <2>2. \A w \in Worker : Cardinality({w}) = 1
    BY FS_Singleton
  <2>3. RefreshedOnce <=> queued + Cardinality(Busy) = IF pending THEN 1 ELSE 0
    BY DEF RefreshedOnce, Busy
  <2> QED
    BY <2>1, <2>2, <2>3 DEF IInv, QueueInv
<1> QED
  BY <1>1, Invariance, PTL

-----------------------------------------------------------------------------
(* Recharge: the inductive invariant *)

\* A request under way that holds the lock; one that has called for a code.
Working(t) == task[t].kind # "poll" /\ task[t].pc \in {"channels", "asked", "again", "askedAgain", "draw"}
Called(t)  == task[t].kind # "poll" /\ task[t].pc \in {"asked", "askedAgain"}
Polled(t)  == task[t].kind = "poll" /\ task[t].pc = "asked"

\* A request stands in line once, and only the first in line works.
PayLine ==
  /\ \A i, j \in 1..Len(line) : line[i] = line[j] => i = j
  /\ \A i \in 1..Len(line) : /\ task[line[i]].kind # "poll"
                             /\ task[line[i]].pc \notin {"free", "sent", "done"}
  /\ \A t \in Task : Working(t) => Holds(t)

\* Orders are numbered in turn: the one on file, those that were, and those with codes.
Numbered ==
  /\ current <= orders /\ current \notin gone
  /\ \A o \in gone : o <= orders
  /\ \A q \in 1..Len(qrs) : qrs[q].order <= orders

\* A payment that a call will write back is the one on file; a new order is on file
\* after its call only, and has no code before.
Underway(t) ==
  /\ Called(t) \/ (Working(t) /\ task[t].pc = "draw") => task[t].obj = current /\ current # 0
  /\ Working(t) /\ task[t].pc = "channels" =>
       /\ task[t].order \in 1..orders /\ task[t].order \notin gone \cup {current}
       /\ CodesOf(task[t].order) = {}

\* Codes and pictures belong to their orders, also the ones that a call brings.
Fits(o) ==
  /\ object[o].qr # 0 => object[o].qr \in CodesOf(o)
  /\ object[o].png \in {0, object[o].qr}

Brings(t) ==
  /\ Called(t) => /\ task[t].qr # 0 => task[t].qr \in CodesOf(task[t].obj)
                  /\ task[t].prev = object[task[t].obj].qr
  /\ Working(t) /\ task[t].pc = "draw" => task[t].qr = object[task[t].obj].qr

\* What a status query has seen.
Polls(t) ==
  /\ Polled(t) => /\ task[t].obj # 0 /\ task[t].since <= now + Valid
                  /\ task[t].got \in {"paid", "pending", "failed"}
                  /\ task[t].got = "paid" => task[t].obj \in paid
  /\ task[t].kind = "poll" /\ task[t].pc = "done" /\ task[t].got = "paid" =>
       task[t].order \in paid

\* As long as no call was lost, the code on file is the last one of its order, or the
\* one that a call is bringing is; a code that is new to a call is younger than it.
Last(o, n) == \A q \in CodesOf(o) : q <= n

Newest ==
  /\ \A t \in Task : Called(t) =>
       Last(task[t].obj, IF task[t].qr = 0 THEN task[t].prev ELSE task[t].qr)
  /\ current # 0 /\ (\A t \in Task : ~Called(t)) => Last(current, object[current].qr)

Since(t) ==
  /\ Working(t) /\ task[t].pc # "channels" /\ task[t].pc # "draw" => task[t].since <= now
  /\ Called(t) /\ task[t].qr \notin {0, task[t].prev} => task[t].since <= qrs[task[t].qr].at

Capped(o) ==
  object[o].capped => object[o].qr # 0 /\ object[o].expires <= qrs[object[o].qr].at + Valid

Honest ==
  faults = 0 => Newest /\ (\A t \in Task : Since(t)) /\ \A o \in 1..MaxOrders : Capped(o)

PaymentInv ==
  /\ ServerTypes /\ PayLine /\ Numbered /\ Honest
  /\ \A t \in Task : Underway(t) /\ Brings(t) /\ Polls(t)
  /\ \A o \in 1..MaxOrders : Fits(o) /\ object[o].expires <= now + Valid

HonestOf(t) ==
  faults = 0 =>
    /\ Called(t) => Last(task[t].obj, IF task[t].qr = 0 THEN task[t].prev ELSE task[t].qr)
    /\ current # 0 /\ ~Called(t) => Last(current, object[current].qr)
    /\ Since(t) /\ \A o \in 1..MaxOrders : Capped(o)

LEMMA PaymentFacts ==
  ASSUME PaymentInv
  PROVE  /\ orders \in Nat /\ orders <= MaxOrders
         /\ qrs \in Seq([order : 1..MaxOrders, at : 0..MaxTime]) /\ Len(qrs) \in Nat
         /\ Len(qrs) <= MaxQrs
         /\ object \in [1..MaxOrders -> PaymentType]
         /\ \A o \in 1..MaxOrders : object[o].order = o
         /\ current \in Nat /\ current <= MaxOrders /\ (current # 0 => current \in 1..MaxOrders)
         /\ line \in Seq(Task) /\ task \in [Task -> TaskType]
         /\ now \in Nat /\ now <= MaxTime /\ faults \in Nat /\ faults <= MaxFaults
         /\ gone \subseteq 1..MaxOrders
         /\ PayLine /\ Numbered /\ Honest
         /\ \A t \in Task : Underway(t) /\ Brings(t) /\ Polls(t)
         /\ \A o \in 1..MaxOrders : Fits(o) /\ object[o].expires <= now + Valid
<1>1. ServerTypes
  BY DEF PaymentInv
<1>2. {MaxOrders, MaxQrs, MaxFaults, MaxTime} \subseteq Nat
  BY BoundAssumption
<1>3. orders \in 0..MaxOrders /\ current \in 0..MaxOrders /\ now \in 0..MaxTime
      /\ faults \in 0..MaxFaults /\ qrs \in Seq([order : 1..MaxOrders, at : 0..MaxTime])
      /\ Len(qrs) <= MaxQrs
  BY <1>1 DEF ServerTypes, Order
<1>4. Len(qrs) \in Nat
  BY <1>3
<1>5. /\ orders \in Nat /\ orders <= MaxOrders /\ current \in Nat /\ current <= MaxOrders
      /\ (current # 0 => current \in 1..MaxOrders)
      /\ now \in Nat /\ now <= MaxTime /\ faults \in Nat /\ faults <= MaxFaults
  BY <1>2, <1>3
<1> QED
  BY <1>1, <1>3, <1>4, <1>5 DEF PaymentInv, ServerTypes

LEMMA PaymentNumbers ==
  /\ MaxOrders \in Nat /\ MaxQrs \in Nat /\ MaxFaults \in Nat /\ MaxTime \in Nat
  /\ Valid \in Nat \ {0} /\ Slots \in Nat \ {0} /\ Tries \in Nat \ {0}
BY BoundAssumption

-----------------------------------------------------------------------------
(* Recharge: the line *)

\* Who holds the lock is the only one to work.
LEMMA Holder ==
  ASSUME PaymentInv, NEW t \in Task, Holds(t)
  PROVE  /\ task[t].kind # "poll" /\ task[t].pc \notin {"free", "sent", "done"}
         /\ \A u \in Task \ {t} : ~Working(u) /\ ~Called(u)
         /\ HonestOf(t)
<1>1. line \in Seq(Task) /\ line # <<>> /\ Head(line) = t
  BY PaymentFacts DEF Holds
<1>2. 1 \in 1..Len(line) /\ line[1] = t
  BY <1>1, TailOfLine
<1>3. task[t].kind # "poll" /\ task[t].pc \notin {"free", "sent", "done"}
  BY <1>2, PaymentFacts DEF PayLine
<1>4. \A u \in Task \ {t} : ~Working(u) /\ ~Called(u)
  BY <1>1, PaymentFacts DEF PayLine, Holds, Working, Called
<1>5. HonestOf(t)
  BY <1>4, PaymentFacts DEF HonestOf, Honest, Newest
<1> QED
  BY <1>3, <1>4, <1>5

\* The holder goes on, leaves, or goes to the end of the line.
LEMMA HolderLine ==
  ASSUME PaymentInv, NEW t \in Task, Holds(t), NEW x \in TaskType,
         task' = [task EXCEPT ![t] = x], x.kind # "poll",
         \/ line' = line /\ x.pc \notin {"free", "sent", "done"}
         \/ line' = Tail(line) /\ x.pc = "done"
         \/ line' = Append(Tail(line), t) /\ x.pc = "wait"
  PROVE  PayLine' /\ line' \in Seq(Task)
<1>1. line \in Seq(Task) /\ line # <<>> /\ Head(line) = t
  BY PaymentFacts DEF Holds
<1>2. /\ Tail(line) \in Seq(Task)
      /\ Len(line) \in Nat /\ Len(line) >= 1 /\ Len(Tail(line)) = Len(line) - 1
      /\ line[1] = t
      /\ \A i \in 1..Len(Tail(line)) : i + 1 \in 1..Len(line) /\ Tail(line)[i] = line[i + 1]
  BY <1>1, TailOfLine
<1>3. /\ task'[t] = x /\ \A u \in Task \ {t} : task'[u] = task[u] /\ ~Working(u)
  BY Holder, PaymentFacts
<1>4. \A u \in Task \ {t} : ~Working(u)'
  BY <1>3 DEF Working
<1>5. /\ \A i, j \in 1..Len(line) : line[i] = line[j] => i = j
      /\ \A i \in 1..Len(line) : /\ line[i] \in Task /\ task[line[i]].kind # "poll"
                                 /\ task[line[i]].pc \notin {"free", "sent", "done"}
  BY <1>1, PaymentFacts DEF PayLine
<1> DEFINE rest == Tail(line)
<1>6. /\ \A i, j \in 1..Len(rest) : rest[i] = rest[j] => i = j
      /\ \A i \in 1..Len(rest) : /\ rest[i] \in Task \ {t} /\ task'[rest[i]].kind # "poll"
                                 /\ task'[rest[i]].pc \notin {"free", "sent", "done"}
  <2>1. ASSUME NEW i \in 1..Len(rest), NEW j \in 1..Len(rest), rest[i] = rest[j] PROVE i = j
    <3>1. i + 1 = j + 1
      BY <1>2, <1>5, <2>1
    <3> QED
      BY <3>1
  <2>2. ASSUME NEW i \in 1..Len(rest)
        PROVE  /\ rest[i] \in Task \ {t} /\ task'[rest[i]].kind # "poll"
               /\ task'[rest[i]].pc \notin {"free", "sent", "done"}
    <3>1. i + 1 \in 1..Len(line) /\ rest[i] = line[i + 1] /\ i + 1 # 1 /\ 1 \in 1..Len(line)
      BY <1>2
    <3>2. rest[i] # t
      BY <1>2, <1>5, <3>1
    <3> QED
      BY <1>3, <1>5, <3>1, <3>2
  <2> QED
    BY <2>1, <2>2
<1>7. CASE line' = line /\ x.pc \notin {"free", "sent", "done"}
  <2>1. \A i \in 1..Len(line) : /\ task'[line[i]].kind # "poll"
                                /\ task'[line[i]].pc \notin {"free", "sent", "done"}
    BY <1>3, <1>5, <1>7
  <2>2. \A u \in Task : Working(u)' => Holds(u)'
    BY <1>1, <1>4, <1>7 DEF Holds
  <2> QED
    BY <1>1, <1>5, <1>7, <2>1, <2>2 DEF PayLine
<1>8. CASE line' = rest /\ x.pc = "done"
  <2>1. \A u \in Task : ~Working(u)'
    BY <1>3, <1>4, <1>8 DEF Working
  <2> QED
    BY <1>2, <1>6, <1>8, <2>1 DEF PayLine
<1>9. CASE line' = Append(rest, t) /\ x.pc = "wait"
  <2>1. \A u \in Task : ~Working(u)'
    BY <1>3, <1>4, <1>9 DEF Working
  <2>2. rest \in Seq(Task) /\ t \in Task
    BY <1>2
  <2> HIDE DEF rest
  <2>3. /\ line' \in Seq(Task) /\ Len(rest) \in Nat /\ Len(line') = Len(rest) + 1
        /\ \A i \in 1..Len(rest) : line'[i] = rest[i]
        /\ line'[Len(rest) + 1] = t
    BY <1>9, <2>2, AppendToLine
  <2>4. \A i \in 1..Len(line') : i \in 1..Len(rest) \/ i = Len(rest) + 1
    BY <2>3
  <2>5. \A i, j \in 1..Len(line') : line'[i] = line'[j] => i = j
    BY <1>6, <2>3, <2>4
  <2>6. \A i \in 1..Len(line') : /\ task'[line'[i]].kind # "poll"
                                 /\ task'[line'[i]].pc \notin {"free", "sent", "done"}
    BY <1>3, <1>6, <1>9, <2>3, <2>4
  <2> QED
    BY <2>1, <2>3, <2>5, <2>6 DEF PayLine
<1> QED
  BY <1>7, <1>8, <1>9

\* A step of the holder disturbs its own request and the payments only.
LEMMA HolderInv ==
  ASSUME PaymentInv, NEW t \in Task, Holds(t), NEW x \in TaskType,
         task' = [task EXCEPT ![t] = x], x.kind # "poll",
         \/ line' = line /\ x.pc \notin {"free", "sent", "done"}
         \/ line' = Tail(line) /\ x.pc = "done"
         \/ line' = Append(Tail(line), t) /\ x.pc = "wait",
         UNCHANGED <<paid, now>>,
         orders' \in 0..MaxOrders, current' \in 0..MaxOrders, faults' \in 0..MaxFaults,
         qrs' \in Seq([order : 1..MaxOrders, at : 0..MaxTime]), Len(qrs') <= MaxQrs,
         object' \in [1..MaxOrders -> PaymentType], gone' \subseteq 1..MaxOrders,
         \A o \in 1..MaxOrders : object'[o].order = o /\ Fits(o)'
                                 /\ object'[o].expires <= now + Valid,
         Numbered', Underway(t)', Brings(t)', HonestOf(t)'
  PROVE  PaymentInv'
<1>1. PayLine' /\ line' \in Seq(Task)
  BY HolderLine
<1>2. /\ task' \in [Task -> TaskType] /\ task'[t] = x
      /\ \A u \in Task \ {t} : task'[u] = task[u] /\ ~Working(u) /\ ~Called(u)
  BY Holder, PaymentFacts
<1>3. \A u \in Task \ {t} : ~Working(u)' /\ ~Called(u)'
  BY <1>2 DEF Working, Called
<1>4. ServerTypes'
  BY <1>1, <1>2, PaymentFacts, PaymentNumbers DEF PaymentInv, ServerTypes, Order
<1>5. \A u \in Task \ {t} : Underway(u)' /\ Brings(u)' /\ Since(u)'
  BY <1>3 DEF Underway, Brings, Since
<1>6. ASSUME NEW u \in Task PROVE Polls(u)'
  <2>1. CASE u = t
    BY <1>2, <2>1 DEF Polls, Polled
  <2>2. CASE u # t
    BY <1>2, <2>2, PaymentFacts DEF Polls, Polled
  <2> QED
    BY <2>1, <2>2
<1>7. Honest'
  BY <1>3, <1>5 DEF HonestOf, Honest, Newest
<1>8. \A o \in 1..MaxOrders : object'[o].expires <= now' + Valid
  OBVIOUS
<1> QED
  BY <1>1, <1>4, <1>5, <1>6, <1>7, <1>8 DEF PaymentInv

-----------------------------------------------------------------------------
(* Recharge: steps that leave the payments alone *)

\* A step of a request that does not hold the lock, before or after.
LEMMA OtherInv ==
  ASSUME PaymentInv, task' \in [Task -> TaskType], line' \in Seq(Task), PayLine',
         UNCHANGED <<orders, qrs, object, current, now, gone>>,
         faults' \in 0..MaxFaults, faults' = 0 => faults = 0,
         \A t \in Task : Working(t)' <=> Working(t),
         \A t \in Task : Working(t) =>
           /\ task'[t].pc = task[t].pc /\ task'[t].kind = task[t].kind
           /\ task'[t].obj = task[t].obj /\ task'[t].order = task[t].order
           /\ task'[t].qr = task[t].qr /\ task'[t].prev = task[t].prev
           /\ task'[t].since = task[t].since,
         \A t \in Task : Polls(t)'
  PROVE  PaymentInv'
<1>1. ServerTypes'
  BY PaymentFacts, PaymentNumbers DEF PaymentInv, ServerTypes, Order
<1>2. \A o : CodesOf(o)' = CodesOf(o)
  BY DEF CodesOf
<1>3. Numbered' /\ \A o \in 1..MaxOrders : Fits(o)' /\ object'[o].expires <= now' + Valid
  BY <1>2, PaymentFacts DEF Numbered, Fits
<1>4. \A t \in Task : Called(t)' => Called(t) /\ Working(t)
  BY DEF Called, Working
<1>5. \A t \in Task : Called(t) => Called(t)' /\ Working(t)
  BY DEF Called, Working
<1>6. ASSUME NEW t \in Task PROVE Underway(t)' /\ Brings(t)'
  <2>1. CASE Working(t)
    BY <1>2, <1>4, <1>5, <2>1, PaymentFacts, ZenonT(40) DEF Underway, Brings
  <2>2. CASE ~Working(t)
    BY <1>4, <2>2 DEF Underway, Brings
  <2> QED
    BY <2>1, <2>2
<1>7. ASSUME faults' = 0 PROVE Newest' /\ (\A t \in Task : Since(t)') /\ \A o \in 1..MaxOrders : Capped(o)'
  <2>1. Newest /\ (\A t \in Task : Since(t)) /\ \A o \in 1..MaxOrders : Capped(o)
    BY <1>7, PaymentFacts DEF Honest
  <2>2. Newest'
    BY <1>2, <1>4, <1>5, <2>1 DEF Newest, Last
  <2>3. \A t \in Task : Since(t)'
    BY <1>4, <1>5, <2>1 DEF Since
  <2>4. \A o \in 1..MaxOrders : Capped(o)'
    BY <2>1 DEF Capped
  <2> QED
    BY <2>2, <2>3, <2>4
<1>8. Honest'
  BY <1>7 DEF Honest
<1> QED
  BY <1>1, <1>3, <1>6, <1>8 DEF PaymentInv

\* The pages send requests, take answers and drop them; they touch no request under way.
Moved(f) ==
  /\ f \in [Task -> TaskType]
  /\ \A t \in Task :
       \/ /\ f[t].pc = task[t].pc /\ f[t].kind = task[t].kind /\ f[t].obj = task[t].obj
          /\ f[t].order = task[t].order /\ f[t].qr = task[t].qr /\ f[t].prev = task[t].prev
          /\ f[t].since = task[t].since /\ f[t].got = task[t].got
       \/ task[t].pc \in {"free", "done"} /\ f[t].pc \in {"free", "sent"}

LEMMA MovedInv ==
  ASSUME PaymentInv, Moved(task'),
         UNCHANGED <<orders, qrs, object, current, line, now, faults, gone>>, paid \subseteq paid'
  PROVE  PaymentInv'
<1>1. task' \in [Task -> TaskType] /\ task \in [Task -> TaskType]
  BY PaymentFacts DEF Moved
<1>2. ASSUME NEW t \in Task
      PROVE  /\ Working(t)' <=> Working(t)
             /\ Working(t) =>
                  /\ task'[t].pc = task[t].pc /\ task'[t].kind = task[t].kind
                  /\ task'[t].obj = task[t].obj /\ task'[t].order = task[t].order
                  /\ task'[t].qr = task[t].qr /\ task'[t].prev = task[t].prev
                  /\ task'[t].since = task[t].since
             /\ Polls(t)'
  BY PaymentFacts DEF Moved, Working, Polls, Polled
<1>3. \A i \in 1..Len(line) : line[i] \in Task
  BY PaymentFacts
<1>4. PayLine'
  BY <1>2, <1>3, PaymentFacts DEF PayLine, Moved, Holds
<1> QED
  BY <1>1, <1>2, <1>4, PaymentFacts, OtherInv

LEMMA FreeTyped ==
  /\ Free \in TaskType /\ Free.pc = "free"
  /\ \A k \in DialogKinds \cup {"pay", "close"}, p \in Page :
       Request(k, p) \in TaskType /\ Request(k, p).pc = "sent"
<1>1. 0 \in Order /\ 0 \in Code /\ 0 \in Time /\ 0 \in 0..Valid
  BY PaymentNumbers DEF Order, Code, Time
<1>2. Free \in TaskType /\ Free.pc = "free"
  BY <1>1 DEF Free, TaskType
<1> QED
  BY <1>2 DEF Request, TaskType

LEMMA MovedStays ==
  ASSUME PaymentInv
  PROVE  Moved(task)
BY PaymentFacts DEF Moved

LEMMA MovedStale ==
  ASSUME NEW f, Moved(f), NEW p, NEW kinds
  PROVE  Moved(Stale(f, p, kinds))
<1> DEFINE g == Stale(f, p, kinds)
<1>1. ASSUME NEW t \in Task
      PROVE  /\ g[t] \in TaskType
             /\ g[t].pc = f[t].pc /\ g[t].kind = f[t].kind /\ g[t].obj = f[t].obj
             /\ g[t].order = f[t].order /\ g[t].qr = f[t].qr /\ g[t].prev = f[t].prev
             /\ g[t].since = f[t].since /\ g[t].got = f[t].got
  <2>1. f[t] \in TaskType
    BY DEF Moved
  <2>2. g[t] = f[t] \/ g[t] = [f[t] EXCEPT !.fresh = FALSE]
    BY DEF Stale
  <2> HIDE DEF g
  <2> QED
    BY <2>1, <2>2 DEF TaskType
<1>2. g \in [Task -> TaskType]
  <2>1. g = [t \in Task |-> g[t]]
    BY DEF Stale
  <2> HIDE DEF g
  <2> QED
    BY <1>1, <2>1
<1> HIDE DEF g
<1>3. Moved(g)
  BY <1>1, <1>2 DEF Moved
<1> QED
  BY <1>3 DEF g

LEMMA MovedSend ==
  ASSUME PaymentInv, NEW f, Moved(f), FreeSlots # {},
         NEW k \in DialogKinds \cup {"pay", "close"}, NEW p \in Page
  PROVE  Moved([f EXCEPT ![Slot] = Request(k, p)])
<1>1. Slot \in Task /\ task[Slot].pc = "free"
  BY DEF Slot, FreeSlots
<1>2. Request(k, p) \in TaskType /\ Request(k, p).pc = "sent"
  BY FreeTyped
<1> QED
  BY <1>1, <1>2 DEF Moved

LEMMA MovedFreed ==
  ASSUME PaymentInv, NEW t \in Task, task[t].pc = "done"
  PROVE  Moved(Freed(t))
<1>1. Free \in TaskType /\ Free.pc = "free"
  BY FreeTyped
<1> QED
  BY <1>1, PaymentFacts DEF Moved, Freed

LEMMA PageStepInv ==
  ASSUME PaymentInv, NEW p \in Page,
         \/ OpenRecharge(p) \/ CloseRecharge(p) \/ ChooseMethod(p) \/ LoadQr(p)
         \/ PollStatus(p) \/ RefreshQr(p) \/ MarkExpired(p) \/ PayOrder(p)
  PROVE  PaymentInv'
<1>1. /\ UNCHANGED <<orders, qrs, object, current, line, now, faults, gone>>
      /\ paid \subseteq paid'
  BY DEF OpenRecharge, CloseRecharge, ChooseMethod, LoadQr, PollStatus, RefreshQr,
         MarkExpired, PayOrder, PageOnly, Keep, provider
<1>2. {"order", "image", "poll", "refresh", "pay", "close"} \subseteq DialogKinds \cup {"pay", "close"}
  BY DEF DialogKinds, FrameKinds
<1>3. Moved(task')
  <2>1. CASE OpenRecharge(p) \/ LoadQr(p) \/ PollStatus(p) \/ RefreshQr(p)
    <3>1. PICK k \in DialogKinds \cup {"pay", "close"} :
            FreeSlots # {} /\ task' = [task EXCEPT ![Slot] = Request(k, p)]
      BY <1>2, <2>1 DEF OpenRecharge, LoadQr, PollStatus, RefreshQr, Send
    <3> QED
      BY <3>1, MovedStays, MovedSend
  <2>2. CASE CloseRecharge(p)
    <3>1. Moved(Stale(task, p, DialogKinds))
      BY MovedStays, MovedStale
    <3>2. CASE page[p].closing
      BY <2>2, <3>1, <3>2 DEF CloseRecharge
    <3>3. CASE ~page[p].closing
      <4>1. /\ FreeSlots # {}
            /\ task' = [Stale(task, p, DialogKinds) EXCEPT ![Slot] = Request("close", p)]
        BY <2>2, <3>3 DEF CloseRecharge
      <4> QED
        BY <1>2, <3>1, <4>1, MovedSend
    <3> QED
      BY <3>2, <3>3
  <2>3. CASE ChooseMethod(p)
    <3>1. Moved(Stale(task, p, FrameKinds))
      BY MovedStays, MovedStale
    <3>2. /\ FreeSlots # {}
          /\ task' = [Stale(task, p, FrameKinds) EXCEPT ![Slot] = Request("pay", p)]
      BY <2>3 DEF ChooseMethod
    <3> QED
      BY <1>2, <3>1, <3>2, MovedSend
  <2>4. CASE MarkExpired(p) \/ PayOrder(p)
    <3>1. task' = task
      BY <2>4 DEF MarkExpired, PayOrder
    <3> QED
      BY <3>1, MovedStays
  <2> QED
    BY <2>1, <2>2, <2>3, <2>4
<1> QED
  BY <1>1, <1>3, MovedInv

LEMMA ReceiveInv ==
  ASSUME PaymentInv, NEW t \in Task, Receive(t)
  PROVE  PaymentInv'
<1>1. /\ task[t].pc = "done" /\ PageOnly
      /\ task' = Freed(t) \/ \E p, kinds : task' = Stale(Freed(t), p, kinds)
  <2>1. CASE OrderAnswered(t)
    BY <2>1 DEF OrderAnswered, Took
  <2>2. CASE PayAnswered(t)
    BY <2>2 DEF PayAnswered, Took
  <2>3. CASE CloseAnswered(t)
    BY <2>3 DEF CloseAnswered, Took
  <2>4. CASE ImageAnswered(t)
    BY <2>4 DEF ImageAnswered, Took
  <2>5. CASE StatusAnswered(t)
    BY <2>5 DEF StatusAnswered, Took
  <2>6. CASE RefreshAnswered(t)
    BY <2>6 DEF RefreshAnswered, Took
  <2>7. CASE Dropped(t)
    BY <2>7 DEF Dropped
  <2> QED
    BY <2>1, <2>2, <2>3, <2>4, <2>5, <2>6, <2>7 DEF Receive
<1>2. UNCHANGED <<orders, qrs, paid, object, current, line, now, faults, gone>>
  BY <1>1 DEF PageOnly, Keep, provider
<1>3. Moved(Freed(t)) /\ \A p, kinds : Moved(Stale(Freed(t), p, kinds))
  BY <1>1, MovedFreed, MovedStale
<1>4. Moved(task')
  BY <1>1, <1>3
<1> QED
  BY <1>2, <1>4, MovedInv

LEMMA DoneTyped ==
  ASSUME PaymentInv, NEW t \in Task, NEW o \in Order, NEW q \in Code, NEW left \in 0..Valid,
         NEW got \in {"ready", "noqr", "unchanged", "failed", "lost", "none", "paid", "pending",
                      "expired", "unknown"}
  PROVE  LET x == Done(t, got, o, q, left) IN
         /\ x \in TaskType /\ x.pc = "done" /\ x.kind = task[t].kind /\ x.got = got /\ x.order = o
<1>1. 0 \in Order /\ 0 \in Code /\ 0 \in Time
  BY PaymentNumbers DEF Order, Code, Time
<1>2. task[t] \in TaskType
  BY PaymentFacts
<1> QED
  BY <1>1, <1>2 DEF Done, TaskType

LEMMA ArriveInv ==
  ASSUME PaymentInv, NEW t \in Task, Arrive(t)
  PROVE  PaymentInv'
<1>1. /\ task[t].pc = "sent" /\ task[t].kind # "poll" /\ line' = Append(line, t)
      /\ task' = [task EXCEPT ![t].pc = "wait"]
      /\ UNCHANGED <<orders, qrs, paid, object, current, now, faults, gone>>
  BY DEF Arrive, Keep, provider
<1>2. task[t] \in TaskType
  BY PaymentFacts
<1>3. /\ task'[t] \in TaskType /\ task'[t].pc = "wait" /\ task'[t].kind = task[t].kind
      /\ \A u \in Task \ {t} : task'[u] = task[u]
      /\ task' \in [Task -> TaskType]
  <2>1. [task[t] EXCEPT !.pc = "wait"] \in TaskType
    BY <1>2 DEF TaskType
  <2> QED
    BY <1>1, <1>2, <2>1, PaymentFacts
<1>4. /\ line \in Seq(Task) /\ line' \in Seq(Task) /\ line' # <<>>
      /\ Len(line) \in Nat /\ Len(line') = Len(line) + 1
      /\ \A i \in 1..Len(line) : line'[i] = line[i]
      /\ line'[Len(line) + 1] = t
      /\ line # <<>> => Head(line') = Head(line)
  BY <1>1, PaymentFacts, AppendToLine
<1>5. \A u \in Task : Working(u)' <=> Working(u)
  BY <1>1, <1>3 DEF Working
<1>6. PayLine'
  <2>1. \A i \in 1..Len(line) : line[i] \in Task \ {t}
    BY <1>1, <1>4, PaymentFacts DEF PayLine
  <2>2. \A i \in 1..Len(line') : i \in 1..Len(line) \/ i = Len(line) + 1
    BY <1>4
  <2>0. /\ \A i, j \in 1..Len(line) : line[i] = line[j] => i = j
        /\ \A u \in Task : Working(u) => Holds(u)
    BY PaymentFacts DEF PayLine
  <2>3. \A i, j \in 1..Len(line') : line'[i] = line'[j] => i = j
    BY <1>4, <2>0, <2>1, <2>2
  <2>4. \A i \in 1..Len(line') : /\ task'[line'[i]].kind # "poll"
                                 /\ task'[line'[i]].pc \notin {"free", "sent", "done"}
    BY <1>1, <1>3, <1>4, <2>1, <2>2, PaymentFacts DEF PayLine
  <2>5. \A u \in Task : Working(u)' => Holds(u)'
    BY <1>4, <1>5, <2>0 DEF Holds
  <2> QED
    BY <2>3, <2>4, <2>5 DEF PayLine
<1>7. \A u \in Task : Polls(u)'
  BY <1>1, <1>3, PaymentFacts DEF Polls, Polled
<1>8. ~Working(t)
  BY <1>1 DEF Working
<1> QED
  BY <1>1, <1>3, <1>4, <1>5, <1>6, <1>7, <1>8, PaymentFacts, PaymentNumbers, OtherInv

-----------------------------------------------------------------------------
(* Recharge: the status query *)

LEMMA PollInv ==
  ASSUME PaymentInv, NEW t \in Task, task[t].kind = "poll", NEW x \in TaskType,
         x.kind = "poll", task' = [task EXCEPT ![t] = x],
         UNCHANGED <<orders, qrs, paid, object, current, line, now, gone>>,
         faults' \in 0..MaxFaults, faults' = 0 => faults = 0, Polls(t)'
  PROVE  PaymentInv'
<1>1. /\ task'[t] = x /\ \A u \in Task \ {t} : task'[u] = task[u]
      /\ task' \in [Task -> TaskType]
  BY PaymentFacts
<1>2. \A u \in Task : Working(u)' <=> Working(u)
  BY <1>1 DEF Working
<1>3. \A i \in 1..Len(line) : line[i] \in Task \ {t}
  BY PaymentFacts DEF PayLine
<1>4. PayLine'
  BY <1>1, <1>2, <1>3, PaymentFacts DEF PayLine, Holds
<1>5. \A u \in Task : Polls(u)'
  BY <1>1, PaymentFacts DEF Polls, Polled
<1>6. ~Working(t)
  BY DEF Working
<1> QED
  BY <1>1, <1>2, <1>4, <1>5, <1>6, PaymentFacts, OtherInv

\* The seconds left of a payment that is valid for Valid seconds at most.
LEMMA LeftTyped ==
  ASSUME PaymentInv, NEW p, p.expires \in Nat, p.expires <= now + Valid
  PROVE  Left(p) \in 0..Valid
BY PaymentFacts, PaymentNumbers DEF Left

\* The payment on file.
LEMMA OnFile ==
  ASSUME PaymentInv, payment # Nothing
  PROVE  /\ current \in 1..MaxOrders /\ payment = object[current] /\ payment \in PaymentType
         /\ payment.order = current /\ payment.expires \in Nat
         /\ payment.expires <= now + Valid
<1>1. current # 0 /\ payment = object[current]
  BY DEF payment
<1>2. current \in 1..MaxOrders
  BY <1>1, PaymentFacts
<1> QED
  BY <1>1, <1>2, PaymentFacts, PaymentNumbers DEF PaymentType, Time

LEMMA AskStatusInv ==
  ASSUME PaymentInv, NEW t \in Task, AskStatus(t)
  PROVE  PaymentInv'
<1>1. /\ task[t].kind = "poll"
      /\ UNCHANGED <<orders, qrs, paid, object, current, line, now, faults, gone>>
  BY DEF AskStatus, Keep, provider
<1>2. faults' \in 0..MaxFaults /\ (faults' = 0 => faults = 0)
  BY <1>1, PaymentFacts, PaymentNumbers
<1>3. CASE Answer(t, "none", 0, 0, 0)
  <2> DEFINE x == Done(t, "none", 0, 0, 0)
  <2>1. x \in TaskType /\ x.pc = "done" /\ x.kind = "poll" /\ x.got = "none"
    BY <1>1, DoneTyped, PaymentNumbers DEF Order, Code
  <2>2. task' = [task EXCEPT ![t] = x]
    BY <1>3 DEF Answer
  <2> HIDE DEF x
  <2>3. task'[t] = x
    BY <2>2, PaymentFacts
  <2>4. Polls(t)'
    BY <2>1, <2>3 DEF Polls, Polled
  <2> QED
    BY <1>1, <1>2, <2>1, <2>2, <2>4, PollInv
<1>4. ASSUME payment # Nothing,
             NEW status \in IF payment.order \in paid THEN {"paid"} ELSE {"pending", "failed"},
             task' = [task EXCEPT ![t].pc = "asked", ![t].obj = current, ![t].got = status,
                                  ![t].since = payment.expires]
      PROVE  PaymentInv'
  <2> DEFINE x == [task[t] EXCEPT !.pc = "asked", !.obj = current, !.got = status,
                                  !.since = payment.expires]
  <2>1. /\ task[t] \in TaskType /\ current \in Order /\ payment.expires \in Time
        /\ status \in {"paid", "pending", "failed"}
    BY <1>4, OnFile, PaymentFacts, PaymentNumbers DEF Order, PaymentType
  <2>2. /\ x \in TaskType /\ x.pc = "asked" /\ x.kind = "poll" /\ x.obj = current
        /\ x.got = status /\ x.since = payment.expires
    BY <1>1, <2>1 DEF TaskType
  <2>3. task' = [task EXCEPT ![t] = x]
    BY <1>4, PaymentFacts
  <2> HIDE DEF x
  <2>4. task'[t] = x
    BY <2>3, PaymentFacts
  <2>5. status = "paid" => current \in paid
    BY <1>4, OnFile
  <2>6. Polls(t)'
    BY <1>1, <1>4, <2>1, <2>2, <2>4, <2>5, OnFile DEF Polls, Polled
  <2> QED
    BY <1>1, <1>2, <2>2, <2>3, <2>6, PollInv
<1> QED
  BY <1>3, <1>4 DEF AskStatus

LEMMA AnswerStatusInv ==
  ASSUME PaymentInv, NEW t \in Task, AnswerStatus(t)
  PROVE  PaymentInv'
<1>1. /\ task[t].kind = "poll" /\ task[t].pc = "asked"
      /\ UNCHANGED <<orders, qrs, paid, object, current, line, now, gone>>
  BY DEF AnswerStatus, Keep, provider
<1>2. Polled(t) /\ task[t] \in TaskType /\ task[t].obj \in 1..MaxOrders /\ task[t].obj \in Order
      /\ task[t].since \in Nat /\ task[t].since \in Time /\ task[t].since <= now + Valid
      /\ (task[t].got = "paid" => task[t].obj \in paid)
  <2>1. task[t] \in TaskType /\ Polled(t)
    BY <1>1, PaymentFacts DEF Polled
  <2>2. task[t].obj \in Order /\ task[t].since \in Time
    BY <2>1 DEF TaskType
  <2>3. task[t].obj # 0 /\ task[t].since <= now + Valid
        /\ (task[t].got = "paid" => task[t].obj \in paid)
    BY <2>1, PaymentFacts DEF Polls
  <2> QED
    BY <2>1, <2>2, <2>3, PaymentNumbers DEF Order, Time
<1>3. /\ Current(t).order \in Order /\ Current(t).expires \in Nat
      /\ Current(t).expires <= now + Valid
  <2>1. CASE payment = Nothing
    <3>1. object[task[t].obj] \in PaymentType
      BY <1>2, PaymentFacts
    <3>2. Current(t) = [object[task[t].obj] EXCEPT !.expires = task[t].since]
      BY <2>1 DEF Current
    <3>3. Current(t).order \in 1..MaxOrders /\ Current(t).expires = task[t].since
      BY <3>1, <3>2 DEF PaymentType
    <3> QED
      BY <1>2, <3>3, PaymentNumbers DEF Order
  <2>2. CASE payment # Nothing
    BY <2>2, OnFile, PaymentNumbers DEF Current, Order
  <2> QED
    BY <2>1, <2>2
<1>4. Left(Current(t)) \in 0..Valid
  BY <1>3, LeftTyped
<1>5. 0 \in Code /\ 0 \in 0..Valid
  BY PaymentNumbers DEF Code
<1>6. PICK got \in {"paid", "failed", "expired", "pending", "unknown"}, o \in Order, l \in 0..Valid :
        /\ Answer(t, got, o, 0, l)
        /\ got = "paid" => task[t].got = "paid" /\ o = task[t].obj
  <2>1. CASE StatusKnown(t)
    BY <1>2, <1>4, <2>1 DEF StatusKnown
  <2>2. CASE StatusExpired(t)
    BY <1>3, <1>5, <2>2 DEF StatusExpired
  <2>3. CASE StatusOpen(t)
    BY <1>3, <1>4, <2>3 DEF StatusOpen
  <2> QED
    BY <2>1, <2>2, <2>3 DEF AnswerStatus
<1>7. faults' = faults \/ (faults < MaxFaults /\ faults' = faults + 1)
  BY DEF AnswerStatus, StatusKnown, StatusExpired, StatusOpen, Fault
<1>8. faults' \in 0..MaxFaults /\ (faults' = 0 => faults = 0)
  BY <1>7, PaymentFacts, PaymentNumbers
<1> DEFINE x == Done(t, got, o, 0, l)
<1>9. x \in TaskType /\ x.pc = "done" /\ x.kind = "poll" /\ x.got = got /\ x.order = o
  BY <1>1, <1>5, DoneTyped
<1>10. task' = [task EXCEPT ![t] = x]
  BY <1>6 DEF Answer
<1> HIDE DEF x
<1>11. task'[t] = x
  BY <1>10, PaymentFacts
<1>12. Polls(t)'
  BY <1>1, <1>2, <1>6, <1>9, <1>11 DEF Polls, Polled
<1> QED
  BY <1>1, <1>8, <1>9, <1>10, <1>12, PollInv

-----------------------------------------------------------------------------
(* Recharge: time and restarts *)

LEMMA TickInv ==
  ASSUME PaymentInv, Tick
  PROVE  PaymentInv'
<1>1. /\ now < MaxTime /\ now' = now + 1
      /\ UNCHANGED <<orders, qrs, paid, object, current, line, task, faults, gone>>
  BY DEF Tick, Keep, provider
<1>2. now' \in 0..MaxTime /\ now <= now' /\ now \in Nat /\ now' \in Nat
  BY <1>1, PaymentFacts, PaymentNumbers
<1>3. ServerTypes'
  BY <1>1, <1>2 DEF PaymentInv, ServerTypes
<1>4. \A o : CodesOf(o)' = CodesOf(o)
  BY <1>1 DEF CodesOf
<1>5. PayLine' /\ Numbered'
  BY <1>1, PaymentFacts DEF PayLine, Numbered, Holds, Working
<1>6. ASSUME NEW o \in 1..MaxOrders PROVE Fits(o)' /\ object'[o].expires <= now' + Valid
  <2>1. object[o].expires \in Nat /\ object[o].expires <= now + Valid /\ Fits(o)
    BY PaymentFacts, PaymentNumbers DEF PaymentType, Time
  <2>2. Fits(o)'
    BY <1>1, <1>4, <2>1 DEF Fits
  <2>3. object[o].expires <= now' + Valid
    BY <1>2, <2>1, PaymentNumbers
  <2> QED
    BY <1>1, <2>2, <2>3
<1>7. ASSUME NEW t \in Task PROVE Underway(t)' /\ Brings(t)' /\ Polls(t)'
  <2>1. Underway(t)' /\ Brings(t)'
    BY <1>1, <1>4, PaymentFacts DEF Underway, Brings, Called, Working
  <2>2. task[t].since \in Nat
    BY PaymentFacts, PaymentNumbers DEF TaskType, Time
  <2>3. task[t].since <= now + Valid => task[t].since <= now' + Valid
    BY <1>2, <2>2, PaymentNumbers
  <2>4. Polls(t)'
    BY <1>1, <2>3, PaymentFacts DEF Polls, Polled
  <2> QED
    BY <2>1, <2>4
<1>8. ASSUME faults = 0 PROVE Newest' /\ (\A t \in Task : Since(t)') /\ \A o \in 1..MaxOrders : Capped(o)'
  <2>1. Newest /\ (\A t \in Task : Since(t)) /\ \A o \in 1..MaxOrders : Capped(o)
    BY <1>8, PaymentFacts DEF Honest
  <2>2. Newest' /\ \A o \in 1..MaxOrders : Capped(o)'
    BY <1>1, <1>4, <2>1 DEF Newest, Last, Called, Capped
  <2>3. ASSUME NEW t \in Task PROVE Since(t)'
    <3>1. task[t].since \in Nat
      BY PaymentFacts, PaymentNumbers DEF TaskType, Time
    <3>2. task[t].since <= now => task[t].since <= now'
      BY <1>2, <3>1
    <3> QED
      BY <1>1, <2>1, <3>2 DEF Since, Working, Called
  <2> QED
    BY <2>2, <2>3
<1>9. Honest'
  BY <1>1, <1>8 DEF Honest
<1> QED
  BY <1>3, <1>5, <1>6, <1>7, <1>9 DEF PaymentInv

\* What is on file when an order, or with 0 none, is put there.
LEMMA Filed ==
  ASSUME PaymentInv, NEW o \in 0..MaxOrders, File(o), o \notin gone, o <= orders,
         orders' = orders, qrs' = qrs
  PROVE  /\ current' = o /\ gone' \subseteq 1..MaxOrders /\ Numbered'
         /\ \A n : n \in gone' => n \in gone \/ (n = current /\ n # o)
<1>1. /\ current' = o /\ gone' = IF current \notin {0, o} THEN gone \cup {current} ELSE gone
  BY DEF File
<1>2. /\ current \in Nat /\ (current # 0 => current \in 1..MaxOrders) /\ gone \subseteq 1..MaxOrders
      /\ current <= orders /\ (\A n \in gone : n <= orders)
      /\ \A q \in 1..Len(qrs) : qrs[q].order <= orders
  BY PaymentFacts DEF Numbered
<1> QED
  BY <1>1, <1>2 DEF Numbered

LEMMA RestartInv ==
  ASSUME PaymentInv, RestartServer
  PROVE  PaymentInv'
<1> DEFINE lost(t) == Done(t, "lost", 0, 0, 0)
           x(t) == [lost(t) EXCEPT !.kind = IF @ = "activate" THEN "order" ELSE @]
<1>1. /\ faults < MaxFaults /\ faults' = faults + 1 /\ File(0) /\ line' = <<>>
      /\ task' = [t \in Task |-> IF task[t].pc \in {"free", "done"} THEN task[t] ELSE x(t)]
      /\ UNCHANGED <<orders, qrs, paid, object, now>>
  BY DEF RestartServer, Fault, provider
<1>2. ASSUME NEW t \in Task PROVE x(t) \in TaskType /\ x(t).pc = "done" /\ x(t).got = "lost"
  <2>1. lost(t) \in TaskType /\ lost(t).pc = "done" /\ lost(t).got = "lost"
    BY DoneTyped, PaymentNumbers DEF Order, Code
  <2> HIDE DEF lost
  <2>2. "order" \in DialogKinds
    BY DEF DialogKinds
  <2> QED
    BY <2>1, <2>2 DEF TaskType
<1> HIDE DEF x
<1>3. /\ task' \in [Task -> TaskType]
      /\ \A t \in Task : \/ task'[t] = task[t] /\ task[t].pc \in {"free", "done"}
                         \/ task'[t].pc = "done" /\ task'[t].got = "lost"
  BY <1>1, <1>2, PaymentFacts
<1>4. faults' \in 0..MaxFaults /\ faults' # 0
  BY <1>1, PaymentFacts, PaymentNumbers
<1>5. 0 \in 0..MaxOrders /\ 0 \notin gone /\ 0 <= orders
  BY PaymentFacts, PaymentNumbers
<1>6. current' = 0 /\ gone' \subseteq 1..MaxOrders /\ Numbered'
  BY <1>1, <1>5, Filed
<1>7. ServerTypes'
  BY <1>1, <1>3, <1>4, <1>5, <1>6 DEF PaymentInv, ServerTypes, Order
<1>8. \A t \in Task : ~Working(t)' /\ ~Called(t)' /\ ~Polled(t)'
  BY <1>3 DEF Working, Called, Polled
<1>9. PayLine'
  BY <1>1, <1>8 DEF PayLine
<1>10. \A t \in Task : Underway(t)' /\ Brings(t)' /\ Polls(t)'
  BY <1>1, <1>3, <1>8, PaymentFacts DEF Underway, Brings, Polls
<1>11. \A o \in 1..MaxOrders : Fits(o)' /\ object'[o].expires <= now' + Valid
  BY <1>1, PaymentFacts DEF Fits, CodesOf
<1>12. Honest'
  BY <1>4 DEF Honest
<1> QED
  BY <1>6, <1>7, <1>9, <1>10, <1>11, <1>12 DEF PaymentInv

-----------------------------------------------------------------------------
(* Recharge: steps under the lock *)

LEMMA NumberedFacts ==
  ASSUME PaymentInv
  PROVE  /\ orders \in Nat /\ current \in Nat /\ current <= orders /\ current \notin gone
         /\ \A o \in gone : o <= orders /\ o \in Nat
         /\ \A q \in 1..Len(qrs) : /\ qrs[q].order <= orders /\ qrs[q].order \in Nat
                                  /\ qrs[q].at \in Nat
<1> DEFINE Issued == [order : 1..MaxOrders, at : 0..MaxTime]
<1>0. qrs \in Seq(Issued)
  BY PaymentFacts
<1> HIDE DEF Issued
<1>1. \A q \in 1..Len(qrs) : qrs[q] \in Issued
  BY <1>0, ElementOfSeq
<1>2. \A q \in 1..Len(qrs) : qrs[q].order \in Nat /\ qrs[q].at \in Nat
  BY <1>1 DEF Issued
<1>3. \A o \in gone : o \in Nat
  BY PaymentFacts
<1> QED
  BY <1>2, <1>3, PaymentFacts DEF Numbered

\* The holder goes on, or leaves, and the payments stay as they are.
LEMMA KeepInv ==
  ASSUME PaymentInv, NEW t \in Task, Holds(t), NEW x \in TaskType,
         task' = [task EXCEPT ![t] = x], x.kind # "poll",
         \/ line' = line /\ x.pc \in {"draw", "channels"}
         \/ line' = Tail(line) /\ x.pc = "done",
         UNCHANGED <<qrs, paid, object, current, now, gone>>,
         orders' \in 0..MaxOrders, orders <= orders',
         faults' \in 0..MaxFaults, faults' = 0 => faults = 0 /\ (Called(t) => task[t].qr = 0),
         Underway(t)', Brings(t)'
  PROVE  PaymentInv'
<1>1. \A o : CodesOf(o)' = CodesOf(o)
  BY DEF CodesOf
<1>2. \A o \in 1..MaxOrders : object'[o].order = o /\ Fits(o)' /\ object'[o].expires <= now + Valid
  BY <1>1, PaymentFacts DEF Fits
<1>3. Numbered'
  <2>1. /\ current <= orders /\ current \notin gone /\ current \in Nat /\ orders \in Nat
        /\ \A o \in gone : o <= orders /\ o \in Nat
        /\ \A q \in 1..Len(qrs) : qrs[q].order <= orders /\ qrs[q].order \in Nat
    BY NumberedFacts
  <2>2. orders' \in Nat /\ orders <= orders' /\ orders \in Nat
    BY <2>1
  <2>3. /\ current <= orders' /\ \A o \in gone : o <= orders'
        /\ \A q \in 1..Len(qrs) : qrs[q].order <= orders'
    BY <2>1, <2>2
  <2> QED
    BY <2>1, <2>3 DEF Numbered
<1>4. task'[t] = x
  BY PaymentFacts
<1>5. ~Called(t)' /\ Since(t)'
  BY <1>4 DEF Called, Since, Working
<1>6. ASSUME faults' = 0 PROVE (current # 0 => Last(current, object[current].qr)) /\ \A o \in 1..MaxOrders : Capped(o)
  <2>1. HonestOf(t) /\ faults = 0 /\ (Called(t) => task[t].qr = 0)
    BY <1>6, Holder
  <2>2. CASE Called(t)
    <3>1. task[t].obj = current /\ task[t].prev = object[current].qr /\ task[t].qr = 0
      BY <2>1, <2>2, PaymentFacts DEF Underway, Brings
    <3> QED
      BY <2>1, <2>2, <3>1 DEF HonestOf
  <2>3. CASE ~Called(t)
    BY <2>1, <2>3 DEF HonestOf
  <2> QED
    BY <2>2, <2>3
<1>7. HonestOf(t)'
  BY <1>1, <1>5, <1>6 DEF HonestOf, Last, Capped
<1>8. \/ line' = line /\ x.pc \notin {"free", "sent", "done"}
      \/ line' = Tail(line) /\ x.pc = "done"
      \/ line' = Append(Tail(line), t) /\ x.pc = "wait"
  OBVIOUS
<1>9. /\ UNCHANGED <<paid, now>> /\ current' \in 0..MaxOrders
      /\ qrs' \in Seq([order : 1..MaxOrders, at : 0..MaxTime]) /\ Len(qrs') <= MaxQrs
      /\ object' \in [1..MaxOrders -> PaymentType] /\ gone' \subseteq 1..MaxOrders
  BY PaymentFacts, PaymentNumbers
<1> QED
  BY <1>2, <1>3, <1>7, <1>8, <1>9, HolderInv

\* The answer of a request that changes no payment.
LEMMA AnswerInv ==
  ASSUME PaymentInv, NEW t \in Task, Holds(t), NEW o \in Order, NEW q \in Code,
         NEW got \in {"ready", "noqr", "unchanged", "failed", "lost"},
         Answer(t, got, o, q, 0), line' = Tail(line),
         UNCHANGED <<qrs, paid, object, current, now, gone>>,
         orders' \in 0..MaxOrders, orders <= orders',
         faults' \in 0..MaxFaults, faults' = 0 => faults = 0 /\ (Called(t) => task[t].qr = 0)
  PROVE  PaymentInv'
<1> DEFINE x == Done(t, got, o, q, 0)
<1>1. 0 \in 0..Valid
  BY PaymentNumbers
<1>2. x \in TaskType /\ x.pc = "done" /\ x.kind # "poll"
  BY <1>1, DoneTyped, Holder
<1>3. task' = [task EXCEPT ![t] = x]
  BY DEF Answer
<1> HIDE DEF x
<1>4. task'[t] = x
  BY <1>3, PaymentFacts
<1>5. Underway(t)' /\ Brings(t)'
  BY <1>2, <1>4 DEF Underway, Brings, Called, Working
<1> QED
  BY <1>2, <1>3, <1>5, KeepInv

LEMMA FaultTyped ==
  ASSUME PaymentInv, UNCHANGED faults \/ (faults < MaxFaults /\ faults' = faults + 1)
  PROVE  faults' \in 0..MaxFaults /\ (faults' = 0 => faults = 0 /\ faults' = faults)
BY PaymentFacts, PaymentNumbers

LEMMA CreateOrderInv ==
  ASSUME PaymentInv, NEW t \in Task, CreateOrder(t)
  PROVE  PaymentInv'
<1>1. /\ Holds(t) /\ task[t].kind = "order" /\ task[t].pc = "wait"
      /\ UNCHANGED <<qrs, paid, object, current, page, now, gone>>
  BY DEF CreateOrder, Keep
<1>2. ~Called(t) /\ orders \in Nat /\ orders <= MaxOrders /\ task[t] \in TaskType
  BY <1>1, PaymentFacts DEF Called
<1>3. ASSUME orders < MaxOrders, orders' = orders + 1,
             task' = [task EXCEPT ![t].pc = "channels", ![t].order = orders + 1],
             UNCHANGED <<line, faults>>
      PROVE  PaymentInv'
  <2>0. PICK n \in Nat : n = orders + 1
    BY <1>2
  <2> DEFINE x == [task[t] EXCEPT !.pc = "channels", !.order = n]
  <2>1. n \in Order /\ n \in 1..MaxOrders /\ n \in 0..MaxOrders /\ orders <= n /\ n > orders
        /\ n \in 1..n
    BY <1>2, <1>3, <2>0, PaymentNumbers DEF Order
  <2>2. x \in TaskType /\ x.pc = "channels" /\ x.kind = "order" /\ x.order = n
    BY <1>1, <1>2, <2>1 DEF TaskType
  <2>3. task' = [task EXCEPT ![t] = x]
    BY <1>3, <2>0, PaymentFacts
  <2> HIDE DEF x
  <2>4. task'[t] = x
    BY <2>3, PaymentFacts
  <2>5. n \notin gone /\ n # current /\ CodesOf(n) = {}
    <3>1. /\ current <= orders /\ current \in Nat /\ \A o \in gone : o <= orders /\ o \in Nat
          /\ \A q \in 1..Len(qrs) : qrs[q].order <= orders /\ qrs[q].order \in Nat
      BY NumberedFacts
    <3> QED
      BY <1>2, <2>1, <3>1 DEF CodesOf
  <2>6. Underway(t)' /\ Brings(t)'
    <3>1. orders' = n
      BY <1>3, <2>0
    <3>2. ~Called(t)' /\ CodesOf(n)' = CodesOf(n)
      BY <1>1, <2>2, <2>4 DEF Called, CodesOf
    <3> QED
      BY <1>1, <2>1, <2>2, <2>4, <2>5, <3>1, <3>2 DEF Underway, Brings, Working
  <2>7. orders' = n /\ faults' \in 0..MaxFaults /\ (faults' = 0 => faults = 0)
    BY <1>3, <2>0, PaymentFacts, PaymentNumbers
  <2> QED
    BY <1>1, <1>2, <1>3, <2>1, <2>2, <2>3, <2>6, <2>7, KeepInv
<1>4. ASSUME FaultOr(orders = MaxOrders), orders' \in {orders, orders + 1} \cap (0..MaxOrders),
             Answer(t, "failed", 0, 0, 0), line' = Tail(line)
      PROVE  PaymentInv'
  <2>1. faults' \in 0..MaxFaults /\ (faults' = 0 => faults = 0)
    BY <1>4, FaultTyped DEF FaultOr, Fault
  <2>2. orders' \in 0..MaxOrders /\ orders <= orders' /\ 0 \in Order /\ 0 \in Code
    BY <1>2, <1>4, PaymentNumbers DEF Order, Code
  <2> QED
    BY <1>1, <1>2, <1>4, <2>1, <2>2, AnswerInv
<1> QED
  BY <1>3, <1>4 DEF CreateOrder

LEMMA ChannelsInv ==
  ASSUME PaymentInv, NEW t \in Task, Channels(t)
  PROVE  PaymentInv'
<1>1. /\ Holds(t) /\ task[t].pc = "channels" /\ UNCHANGED <<orders, qrs, paid, now>>
  BY DEF Channels, provider
<1>2. task[t] \in TaskType /\ Working(t) /\ ~Called(t)
  BY <1>1, Holder, PaymentFacts DEF Working, Called
<1>3. PICK n \in 1..MaxOrders : /\ n = task[t].order /\ n \in 1..orders /\ n <= orders
                                /\ n \notin gone \cup {current} /\ CodesOf(n) = {}
  <2>1. /\ task[t].order \in 1..orders /\ task[t].order \notin gone \cup {current}
        /\ CodesOf(task[t].order) = {}
    BY <1>1, <1>2, PaymentFacts DEF Underway
  <2>2. task[t].order \in 1..MaxOrders /\ task[t].order <= orders
    BY <2>1, PaymentFacts, PaymentNumbers
  <2> QED
    BY <2>1, <2>2
<1>4. ASSUME Write(NewPayment(task[t].order)),
             task' = [task EXCEPT ![t].pc = "wait", ![t].kind = "activate"],
             line' = Append(Tail(line), t), UNCHANGED faults
      PROVE  PaymentInv'
  <2> DEFINE x == [task[t] EXCEPT !.pc = "wait", !.kind = "activate"]
             p == NewPayment(n)
  <2>1. x \in TaskType /\ x.pc = "wait" /\ x.kind # "poll"
    BY <1>2 DEF TaskType, DialogKinds
  <2>2. task' = [task EXCEPT ![t] = x]
    BY <1>4, PaymentFacts
  <2> HIDE DEF x
  <2>3. task'[t] = x
    BY <2>2, PaymentFacts
  <2>4. /\ p \in PaymentType /\ p.order = n /\ p.qr = 0 /\ p.png = 0 /\ p.expires = 0
        /\ p.capped = FALSE
    BY PaymentNumbers DEF NewPayment, PaymentType, Code, Time
  <2>5. object' = [object EXCEPT ![n] = p] /\ File(n)
    BY <1>3, <1>4, <2>4 DEF Write, NewPayment
  <2> HIDE DEF p
  <2>6. /\ object' \in [1..MaxOrders -> PaymentType] /\ object'[n] = p
        /\ \A o \in 1..MaxOrders \ {n} : object'[o] = object[o]
    BY <2>4, <2>5, PaymentFacts
  <2>7. current' = n /\ gone' \subseteq 1..MaxOrders /\ Numbered'
    BY <1>1, <1>3, <2>5, Filed, PaymentNumbers
  <2>8. \A o : CodesOf(o)' = CodesOf(o)
    BY <1>1 DEF CodesOf
  <2>9. ASSUME NEW o \in 1..MaxOrders
        PROVE object'[o].order = o /\ Fits(o)' /\ object'[o].expires <= now + Valid
    <3>1. CASE o = n
      BY <2>4, <2>6, <3>1, PaymentFacts, PaymentNumbers DEF Fits
    <3>2. CASE o # n
      BY <2>6, <2>8, <3>2, PaymentFacts DEF Fits
    <3> QED
      BY <3>1, <3>2
  <2>10. Underway(t)' /\ Brings(t)' /\ ~Called(t)' /\ Since(t)'
    BY <2>1, <2>3 DEF Underway, Brings, Called, Working, Since
  <2>11. HonestOf(t)'
    <3>1. Last(n, 0)'
      BY <1>3, <2>8 DEF Last
    <3>2. Last(current, object[current].qr)'
      BY <2>4, <2>6, <2>7, <2>8, <3>1 DEF Last
    <3>3. ASSUME faults = 0, NEW o \in 1..MaxOrders PROVE Capped(o)'
      <4>1. CASE o = n
        BY <2>4, <2>6, <4>1 DEF Capped
      <4>2. CASE o # n
        BY <1>1, <2>6, <3>3, <4>2, Holder DEF Capped, HonestOf
      <4> QED
        BY <4>1, <4>2
    <3> QED
      BY <1>4, <2>10, <3>2, <3>3 DEF HonestOf
  <2>12. /\ orders' \in 0..MaxOrders /\ current' \in 0..MaxOrders /\ faults' \in 0..MaxFaults
         /\ qrs' \in Seq([order : 1..MaxOrders, at : 0..MaxTime]) /\ Len(qrs') <= MaxQrs
    BY <1>1, <1>4, <2>7, PaymentFacts, PaymentNumbers
  <2> QED
    BY <1>1, <1>4, <2>1, <2>2, <2>6, <2>7, <2>9, <2>10, <2>11, <2>12, HolderInv
<1>5. ASSUME Fault, Answer(t, "failed", 0, 0, 0), line' = Tail(line), Keep
      PROVE  PaymentInv'
  <2>1. faults' \in 0..MaxFaults /\ (faults' = 0 => faults = 0)
    BY <1>5, FaultTyped DEF Fault
  <2>2. orders' \in 0..MaxOrders /\ orders <= orders' /\ 0 \in Order /\ 0 \in Code
    BY <1>1, PaymentFacts, PaymentNumbers DEF Order, Code
  <2> QED
    BY <1>1, <1>2, <1>5, <2>1, <2>2, AnswerInv DEF Keep
<1> QED
  BY <1>4, <1>5 DEF Channels

LEMMA GetQrInv ==
  ASSUME PaymentInv, NEW t \in Task, GetQr(t)
  PROVE  PaymentInv'
<1>1. /\ Holds(t) /\ task[t].pc = "wait" /\ task[t].kind = "image"
      /\ UNCHANGED <<orders, qrs, paid, object, current, now, faults, gone>>
  BY DEF GetQr, Keep, provider
<1>2. ~Called(t) /\ task[t] \in TaskType
  BY <1>1, PaymentFacts DEF Called
<1>3. /\ orders' \in 0..MaxOrders /\ orders <= orders' /\ faults' \in 0..MaxFaults
      /\ 0 \in Order /\ 0 \in Code
  BY <1>1, PaymentFacts, PaymentNumbers DEF Order, Code
<1>4. HasCode => /\ current \in 1..MaxOrders /\ payment = object[current]
                 /\ payment.qr \in Code /\ payment.png \in Code
  BY OnFile DEF HasCode, PaymentType
<1>5. ASSUME NEW got \in {"noqr", "ready"}, NEW q \in Code, Answer(t, got, 0, q, 0), line' = Tail(line)
      PROVE  PaymentInv'
  BY <1>1, <1>2, <1>3, <1>5, AnswerInv
<1>6. ASSUME HasCode, UNCHANGED line,
             task' = [task EXCEPT ![t].pc = "draw", ![t].obj = current, ![t].qr = payment.qr]
      PROVE  PaymentInv'
  <2> DEFINE x == [task[t] EXCEPT !.pc = "draw", !.obj = current, !.qr = payment.qr]
  <2>1. current \in Order
    BY <1>4, <1>6, PaymentNumbers DEF Order
  <2>2. x \in TaskType /\ x.pc = "draw" /\ x.kind # "poll" /\ x.obj = current /\ x.qr = payment.qr
    BY <1>1, <1>2, <1>4, <1>6, <2>1 DEF TaskType
  <2>3. task' = [task EXCEPT ![t] = x]
    BY <1>6, PaymentFacts
  <2> HIDE DEF x
  <2>4. task'[t] = x
    BY <2>3, PaymentFacts
  <2>5. Underway(t)' /\ Brings(t)'
    <3>1. current' # 0 /\ object'[current'].qr = payment.qr
      BY <1>1, <1>4, <1>6, PaymentNumbers
    <3> QED
      BY <1>1, <2>2, <2>4, <3>1 DEF Underway, Brings, Called, Working
  <2> QED
    BY <1>1, <1>2, <1>3, <1>6, <2>2, <2>3, <2>5, KeepInv
<1> QED
  BY <1>3, <1>4, <1>5, <1>6 DEF GetQr

\* The payment on file is changed in place by the holder.
LEMMA WriteInv ==
  ASSUME PaymentInv, NEW t \in Task, Holds(t), current # 0, NEW p \in PaymentType,
         p.order = current, Write(p), NEW x \in TaskType,
         task' = [task EXCEPT ![t] = x], x.kind # "poll",
         \/ line' = line /\ x.pc = "again"
         \/ line' = Tail(line) /\ x.pc = "done",
         UNCHANGED <<orders, qrs, paid, now, faults>>,
         p.qr # 0 => p.qr \in CodesOf(current), p.png \in {0, p.qr}, p.expires <= now + Valid,
         faults = 0 => /\ Last(current, p.qr)
                       /\ x.pc = "again" => x.since <= now
                       /\ p.capped => p.qr # 0 /\ p.expires <= qrs[p.qr].at + Valid
  PROVE  PaymentInv'
<1>1. PICK c \in 1..MaxOrders : c = current
  BY PaymentFacts
<1>2. object' = [object EXCEPT ![c] = p] /\ current' = c /\ gone' = gone
  BY <1>1 DEF Write, File
<1>3. /\ object' \in [1..MaxOrders -> PaymentType] /\ object'[c] = p
      /\ \A o \in 1..MaxOrders \ {c} : object'[o] = object[o]
  BY <1>2, PaymentFacts
<1>4. \A o : CodesOf(o)' = CodesOf(o)
  BY DEF CodesOf
<1>5. ASSUME NEW o \in 1..MaxOrders
      PROVE  object'[o].order = o /\ Fits(o)' /\ object'[o].expires <= now + Valid
  <2>1. CASE o = c
    BY <1>1, <1>3, <1>4, <2>1 DEF Fits
  <2>2. CASE o # c
    BY <1>3, <1>4, <2>2, PaymentFacts DEF Fits
  <2> QED
    BY <2>1, <2>2
<1>6. Numbered'
  BY <1>1, <1>2, PaymentFacts DEF Numbered
<1>7. task'[t] = x
  BY PaymentFacts
<1>8. Underway(t)' /\ Brings(t)' /\ ~Called(t)'
  BY <1>7 DEF Underway, Brings, Called, Working
<1>9. HonestOf(t)'
  <2>1. ASSUME faults = 0, NEW o \in 1..MaxOrders PROVE Capped(o)'
    <3>1. CASE o = c
      BY <1>3, <2>1, <3>1 DEF Capped
    <3>2. CASE o # c
      BY <1>3, <2>1, <3>2, Holder DEF Capped, HonestOf
    <3> QED
      BY <3>1, <3>2
  <2>2. faults = 0 => Last(current, object[current].qr)'
    BY <1>1, <1>2, <1>3, <1>4 DEF Last
  <2>3. faults = 0 => Since(t)'
    BY <1>7, <1>8 DEF Since, Working
  <2> QED
    BY <1>8, <2>1, <2>2, <2>3 DEF HonestOf
<1>10. /\ orders' \in 0..MaxOrders /\ current' \in 0..MaxOrders /\ faults' \in 0..MaxFaults
       /\ qrs' \in Seq([order : 1..MaxOrders, at : 0..MaxTime]) /\ Len(qrs') <= MaxQrs
       /\ gone' \subseteq 1..MaxOrders
  BY <1>1, <1>2, PaymentFacts, PaymentNumbers
<1>11. \/ line' = line /\ x.pc \notin {"free", "sent", "done"}
       \/ line' = Tail(line) /\ x.pc = "done"
       \/ line' = Append(Tail(line), t) /\ x.pc = "wait"
  OBVIOUS
<1> QED
  BY <1>3, <1>5, <1>6, <1>8, <1>9, <1>10, <1>11, HolderInv

\* What a call for a code has to work with: the payment on file, and the code it brings.
LEMMA CallFacts ==
  ASSUME PaymentInv, NEW t \in Task, Holds(t), task[t].pc \in {"asked", "askedAgain"}
  PROVE  /\ Called(t) /\ Working(t) /\ task[t] \in TaskType
         /\ task[t].obj = current /\ current \in 1..MaxOrders /\ current # 0
         /\ task[t].qr # 0 => task[t].qr \in CodesOf(current)
         /\ task[t].prev = object[current].qr
         /\ faults = 0 => /\ Last(current, IF task[t].qr = 0 THEN task[t].prev ELSE task[t].qr)
                          /\ task[t].since <= now
                          /\ task[t].qr \notin {0, task[t].prev} =>
                               task[t].since <= qrs[task[t].qr].at
<1>1. task[t].kind # "poll" /\ HonestOf(t)
  BY Holder
<1>2. Called(t) /\ Working(t) /\ task[t] \in TaskType
  BY <1>1, PaymentFacts DEF Called, Working
<1>3. task[t].obj = current /\ current # 0 /\ current \in 1..MaxOrders
  BY <1>2, PaymentFacts DEF Underway
<1>4. /\ task[t].qr # 0 => task[t].qr \in CodesOf(current)
      /\ task[t].prev = object[current].qr
  BY <1>2, <1>3, PaymentFacts DEF Brings
<1>5. faults = 0 => /\ Last(current, IF task[t].qr = 0 THEN task[t].prev ELSE task[t].qr)
                    /\ task[t].since <= now
                    /\ task[t].qr \notin {0, task[t].prev} =>
                         task[t].since <= qrs[task[t].qr].at
  BY <1>1, <1>2, <1>3 DEF HonestOf, Since
<1> QED
  BY <1>2, <1>3, <1>4, <1>5

LEMMA CodeFailsInv ==
  ASSUME PaymentInv, NEW t \in Task, Holds(t), CodeFails(t),
         UNCHANGED <<orders, qrs, paid, now>>
  PROVE  PaymentInv'
<1>1. task[t] \in TaskType
  BY PaymentFacts
<1>2. task[t].order \in Order /\ 0 \in Code
  BY <1>1, PaymentNumbers DEF TaskType, Code
<1>3. /\ Answer(t, "noqr", task[t].order, 0, 0) /\ line' = Tail(line)
      /\ UNCHANGED <<object, current, gone>>
      /\ \/ task[t].qr = 0 /\ faults' = faults
         \/ task[t].qr # 0 /\ faults < MaxFaults /\ faults' = faults + 1
  BY DEF CodeFails, Keep
<1>4. faults' \in 0..MaxFaults /\ (faults' = 0 => faults = 0 /\ task[t].qr = 0)
  BY <1>3, PaymentFacts, PaymentNumbers
<1>5. orders' \in 0..MaxOrders /\ orders <= orders'
  BY PaymentFacts, PaymentNumbers
<1> QED
  BY <1>2, <1>3, <1>4, <1>5, AnswerInv

\* The payment with the code of the call.
LEMMA ActivatedFacts ==
  ASSUME PaymentInv, NEW t \in Task, Holds(t), task[t].pc \in {"asked", "askedAgain"}
  PROVE  LET a == Activated(t) IN
         /\ a \in PaymentType /\ a.order = current /\ a.qr = task[t].qr
         /\ a.expires = now + Valid /\ a.png = 0 /\ a.capped = FALSE
<1>1. /\ task[t] \in TaskType /\ task[t].obj = current /\ current \in 1..MaxOrders
  BY CallFacts
<1>2. object[current] \in PaymentType /\ object[current].order = current
  BY <1>1, PaymentFacts
<1>3. task[t].qr \in Code /\ 0 \in Code /\ now + Valid \in Time
  BY <1>1, PaymentFacts, PaymentNumbers DEF TaskType, Code, Time
<1> QED
  BY <1>1, <1>2, <1>3 DEF Activated, PaymentType

LEMMA ActivateInv ==
  ASSUME PaymentInv, NEW t \in Task, Activate(t)
  PROVE  PaymentInv'
<1>1. /\ Holds(t) /\ task[t].pc = "asked" /\ task[t].kind \in {"activate", "pay"}
      /\ UNCHANGED <<orders, qrs, paid, now>>
  BY DEF Activate, provider
<1>2. CASE CodeFails(t)
  BY <1>1, <1>2, CodeFailsInv
<1>3. ASSUME task[t].qr # 0, Write(Activated(t)), UNCHANGED faults, line' = Tail(line),
             Answer(t, "ready", IF task[t].kind = "pay" THEN task[t].obj ELSE task[t].order,
                    task[t].qr, Valid)
      PROVE  PaymentInv'
  <2> DEFINE o == IF task[t].kind = "pay" THEN task[t].obj ELSE task[t].order
             x == Done(t, "ready", o, task[t].qr, Valid)
             a == Activated(t)
  <2>1. /\ task[t] \in TaskType /\ task[t].obj = current /\ current # 0
        /\ task[t].qr \in CodesOf(current)
        /\ faults = 0 => Last(current, task[t].qr)
    BY <1>1, <1>3, CallFacts
  <2>2. o \in Order /\ task[t].qr \in Code /\ Valid \in 0..Valid
    BY <2>1, PaymentNumbers DEF TaskType
  <2>3. x \in TaskType /\ x.pc = "done" /\ x.kind # "poll"
    BY <1>1, <2>2, DoneTyped
  <2>4. task' = [task EXCEPT ![t] = x]
    BY <1>3 DEF Answer
  <2>5. /\ a \in PaymentType /\ a.order = current /\ a.qr = task[t].qr
        /\ a.expires = now + Valid /\ a.png = 0 /\ a.capped = FALSE
    BY <1>1, ActivatedFacts
  <2>6. Write(a)
    BY <1>3
  <2>7. a.expires <= now + Valid
    BY <2>5, PaymentFacts, PaymentNumbers
  <2> HIDE DEF x, a
  <2> QED
    BY <1>1, <1>3, <2>1, <2>3, <2>4, <2>5, <2>6, <2>7, WriteInv
<1> QED
  BY <1>2, <1>3 DEF Activate

LEMMA RefreshedFacts ==
  ASSUME PaymentInv, NEW t \in Task, Holds(t), task[t].pc \in {"asked", "askedAgain"}
  PROVE  LET r == Refreshed(t) IN
         /\ r \in PaymentType /\ r.order = current /\ r.qr = task[t].qr /\ r.png = 0
         /\ r.expires \in Nat /\ r.expires <= now + Valid /\ r.expires <= task[t].since + Valid
<1> DEFINE a == Activated(t)
<1>1. /\ a \in PaymentType /\ a.order = current /\ a.qr = task[t].qr
      /\ a.expires = now + Valid /\ a.png = 0
  BY ActivatedFacts
<1>2. Refreshed(t) = [a EXCEPT !.expires = Min2(a.expires, task[t].since + Valid), !.capped = TRUE]
  BY <1>1 DEF Refreshed, PaymentType
<1> HIDE DEF a
<1>3. task[t].since \in Nat /\ now \in Nat /\ now <= MaxTime
  BY CallFacts, PaymentFacts, PaymentNumbers DEF TaskType, Time
<1>4. PICK m \in Nat : m = Min2(a.expires, task[t].since + Valid)
  BY <1>1, <1>3, PaymentNumbers DEF Min2
<1>5. m <= now + Valid /\ m <= task[t].since + Valid
  BY <1>1, <1>3, <1>4, PaymentNumbers DEF Min2
<1>6. m \in Time
  BY <1>3, <1>4, <1>5, PaymentNumbers DEF Time
<1> QED
  BY <1>1, <1>2, <1>4, <1>5, <1>6 DEF PaymentType

LEMMA RefreshInv ==
  ASSUME PaymentInv, NEW t \in Task, RefreshCode(t)
  PROVE  PaymentInv'
<1>1. /\ Holds(t) /\ task[t].pc \in {"asked", "askedAgain"} /\ task[t].kind = "refresh"
      /\ UNCHANGED <<orders, qrs, paid, now>>
  BY DEF RefreshCode, provider
<1>2. /\ task[t] \in TaskType /\ current # 0 /\ task[t].qr \in Code /\ 0 \in Order
      /\ task[t].qr # 0 => task[t].qr \in CodesOf(current)
      /\ faults = 0 => /\ task[t].qr # 0 => Last(current, task[t].qr)
                       /\ task[t].since <= now
                       /\ task[t].qr \notin {0, task[t].prev} =>
                            task[t].since <= qrs[task[t].qr].at
  <2>1. task[t] \in TaskType /\ current # 0
    BY <1>1, CallFacts
  <2>2. task[t].qr \in Code /\ 0 \in Order
    BY <2>1, PaymentNumbers DEF TaskType, Order
  <2>3. task[t].qr # 0 => task[t].qr \in CodesOf(current)
    BY <1>1, CallFacts
  <2>4. faults = 0 => /\ Last(current, IF task[t].qr = 0 THEN task[t].prev ELSE task[t].qr)
                      /\ task[t].since <= now
                      /\ task[t].qr \notin {0, task[t].prev} =>
                           task[t].since <= qrs[task[t].qr].at
    BY <1>1, CallFacts
  <2> QED
    BY <2>1, <2>2, <2>3, <2>4
<1>3. CASE CodeFails(t)
  BY <1>1, <1>3, CodeFailsInv
<1>4. ASSUME task[t].qr \notin {0, task[t].prev}, Write(Refreshed(t)), UNCHANGED faults,
             Answer(t, "ready", 0, task[t].qr, Left(Refreshed(t))), line' = Tail(line)
      PROVE  PaymentInv'
  <2> DEFINE r == Refreshed(t)
             x == Done(t, "ready", 0, task[t].qr, Left(r))
  <2>1. /\ r \in PaymentType /\ r.order = current /\ r.qr = task[t].qr /\ r.png = 0
        /\ r.expires \in Nat /\ r.expires <= now + Valid /\ r.expires <= task[t].since + Valid
    BY <1>1, RefreshedFacts
  <2>2. Left(r) \in 0..Valid
    BY <2>1, LeftTyped
  <2>3. x \in TaskType /\ x.pc = "done" /\ x.kind # "poll"
    BY <1>1, <1>2, <2>2, DoneTyped
  <2>4. task' = [task EXCEPT ![t] = x] /\ Write(r)
    BY <1>4 DEF Answer
  <2> HIDE DEF x, r
  <2>5. faults = 0 => r.expires <= qrs[r.qr].at + Valid
    <3>1. task[t].qr \in 1..Len(qrs)
      BY <1>2, <1>4 DEF CodesOf
    <3>2. qrs[task[t].qr].at \in Nat /\ task[t].since \in Nat
      BY <1>2, <3>1, NumberedFacts, PaymentNumbers DEF TaskType, Time
    <3> QED
      BY <1>2, <1>4, <2>1, <3>2, PaymentNumbers
  <2> QED
    BY <1>1, <1>2, <1>4, <2>1, <2>3, <2>4, <2>5, WriteInv
<1>5. ASSUME task[t].qr # 0, Write(Activated(t)), UNCHANGED faults,
             \/ task' = [task EXCEPT ![t].pc = "again"] /\ UNCHANGED line
             \/ Answer(t, "unchanged", 0, task[t].qr, Valid) /\ line' = Tail(line)
      PROVE  PaymentInv'
  <2> DEFINE a == Activated(t)
             again == [task[t] EXCEPT !.pc = "again"]
             done == Done(t, "unchanged", 0, task[t].qr, Valid)
  <2>1. /\ a \in PaymentType /\ a.order = current /\ a.qr = task[t].qr
        /\ a.expires = now + Valid /\ a.png = 0 /\ a.capped = FALSE
    BY <1>1, ActivatedFacts
  <2>2. a.expires <= now + Valid /\ Valid \in 0..Valid
    BY <2>1, PaymentFacts, PaymentNumbers
  <2>3. /\ again \in TaskType /\ again.pc = "again" /\ again.kind # "poll"
        /\ again.since = task[t].since
    BY <1>1, <1>2 DEF TaskType
  <2>4. done \in TaskType /\ done.pc = "done" /\ done.kind # "poll"
    BY <1>1, <1>2, <2>2, DoneTyped
  <2>5. \/ task' = [task EXCEPT ![t] = again] /\ line' = line
        \/ task' = [task EXCEPT ![t] = done] /\ line' = Tail(line)
    BY <1>5, PaymentFacts DEF Answer
  <2>6. Write(a)
    BY <1>5
  <2> HIDE DEF a, again, done
  <2>7. faults = 0 => Last(current, a.qr) /\ again.since <= now
    BY <1>2, <1>5, <2>1, <2>3
  <2>8. CASE task' = [task EXCEPT ![t] = again] /\ line' = line
    BY <1>1, <1>2, <1>5, <2>1, <2>2, <2>3, <2>6, <2>7, <2>8, WriteInv
  <2>9. CASE task' = [task EXCEPT ![t] = done] /\ line' = Tail(line)
    BY <1>1, <1>2, <1>5, <2>1, <2>2, <2>4, <2>6, <2>7, <2>9, WriteInv
  <2> QED
    BY <2>5, <2>8, <2>9
<1> QED
  BY <1>3, <1>4, <1>5 DEF RefreshCode

LEMMA DrawQrInv ==
  ASSUME PaymentInv, NEW t \in Task, DrawQr(t)
  PROVE  PaymentInv'
<1>1. /\ Holds(t) /\ task[t].pc = "draw" /\ UNCHANGED <<orders, qrs, paid, now, faults>>
      /\ Answer(t, "ready", 0, task[t].qr, 0) /\ line' = Tail(line)
  BY DEF DrawQr, provider
<1>2. task[t].kind # "poll" /\ HonestOf(t)
  BY <1>1, Holder
<1>3. ~Called(t) /\ Working(t) /\ task[t] \in TaskType
  BY <1>1, <1>2, PaymentFacts DEF Called, Working
<1>4. PICK c \in 1..MaxOrders : c = current /\ task[t].obj = c /\ task[t].qr = object[c].qr
  <2>1. task[t].obj = current /\ current # 0 /\ task[t].qr = object[task[t].obj].qr
    BY <1>1, <1>3, PaymentFacts DEF Underway, Brings
  <2> QED
    BY <2>1, PaymentFacts
<1> DEFINE p == [object[c] EXCEPT !.png = task[t].qr]
           x == Done(t, "ready", 0, task[t].qr, 0)
<1>5. /\ object[c] \in PaymentType /\ object[c].order = c /\ task[t].qr \in Code /\ 0 \in Order
      /\ 0 \in 0..Valid /\ Fits(c) /\ object[c].expires <= now + Valid
  BY <1>3, PaymentFacts, PaymentNumbers DEF TaskType, Order
<1>6. /\ p \in PaymentType /\ p.order = current /\ p.qr = task[t].qr /\ p.png = task[t].qr
      /\ p.expires = object[c].expires /\ p.capped = object[c].capped
  BY <1>4, <1>5 DEF PaymentType
<1>7. x \in TaskType /\ x.pc = "done" /\ x.kind # "poll"
  BY <1>2, <1>5, DoneTyped
<1>8. task' = [task EXCEPT ![t] = x]
  BY <1>1 DEF Answer
<1>9. Write(p)
  BY <1>1, <1>4 DEF DrawQr
<1> HIDE DEF p, x
<1>10. p.qr # 0 => p.qr \in CodesOf(current)
  BY <1>4, <1>5, <1>6 DEF Fits
<1>11. faults = 0 => /\ Last(current, p.qr)
                     /\ p.capped => p.qr # 0 /\ p.expires <= qrs[p.qr].at + Valid
  <2>1. faults = 0 => Last(current, object[current].qr) /\ Capped(c)
    BY <1>2, <1>3, <1>4, PaymentNumbers DEF HonestOf
  <2> QED
    BY <1>4, <1>6, <2>1 DEF Capped
<1>12. p.expires <= now + Valid /\ current # 0
  BY <1>4, <1>5, <1>6, PaymentNumbers
<1> QED
  BY <1>1, <1>6, <1>7, <1>8, <1>9, <1>10, <1>11, <1>12, WriteInv

LEMMA CloseInv ==
  ASSUME PaymentInv, NEW t \in Task, Close(t)
  PROVE  PaymentInv'
<1>1. /\ Holds(t) /\ task[t].kind = "close" /\ task[t].pc = "wait" /\ File(0)
      /\ Answer(t, "ready", 0, 0, 0) /\ line' = Tail(line)
      /\ UNCHANGED <<orders, qrs, paid, object, now, faults>>
  BY DEF Close, provider
<1>2. ~Called(t) /\ 0 \in Order /\ 0 \in Code /\ 0 \in 0..Valid /\ 0 \in 0..MaxOrders
      /\ 0 \notin gone /\ 0 <= orders
  BY <1>1, PaymentFacts, PaymentNumbers DEF Called, Order, Code
<1>3. current' = 0 /\ gone' \subseteq 1..MaxOrders /\ Numbered'
  BY <1>1, <1>2, Filed
<1> DEFINE x == Done(t, "ready", 0, 0, 0)
<1>4. x \in TaskType /\ x.pc = "done" /\ x.kind # "poll"
  BY <1>1, <1>2, DoneTyped
<1>5. task' = [task EXCEPT ![t] = x]
  BY <1>1 DEF Answer
<1> HIDE DEF x
<1>6. task'[t] = x
  BY <1>5, PaymentFacts
<1>7. \A o : CodesOf(o)' = CodesOf(o)
  BY <1>1 DEF CodesOf
<1>8. \A o \in 1..MaxOrders : object'[o].order = o /\ Fits(o)' /\ object'[o].expires <= now + Valid
  BY <1>1, <1>7, PaymentFacts DEF Fits
<1>9. Underway(t)' /\ Brings(t)' /\ Since(t)'
  BY <1>4, <1>6 DEF Underway, Brings, Called, Working, Since
<1>10. HonestOf(t)'
  <2>1. faults = 0 => \A o \in 1..MaxOrders : Capped(o)
    BY <1>1, Holder DEF HonestOf
  <2>2. faults = 0 => \A o \in 1..MaxOrders : Capped(o)'
    BY <1>1, <2>1 DEF Capped
  <2>3. ~Called(t)'
    BY <1>4, <1>6 DEF Called
  <2> QED
    BY <1>1, <1>3, <1>9, <2>2, <2>3 DEF HonestOf
<1>11. /\ orders' \in 0..MaxOrders /\ current' \in 0..MaxOrders /\ faults' \in 0..MaxFaults
       /\ qrs' \in Seq([order : 1..MaxOrders, at : 0..MaxTime]) /\ Len(qrs') <= MaxQrs
       /\ object' \in [1..MaxOrders -> PaymentType] /\ UNCHANGED <<paid, now>>
  BY <1>1, <1>2, <1>3, PaymentFacts, PaymentNumbers
<1> QED
  BY <1>1, <1>3, <1>4, <1>5, <1>8, <1>9, <1>10, <1>11, HolderInv

\* A code is called for, and the provider may issue a new one.
LEMMA PrecreateInv ==
  ASSUME PaymentInv, NEW t \in Task, Precreate(t)
  PROVE  PaymentInv'
<1>1. /\ Holds(t) /\ task[t].pc \in {"wait", "again"}
      /\ UNCHANGED <<orders, paid, object, current, now, gone>>
  BY DEF Precreate, Keep
<1>2. /\ task[t] \in TaskType /\ task[t].kind # "poll" /\ ~Called(t)
      /\ task[t].order \in Order /\ 0 \in Code /\ 0 \in Order
  <2>1. task[t] \in TaskType /\ task[t].kind # "poll" /\ ~Called(t)
    BY <1>1, Holder, PaymentFacts DEF Called
  <2> QED
    BY <2>1, PaymentNumbers DEF TaskType, Order, Code
<1>3. CASE /\ payment = Nothing /\ Answer(t, "noqr", task[t].order, 0, 0) /\ line' = Tail(line)
           /\ UNCHANGED <<qrs, faults>>
  <2>1. orders' \in 0..MaxOrders /\ orders <= orders' /\ faults' \in 0..MaxFaults
    BY <1>1, <1>3, PaymentFacts, PaymentNumbers
  <2> QED
    BY <1>1, <1>2, <1>3, <2>1, AnswerInv
<1>4. ASSUME payment # Nothing, NEW q \in 0..MaxQrs, Issue(payment.order, q), UNCHANGED line,
             task' = [task EXCEPT
                  ![t].pc = IF @ = "wait" THEN "asked" ELSE "askedAgain",
                  ![t].since = IF task[t].pc = "wait" THEN now ELSE @,
                  ![t].obj = current, ![t].prev = payment.qr, ![t].qr = q]
      PROVE  PaymentInv'
  <2>1. PICK c \in 1..MaxOrders : c = current /\ c # 0 /\ payment = object[c] /\ payment.order = c
    BY <1>4, OnFile, PaymentNumbers
  <2>2. PICK prev \in Code : prev = object[c].qr
    BY PaymentFacts DEF PaymentType
  <2>3. PICK since \in Time : since = IF task[t].pc = "wait" THEN now ELSE task[t].since
    BY <1>2, PaymentFacts, PaymentNumbers DEF TaskType, Time
  <2>4. PICK pc \in {"asked", "askedAgain"} : pc = IF task[t].pc = "wait" THEN "asked" ELSE "askedAgain"
    OBVIOUS
  <2> DEFINE x == [task[t] EXCEPT !.pc = pc, !.since = since, !.obj = c, !.prev = prev, !.qr = q]
  <2>5. c \in Order /\ q \in Code
    BY PaymentNumbers DEF Order, Code
  <2>6. /\ x \in TaskType /\ x.pc \in {"asked", "askedAgain"} /\ x.kind = task[t].kind
        /\ x.obj = c /\ x.prev = prev /\ x.qr = q /\ x.since = since
    BY <1>2, <2>5 DEF TaskType
  <2>7. task' = [task EXCEPT ![t] = x]
    BY <1>2, <1>4, <2>4, <2>1, <2>2, <2>3, PaymentFacts
  <2> HIDE DEF x
  <2>8. faults = 0 => since <= now /\ Last(c, prev)
    <3>1. HonestOf(t)
      BY <1>1, Holder
    <3>2. CASE task[t].pc = "wait"
      BY <1>2, <2>1, <2>2, <2>3, <3>1, <3>2, PaymentFacts, PaymentNumbers DEF HonestOf
    <3>3. CASE task[t].pc = "again"
      <4>1. faults = 0 => task[t].since <= now
        BY <1>2, <3>1, <3>3 DEF HonestOf, Since, Working
      <4> QED
        BY <1>2, <2>1, <2>2, <2>3, <3>1, <3>3, <4>1, PaymentNumbers DEF HonestOf
    <3> QED
      BY <1>1, <3>2, <3>3
  <2>9. prev # 0 => prev \in CodesOf(c)
    BY <2>2, PaymentFacts DEF Fits
  <2>10. /\ qrs \in Seq([order : 1..MaxOrders, at : 0..MaxTime]) /\ Len(qrs) \in Nat
         /\ Len(qrs) <= MaxQrs /\ q \in Nat /\ prev \in Nat /\ since \in Nat /\ now \in Nat
         /\ c <= orders /\ now \in 0..MaxTime
    BY <2>1, PaymentFacts, PaymentNumbers DEF Numbered, Code, Time
  <2>11. \A i \in 1..Len(qrs) : qrs[i].order <= orders
    BY NumberedFacts
  <2>12. /\ x.kind # "poll" /\ q \in Code
         /\ faults = 0 => since <= now
    BY <1>2, <2>1, <2>2, <2>6, <2>8, <2>5
  <2>13. PICK last \in Code : last = IF q = 0 THEN prev ELSE q
    BY <2>5
  <2>14. ASSUME faults' \in 0..MaxFaults, faults' = 0 => faults = 0,
                qrs' \in Seq([order : 1..MaxOrders, at : 0..MaxTime]), Len(qrs') <= MaxQrs,
                Len(qrs) <= Len(qrs'), \A i \in 1..Len(qrs) : qrs'[i] = qrs[i],
                \A i \in 1..Len(qrs') : qrs'[i].order <= orders,
                q # 0 => q \in CodesOf(c)',
                faults' = 0 => /\ Last(c, last)'
                               /\ q \notin {0, prev} => since <= qrs'[q].at
         PROVE  PaymentInv'
    <3>1. Len(qrs) \in Nat /\ Len(qrs') \in Nat
      BY <2>10, <2>14
    <3>2. \A o : \A i \in CodesOf(o) : i \in CodesOf(o)' /\ i \in 1..Len(qrs)
      BY <2>14, <3>1 DEF CodesOf
    <3>3. \A o \in 1..MaxOrders : object'[o].order = o /\ Fits(o)' /\ object'[o].expires <= now + Valid
      BY <1>1, <3>2, PaymentFacts DEF Fits
    <3>4. Numbered'
      BY <1>1, <2>14, PaymentFacts DEF Numbered
    <3>5. task'[t] = x
      BY <2>7, PaymentFacts
    <3>6. Underway(t)' /\ Brings(t)'
      BY <1>1, <2>1, <2>2, <2>6, <2>14, <3>5 DEF Underway, Brings, Working, Called
    <3>7. HonestOf(t)'
      <4>1. ASSUME faults' = 0, NEW o \in 1..MaxOrders PROVE Capped(o)'
        <5>1. Capped(o) /\ Fits(o) /\ object'[o] = object[o]
          BY <1>1, <2>14, <4>1, Holder, PaymentFacts DEF HonestOf
        <5>2. object[o].qr # 0 => qrs'[object[o].qr] = qrs[object[o].qr]
          BY <2>14, <3>2, <5>1 DEF Fits
        <5> QED
          BY <5>1, <5>2 DEF Capped
      <4>2. faults' = 0 => Since(t)'
        BY <1>1, <2>6, <2>12, <2>14, <3>5 DEF Since, Working, Called
      <4>3. Called(t)'
        BY <1>2, <2>6, <3>5 DEF Called
      <4>4. faults' = 0 => Last(task[t].obj, IF task[t].qr = 0 THEN task[t].prev ELSE task[t].qr)'
        BY <2>6, <2>13, <2>14, <3>5 DEF Last, CodesOf
      <4> QED
        BY <4>1, <4>2, <4>3, <4>4 DEF HonestOf
    <3>8. /\ orders' \in 0..MaxOrders /\ current' \in 0..MaxOrders
          /\ object' \in [1..MaxOrders -> PaymentType] /\ gone' \subseteq 1..MaxOrders
          /\ UNCHANGED <<paid, now>>
      BY <1>1, PaymentFacts, PaymentNumbers
    <3>9. line' = line /\ x.pc \notin {"free", "sent", "done"}
      BY <1>4, <2>6
    <3> QED
      BY <1>1, <2>6, <2>7, <2>12, <2>14, <3>3, <3>4, <3>6, <3>7, <3>8, <3>9, HolderInv
  <2>15. CASE q = 0 /\ FaultOr(Len(qrs) = MaxQrs) /\ UNCHANGED qrs
    <3>1. faults' \in 0..MaxFaults /\ (faults' = 0 => faults = 0)
      BY <2>15, FaultTyped DEF FaultOr, Fault
    <3>2. faults' = 0 => Last(c, last)'
      BY <2>8, <2>13, <2>15, <3>1 DEF Last, CodesOf
    <3> QED
      BY <2>10, <2>11, <2>15, <2>14, <3>1, <3>2
  <2>16. CASE q \in Latest(c) /\ UNCHANGED <<qrs, faults>>
    <3>1. q \in CodesOf(c) /\ q # 0 /\ \A r \in CodesOf(c) : r <= q
      BY <2>16 DEF Latest, CodesOf
    <3>2. faults = 0 => q = prev
      BY <2>8, <2>9, <2>10, <3>1 DEF Last
    <3>3. Last(c, last)' /\ q \in CodesOf(c)'
      BY <2>16, <2>13, <3>1 DEF Last, CodesOf
    <3>4. faults' \in 0..MaxFaults /\ (faults' = 0 => faults = 0)
      BY <2>16, PaymentFacts, PaymentNumbers
    <3> QED
      BY <2>10, <2>11, <2>16, <2>14, <3>1, <3>2, <3>3, <3>4
  <2>17. CASE /\ q = Len(qrs) + 1 /\ q <= MaxQrs
              /\ qrs' = Append(qrs, [order |-> c, at |-> now]) /\ UNCHANGED faults
    <3> DEFINE code == [order |-> c, at |-> now]
               Issued == [order : 1..MaxOrders, at : 0..MaxTime]
    <3>1. code \in Issued
      BY <2>10
    <3>2. code.order = c /\ code.at = now
      OBVIOUS
    <3>3. qrs \in Seq(Issued) /\ qrs' = Append(qrs, code)
      BY <2>10, <2>17
    <3> HIDE DEF code, Issued
    <3>4. /\ qrs' \in Seq(Issued) /\ Len(qrs') = q
          /\ \A i \in 1..Len(qrs) : qrs'[i] = qrs[i]
          /\ qrs'[q] = code
      BY <2>10, <2>17, <3>1, <3>3, AppendProperties
    <3>5. \A i \in 1..Len(qrs') : i \in 1..Len(qrs) \/ i = q
      BY <2>10, <2>17, <3>4
    <3>6. \A i \in 1..Len(qrs') : qrs'[i].order <= orders
      BY <2>10, <2>11, <3>2, <3>4, <3>5
    <3>7. Last(c, last)' /\ q \in CodesOf(c)' /\ q # 0
      BY <2>10, <2>17, <2>13, <3>2, <3>4 DEF Last, CodesOf
    <3>8. faults' \in 0..MaxFaults /\ (faults' = 0 => faults = 0)
      BY <2>17, PaymentFacts, PaymentNumbers
    <3>9. /\ Len(qrs') <= MaxQrs /\ Len(qrs) <= Len(qrs')
          /\ faults' = 0 => since <= qrs'[q].at
      BY <2>8, <2>10, <2>17, <3>2, <3>4, <3>8
    <3>10. qrs' \in Seq([order : 1..MaxOrders, at : 0..MaxTime])
      BY <3>4 DEF Issued
    <3> QED
      BY <2>10, <2>14, <3>4, <3>6, <3>7, <3>8, <3>9, <3>10
  <2> QED
    BY <1>4, <2>1, <2>15, <2>16, <2>17 DEF Issue
<1>5. \/ /\ payment = Nothing /\ Answer(t, "noqr", task[t].order, 0, 0) /\ line' = Tail(line)
         /\ UNCHANGED <<qrs, faults>>
      \/ /\ payment # Nothing /\ UNCHANGED line
         /\ \E q \in 0..MaxQrs :
              /\ Issue(payment.order, q)
              /\ task' = [task EXCEPT
                   ![t].pc = IF @ = "wait" THEN "asked" ELSE "askedAgain",
                   ![t].since = IF task[t].pc = "wait" THEN now ELSE @,
                   ![t].obj = current, ![t].prev = payment.qr, ![t].qr = q]
  BY DEF Precreate
<1> QED
  BY <1>3, <1>4, <1>5

-----------------------------------------------------------------------------
(* Recharge: the invariant holds always *)

LEMMA PaymentInitInv ==
  ASSUME PaymentInit
  PROVE  PaymentInv
<1>1. /\ 0 \in Order /\ 0 \in Code /\ 0 \in Time /\ 0 \in 0..MaxTime /\ 0 \in 0..MaxFaults
      /\ 0 <= MaxQrs /\ 0 <= 0 + Valid
  BY PaymentNumbers DEF Order, Code, Time
<1>2. ASSUME NEW o \in 1..MaxOrders
      PROVE  /\ NewPayment(o) \in PaymentType /\ NewPayment(o).order = o /\ NewPayment(o).qr = 0
             /\ NewPayment(o).png = 0 /\ NewPayment(o).expires = 0 /\ ~NewPayment(o).capped
  BY <1>1 DEF NewPayment, PaymentType
<1>3. ASSUME NEW o \in 1..MaxOrders
      PROVE  /\ object[o] \in PaymentType /\ object[o].order = o /\ object[o].qr = 0
             /\ object[o].png = 0 /\ object[o].expires = 0 /\ ~object[o].capped
  BY <1>2 DEF PaymentInit
<1>4. object \in [1..MaxOrders -> PaymentType]
  BY <1>2 DEF PaymentInit
<1>5. Free \in TaskType /\ Free.pc = "free" /\ Free.kind = Nothing
  BY FreeTyped DEF Free
<1>6. /\ task \in [Task -> TaskType] /\ \A t \in Task : task[t] = Free
  BY <1>5 DEF PaymentInit
<1>7. \A t \in Task : ~Working(t) /\ ~Called(t) /\ ~Polled(t) /\ task[t].pc = "free"
  BY <1>5, <1>6 DEF Working, Called, Polled
<1>8. qrs = <<>> /\ Len(qrs) = 0 /\ line = <<>> /\ Len(line) = 0
  BY DEF PaymentInit
<1>9. /\ qrs \in Seq([order : 1..MaxOrders, at : 0..MaxTime]) /\ line \in Seq(Task)
  BY <1>8
<1>10. ServerTypes
  BY <1>1, <1>3, <1>4, <1>6, <1>8, <1>9 DEF PaymentInit, ServerTypes
<1>11. PayLine
  BY <1>7, <1>8 DEF PayLine
<1>12. Numbered
  BY <1>8 DEF PaymentInit, Numbered
<1>13. \A t \in Task : Underway(t) /\ Brings(t) /\ Polls(t) /\ Since(t)
  BY <1>7 DEF Underway, Brings, Polls, Since
<1>14. Honest
  BY <1>3, <1>7, <1>13 DEF PaymentInit, Honest, Newest, Capped
<1>15. \A o \in 1..MaxOrders : Fits(o) /\ object[o].expires <= now + Valid
  BY <1>1, <1>3 DEF PaymentInit, Fits
<1> QED
  BY <1>10, <1>11, <1>12, <1>13, <1>14, <1>15 DEF PaymentInv

LEMMA PaymentNextInv ==
  ASSUME PaymentInv, [PaymentNext]_paymentVars
  PROVE  PaymentInv'
<1>1. ASSUME NEW t \in Task, Serve(t) PROVE PaymentInv'
  <2>1. CASE CreateOrder(t)
    BY <2>1, CreateOrderInv
  <2>2. CASE Channels(t)
    BY <2>2, ChannelsInv
  <2>3. CASE Precreate(t)
    BY <2>3, PrecreateInv
  <2>4. CASE Activate(t)
    BY <2>4, ActivateInv
  <2>5. CASE RefreshCode(t)
    BY <2>5, RefreshInv
  <2>6. CASE GetQr(t)
    BY <2>6, GetQrInv
  <2>7. CASE DrawQr(t)
    BY <2>7, DrawQrInv
  <2>8. CASE AskStatus(t)
    BY <2>8, AskStatusInv
  <2>9. CASE AnswerStatus(t)
    BY <2>9, AnswerStatusInv
  <2>10. CASE Close(t)
    BY <2>10, CloseInv
  <2> QED
    BY <1>1, <2>1, <2>2, <2>3, <2>4, <2>5, <2>6, <2>7, <2>8, <2>9, <2>10 DEF Serve
<1>2. ASSUME NEW t \in Task, Arrive(t) \/ Receive(t) PROVE PaymentInv'
  BY <1>2, ArriveInv, ReceiveInv
<1>3. ASSUME NEW p \in Page,
             \/ OpenRecharge(p) \/ CloseRecharge(p) \/ ChooseMethod(p) \/ LoadQr(p)
             \/ PollStatus(p) \/ RefreshQr(p) \/ MarkExpired(p) \/ PayOrder(p)
      PROVE  PaymentInv'
  BY <1>3, PageStepInv
<1>4. CASE RestartServer \/ Tick
  BY <1>4, RestartInv, TickInv
<1>5. CASE UNCHANGED paymentVars
  <2>1. /\ UNCHANGED <<orders, qrs, object, current, line, task, now, faults, gone>>
        /\ paid \subseteq paid'
    BY <1>5 DEF paymentVars, provider
  <2>2. Moved(task')
    BY <2>1, MovedStays
  <2> QED
    BY <2>1, <2>2, MovedInv
<1> QED
  BY <1>1, <1>2, <1>3, <1>4, <1>5 DEF PaymentNext

\* PaymentInv is an invariant: one request at a time holds the account's operation
\* lock (_account_operation_lock), and every payment that a call under way will
\* write back is the one on file in _cookie_payments.
THEOREM PaymentInvariance == PaymentSpec => []PaymentInv
<1>1. PaymentInit => PaymentInv
  BY PaymentInitInv
<1>2. PaymentInv /\ [PaymentNext]_paymentVars => PaymentInv'
  BY PaymentNextInv
<1> QED
  BY <1>1, <1>2, PTL DEF PaymentSpec

\* An order that was closed or replaced never comes back as the account's payment,
\* whatever activation, refresh or picture was under way for it (_cookie_payments).
THEOREM GoneKept == PaymentSpec => []GoneStaysGone
<1>1. PaymentInv => GoneStaysGone
  <2>1. ASSUME PaymentInv, payment # Nothing PROVE payment.order \notin gone
    BY <2>1, OnFile, NumberedFacts
  <2> QED
    BY <2>1 DEF GoneStaysGone
<1> QED
  BY <1>1, PaymentInvariance, PTL

\* A status answer "paid" names an order that is paid, although the query takes no
\* lock and another order may be on file when its answer comes.
THEOREM PaidKnown == PaymentSpec => []PaidIsPaid
<1>1. PaymentInv => PaidIsPaid
  BY DEF PaymentInv, Polls, PaidIsPaid
<1> QED
  BY <1>1, PaymentInvariance, PTL

\* The code on file was issued for the order on file, and the picture on file is the
\* picture of that code.
THEOREM CodeOnFile == PaymentSpec => []CodeFits
<1>1. PaymentInv => CodeFits
  <2>1. ASSUME PaymentInv, payment # Nothing
        PROVE  /\ payment.qr # 0 => payment.qr \in CodesOf(payment.order)
               /\ payment.png \in {0, payment.qr}
    BY <2>1, OnFile, PaymentFacts DEF Fits
  <2> QED
    BY <2>1 DEF CodeFits
<1> QED
  BY <1>1, PaymentInvariance, PTL

\* As long as no call was lost, a refreshed code is not reported valid for longer than
\* the provider takes it: its expiry counts from the moment the refresh began.
THEOREM RefreshKept == PaymentSpec => []RefreshHonest
<1>1. PaymentInv => RefreshHonest
  <2>1. ASSUME PaymentInv, faults = 0, payment # Nothing, payment.capped
        PROVE  payment.expires <= qrs[payment.qr].at + Valid
    BY <2>1, OnFile, PaymentFacts DEF Honest, Capped
  <2> QED
    BY <2>1 DEF RefreshHonest
<1> QED
  BY <1>1, PaymentInvariance, PTL

-----------------------------------------------------------------------------
(* Recharge: the pages *)

\* A frame is in an open dialog, its picture is an issued code, and it loads the
\* picture again only as often as it may.
FrameOk(d) ==
  d.frame # Nothing => /\ d.open /\ d.frame.pic <= Len(qrs)
                       /\ d.frame.image = "todo" => d.frame.tries < Tries

\* A request whose answer the dialog or the frame waits for finds it there.
Awaited(f, g) ==
  \A t \in Task : f[t].pc # "free" =>
    /\ f[t].page \in Page
    /\ f[t].fresh /\ f[t].kind \in DialogKinds => g[f[t].page].open
    /\ f[t].fresh /\ f[t].kind \in FrameKinds => g[f[t].page].frame # Nothing
    /\ f[t].pc = "done" /\ f[t].kind = "image" => f[t].qr <= Len(qrs)
    /\ f[t].pc = "channels" => f[t].kind = "order"

PageInv ==
  /\ page \in [Page -> PageType] /\ paid \subseteq 1..MaxOrders
  /\ \A p \in Page : FrameOk(page[p])
  /\ Awaited(task, page)

\* A step of the server leaves the pages alone, and a request its page.
LEMMA ServerStepPages ==
  ASSUME PaymentInv, PageInv, UNCHANGED <<page, paid>>,
         Len(qrs') \in Nat, Len(qrs) <= Len(qrs'),
         \A t \in Task : task'[t].pc # "free" =>
           /\ task[t].pc # "free" /\ task'[t].page = task[t].page
           /\ task'[t].fresh => task[t].fresh
           /\ \/ task'[t].kind = task[t].kind
              \/ {task'[t].kind, task[t].kind} = {"order", "activate"}
           /\ task'[t].pc = "done" /\ task'[t].kind = "image" => task'[t].qr <= Len(qrs')
           /\ task'[t].pc = "channels" => task'[t].kind = "order"
  PROVE  PageInv'
<1>1. Len(qrs) \in Nat
  BY PaymentFacts
<1>2. ASSUME NEW p \in Page PROVE FrameOk(page[p])'
  <2>1. page[p].frame # Nothing => page[p].frame.pic \in Nat
    BY PaymentNumbers DEF PageInv, PageType, FrameType, Code
  <2>2. FrameOk(page[p])
    BY DEF PageInv
  <2> QED
    BY <1>1, <2>1, <2>2 DEF FrameOk
<1>3. ASSUME NEW t \in Task, task'[t].pc # "free"
      PROVE  /\ task'[t].page \in Page
             /\ task'[t].fresh /\ task'[t].kind \in DialogKinds => page'[task'[t].page].open
             /\ task'[t].fresh /\ task'[t].kind \in FrameKinds => page'[task'[t].page].frame # Nothing
             /\ task'[t].pc = "done" /\ task'[t].kind = "image" => task'[t].qr <= Len(qrs')
             /\ task'[t].pc = "channels" => task'[t].kind = "order"
  <2>1. /\ task[t].page \in Page
        /\ task[t].fresh /\ task[t].kind \in DialogKinds => page[task[t].page].open
        /\ task[t].fresh /\ task[t].kind \in FrameKinds => page[task[t].page].frame # Nothing
    BY <1>3 DEF PageInv, Awaited
  <2>2. task'[t].kind \in DialogKinds => task[t].kind \in DialogKinds
    BY <1>3 DEF DialogKinds, FrameKinds
  <2>3. task'[t].kind \in FrameKinds => task[t].kind \in FrameKinds
    BY <1>3 DEF FrameKinds
  <2> QED
    BY <1>3, <2>1, <2>2, <2>3
<1>4. Awaited(task, page)'
  BY <1>3 DEF Awaited
<1> QED
  BY <1>2, <1>4 DEF PageInv

\* A step of one request.
LEMMA RequestStepPages ==
  ASSUME PaymentInv, PageInv, UNCHANGED <<page, paid, qrs>>, NEW t \in Task,
         task[t].pc # "free", NEW x, task' = [task EXCEPT ![t] = x],
         x.page = task[t].page, x.fresh = task[t].fresh,
         x.kind = task[t].kind \/ {x.kind, task[t].kind} = {"order", "activate"},
         x.pc = "done" /\ x.kind = "image" => x.qr <= Len(qrs),
         x.pc = "channels" => x.kind = "order"
  PROVE  PageInv'
<1>1. task'[t] = x /\ \A u \in Task \ {t} : task'[u] = task[u]
  BY PaymentFacts
<1>2. Len(qrs) \in Nat /\ qrs' = qrs
  BY PaymentFacts
<1>3. ASSUME NEW u \in Task, task'[u].pc # "free"
      PROVE  /\ task[u].pc # "free" /\ task'[u].page = task[u].page
             /\ task'[u].fresh => task[u].fresh
             /\ \/ task'[u].kind = task[u].kind
                \/ {task'[u].kind, task[u].kind} = {"order", "activate"}
             /\ task'[u].pc = "done" /\ task'[u].kind = "image" => task'[u].qr <= Len(qrs')
             /\ task'[u].pc = "channels" => task'[u].kind = "order"
  <2>1. CASE u = t
    BY <1>1, <1>2, <2>1
  <2>2. CASE u # t
    BY <1>1, <1>2, <1>3, <2>2 DEF PageInv, Awaited
  <2> QED
    BY <2>1, <2>2
<1> QED
  BY <1>2, <1>3, ServerStepPages

LEMMA AnswerPages ==
  ASSUME PaymentInv, PageInv, UNCHANGED <<page, paid, qrs>>, NEW t \in Task,
         task[t].pc # "free", NEW got, NEW o, NEW q, NEW left, Answer(t, got, o, q, left),
         task[t].kind = "image" => q <= Len(qrs)
  PROVE  PageInv'
<1> DEFINE x == Done(t, got, o, q, left)
<1>1. task[t] \in TaskType
  BY PaymentFacts
<1>2. /\ x.page = task[t].page /\ x.fresh = task[t].fresh /\ x.kind = task[t].kind /\ x.qr = q
      /\ x.pc = "done"
  BY <1>1 DEF Done, TaskType
<1>3. task' = [task EXCEPT ![t] = x]
  BY DEF Answer
<1> HIDE DEF x
<1> QED
  BY <1>2, <1>3, RequestStepPages

LEMMA ServePages ==
  ASSUME PaymentInv, PageInv, NEW t \in Task, Serve(t)
  PROVE  PageInv'
<1>0. task[t] \in TaskType /\ 0 <= Len(qrs) /\ Len(qrs) \in Nat
  BY PaymentFacts
<1>1. CASE CreateOrder(t)
  <2>1. /\ task[t].pc = "wait" /\ task[t].kind = "order" /\ UNCHANGED <<page, paid, qrs>>
        /\ \/ task' = [task EXCEPT ![t].pc = "channels", ![t].order = orders + 1]
           \/ Answer(t, "failed", 0, 0, 0)
    BY <1>1 DEF CreateOrder
  <2>2. CASE Answer(t, "failed", 0, 0, 0)
    BY <1>0, <2>1, <2>2, AnswerPages
  <2>3. CASE task' = [task EXCEPT ![t].pc = "channels", ![t].order = orders + 1]
    <3> DEFINE x == [task[t] EXCEPT !.pc = "channels", !.order = orders + 1]
    <3>1. x.page = task[t].page /\ x.fresh = task[t].fresh /\ x.kind = task[t].kind /\ x.pc = "channels"
      BY <1>0 DEF TaskType
    <3>2. task' = [task EXCEPT ![t] = x]
      BY <2>3, PaymentFacts
    <3> HIDE DEF x
    <3> QED
      BY <2>1, <3>1, <3>2, RequestStepPages
  <2> QED
    BY <2>1, <2>2, <2>3
<1>2. CASE Channels(t)
  <2>1. /\ task[t].pc = "channels" /\ task[t].kind # "poll" /\ UNCHANGED <<page, paid, qrs>>
        /\ \/ task' = [task EXCEPT ![t].pc = "wait", ![t].kind = "activate"]
           \/ Answer(t, "failed", 0, 0, 0)
    BY <1>2, Holder DEF Channels, provider
  <2>2. CASE Answer(t, "failed", 0, 0, 0)
    BY <1>0, <2>1, <2>2, AnswerPages
  <2>3. CASE task' = [task EXCEPT ![t].pc = "wait", ![t].kind = "activate"]
    <3> DEFINE x == [task[t] EXCEPT !.pc = "wait", !.kind = "activate"]
    <3>1. x.page = task[t].page /\ x.fresh = task[t].fresh /\ x.kind = "activate" /\ x.pc = "wait"
      BY <1>0 DEF TaskType
    <3>2. task' = [task EXCEPT ![t] = x]
      BY <2>3, PaymentFacts
    <3>3. task[t].kind = "order"
      BY <2>1 DEF PageInv, Awaited
    <3> HIDE DEF x
    <3> QED
      BY <2>1, <3>1, <3>2, <3>3, RequestStepPages
  <2> QED
    BY <2>1, <2>2, <2>3

<1>3. CASE Precreate(t)
  <2>1. /\ task[t].pc \in {"wait", "again"} /\ task[t].kind \in Asks /\ UNCHANGED <<page, paid>>
        /\ Holds(t)
    BY <1>3 DEF Precreate
  <2>2. CASE Answer(t, "noqr", task[t].order, 0, 0) /\ UNCHANGED qrs
    BY <1>0, <2>1, <2>2, AnswerPages
  <2>3. ASSUME payment # Nothing, NEW q \in 0..MaxQrs, Issue(payment.order, q),
               task' = [task EXCEPT
                  ![t].pc = IF @ = "wait" THEN "asked" ELSE "askedAgain",
                  ![t].since = IF task[t].pc = "wait" THEN now ELSE @,
                  ![t].obj = current, ![t].prev = payment.qr, ![t].qr = q]
        PROVE  PageInv'
    <3> DEFINE x == [task[t] EXCEPT
                  !.pc = IF task[t].pc = "wait" THEN "asked" ELSE "askedAgain",
                  !.since = IF task[t].pc = "wait" THEN now ELSE task[t].since,
                  !.obj = current, !.prev = payment.qr, !.qr = q]
    <3>1. /\ x.page = task[t].page /\ x.fresh = task[t].fresh /\ x.kind = task[t].kind
          /\ x.pc \in {"asked", "askedAgain"}
      BY <1>0 DEF TaskType
    <3>2. task' = [task EXCEPT ![t] = x]
      BY <1>0, <2>3, PaymentFacts DEF TaskType
    <3> HIDE DEF x
    <3>3. task'[t] = x /\ \A u \in Task \ {t} : task'[u] = task[u]
      BY <3>2, PaymentFacts
    <3>4. Len(qrs') \in Nat /\ Len(qrs) <= Len(qrs')
      <4>1. CASE UNCHANGED qrs
        BY <1>0, <4>1
      <4>2. CASE qrs' = Append(qrs, [order |-> payment.order, at |-> now])
        <5> DEFINE code == [order |-> payment.order, at |-> now]
                   Issued == [order : 1..MaxOrders, at : 0..MaxTime]
        <5>1. code \in Issued /\ qrs \in Seq(Issued)
          BY <2>3, OnFile, PaymentFacts, PaymentNumbers
        <5> HIDE DEF code, Issued
        <5>2. Len(qrs') = Len(qrs) + 1
          BY <4>2, <5>1, AppendProperties DEF code
        <5> QED
          BY <1>0, <5>2
      <4> QED
        BY <2>3, <4>1, <4>2 DEF Issue
    <3>5. ASSUME NEW u \in Task, task'[u].pc # "free"
          PROVE  /\ task[u].pc # "free" /\ task'[u].page = task[u].page
                 /\ task'[u].fresh => task[u].fresh
                 /\ task'[u].kind = task[u].kind
                 /\ task'[u].pc = "done" /\ task'[u].kind = "image" => task'[u].qr <= Len(qrs')
                 /\ task'[u].pc = "channels" => task'[u].kind = "order"
      <4>1. CASE u = t
        BY <2>1, <3>1, <3>3, <4>1
      <4>2. CASE u # t
        <5>1. task[u].qr \in Nat
          BY PaymentFacts, PaymentNumbers DEF TaskType, Code
        <5>2. /\ task[u].pc = "done" /\ task[u].kind = "image" => task[u].qr <= Len(qrs)
              /\ task[u].pc = "channels" => task[u].kind = "order"
          BY <3>3, <3>5, <4>2 DEF PageInv, Awaited
        <5> QED
          BY <1>0, <3>3, <3>4, <3>5, <4>2, <5>1, <5>2
      <4> QED
        BY <4>1, <4>2
    <3> QED
      BY <2>1, <3>4, <3>5, ServerStepPages
  <2> QED
    BY <1>3, <2>2, <2>3 DEF Precreate
<1>4. CASE Activate(t) \/ RefreshCode(t)
  <2>1. /\ task[t].pc \in {"asked", "askedAgain"} /\ task[t].kind # "image"
        /\ UNCHANGED <<page, paid, qrs>>
        /\ \/ task' = [task EXCEPT ![t].pc = "again"]
           \/ \E got, o, q, left : Answer(t, got, o, q, left)
    BY <1>4 DEF Activate, RefreshCode, CodeFails, provider
  <2>2. CASE \E got, o, q, left : Answer(t, got, o, q, left)
    BY <2>1, <2>2, AnswerPages
  <2>3. CASE task' = [task EXCEPT ![t].pc = "again"]
    <3> DEFINE x == [task[t] EXCEPT !.pc = "again"]
    <3>1. x.page = task[t].page /\ x.fresh = task[t].fresh /\ x.kind = task[t].kind /\ x.pc = "again"
      BY <1>0 DEF TaskType
    <3>2. task' = [task EXCEPT ![t] = x]
      BY <2>3, PaymentFacts
    <3> HIDE DEF x
    <3> QED
      BY <2>1, <3>1, <3>2, RequestStepPages
  <2> QED
    BY <2>1, <2>2, <2>3
<1>5. CASE GetQr(t)
  <2>1. /\ task[t].pc = "wait" /\ UNCHANGED <<page, paid, qrs>>
        /\ \/ Answer(t, "noqr", 0, 0, 0)
           \/ HasCode /\ payment.png # 0 /\ Answer(t, "ready", 0, payment.png, 0)
           \/ task' = [task EXCEPT ![t].pc = "draw", ![t].obj = current, ![t].qr = payment.qr]
    BY <1>5 DEF GetQr, provider
  <2>2. CASE Answer(t, "noqr", 0, 0, 0)
    BY <1>0, <2>1, <2>2, AnswerPages
  <2>3. CASE HasCode /\ payment.png # 0 /\ Answer(t, "ready", 0, payment.png, 0)
    <3>1. payment.png \in CodesOf(current)
      BY <2>3, OnFile, PaymentFacts DEF HasCode, Fits
    <3>2. payment.png <= Len(qrs)
      BY <1>0, <3>1 DEF CodesOf
    <3> QED
      BY <2>1, <2>3, <3>2, AnswerPages
  <2>4. CASE task' = [task EXCEPT ![t].pc = "draw", ![t].obj = current, ![t].qr = payment.qr]
    <3> DEFINE x == [task[t] EXCEPT !.pc = "draw", !.obj = current, !.qr = payment.qr]
    <3>1. x.page = task[t].page /\ x.fresh = task[t].fresh /\ x.kind = task[t].kind /\ x.pc = "draw"
      BY <1>0 DEF TaskType
    <3>2. task' = [task EXCEPT ![t] = x]
      BY <2>4, PaymentFacts
    <3> HIDE DEF x
    <3> QED
      BY <2>1, <3>1, <3>2, RequestStepPages
  <2> QED
    BY <2>1, <2>2, <2>3, <2>4
<1>6. CASE DrawQr(t)
  <2>1. /\ task[t].pc = "draw" /\ UNCHANGED <<page, paid, qrs>>
        /\ Answer(t, "ready", 0, task[t].qr, 0) /\ task[t].kind # "poll"
    BY <1>6, Holder DEF DrawQr, provider
  <2>2. task[t].qr <= Len(qrs)
    <3>1. task[t].obj \in 1..MaxOrders /\ task[t].qr = object[task[t].obj].qr
      BY <2>1, PaymentFacts DEF Underway, Brings, Working
    <3>2. task[t].qr = 0 \/ task[t].qr \in CodesOf(task[t].obj)
      BY <3>1, PaymentFacts DEF Fits
    <3> QED
      BY <1>0, <3>2 DEF CodesOf
  <2> QED
    BY <2>1, <2>2, AnswerPages
<1>7. CASE AskStatus(t)
  <2>1. /\ task[t].pc = "sent" /\ task[t].kind = "poll" /\ UNCHANGED <<page, paid, qrs>>
        /\ \/ Answer(t, "none", 0, 0, 0)
           \/ \E status : task' = [task EXCEPT ![t].pc = "asked", ![t].obj = current,
                                     ![t].got = status, ![t].since = payment.expires]
    BY <1>7 DEF AskStatus, provider
  <2>2. CASE Answer(t, "none", 0, 0, 0)
    BY <2>1, <2>2, AnswerPages
  <2>3. ASSUME NEW status, task' = [task EXCEPT ![t].pc = "asked", ![t].obj = current,
                                       ![t].got = status, ![t].since = payment.expires]
        PROVE  PageInv'
    <3> DEFINE x == [task[t] EXCEPT !.pc = "asked", !.obj = current, !.got = status,
                                    !.since = payment.expires]
    <3>1. x.page = task[t].page /\ x.fresh = task[t].fresh /\ x.kind = task[t].kind /\ x.pc = "asked"
      BY <1>0 DEF TaskType
    <3>2. task' = [task EXCEPT ![t] = x]
      BY <2>3, PaymentFacts
    <3> HIDE DEF x
    <3> QED
      BY <2>1, <3>1, <3>2, RequestStepPages
  <2> QED
    BY <2>1, <2>2, <2>3
<1>8. CASE AnswerStatus(t)
  <2>1. /\ task[t].pc = "asked" /\ task[t].kind = "poll" /\ UNCHANGED <<page, paid, qrs>>
        /\ \E got, o, q, left : Answer(t, got, o, q, left)
    BY <1>8 DEF AnswerStatus, StatusKnown, StatusExpired, StatusOpen, provider
  <2> QED
    BY <2>1, AnswerPages
<1>9. CASE Close(t)
  <2>1. /\ task[t].pc = "wait" /\ task[t].kind = "close" /\ UNCHANGED <<page, paid, qrs>>
        /\ Answer(t, "ready", 0, 0, 0)
    BY <1>9 DEF Close, provider
  <2> QED
    BY <2>1, AnswerPages
<1> QED
  BY <1>1, <1>2, <1>3, <1>4, <1>5, <1>6, <1>7, <1>8, <1>9 DEF Serve

LEMMA ArrivePages ==
  ASSUME PaymentInv, PageInv, NEW t \in Task, Arrive(t)
  PROVE  PageInv'
<1>1. /\ task[t].pc = "sent" /\ UNCHANGED <<page, paid, qrs>>
      /\ task' = [task EXCEPT ![t].pc = "wait"]
  BY DEF Arrive, provider
<1> DEFINE x == [task[t] EXCEPT !.pc = "wait"]
<1>2. task[t] \in TaskType
  BY PaymentFacts
<1>3. x.page = task[t].page /\ x.fresh = task[t].fresh /\ x.kind = task[t].kind /\ x.pc = "wait"
  BY <1>2 DEF TaskType
<1>4. task' = [task EXCEPT ![t] = x]
  BY <1>1, PaymentFacts
<1> HIDE DEF x
<1> QED
  BY <1>1, <1>3, <1>4, RequestStepPages

LEMMA RestartPages ==
  ASSUME PaymentInv, PageInv, RestartServer
  PROVE  PageInv'
<1> DEFINE lost(t) == Done(t, "lost", 0, 0, 0)
           x(t) == [lost(t) EXCEPT !.kind = IF @ = "activate" THEN "order" ELSE @]
<1>1. /\ UNCHANGED <<page, paid, qrs>>
      /\ task' = [t \in Task |-> IF task[t].pc \in {"free", "done"} THEN task[t] ELSE x(t)]
  BY DEF RestartServer, provider
<1>2. ASSUME NEW t \in Task
      PROVE  /\ x(t).page = task[t].page /\ x(t).fresh = task[t].fresh
             /\ \/ x(t).kind = task[t].kind
                \/ x(t).kind = "order" /\ task[t].kind = "activate"
             /\ x(t).qr = 0 /\ x(t).pc = "done"
  <2>1. task[t] \in TaskType
    BY PaymentFacts
  <2>2. /\ lost(t).page = task[t].page /\ lost(t).fresh = task[t].fresh
        /\ lost(t).kind = task[t].kind /\ lost(t).qr = 0 /\ lost(t).pc = "done"
    BY <2>1 DEF Done, TaskType
  <2>3. lost(t) \in TaskType
    BY DoneTyped, PaymentNumbers DEF Order, Code
  <2> HIDE DEF lost
  <2> QED
    BY <2>2, <2>3 DEF TaskType
<1> HIDE DEF x
<1>3. Len(qrs) \in Nat /\ qrs' = qrs /\ UNCHANGED <<page, paid>>
  BY <1>1, PaymentFacts
<1>4. ASSUME NEW t \in Task, task'[t].pc # "free"
      PROVE  /\ task[t].pc # "free" /\ task'[t].page = task[t].page
             /\ task'[t].fresh => task[t].fresh
             /\ \/ task'[t].kind = task[t].kind
                \/ {task'[t].kind, task[t].kind} = {"order", "activate"}
             /\ task'[t].pc = "done" /\ task'[t].kind = "image" => task'[t].qr <= Len(qrs')
             /\ task'[t].pc = "channels" => task'[t].kind = "order"
  <2>1. CASE task[t].pc \in {"free", "done"}
    <3>1. task'[t] = task[t]
      BY <1>1, <2>1
    <3> QED
      BY <1>3, <1>4, <3>1 DEF PageInv, Awaited
  <2>2. CASE task[t].pc \notin {"free", "done"}
    <3>1. task'[t] = x(t)
      BY <1>1, <2>2
    <3> QED
      BY <1>2, <1>3, <2>2, <3>1
  <2> QED
    BY <2>1, <2>2
<1> QED
  BY <1>3, <1>4, ServerStepPages

\* The pages' own steps: requests of a page that no one waits for any more ...
LEMMA AwaitedStale ==
  ASSUME NEW f \in [Task -> TaskType], NEW g, Awaited(f, g), NEW p, NEW kinds
  PROVE  /\ Awaited(Stale(f, p, kinds), g)
         /\ \A t \in Task : Stale(f, p, kinds)[t].pc # "free" =>
              ~(Stale(f, p, kinds)[t].page = p /\ Stale(f, p, kinds)[t].fresh
                /\ Stale(f, p, kinds)[t].kind \in kinds)
<1> DEFINE h == Stale(f, p, kinds)
<1>1. ASSUME NEW t \in Task
      PROVE  /\ h[t].pc = f[t].pc /\ h[t].page = f[t].page /\ h[t].kind = f[t].kind
             /\ h[t].qr = f[t].qr /\ (h[t].fresh => f[t].fresh)
             /\ ~(h[t].page = p /\ h[t].kind \in kinds /\ h[t].fresh)
  <2>1. f[t] \in TaskType
    OBVIOUS
  <2>2. h[t] = IF f[t].page = p /\ f[t].kind \in kinds THEN [f[t] EXCEPT !.fresh = FALSE] ELSE f[t]
    BY DEF Stale
  <2> HIDE DEF h
  <2> QED
    BY <2>1, <2>2 DEF TaskType
<1> HIDE DEF h
<1>2. Awaited(h, g)
  BY <1>1 DEF Awaited
<1> QED
  BY <1>1, <1>2 DEF h

\* ... a request that is sent ...
LEMMA AwaitedSend ==
  ASSUME PaymentInv, NEW f \in [Task -> TaskType], NEW g, Awaited(f, g), FreeSlots # {},
         NEW k \in DialogKinds \cup {"pay", "close"}, NEW p \in Page,
         k \in DialogKinds => g[p].open, k \in FrameKinds => g[p].frame # Nothing
  PROVE  Awaited([f EXCEPT ![Slot] = Request(k, p)], g)
<1>1. Slot \in Task
  BY DEF Slot, FreeSlots
<1>2. /\ Request(k, p).pc = "sent" /\ Request(k, p).kind = k /\ Request(k, p).page = p
      /\ Request(k, p).fresh
  BY DEF Request, Free
<1> QED
  BY <1>1, <1>2 DEF Awaited

\* ... a slot that is free again ...
LEMMA AwaitedFreed ==
  ASSUME PaymentInv, PageInv, NEW t \in Task
  PROVE  Freed(t) \in [Task -> TaskType] /\ Awaited(Freed(t), page)
<1>1. Free \in TaskType /\ Free.pc = "free"
  BY FreeTyped
<1>2. /\ Freed(t) \in [Task -> TaskType] /\ Freed(t)[t] = Free
      /\ \A u \in Task \ {t} : Freed(t)[u] = task[u]
  BY <1>1, PaymentFacts DEF Freed
<1> QED
  BY <1>1, <1>2 DEF PageInv, Awaited

\* ... and a dialog that keeps what is awaited, or that no request waits for.
LEMMA AwaitedPage ==
  ASSUME NEW f, NEW g \in [Page -> PageType], Awaited(f, g), NEW p \in Page, NEW d \in PageType,
         \/ g[p].open => d.open
         \/ \A t \in Task : f[t].pc # "free" =>
              ~(f[t].page = p /\ f[t].fresh /\ f[t].kind \in DialogKinds),
         \/ g[p].frame # Nothing => d.frame # Nothing
         \/ \A t \in Task : f[t].pc # "free" =>
              ~(f[t].page = p /\ f[t].fresh /\ f[t].kind \in FrameKinds)
  PROVE  Awaited(f, [g EXCEPT ![p] = d])
<1> DEFINE h == [g EXCEPT ![p] = d]
<1>1. h[p] = d /\ \A r \in Page \ {p} : h[r] = g[r]
  OBVIOUS
<1> HIDE DEF h
<1>2. ASSUME NEW t \in Task, f[t].pc # "free"
      PROVE  /\ f[t].fresh /\ f[t].kind \in DialogKinds => h[f[t].page].open
             /\ f[t].fresh /\ f[t].kind \in FrameKinds => h[f[t].page].frame # Nothing
  <2>1. CASE f[t].page = p
    BY <1>1, <1>2, <2>1 DEF Awaited
  <2>2. CASE f[t].page # p
    BY <1>1, <1>2, <2>2 DEF Awaited
  <2> QED
    BY <2>1, <2>2
<1>3. Awaited(f, h)
  BY <1>2 DEF Awaited
<1> QED
  BY <1>3 DEF h

LEMMA PageStepOk ==
  ASSUME PageInv, NEW p \in Page, NEW d \in PageType, page' = [page EXCEPT ![p] = d],
         UNCHANGED <<qrs, paid>>, FrameOk(d), Awaited(task', page')
  PROVE  PageInv'
<1>1. page' \in [Page -> PageType] /\ page'[p] = d /\ \A r \in Page \ {p} : page'[r] = page[r]
  BY DEF PageInv
<1>2. ASSUME NEW r \in Page PROVE FrameOk(page[r])'
  BY <1>1 DEF PageInv, FrameOk
<1>3. Awaited(task, page)'
  BY DEF Awaited
<1> QED
  BY <1>1, <1>2, <1>3 DEF PageInv


\* What is known of a dialog, and of the frame in it.
LEMMA PageFacts ==
  ASSUME PaymentInv, PageInv, NEW p \in Page
  PROVE  /\ page \in [Page -> PageType] /\ page[p] \in PageType
         /\ FrameOk(page[p]) /\ (~page[p].open => page[p].frame = Nothing)
         /\ page[p].frame # Nothing => page[p].frame \in FrameType
         /\ task \in [Task -> TaskType] /\ Awaited(task, page)
BY PaymentFacts DEF PageInv, PageType, FrameOk

LEMMA FrameIsThere ==
  ASSUME NEW f \in FrameType
  PROVE  f # Nothing
BY NothingAssumption

LEMMA OpenPages ==
  ASSUME PaymentInv, PageInv, NEW p \in Page, OpenRecharge(p)
  PROVE  PageInv'
<1> DEFINE d == [NoPage EXCEPT !.open = TRUE, !.closing = page[p].closing,
                               !.paying = page[p].paying]
<1>1. /\ ~page[p].open /\ FreeSlots # {} /\ task' = [task EXCEPT ![Slot] = Request("order", p)]
      /\ page' = [page EXCEPT ![p] = d] /\ UNCHANGED <<qrs, paid>>
  BY DEF OpenRecharge, Send, PageOnly, provider
<1>2. d \in PageType /\ d.open /\ d.frame = Nothing
  BY PageFacts DEF PageType, NoPage
<1> HIDE DEF d
<1>3. page[p].frame = Nothing
  BY <1>1, PageFacts
<1>4. Awaited(task, page')
  BY <1>1, <1>2, <1>3, PageFacts, AwaitedPage
<1>5. page'[p] = d /\ "order" \in DialogKinds /\ "order" \notin FrameKinds
  BY <1>1, PageFacts DEF DialogKinds, FrameKinds
<1>6. Awaited(task', page')
  BY <1>1, <1>2, <1>4, <1>5, PageFacts, AwaitedSend
<1>7. FrameOk(d)
  BY <1>2 DEF FrameOk
<1> QED
  BY <1>1, <1>2, <1>6, <1>7, PageStepOk

LEMMA ClosePages ==
  ASSUME PaymentInv, PageInv, NEW p \in Page, CloseRecharge(p)
  PROVE  PageInv'
<1> DEFINE d == [NoPage EXCEPT !.closing = TRUE, !.paying = page[p].paying]
           f == Stale(task, p, DialogKinds)
<1>1. /\ \/ task' = f
         \/ FreeSlots # {} /\ task' = [f EXCEPT ![Slot] = Request("close", p)]
      /\ page' = [page EXCEPT ![p] = d] /\ UNCHANGED <<qrs, paid>>
  BY DEF CloseRecharge, PageOnly, provider
<1>2. d \in PageType /\ d.frame = Nothing
  BY PageFacts DEF PageType, NoPage
<1>3. f \in [Task -> TaskType]
  BY MovedStays, MovedStale DEF Moved
<1>4. /\ Awaited(f, page)
      /\ \A t \in Task : f[t].pc # "free" =>
           ~(f[t].page = p /\ f[t].fresh /\ f[t].kind \in DialogKinds)
  BY PageFacts, AwaitedStale
<1> HIDE DEF d, f
<1>5. FrameKinds \subseteq DialogKinds
  BY DEF DialogKinds
<1>6. Awaited(f, page')
  BY <1>1, <1>2, <1>4, <1>5, PageFacts, AwaitedPage
<1>7. "close" \notin DialogKinds /\ "close" \notin FrameKinds
  BY DEF DialogKinds, FrameKinds
<1>8. Awaited(task', page')
  BY <1>1, <1>3, <1>6, <1>7, AwaitedSend
<1>9. FrameOk(d)
  BY <1>2 DEF FrameOk
<1> QED
  BY <1>1, <1>2, <1>8, <1>9, PageStepOk

LEMMA ChoosePages ==
  ASSUME PaymentInv, PageInv, NEW p \in Page, ChooseMethod(p)
  PROVE  PageInv'
<1> DEFINE d == [page[p] EXCEPT !.paying = TRUE, !.frame = Nothing]
           f == Stale(task, p, FrameKinds)
<1>1. /\ FreeSlots # {} /\ task' = [f EXCEPT ![Slot] = Request("pay", p)]
      /\ UNCHANGED <<qrs, paid>>
  BY DEF ChooseMethod, PageOnly, provider
<1>2. page' = [page EXCEPT ![p] = d]
  BY PageFacts DEF ChooseMethod
<1>3. d \in PageType /\ d.frame = Nothing /\ d.open = page[p].open
  BY PageFacts DEF PageType
<1>4. f \in [Task -> TaskType]
  BY MovedStays, MovedStale DEF Moved
<1>5. /\ Awaited(f, page)
      /\ \A t \in Task : f[t].pc # "free" =>
           ~(f[t].page = p /\ f[t].fresh /\ f[t].kind \in FrameKinds)
  BY PageFacts, AwaitedStale
<1> HIDE DEF d, f
<1>6. Awaited(f, page')
  BY <1>2, <1>3, <1>5, PageFacts, AwaitedPage
<1>7. "pay" \notin DialogKinds /\ "pay" \notin FrameKinds
  BY DEF DialogKinds, FrameKinds
<1>8. Awaited(task', page')
  BY <1>1, <1>4, <1>6, <1>7, AwaitedSend
<1>9. FrameOk(d)
  BY <1>3 DEF FrameOk
<1> QED
  BY <1>1, <1>2, <1>3, <1>8, <1>9, PageStepOk

\* The frame of an open dialog changes and stays; a request of the frame may be sent.
LEMMA DialogPages ==
  ASSUME PaymentInv, PageInv, NEW p \in Page, NEW d \in PageType,
         page' = [page EXCEPT ![p] = d], UNCHANGED <<qrs, paid>>,
         d.open, d.frame # Nothing, d.frame.pic <= Len(qrs),
         d.frame.image = "todo" => d.frame.tries < Tries,
         \/ task' = task
         \/ \E t \in Task : task' = Freed(t)
         \/ \E k \in FrameKinds : FreeSlots # {} /\ task' = [task EXCEPT ![Slot] = Request(k, p)]
  PROVE  PageInv'
<1>1. FrameOk(d)
  BY DEF FrameOk
<1>2. ASSUME NEW f, Awaited(f, page) PROVE Awaited(f, page')
  BY <1>2, PageFacts, AwaitedPage
<1>3. page'[p] = d /\ Awaited(task, page')
  BY <1>2, PageFacts
<1>4. Awaited(task', page')
  <2>1. CASE \E t \in Task : task' = Freed(t)
    BY <1>2, <2>1, AwaitedFreed
  <2>2. CASE \E k \in FrameKinds : FreeSlots # {} /\ task' = [task EXCEPT ![Slot] = Request(k, p)]
    <3>1. PICK k \in DialogKinds \cup {"pay", "close"} :
            FreeSlots # {} /\ task' = [task EXCEPT ![Slot] = Request(k, p)]
      BY <2>2 DEF DialogKinds
    <3>2. task \in [Task -> TaskType] /\ page'[p].open /\ page'[p].frame # Nothing
      BY <1>3, PageFacts
    <3> QED
      BY <1>3, <3>1, <3>2, AwaitedSend
  <2> QED
    BY <1>3, <2>1, <2>2
<1> QED
  BY <1>1, <1>4, PageStepOk

LEMMA FramePages ==
  ASSUME PaymentInv, PageInv, NEW p \in Page, page[p].frame # Nothing, NEW g \in FrameType,
         page' = [page EXCEPT ![p].frame = g], UNCHANGED <<qrs, paid>>,
         g.pic <= Len(qrs), g.image = "todo" => g.tries < Tries,
         \/ task' = task
         \/ \E t \in Task : task' = Freed(t)
         \/ \E k \in FrameKinds : FreeSlots # {} /\ task' = [task EXCEPT ![Slot] = Request(k, p)]
  PROVE  PageInv'
<1> DEFINE d == [page[p] EXCEPT !.frame = g]
<1>1. d \in PageType /\ d.frame = g /\ d.open = page[p].open
  BY PageFacts DEF PageType
<1>2. page' = [page EXCEPT ![p] = d]
  BY PageFacts
<1> HIDE DEF d
<1>3. page[p].open /\ g # Nothing
  BY PageFacts, FrameIsThere
<1> QED
  BY <1>1, <1>2, <1>3, DialogPages


\* The steps of a page that change its frame only.
LEMMA FrameStepPages ==
  ASSUME PaymentInv, PageInv, NEW p \in Page,
         LoadQr(p) \/ PollStatus(p) \/ RefreshQr(p) \/ MarkExpired(p)
  PROVE  PageInv'
<1> DEFINE f == page[p].frame
<1>1. f # Nothing /\ UNCHANGED <<qrs, paid>>
  BY DEF LoadQr, PollStatus, RefreshQr, MarkExpired, PageOnly, provider
<1>2. /\ f \in FrameType /\ f.pic <= Len(qrs) /\ (f.image = "todo" => f.tries < Tries)
      /\ f.tries \in Nat /\ page[p] \in PageType /\ page \in [Page -> PageType]
  BY <1>1, PageFacts, PaymentNumbers DEF FrameOk, FrameType
<1>3. now \in Time
  BY PaymentFacts, PaymentNumbers DEF Time
<1> HIDE DEF f
<1>4. CASE LoadQr(p)
  <2>1. PICK n \in 0..Tries : n = f.tries + 1
    BY <1>2, <1>4, PaymentNumbers DEF LoadQr, f
  <2> DEFINE g == [f EXCEPT !.image = "asked", !.tries = n]
  <2>2. g \in FrameType /\ g.pic = f.pic /\ g.image = "asked"
    BY <1>2, <2>1 DEF FrameType
  <2>3. page' = [page EXCEPT ![p].frame = g] /\ FreeSlots # {}
        /\ task' = [task EXCEPT ![Slot] = Request("image", p)]
    BY <1>2, <1>4, <2>1 DEF LoadQr, Send, f, PageType, FrameType
  <2> HIDE DEF g
  <2>4. "image" \in FrameKinds
    BY DEF FrameKinds
  <2> QED
    BY <1>1, <1>2, <2>2, <2>3, <2>4, FramePages DEF f
<1>5. CASE PollStatus(p)
  <2> DEFINE g == [f EXCEPT !.asking = TRUE]
  <2>1. g \in FrameType /\ g.pic = f.pic /\ g.image = f.image /\ g.tries = f.tries
    BY <1>2 DEF FrameType
  <2>2. page' = [page EXCEPT ![p].frame = g] /\ FreeSlots # {}
        /\ task' = [task EXCEPT ![Slot] = Request("poll", p)]
    BY <1>2, <1>5 DEF PollStatus, Send, f, PageType, FrameType
  <2> HIDE DEF g
  <2>3. "poll" \in FrameKinds
    BY DEF FrameKinds
  <2> QED
    BY <1>1, <1>2, <2>1, <2>2, <2>3, FramePages DEF f
<1>6. CASE RefreshQr(p)
  <2> DEFINE g == [f EXCEPT !.busy = TRUE, !.expired = FALSE, !.since = now]
  <2>1. g \in FrameType /\ g.pic = f.pic /\ g.image = f.image /\ g.tries = f.tries
    BY <1>2, <1>3 DEF FrameType
  <2>2. page' = [page EXCEPT ![p].frame = g] /\ FreeSlots # {}
        /\ task' = [task EXCEPT ![Slot] = Request("refresh", p)]
    BY <1>2, <1>6 DEF RefreshQr, Send, f, PageType, FrameType
  <2> HIDE DEF g
  <2>3. "refresh" \in FrameKinds
    BY DEF FrameKinds
  <2> QED
    BY <1>1, <1>2, <2>1, <2>2, <2>3, FramePages DEF f
<1>7. CASE MarkExpired(p)
  <2> DEFINE g == [f EXCEPT !.expired = TRUE, !.ticking = FALSE]
  <2>1. g \in FrameType /\ g.pic = f.pic /\ g.image = f.image /\ g.tries = f.tries
    BY <1>2 DEF FrameType
  <2>2. page' = [page EXCEPT ![p].frame = g] /\ task' = task
    BY <1>2, <1>7 DEF MarkExpired, f, PageType, FrameType
  <2> HIDE DEF g
  <2> QED
    BY <1>1, <1>2, <2>1, <2>2, FramePages DEF f
<1> QED
  BY <1>4, <1>5, <1>6, <1>7

LEMMA PayPages ==
  ASSUME PaymentInv, PageInv, NEW p \in Page, PayOrder(p)
  PROVE  PageInv'
<1>1. /\ UNCHANGED <<qrs, task, page>> /\ page[p].frame # Nothing /\ page[p].frame.pic # 0
      /\ paid' = paid \cup {qrs[page[p].frame.pic].order}
  BY DEF PayOrder
<1>2. page[p].frame.pic \in 1..Len(qrs)
  BY <1>1, PageFacts, PaymentFacts, PaymentNumbers DEF FrameOk, FrameType, Code
<1> DEFINE Issued == [order : 1..MaxOrders, at : 0..MaxTime]
<1>3. qrs \in Seq(Issued)
  BY PaymentFacts
<1> HIDE DEF Issued
<1>4. qrs[page[p].frame.pic] \in Issued
  BY <1>2, <1>3, ElementOfSeq
<1>5. paid' \subseteq 1..MaxOrders
  BY <1>1, <1>4 DEF PageInv, Issued
<1> QED
  BY <1>1, <1>5 DEF PageInv, FrameOk, Awaited

\* An answer is taken where it is awaited.
LEMMA TookFacts ==
  ASSUME PaymentInv, PageInv, NEW t \in Task, NEW k, Took(t, k)
  PROVE  /\ task[t] \in TaskType /\ task[t].page \in Page /\ task[t].kind = k
         /\ k \in DialogKinds => page[task[t].page].open
         /\ k \in FrameKinds => page[task[t].page].frame # Nothing
         /\ k = "image" => task[t].qr <= Len(qrs)
BY PaymentFacts DEF Took, PageInv, Awaited

LEMMA NewFrameTyped ==
  ASSUME PaymentInv, NEW o \in Order, NEW left \in 0..Valid
  PROVE  LET g == NewFrame(o, left) IN
         g \in FrameType /\ g.pic = 0 /\ g.tries = 0 /\ g # Nothing
<1>1. PICK n \in Time : n = now + left
  BY PaymentFacts, PaymentNumbers DEF Time
<1>2. 0 \in Time /\ 0 \in 0..Tries /\ 0 \in Code
  BY PaymentNumbers DEF Time, Code
<1>3. NewFrame(o, left) \in FrameType
  BY <1>1, <1>2 DEF NewFrame, FrameType
<1> QED
  BY <1>3, FrameIsThere DEF NewFrame

\* The requests of the frame are dropped, and the dialog gets another frame or none.
LEMMA DropFrame ==
  ASSUME PaymentInv, PageInv, NEW t \in Task, NEW p \in Page, NEW d \in PageType,
         task' = Stale(Freed(t), p, FrameKinds), page' = [page EXCEPT ![p] = d],
         UNCHANGED <<qrs, paid>>, FrameOk(d), page[p].open => d.open
  PROVE  PageInv'
<1>1. Freed(t) \in [Task -> TaskType] /\ Awaited(Freed(t), page)
  BY AwaitedFreed
<1>2. Awaited(task', page) /\ \A u \in Task : task'[u].pc # "free" =>
        ~(task'[u].page = p /\ task'[u].fresh /\ task'[u].kind \in FrameKinds)
  BY <1>1, AwaitedStale
<1>3. Awaited(task', page')
  BY <1>2, PageFacts, AwaitedPage
<1> QED
  BY <1>3, PageStepOk


\* The dialog with a new frame, or without one.
LEMMA NewDialog ==
  ASSUME PaymentInv, PageInv, NEW t \in Task, NEW p \in Page, NEW b \in BOOLEAN,
         NEW s \in BOOLEAN, NEW g,
         g = Nothing \/ (page[p].open /\ g = NewFrame(task[t].order, task[t].left)),
         NEW d, d = [page[p] EXCEPT !.buttons = b, !.paying = s, !.frame = g]
  PROVE  d \in PageType /\ FrameOk(d) /\ d.open = page[p].open
<1>1. task[t].order \in Order /\ task[t].left \in 0..Valid
  BY PaymentFacts DEF TaskType
<1>2. /\ g \in FrameType \cup {Nothing}
      /\ g # Nothing => page[p].open /\ g.pic = 0 /\ g.tries = 0
  BY <1>1, NewFrameTyped
<1>3. d \in PageType /\ d.frame = g /\ d.open = page[p].open
  BY <1>2, PageFacts DEF PageType
<1>4. FrameOk(d)
  BY <1>2, <1>3, PaymentNumbers, PaymentFacts DEF FrameOk
<1> QED
  BY <1>3, <1>4

LEMMA OrderPages ==
  ASSUME PaymentInv, PageInv, NEW t \in Task, OrderAnswered(t)
  PROVE  PageInv'
<1> DEFINE p == task[t].page
           ready == task[t].got = "ready"
           b == task[t].kind = "activate" /\ ~ready
           s == page[p].paying
           g == IF ready THEN NewFrame(task[t].order, task[t].left) ELSE Nothing
           d == [page[p] EXCEPT !.buttons = b, !.paying = s, !.frame = g]
<1>1. /\ task' = Stale(Freed(t), p, FrameKinds)
      /\ page' = [page EXCEPT ![p].buttons = b, ![p].frame = g]
  BY DEF OrderAnswered, PageOnly, provider
<1>2. Took(t, "order") \/ Took(t, "activate")
  BY DEF OrderAnswered
<1>3. "order" \in DialogKinds /\ "activate" \in DialogKinds
  BY DEF DialogKinds
<1>4. p \in Page /\ page[p].open
  BY <1>2, <1>3, TookFacts
<1>5. page[p] \in PageType /\ page \in [Page -> PageType]
  BY <1>4, PageFacts
<1>6. s \in BOOLEAN /\ b \in BOOLEAN
  BY <1>5 DEF PageType
<1>7. UNCHANGED <<qrs, paid>>
  BY DEF OrderAnswered, PageOnly, provider
<1>8. g = Nothing \/ (page[p].open /\ g = NewFrame(task[t].order, task[t].left))
  BY <1>4
<1>9. d = [page[p] EXCEPT !.buttons = b, !.paying = s, !.frame = g]
  OBVIOUS
<1> HIDE DEF ready, b, g, p
<1>10. page' = [page EXCEPT ![p] = d]
  <2>1. d = [page[p] EXCEPT !.buttons = b, !.frame = g]
    BY <1>5 DEF PageType
  <2> HIDE DEF d
  <2> QED
    BY <1>1, <1>5, <2>1
<1> HIDE DEF d, s
<1>11. d \in PageType /\ FrameOk(d) /\ d.open = page[p].open
  BY <1>4, <1>6, <1>8, <1>9, NewDialog, ZenonT(40)
<1> QED
  BY <1>1, <1>4, <1>7, <1>10, <1>11, DropFrame

LEMMA PaidPages ==
  ASSUME PaymentInv, PageInv, NEW t \in Task, PayAnswered(t)
  PROVE  PageInv'
<1> DEFINE p == task[t].page
           c == page[p].open /\ task[t].got = "ready"
           b == page[p].buttons
           g == IF c THEN NewFrame(task[t].order, task[t].left) ELSE Nothing
           d == [page[p] EXCEPT !.buttons = b, !.paying = FALSE, !.frame = g]
<1>1. /\ Took(t, "pay") /\ UNCHANGED <<qrs, paid>>
      /\ task' = Stale(Freed(t), p, FrameKinds)
      /\ page' = [page EXCEPT ![p].paying = FALSE, ![p].frame = g]
  BY DEF PayAnswered, PageOnly, provider
<1>2. p \in Page
  BY <1>1, TookFacts
<1>3. page[p] \in PageType /\ page \in [Page -> PageType]
  BY <1>2, PageFacts
<1>4. b \in BOOLEAN
  BY <1>3 DEF PageType
<1>5. g = Nothing \/ (page[p].open /\ g = NewFrame(task[t].order, task[t].left))
  OBVIOUS
<1>6. d = [page[p] EXCEPT !.buttons = b, !.paying = FALSE, !.frame = g]
  OBVIOUS
<1> HIDE DEF g, p
<1>7. page' = [page EXCEPT ![p] = d]
  <2>1. d = [page[p] EXCEPT !.paying = FALSE, !.frame = g]
    BY <1>3 DEF PageType
  <2> HIDE DEF d
  <2> QED
    BY <1>1, <1>3, <2>1
<1> HIDE DEF d, b
<1>8. d \in PageType /\ FrameOk(d) /\ d.open = page[p].open
  BY <1>2, <1>4, <1>5, <1>6, NewDialog
<1> QED
  BY <1>1, <1>2, <1>7, <1>8, DropFrame

LEMMA ClosedPages ==
  ASSUME PaymentInv, PageInv, NEW t \in Task, CloseAnswered(t)
  PROVE  PageInv'
<1> DEFINE p == task[t].page
           d == [page[p] EXCEPT !.closing = FALSE]
<1>1. /\ Took(t, "close") /\ UNCHANGED <<qrs, paid>> /\ task' = Freed(t)
      /\ page' = [page EXCEPT ![p].closing = FALSE]
  BY DEF CloseAnswered, PageOnly, provider
<1>2. p \in Page
  BY <1>1, TookFacts
<1>3. page[p] \in PageType /\ page \in [Page -> PageType] /\ FrameOk(page[p])
  BY <1>2, PageFacts
<1>4. d \in PageType /\ d.open = page[p].open /\ d.frame = page[p].frame
  BY <1>3 DEF PageType
<1>5. page' = [page EXCEPT ![p] = d]
  BY <1>1, <1>3
<1>6. FrameOk(d)
  BY <1>3, <1>4 DEF FrameOk
<1> HIDE DEF d, p
<1>7. Awaited(Freed(t), page)
  BY AwaitedFreed
<1>8. page[p].open => d.open
  BY <1>4
<1>9. page[p].frame # Nothing => d.frame # Nothing
  BY <1>4
<1>10. Awaited(Freed(t), [page EXCEPT ![p] = d])
  BY <1>2, <1>3, <1>4, <1>7, <1>8, <1>9, AwaitedPage
<1>11. Awaited(task', page')
  BY <1>1, <1>5, <1>10
<1> QED
  BY <1>1, <1>2, <1>4, <1>5, <1>6, <1>11, PageStepOk


LEMMA ImagePages ==
  ASSUME PaymentInv, PageInv, NEW t \in Task, ImageAnswered(t)
  PROVE  PageInv'
<1> DEFINE p == task[t].page
           f == page[p].frame
<1>1. /\ Took(t, "image") /\ UNCHANGED <<qrs, paid>>
      /\ \/ task' = Freed(t) /\ page' = [page EXCEPT ![p].frame = Loaded(f, task[t].qr)]
         \/ /\ MoreTries(f) /\ task' = Freed(t)
            /\ page' = [page EXCEPT ![p].frame.image = "todo"]
         \/ /\ task' = Stale(Freed(t), p, FrameKinds)
            /\ page' = [page EXCEPT ![p].frame = Nothing]
  BY DEF ImageAnswered, PageOnly, provider
<1>2. "image" \in FrameKinds
  BY DEF FrameKinds
<1>3. p \in Page /\ f # Nothing /\ task[t].qr <= Len(qrs) /\ task[t].qr \in Code
  BY <1>1, <1>2, TookFacts DEF TaskType
<1>4. /\ page[p] \in PageType /\ page \in [Page -> PageType] /\ f \in FrameType
      /\ FrameOk(page[p])
  BY <1>3, PageFacts
<1> HIDE DEF p
<1>5. CASE task' = Freed(t) /\ page' = [page EXCEPT ![p].frame = Loaded(f, task[t].qr)]
  <2> DEFINE g == Loaded(f, task[t].qr)
  <2>1. f.deadline \in Nat /\ now \in Nat
    BY <1>4, PaymentFacts, PaymentNumbers DEF FrameType, Time
  <2>2. (f.deadline <= now) \in BOOLEAN /\ (f.deadline > now) \in BOOLEAN /\ 0 \in 0..Tries
    BY <2>1, PaymentNumbers
  <2>3. g \in FrameType /\ g.pic = task[t].qr /\ g.image = "shown"
    BY <1>3, <1>4, <2>2 DEF Loaded, FrameType
  <2>4. page' = [page EXCEPT ![p].frame = g]
    BY <1>5
  <2> HIDE DEF g
  <2> QED
    BY <1>1, <1>3, <1>5, <2>3, <2>4, FramePages
<1>6. CASE MoreTries(f) /\ task' = Freed(t) /\ page' = [page EXCEPT ![p].frame.image = "todo"]
  <2> DEFINE g == [f EXCEPT !.image = "todo"]
  <2>1. g \in FrameType /\ g.pic = f.pic /\ g.tries = f.tries
    BY <1>4 DEF FrameType
  <2>2. page' = [page EXCEPT ![p].frame = g]
    BY <1>4, <1>6 DEF PageType, FrameType
  <2>3. g.pic <= Len(qrs) /\ g.tries < Tries
    BY <1>3, <1>4, <1>6, <2>1 DEF FrameOk, MoreTries
  <2> HIDE DEF g
  <2> QED
    BY <1>1, <1>3, <1>6, <2>1, <2>2, <2>3, FramePages
<1>7. CASE task' = Stale(Freed(t), p, FrameKinds) /\ page' = [page EXCEPT ![p].frame = Nothing]
  <2> DEFINE d == [page[p] EXCEPT !.frame = Nothing]
  <2>1. d \in PageType /\ FrameOk(d) /\ d.open = page[p].open
    BY <1>4 DEF PageType, FrameOk
  <2>2. page' = [page EXCEPT ![p] = d]
    BY <1>4, <1>7
  <2> HIDE DEF d
  <2> QED
    BY <1>1, <1>3, <1>7, <2>1, <2>2, DropFrame
<1> QED
  BY <1>1, <1>5, <1>6, <1>7

\* The frame as the answer to the status query leaves it.
LEMMA SyncedTyped ==
  ASSUME PaymentInv, NEW f \in FrameType, NEW left \in 0..Valid, NEW g \in Synced(f, left)
  PROVE  g \in FrameType /\ g.pic = f.pic /\ g.image = f.image /\ g.tries = f.tries
<1>1. now \in Time
  BY PaymentFacts, PaymentNumbers DEF Time
<1>2. PICK n \in Time : n = now + left
  BY PaymentFacts, PaymentNumbers DEF Time
<1>3. f.ticking \in BOOLEAN
  BY DEF FrameType
<1>4. \/ g = f
      \/ g = [f EXCEPT !.deadline = now, !.expired = TRUE, !.ticking = FALSE]
      \/ \E b \in BOOLEAN : g = [f EXCEPT !.deadline = n, !.ticking = b]
  BY <1>2, <1>3 DEF Synced
<1>5. ASSUME NEW n1 \in Time, NEW b \in BOOLEAN
      PROVE  LET h == [f EXCEPT !.deadline = n1, !.ticking = b]
             IN h \in FrameType /\ h.pic = f.pic /\ h.image = f.image /\ h.tries = f.tries
  BY DEF FrameType
<1>6. LET h == [f EXCEPT !.deadline = now, !.expired = TRUE, !.ticking = FALSE]
      IN h \in FrameType /\ h.pic = f.pic /\ h.image = f.image /\ h.tries = f.tries
  BY <1>1 DEF FrameType
<1> QED
  BY <1>2, <1>4, <1>5, <1>6

LEMMA StatusPages ==
  ASSUME PaymentInv, PageInv, NEW t \in Task, StatusAnswered(t)
  PROVE  PageInv'
<1> DEFINE p == task[t].page
           f == page[p].frame
           a == Answered(f)
           e == [a EXCEPT !.expired = TRUE, !.ticking = FALSE,
                          !.deadline = IF a.expired THEN @ ELSE now]
<1>1. /\ Took(t, "poll") /\ UNCHANGED <<qrs, paid>>
      /\ \/ /\ task' = Stale(Freed(t), p, FrameKinds)
            /\ page' = [page EXCEPT ![p].frame = Nothing, ![p].success = TRUE]
         \/ task' = Freed(t) /\ page' = [page EXCEPT ![p].frame = e]
         \/ /\ task' = Freed(t)
            /\ \E g \in Synced(a, task[t].left) : page' = [page EXCEPT ![p].frame = g]
         \/ task' = Freed(t) /\ page' = [page EXCEPT ![p].frame = a]
  BY DEF StatusAnswered, PageOnly, provider
<1>2. "poll" \in FrameKinds
  BY DEF FrameKinds
<1>3. p \in Page /\ f # Nothing /\ task[t].left \in 0..Valid
  BY <1>1, <1>2, TookFacts DEF TaskType
<1>4. /\ page[p] \in PageType /\ page \in [Page -> PageType] /\ f \in FrameType
      /\ FrameOk(page[p])
  BY <1>3, PageFacts
<1>5. a \in FrameType /\ a.pic = f.pic /\ a.image = f.image /\ a.tries = f.tries
  BY <1>4 DEF Answered, FrameType
<1> HIDE DEF p, a
<1>6. ASSUME task' = Freed(t), NEW g \in FrameType, g.pic = a.pic, g.image = a.image,
             g.tries = a.tries, page' = [page EXCEPT ![p].frame = g]
      PROVE  PageInv'
  <2>1. g.pic <= Len(qrs) /\ (g.image = "todo" => g.tries < Tries)
    BY <1>3, <1>4, <1>5, <1>6 DEF FrameOk
  <2> QED
    BY <1>1, <1>3, <1>6, <2>1, FramePages
<1>7. CASE task' = Freed(t) /\ page' = [page EXCEPT ![p].frame = e]
  <2>1. now \in Time
    BY PaymentFacts, PaymentNumbers DEF Time
  <2>2. e \in FrameType /\ e.pic = a.pic /\ e.image = a.image /\ e.tries = a.tries
    BY <1>5, <2>1 DEF FrameType
  <2> HIDE DEF e
  <2> QED
    BY <1>6, <1>7, <2>2
<1>8. CASE /\ task' = Freed(t)
           /\ \E g \in Synced(a, task[t].left) : page' = [page EXCEPT ![p].frame = g]
  <2>1. PICK g \in Synced(a, task[t].left) : page' = [page EXCEPT ![p].frame = g]
    BY <1>8
  <2>2. g \in FrameType /\ g.pic = a.pic /\ g.image = a.image /\ g.tries = a.tries
    BY <1>3, <1>5, SyncedTyped
  <2> QED
    BY <1>6, <1>8, <2>1, <2>2
<1>9. CASE /\ task' = Stale(Freed(t), p, FrameKinds)
           /\ page' = [page EXCEPT ![p].frame = Nothing, ![p].success = TRUE]
  <2> DEFINE d == [page[p] EXCEPT !.frame = Nothing, !.success = TRUE]
  <2>1. d \in PageType /\ FrameOk(d) /\ d.open = page[p].open
    BY <1>4 DEF PageType, FrameOk
  <2>2. page' = [page EXCEPT ![p] = d]
    BY <1>4, <1>9 DEF PageType
  <2> HIDE DEF d
  <2> QED
    BY <1>1, <1>3, <1>9, <2>1, <2>2, DropFrame
<1> QED
  BY <1>1, <1>5, <1>6, <1>7, <1>8, <1>9, SMTT(30)

LEMMA RefreshPages ==
  ASSUME PaymentInv, PageInv, NEW t \in Task, RefreshAnswered(t)
  PROVE  PageInv'
<1> DEFINE p == task[t].page
           f == page[p].frame
           n == Min2(now + task[t].left, f.since + Valid)
           g == [f EXCEPT !.image = "todo", !.tries = 0, !.deadline = n, !.since = 0]
           h == [f EXCEPT !.busy = FALSE, !.expired = TRUE, !.since = 0]
<1>1. /\ Took(t, "refresh") /\ UNCHANGED <<qrs, paid>> /\ task' = Freed(t)
      /\ \/ page' = [page EXCEPT ![p].frame = g]
         \/ page' = [page EXCEPT ![p].frame = h]
  BY DEF RefreshAnswered, PageOnly, provider
<1>2. "refresh" \in FrameKinds
  BY DEF FrameKinds
<1>3. p \in Page /\ f # Nothing /\ task[t].left \in 0..Valid
  BY <1>1, <1>2, TookFacts DEF TaskType
<1>4. f \in FrameType /\ f.pic <= Len(qrs) /\ (f.image = "todo" => f.tries < Tries)
  BY <1>3, PageFacts DEF FrameOk
<1> HIDE DEF p
<1>5. now + task[t].left \in Time /\ f.since + Valid \in Nat /\ 0 \in Time
  <2>1. f.since \in Time
    BY <1>4 DEF FrameType
  <2> HIDE DEF f
  <2>2. now \in Nat /\ now <= MaxTime
    BY PaymentFacts
  <2> QED
    BY <1>3, <2>1, <2>2, PaymentNumbers DEF Time
<1>6. n \in Time /\ 0 \in 0..Tries /\ 0 < Tries
  BY <1>5, PaymentNumbers DEF Min2, Time
<1> HIDE DEF f, n
<1>7. g \in FrameType /\ g.pic = f.pic /\ g.tries = 0
  BY <1>4, <1>5, <1>6 DEF FrameType
<1>8. h \in FrameType /\ h.pic = f.pic /\ h.image = f.image /\ h.tries = f.tries
  BY <1>4, <1>5 DEF FrameType
<1> HIDE DEF g, h
<1>9. page[p].frame # Nothing
  BY <1>3 DEF f
<1>10. CASE page' = [page EXCEPT ![p].frame = g]
  BY <1>1, <1>3, <1>4, <1>6, <1>7, <1>9, <1>10, FramePages
<1>11. CASE page' = [page EXCEPT ![p].frame = h]
  BY <1>1, <1>3, <1>4, <1>8, <1>9, <1>11, FramePages
<1> QED
  BY <1>1, <1>10, <1>11


LEMMA ReceivePages ==
  ASSUME PaymentInv, PageInv, NEW t \in Task, Receive(t)
  PROVE  PageInv'
<1>1. CASE Dropped(t)
  <2>1. UNCHANGED <<qrs, paid, page>> /\ task' = Freed(t)
    BY <1>1 DEF Dropped, PageOnly, provider
  <2>2. Awaited(Freed(t), page)
    BY AwaitedFreed
  <2>3. Awaited(task, page)'
    BY <2>1, <2>2 DEF Awaited
  <2> QED
    BY <2>1, <2>3 DEF PageInv, FrameOk
<1> QED
  BY <1>1, OrderPages, PaidPages, ClosedPages, ImagePages, StatusPages, RefreshPages DEF Receive

LEMMA PageInitInv ==
  ASSUME PaymentInit
  PROVE  PageInv
<1>1. NoPage \in PageType /\ NoPage.frame = Nothing
  BY DEF NoPage, PageType
<1>2. page \in [Page -> PageType] /\ \A p \in Page : FrameOk(page[p])
  BY <1>1 DEF PaymentInit, FrameOk
<1>3. \A t \in Task : task[t].pc = "free"
  BY DEF PaymentInit, Free
<1> QED
  BY <1>2, <1>3 DEF PaymentInit, PageInv, Awaited

LEMMA PageNextInv ==
  ASSUME PaymentInv, PageInv, [PaymentNext]_paymentVars
  PROVE  PageInv'
<1>1. ASSUME NEW t \in Task, Arrive(t) \/ Serve(t) \/ Receive(t) PROVE PageInv'
  BY <1>1, ArrivePages, ServePages, ReceivePages
<1>2. ASSUME NEW p \in Page,
             \/ OpenRecharge(p) \/ CloseRecharge(p) \/ ChooseMethod(p) \/ LoadQr(p)
             \/ PollStatus(p) \/ RefreshQr(p) \/ MarkExpired(p) \/ PayOrder(p)
      PROVE  PageInv'
  BY <1>2, OpenPages, ClosePages, ChoosePages, FrameStepPages, PayPages
<1>3. CASE RestartServer
  BY <1>3, RestartPages
<1>4. CASE Tick \/ UNCHANGED paymentVars
  <2>1. UNCHANGED <<qrs, paid, page, task>>
    BY <1>4 DEF Tick, paymentVars, provider
  <2> QED
    BY <2>1 DEF PageInv, FrameOk, Awaited
<1> QED
  BY <1>1, <1>2, <1>3, <1>4 DEF PaymentNext

\* The pages and the server agree on what is under way: while the answer to a request
\* is awaited, the dialog or the frame that asked is there to take it, however closing,
\* choosing another method and a restart of the server interleave with the answers.
THEOREM AnswersFindTheirPage == PaymentSpec => []PageInv
<1>1. PaymentInit => PaymentInv /\ PageInv
  BY PaymentInitInv, PageInitInv
<1>2. PaymentInv /\ PageInv /\ [PaymentNext]_paymentVars => PaymentInv' /\ PageInv'
  BY PaymentNextInv, PageNextInv
<1> QED
  BY <1>1, <1>2, PTL DEF PaymentSpec

\* The line at the lock has a place for each request, since no request is in it twice.
LEMMA LineBounded ==
  ASSUME PaymentInv
  PROVE  Len(line) <= Slots
<1> DEFINE n == Len(line)
<1>1. line \in Seq(Task) /\ n \in Nat /\ Slots \in Nat
  BY PaymentFacts, PaymentNumbers
<1>2. \A i, j \in 1..n : i # j => line[i] # line[j]
  BY PaymentFacts DEF PayLine
<1> HIDE DEF n
<1>3. ASSUME NEW k \in Nat PROVE IsFiniteSet(1..k) /\ Cardinality(1..k) = k
  BY FS_Interval
<1>4. ASSUME n > Slots PROVE FALSE
  <2>1. line \in [1..n -> Task]
    BY <1>1 DEF n
  <2>2. /\ IsFiniteSet(1..n) /\ IsFiniteSet(Task)
        /\ Cardinality(Task) < Cardinality(1..n)
    BY <1>1, <1>3, <1>4 DEF Task
  <2>3. \E i, j \in 1..n : i # j /\ line[i] = line[j]
    BY <2>1, <2>2, FS_PigeonHole
  <2> QED
    BY <1>2, <2>3
<1> QED
  BY <1>1, <1>4 DEF n

\* The server, the provider, the requests and the pages keep their types: the line at
\* the operation lock is no longer than the requests are many, only an order that was
\* created is paid, and a page shows a code, an amount and a deadline of these ranges.
THEOREM PaymentTypes == PaymentSpec => []PaymentTypeOK
<1>1. PaymentInv /\ PageInv => PaymentTypeOK
  <2>1. ASSUME PaymentInv, PageInv PROVE PaymentTypeOK
    <3>1. ServerTypes
      BY <2>1 DEF PaymentInv
    <3> QED
      BY <2>1, <3>1, LineBounded DEF PaymentTypeOK, PageInv
  <2> QED
    BY <2>1
<1> QED
  BY <1>1, PaymentInvariance, AnswersFindTheirPage, PTL
=============================================================================
