------------------------------ MODULE Options ------------------------------
(***************************************************************************)
(* What a form offers to buy in one region (Python): account_options, the  *)
(* option cache and the memory of sold-out flavors of app/main.py, and     *)
(* get_console_resource_stock of services/browser_automation.py.           *)
(*                                                                         *)
(* A list of flavors is looked up in a dictionary, then in a table that    *)
(* outlives the process.  If it is in neither, a task asks the console for *)
(* the stock of the region, at most one task of a region at a time; the    *)
(* stock is kept for the region and for the account.  A request waits only *)
(* so long for the task and then answers from the open API.                *)
(*                                                                         *)
(* Requests run on the event loop and are only interrupted where they      *)
(* wait.  A refused price, which tells that a flavor is sold out, runs in  *)
(* a thread of its own, between any two steps.                             *)
(*                                                                         *)
(* Time passes in units (Tick) that are longer than a request; an entry    *)
(* carries the units it still has to live and the age of what it tells.    *)
(***************************************************************************)
EXTENDS Naturals, FiniteSets

CONSTANTS
  Account,      \* accounts that ask; they share the region's lists and stock
  Flavor,       \* flavors of the region
  View,         \* lists that are asked for: available ("verified") or all
  Loader,       \* requests at a time, each with its task for the stock
  VerifiedTTL,  \* life of a list of available flavors (an hour in the code)
  PlainTTL,     \* life of the other lists (a day)
  StockTTL,     \* life of a stock that was read (a day)
  ErrorTTL,     \* life of a failure to read it (30 seconds)
  SoldTTL,      \* how long a sold-out flavor is remembered (10 minutes)
  MaxErrors,    \* bound on errors of the database (a bound of the model)
  Fallback,     \* is a browser used when the saved cookies do not do?
  None

ASSUME ViewAssumption == View \subseteq {"verified", "plain"}
ASSUME TTLAssumption ==
  {VerifiedTTL, PlainTTL, StockTTL, ErrorTTL, SoldTTL} \subseteq Nat \ {0}
ASSUME MaxErrorsAssumption == MaxErrors \in Nat
ASSUME FallbackAssumption == Fallback \in BOOLEAN
ASSUME NoneAssumption == None \notin Loader

VARIABLES
  memory,    \* option_cache: [View -> None or entry]; "late" remarks a list
             \* that a report of a sold-out flavor missed
  table,     \* the table option_cache: [View -> None or entry]
  shared,    \* the region's stock: None or reading
  own,       \* [Account -> its failure to read it: None or reading]
  region,    \* holder of the region's lock
  sold,      \* [Flavor -> units it is remembered as sold out]
  load,      \* [Loader -> progress of a request and of its task]
  report,    \* progress of a thread that clears the lists of flavors
  errors     \* errors of the database so far

vars == <<memory, table, shared, own, region, sold, load, report, errors>>

lists == <<memory, table>>
stock == <<shared, own, region>>

TTL(view) == IF view = "verified" THEN VerifiedTTL ELSE PlainTTL

Idle == [at |-> "idle", view |-> None, account |-> None, task |-> "none",
         got |-> None, value |-> None, keep |-> FALSE, late |-> FALSE]

Init ==
  /\ memory = [v \in View |-> None] /\ table = memory
  /\ shared = None /\ own = [a \in Account |-> None] /\ region = None
  /\ sold = [f \in Flavor |-> 0]
  /\ load = [l \in Loader |-> Idle]
  /\ report = "none"
  /\ errors = 0

-----------------------------------------------------------------------------
(* A request and the option cache *)

\* Where a request runs without letting others on.
Inside == {"back", "check", "store", "persist"}
LoopFree(l) == \A k \in Loader \ {l} : load[k].at \notin Inside

\* Errors of the database are passed over.
DatabaseFails == errors < MaxErrors /\ errors' = errors + 1

Set(l, new) == load' = [load EXCEPT ![l] = new]
Finish(l) == Set(l, IF load[l].task \in {"none", "done", "raised"} THEN Idle
                    ELSE [load[l] EXCEPT !.at = "idle", !.view = None, !.value = None,
                            !.keep = FALSE, !.late = FALSE])

\* Memory has no entry that is still alive; the table is asked.
Ask(l, a, v) ==
  /\ load[l] = Idle /\ LoopFree(l)
  /\ memory[v] = None
  /\ LET new == [Idle EXCEPT !.view = v, !.account = a, !.late = report # "none"]
     IN \/ /\ table[v] # None
           /\ Set(l, [new EXCEPT !.at = "back", !.value = table[v]])
           /\ UNCHANGED errors
        \/ /\ IF table[v] = None THEN UNCHANGED errors ELSE DatabaseFails
           /\ Set(l, [new EXCEPT !.at = "stock", !.task = "look"])
  /\ UNCHANGED <<lists, stock, sold, report>>

WriteBack_Fresh(l) ==
  /\ load[l].at = "back"
  /\ memory' = [memory EXCEPT ![load[l].view] =
                  [load[l].value EXCEPT !.late = @ \/ load[l].late, !.left = TTL(load[l].view)]]
  /\ Finish(l)
  /\ UNCHANGED <<table, stock, sold, report, errors>>

\* An entry of the table comes back for the time it still has there.
WriteBack(l) ==
  /\ load[l].at = "back"
  /\ memory' = [memory EXCEPT ![load[l].view] =
                  [load[l].value EXCEPT !.late = @ \/ load[l].late]]
  /\ Finish(l)
  /\ UNCHANGED <<table, stock, sold, report, errors>>

-----------------------------------------------------------------------------
(* What the console's tables say of a flavor *)

\* A flavor is sold out by any sign of the list's own entry (flavor_sold_out) or of every
\* row of the stock that names it, it is on sale by a row that does not say so, or no row
\* names it: then it is not known to be sold out.
Verdict == {"sold", "sale", "bare"}

-----------------------------------------------------------------------------
(* The task that asks the console for the stock *)

NoItems == [f \in Flavor |-> "sold"]

Reading(status, items) ==
  [status |-> status, items |-> items, age |-> 0,
   left |-> IF status \in {"ready", "empty"} THEN StockTTL ELSE ErrorTTL]

Known(a) == IF shared # None THEN shared ELSE own[a]

\* The task ends, with nobody there if its request has been answered.
Ended(l, how, reading) ==
  Set(l, IF load[l].at = "idle" THEN Idle ELSE [load[l] EXCEPT !.task = how, !.got = reading])

Answered(l, reading) == Ended(l, "done", reading)

Look(l) ==
  /\ load[l].task = "look"
  /\ IF Known(load[l].account) # None
       THEN Answered(l, Known(load[l].account))
       ELSE Set(l, [load[l] EXCEPT !.task = "wait"])
  /\ UNCHANGED <<lists, stock, sold, report, errors>>

TakeRegion_Unchecked(l) ==
  /\ load[l].task = "wait"
  /\ region = None
  /\ Set(l, [load[l] EXCEPT !.task = "read"])
  /\ region' = l
  /\ UNCHANGED <<lists, shared, own, sold, report, errors>>

\* The caches are looked at again under the lock.
TakeRegion(l) ==
  /\ load[l].task = "wait"
  /\ region = None
  /\ IF Known(load[l].account) # None
       THEN Answered(l, Known(load[l].account)) /\ UNCHANGED region
       ELSE Set(l, [load[l] EXCEPT !.task = "read"]) /\ region' = l
  /\ UNCHANGED <<lists, shared, own, sold, report, errors>>

(* Tables that are empty count as read.  The account keeps a reading, too, *)
(* for the same time: it is never looked at before the region's.           *)
StockRead(l) ==
  \E status \in {"ready", "empty"}, items \in [Flavor -> Verdict] :
    /\ status = "empty" => items = NoItems
    /\ shared' = Reading(status, items)
    /\ own' = [own EXCEPT ![load[l].account] = None]
    /\ region' = None
    /\ Answered(l, Reading(status, items))

StockFails_KeepsRegion(l, status) ==
  /\ own' = [own EXCEPT ![load[l].account] = Reading(status, NoItems)]
  /\ Answered(l, Reading(status, NoItems))
  /\ UNCHANGED <<region, shared>>

\* A failure is kept for the account alone.
StockFails(l, status) ==
  /\ own' = [own EXCEPT ![load[l].account] = Reading(status, NoItems)]
  /\ region' = None
  /\ Answered(l, Reading(status, NoItems))
  /\ UNCHANGED shared

ReadCookie(l) ==
  /\ load[l].task = "read"
  /\ StockRead(l)
  /\ UNCHANGED <<lists, sold, report, errors>>

CookieFails(l) ==
  /\ load[l].task = "read"
  /\ IF Fallback THEN Set(l, [load[l] EXCEPT !.task = "session"]) /\ UNCHANGED stock
     ELSE StockFails(l, "error")
  /\ UNCHANGED <<lists, sold, report, errors>>

(* The browser's session is made ready under the account's lock. *)
OpenSession(l) ==
  /\ load[l].task = "session"
  /\ \/ Set(l, [load[l] EXCEPT !.task = "browser"]) /\ UNCHANGED stock
     \/ StockFails(l, "login")
     \/ /\ Ended(l, "raised", None)
        /\ region' = None
        /\ UNCHANGED <<shared, own>>
  /\ UNCHANGED <<lists, sold, report, errors>>

ReadBrowser(l) ==
  /\ load[l].task = "browser"
  /\ \/ StockRead(l)
     \/ StockFails(l, "error")
     \/ Set(l, [load[l] EXCEPT !.task = "context"]) /\ UNCHANGED stock
  /\ UNCHANGED <<lists, sold, report, errors>>

(* A console that does not accept the session is opened once more. *)
ReadPage(l) ==
  /\ load[l].task = "context"
  /\ StockRead(l) \/ StockFails(l, "error")
  /\ UNCHANGED <<lists, sold, report, errors>>

-----------------------------------------------------------------------------
(* The list that is made of it *)

\* A list of available flavors has only those that a row of the stock names.
Offered(v, items) ==
  {f \in Flavor : items[f] = "sale" \/ (v = "plain" /\ items[f] = "bare")}

Offer(l, offers, age, keep) ==
  Set(l, [load[l] EXCEPT !.at = "check", !.keep = keep, !.got = None,
            !.task = IF @ \in {"done", "raised"} THEN "none" ELSE @,
            !.value = [offers |-> offers, age |-> age, left |-> TTL(load[l].view), late |-> FALSE]])

(* A status that is no reading.  Only a list of all flavors is kept then,  *)
(* and not when the answer is still pending or was an exception.           *)
WithoutStock(l, status) ==
  IF load[l].view = "verified" /\ status # "login" THEN Finish(l)
  ELSE Set(l, [load[l] EXCEPT !.at = "openapi", !.got = None,
                 !.task = IF @ \in {"done", "raised"} THEN "none" ELSE @,
                 !.keep = load[l].view = "plain" /\ status \in {"empty", "login", "error"}])

StockArrives(l) ==
  /\ load[l].at = "stock" /\ load[l].task = "done" /\ LoopFree(l)
  /\ LET got == load[l].got
     IN IF got.status = "ready"
          THEN Offer(l, Offered(load[l].view, got.items), got.age, TRUE)
          ELSE WithoutStock(l, got.status)
  /\ UNCHANGED <<lists, stock, sold, report, errors>>

StockRaises(l) ==
  /\ load[l].at = "stock" /\ load[l].task = "raised" /\ LoopFree(l)
  /\ WithoutStock(l, "raised")
  /\ UNCHANGED <<lists, stock, sold, report, errors>>

(* The task goes on. *)
StockTimesOut(l) ==
  /\ load[l].at = "stock" /\ load[l].task \notin {"done", "raised"} /\ LoopFree(l)
  /\ WithoutStock(l, "pending")
  /\ UNCHANGED <<lists, stock, sold, report, errors>>

OpenApiArrives(l) ==
  /\ load[l].at = "openapi" /\ LoopFree(l)
  /\ \E offers \in SUBSET Flavor : Offer(l, offers, 0, load[l].keep)
  /\ UNCHANGED <<lists, stock, sold, report, errors>>

OpenApiFails(l) ==
  /\ load[l].at = "openapi"
  /\ Finish(l)
  /\ UNCHANGED <<lists, stock, sold, report, errors>>

\* A list of available flavors has no row for one that is sold out.
Listed(l) ==
  IF load[l].view = "verified" THEN load[l].value.offers ELSE Flavor

Remembered(f) == sold[f] > 0

(* Flavors that are remembered as sold out are shown so, and the list is   *)
(* not kept; nor is one without a row.                                     *)
CheckSold(l) ==
  /\ load[l].at = "check"
  /\ IF /\ load[l].keep
        /\ \A f \in Listed(l) : ~Remembered(f)
        /\ load[l].view = "verified" => Listed(l) # {}
       THEN Set(l, [load[l] EXCEPT !.at = "store"])
       ELSE Finish(l)
  /\ UNCHANGED <<lists, stock, sold, report, errors>>

Store(l) ==
  /\ load[l].at = "store"
  /\ memory' = [memory EXCEPT ![load[l].view] = [load[l].value EXCEPT !.late = load[l].late]]
  /\ Set(l, [load[l] EXCEPT !.at = "persist"])
  /\ UNCHANGED <<table, stock, sold, report, errors>>

Persist(l) ==
  /\ load[l].at = "persist"
  /\ \/ /\ table' = [table EXCEPT ![load[l].view] = [load[l].value EXCEPT !.late = load[l].late]]
        /\ UNCHANGED errors
     \/ DatabaseFails /\ UNCHANGED table
  /\ Finish(l)
  /\ UNCHANGED <<memory, stock, sold, report>>

-----------------------------------------------------------------------------
(* A refused price or order *)

\* Requests that are under way miss the report.
Overlapped == [l \in Loader |-> [load[l] EXCEPT !.late = @ \/ load[l].at # "idle"]]

\* A price or an order is refused with an error that names the flavor as sold out, neither
\* a disk nor a check that failed.
RefusePrice(f) ==
  /\ report = "none"
  /\ sold' = [sold EXCEPT ![f] = SoldTTL]
  /\ report' = "noted"
  /\ load' = Overlapped
  /\ UNCHANGED <<lists, stock, errors>>

ClearMemory ==
  /\ report = "noted"
  /\ memory' = [v \in View |-> None]
  /\ report' = "cleared"
  /\ UNCHANGED <<table, stock, sold, load, errors>>

ClearTable_Forgotten ==
  /\ report = "cleared"
  /\ report' = "none"
  /\ UNCHANGED <<lists, stock, sold, load, errors>>

(* Lists that an error leaves there have missed the report. *)
ClearTable ==
  /\ report = "cleared"
  /\ \/ /\ table' = [v \in View |-> None]
        /\ UNCHANGED errors
     \/ /\ DatabaseFails
        /\ table' = [v \in View |-> IF table[v] = None THEN None
                                    ELSE [table[v] EXCEPT !.late = TRUE]]
  /\ report' = "none"
  /\ UNCHANGED <<memory, stock, sold, load>>

-----------------------------------------------------------------------------
(* The surroundings *)

Older(e) ==
  IF e = None \/ e.left = 1 THEN None ELSE [e EXCEPT !.left = @ - 1, !.age = @ + 1]

Tick ==
  /\ \A l \in Loader : load[l].at = "idle"
  /\ report = "none"
  /\ memory' = [v \in View |-> Older(memory[v])]
  /\ table' = [v \in View |-> Older(table[v])]
  /\ shared' = Older(shared)
  /\ own' = [a \in Account |-> Older(own[a])]
  /\ sold' = [f \in Flavor |-> IF sold[f] = 0 THEN 0 ELSE sold[f] - 1]
  /\ UNCHANGED <<region, load, report, errors>>

(* Only the table is left. *)
Restart ==
  /\ memory' = [v \in View |-> None]
  /\ shared' = None /\ own' = [a \in Account |-> None] /\ region' = None
  /\ sold' = [f \in Flavor |-> 0]
  /\ load' = [l \in Loader |-> Idle]
  /\ report' = "none"
  /\ UNCHANGED <<table, errors>>

-----------------------------------------------------------------------------
Task(l) ==
  \/ Look(l) \/ TakeRegion(l) \/ ReadCookie(l) \/ CookieFails(l)
  \/ OpenSession(l) \/ ReadBrowser(l) \/ ReadPage(l)

Request(l) ==
  \/ WriteBack(l)
  \/ StockArrives(l) \/ StockRaises(l) \/ StockTimesOut(l)
  \/ OpenApiArrives(l) \/ OpenApiFails(l)
  \/ CheckSold(l) \/ Store(l) \/ Persist(l)

Next ==
  \/ \E l \in Loader : \/ \E a \in Account, v \in View : Ask(l, a, v)
                       \/ Request(l) \/ Task(l)
  \/ \E f \in Flavor : RefusePrice(f)
  \/ ClearMemory \/ ClearTable
  \/ Tick \/ Restart

Spec == Init /\ [][Next]_vars

-----------------------------------------------------------------------------
Entry == [offers : SUBSET Flavor, age : Nat, left : Nat \ {0}, late : BOOLEAN]
Read == [status : {"ready", "empty", "login", "error"}, items : [Flavor -> Verdict],
         age : Nat, left : Nat \ {0}]

HasRegion(l) == load[l].task \in {"read", "session", "browser", "context"}

(* Every variable keeps its kind, and the region's lock is held by the one *)
(* task that reads its stock.                                              *)
TypeOK ==
  /\ \A v \in View : {memory[v], table[v]} \subseteq Entry \cup {None}
  /\ \A r \in {shared} \cup {own[a] : a \in Account} : r \in Read \cup {None}
  /\ \A l \in Loader : HasRegion(l) <=> region = l
  /\ sold \in [Flavor -> 0 .. SoldTTL]
  /\ report \in {"none", "noted", "cleared"}

(* A flavor that is remembered as sold out is no longer offered from the   *)
(* cache, neither from memory nor from the table, unless the list was made *)
(* or fetched from the table while the report was being made, or the       *)
(* database refused to delete it.                                          *)
SoldOutWithdrawn ==
  report = "none" =>
    \A v \in View, f \in Flavor :
      Remembered(f) =>
        \A e \in {memory[v], table[v]} \ {None} : f \in e.offers => e.late

(* However an entry came where it is, what it tells is at most as old as a *)
(* stock and a list may get.                                               *)
OfferAge ==
  \A v \in View : \A e \in {memory[v], table[v]} \ {None} : e.age + e.left < StockTTL + TTL(v)

(* The console is not asked for a stock that is known.                     *)
AsksOnce ==
  [][\A l \in Loader : ~HasRegion(l) /\ HasRegion(l)' => Known(load[l].account) = None]_vars
=============================================================================
