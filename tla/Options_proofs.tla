--------------------------- MODULE Options_proofs ---------------------------
(***************************************************************************)
(* Proofs about Options, for any number of accounts, flavors and requests  *)
(* and any length of life of the entries: what is offered from a cache is  *)
(* never older than a stock and a list may get, a flavor that is known to  *)
(* be sold out is withdrawn from both caches, and the console is not asked *)
(* for a stock that is known.                                              *)
(***************************************************************************)
EXTENDS Options, TLAPS

-----------------------------------------------------------------------------
(* The inductive invariant *)

Waiting == {"look", "wait", "read", "session", "browser", "context"}

LoadRecord ==
  [at : {"idle", "stock", "openapi"} \cup Inside, view : View \cup {None},
   account : Account \cup {None}, task : {"none", "done", "raised"} \cup Waiting,
   got : Read \cup {None}, value : Entry \cup {None}, keep : BOOLEAN, late : BOOLEAN]

\* A stock that was read goes when it is a day old, whoever holds a copy of it.
StockAge(r) == r.status = "ready" => r.age + r.left <= StockTTL

\* An entry is at most as old as the stock it was made of and the list itself.
EntryAge(e, v) == e.age + e.left < StockTTL + TTL(v)

\* No flavor of the entry is remembered as sold out, unless a report missed it.
Clean(e, late) == \A f \in Flavor : Remembered(f) /\ f \in e.offers => late

\* A request that has a list in hand, and one whose task has the stock.
InHand(l) ==
  /\ load[l].at # "idle" => load[l].view \in View
  /\ load[l].at \in Inside => /\ load[l].value \in Entry
                              /\ EntryAge(load[l].value, load[l].view)
  /\ load[l].task # "none" => load[l].account \in Account
  /\ load[l].task = "done" => load[l].got \in Read /\ StockAge(load[l].got)

\* What a request will write is clean, or is remarked as having missed a report.
Remarked(l) ==
  /\ report # "none" /\ load[l].at # "idle" => load[l].late
  /\ load[l].at = "back" => Clean(load[l].value, load[l].value.late \/ load[l].late)
  /\ load[l].at \in {"store", "persist"} => Clean(load[l].value, load[l].late)

\* The lists between the steps of a report: memory is cleared before the table.
Withdrawn ==
  \A v \in View :
    /\ memory[v] # None => /\ report = "none" => Clean(memory[v], memory[v].late)
                           /\ report = "cleared" => memory[v].late
    /\ table[v] # None /\ report = "none" => Clean(table[v], table[v].late)

LoadInv ==
  /\ load \in [Loader -> LoadRecord]
  /\ \A l \in Loader : InHand(l) /\ Remarked(l)

TypeInv ==
  /\ memory \in [View -> Entry \cup {None}]
  /\ table \in [View -> Entry \cup {None}]
  /\ shared \in Read \cup {None}
  /\ own \in [Account -> Read \cup {None}]
  /\ sold \in [Flavor -> 0 .. SoldTTL]
  /\ report \in {"none", "noted", "cleared"}

RegionInv == /\ region \in Loader \cup {None}
             /\ \A l \in Loader : HasRegion(l) <=> region = l

AgeInv ==
  /\ OfferAge
  /\ shared # None => StockAge(shared)
  /\ \A a \in Account : own[a] # None => StockAge(own[a])

IInv == TypeInv /\ LoadInv /\ RegionInv /\ AgeInv /\ Withdrawn
-----------------------------------------------------------------------------
(* Lives, readings and verdicts *)

LEMMA Lives ==
  /\ VerifiedTTL \in Nat \ {0} /\ PlainTTL \in Nat \ {0}
  /\ StockTTL \in Nat \ {0} /\ ErrorTTL \in Nat \ {0} /\ SoldTTL \in Nat \ {0}
  /\ \A v : TTL(v) \in Nat \ {0}
BY TTLAssumption DEF TTL

LEMMA IdleRecord == Idle \in LoadRecord
BY DEF Idle, LoadRecord

\* A flavor of a stock that could not be read counts as sold out.
LEMMA NoItemsType == NoItems \in [Flavor -> Verdict]
BY DEF NoItems, Verdict

\* What has just been read is new, and lives as long as its outcome allows.
LEMMA ReadingType ==
  ASSUME NEW status \in {"ready", "empty", "login", "error"},
         NEW items \in [Flavor -> Verdict]
  PROVE  Reading(status, items) \in Read /\ StockAge(Reading(status, items))
BY Lives DEF Reading, Read, StockAge

LEMMA OfferedFlavors ==
  ASSUME NEW v, NEW items
  PROVE  Offered(v, items) \in SUBSET Flavor
BY DEF Offered

-----------------------------------------------------------------------------
(* What a step may do to a request and its task *)

\* The task goes on or ends, while its request waits or has been answered.
LEMMA TaskMoves ==
  ASSUME LoadInv, NEW l \in Loader, load[l].task # "none",
         NEW how \in {"done", "raised"} \cup Waiting, NEW got \in Read \cup {None},
         how = "done" => got \in Read /\ StockAge(got),
         Set(l, [load[l] EXCEPT !.task = how, !.got = got]),
         UNCHANGED <<sold, report>>
  PROVE  /\ LoadInv'
         /\ load'[l].task = how
         /\ \A k \in Loader \ {l} : load'[k] = load[k]
<1>1. /\ load' \in [Loader -> LoadRecord]
      /\ load'[l] = [load[l] EXCEPT !.task = how, !.got = got]
      /\ \A k \in Loader \ {l} : load'[k] = load[k]
  BY ZenonT(40) DEF LoadInv, LoadRecord, Set
<1>2. load[l] \in LoadRecord
  BY DEF LoadInv
<1>3. /\ load'[l].task = how /\ load'[l].got = got
      /\ load'[l].at = load[l].at /\ load'[l].view = load[l].view
      /\ load'[l].account = load[l].account /\ load'[l].value = load[l].value
      /\ load'[l].late = load[l].late
  BY <1>1, <1>2 DEF LoadRecord
<1>4. InHand(l)' /\ Remarked(l)'
  BY <1>3 DEF LoadInv, InHand, Remarked, StockAge, EntryAge, Clean, Remembered
<1>5. ASSUME NEW k \in Loader \ {l} PROVE InHand(k)' /\ Remarked(k)'
  BY <1>1 DEF LoadInv, InHand, Remarked, StockAge, EntryAge, Clean, Remembered
<1> QED
  BY <1>1, <1>3, <1>4, <1>5 DEF LoadInv

\* A request is over, and nobody waits for a task any more.
LEMMA Leaves ==
  ASSUME LoadInv, NEW l \in Loader, Set(l, Idle), UNCHANGED <<sold, report>>
  PROVE  /\ LoadInv'
         /\ load'[l].task = "none"
         /\ \A k \in Loader \ {l} : load'[k] = load[k]
<1>1. /\ load' \in [Loader -> LoadRecord]
      /\ load'[l] = Idle
      /\ \A k \in Loader \ {l} : load'[k] = load[k]
  BY IdleRecord DEF LoadInv, Set
<1>2. InHand(l)' /\ Remarked(l)'
  BY <1>1 DEF Idle, InHand, Remarked, Inside
<1>3. ASSUME NEW k \in Loader \ {l} PROVE InHand(k)' /\ Remarked(k)'
  BY <1>1 DEF LoadInv, InHand, Remarked, StockAge, EntryAge, Clean, Remembered
<1> QED
  BY <1>1, <1>2, <1>3 DEF LoadInv, Idle

LEMMA EndedStep ==
  ASSUME LoadInv, NEW l \in Loader, load[l].task # "none",
         NEW how \in {"done", "raised"}, NEW got \in Read \cup {None},
         how = "done" => got \in Read /\ StockAge(got),
         Ended(l, how, got), UNCHANGED <<sold, report>>
  PROVE  /\ LoadInv'
         /\ load'[l].task \in {"none", "done", "raised"}
         /\ \A k \in Loader \ {l} : load'[k] = load[k]
<1>1. CASE load[l].at = "idle"
  <2>1. Set(l, Idle)
    BY <1>1 DEF Ended
  <2> QED
    BY <2>1, Leaves
<1>2. CASE load[l].at # "idle"
  <2>1. Set(l, [load[l] EXCEPT !.task = how, !.got = got])
    BY <1>2 DEF Ended
  <2>2. how \in {"done", "raised"} \cup Waiting
    OBVIOUS
  <2> QED
    BY <2>1, <2>2, TaskMoves
<1> QED
  BY <1>1, <1>2

\* The answer is sent; a task that is under way goes on without its request.
LEMMA FinishStep ==
  ASSUME LoadInv, NEW l \in Loader, Finish(l), UNCHANGED <<sold, report>>
  PROVE  /\ LoadInv'
         /\ \A k \in Loader : HasRegion(k)' <=> HasRegion(k)
<1>1. CASE load[l].task \in {"none", "done", "raised"}
  <2>1. Set(l, Idle)
    BY <1>1 DEF Finish
  <2>2. /\ LoadInv'
        /\ load'[l].task = "none"
        /\ \A k \in Loader \ {l} : load'[k] = load[k]
    BY <2>1, Leaves
  <2> QED
    BY <1>1, <2>2 DEF HasRegion
<1>2. CASE load[l].task \notin {"none", "done", "raised"}
  <2> DEFINE rest == [load[l] EXCEPT !.at = "idle", !.view = None, !.value = None,
                                     !.keep = FALSE, !.late = FALSE]
  <2>1. load[l] \in LoadRecord
    BY DEF LoadInv
  <2>2. /\ rest \in LoadRecord /\ rest.at = "idle" /\ rest.task = load[l].task
        /\ rest.account = load[l].account
    BY <2>1 DEF LoadRecord
  <2>3. /\ load' \in [Loader -> LoadRecord]
        /\ load'[l] = rest
        /\ \A k \in Loader \ {l} : load'[k] = load[k]
    BY <1>2, <2>2 DEF Finish, Set, LoadInv
  <2>4. InHand(l)' /\ Remarked(l)'
    BY <1>2, <2>2, <2>3 DEF LoadInv, InHand, Remarked, Inside
  <2>5. ASSUME NEW k \in Loader \ {l} PROVE InHand(k)' /\ Remarked(k)'
    BY <2>3 DEF LoadInv, InHand, Remarked, StockAge, EntryAge, Clean, Remembered
  <2> QED
    BY <2>2, <2>3, <2>4, <2>5 DEF LoadInv, HasRegion
<1> QED
  BY <1>1, <1>2

\* A step of a request inside the loop: the progress of its task stays as it is,
\* or the task's end is taken note of.
LEMMA RequestMoves ==
  ASSUME LoadInv, NEW l \in Loader, NEW new \in LoadRecord, Set(l, new),
         new.task = load[l].task \/ (load[l].task \in {"done", "raised"} /\ new.task = "none"),
         new.account = load[l].account,
         new.task = "done" => new.got = load[l].got,
         new.view \in View,
         new.at \in Inside => new.value \in Entry /\ EntryAge(new.value, new.view),
         report # "none" => new.late,
         new.at # "back",
         new.at \in {"store", "persist"} => Clean(new.value, new.late),
         UNCHANGED <<sold, report>>
  PROVE  /\ LoadInv'
         /\ \A k \in Loader : HasRegion(k)' <=> HasRegion(k)
<1>1. /\ load' \in [Loader -> LoadRecord]
      /\ load'[l] = new
      /\ \A k \in Loader \ {l} : load'[k] = load[k]
  BY DEF LoadInv, Set
<1>2. InHand(l)'
  BY <1>1 DEF LoadInv, InHand, StockAge, EntryAge
<1>3. Remarked(l)'
  BY <1>1 DEF Remarked, Clean, Remembered
<1>4. ASSUME NEW k \in Loader \ {l} PROVE InHand(k)' /\ Remarked(k)'
  BY <1>1 DEF LoadInv, InHand, Remarked, StockAge, EntryAge, Clean, Remembered
<1>5. HasRegion(l)' <=> HasRegion(l)
  BY <1>1 DEF HasRegion
<1> QED
  BY <1>1, <1>2, <1>3, <1>4, <1>5 DEF LoadInv, HasRegion

LEMMA OfferStep ==
  ASSUME LoadInv, NEW l \in Loader, load[l].at # "idle",
         load[l].at = "openapi" \/ load[l].task \in {"done", "raised"},
         NEW offers \in SUBSET Flavor, NEW age \in Nat, age < StockTTL, NEW keep \in BOOLEAN,
         Offer(l, offers, age, keep), UNCHANGED <<sold, report>>
  PROVE  /\ LoadInv'
         /\ \A k \in Loader : HasRegion(k)' <=> HasRegion(k)
<1> DEFINE list == [offers |-> offers, age |-> age, left |-> TTL(load[l].view), late |-> FALSE]
           task == IF load[l].task \in {"done", "raised"} THEN "none" ELSE load[l].task
           new == [load[l] EXCEPT !.at = "check", !.keep = keep, !.got = None,
                     !.task = task, !.value = list]
<1>1. load[l] \in LoadRecord /\ InHand(l) /\ Remarked(l)
  BY DEF LoadInv
<1>2. list \in Entry /\ EntryAge(list, load[l].view)
  BY Lives DEF Entry, EntryAge
<1> HIDE DEF list
<1>3. /\ new \in LoadRecord
      /\ new.at = "check" /\ new.task = task /\ new.account = load[l].account
      /\ new.view = load[l].view /\ new.value = list /\ new.late = load[l].late
  BY <1>1, <1>2, ZenonT(40) DEF LoadRecord, Inside
<1>4. Set(l, new)
  BY <1>1 DEF Offer, LoadRecord, list
<1> HIDE DEF new
<1>5. report # "none" => load[l].late
  BY <1>1 DEF Remarked
<1>6. load[l].view \in View
  BY <1>1 DEF InHand
<1> QED
  BY <1>2, <1>3, <1>4, <1>5, <1>6, RequestMoves

LEMMA WithoutStockStep ==
  ASSUME LoadInv, NEW l \in Loader, load[l].at = "stock", NEW status,
         WithoutStock(l, status), UNCHANGED <<sold, report>>
  PROVE  /\ LoadInv'
         /\ \A k \in Loader : HasRegion(k)' <=> HasRegion(k)
<1>1. CASE load[l].view = "verified" /\ status # "login"
  BY <1>1, FinishStep DEF WithoutStock
<1>2. CASE ~(load[l].view = "verified" /\ status # "login")
  <2> DEFINE task == IF load[l].task \in {"done", "raised"} THEN "none" ELSE load[l].task
             keep == load[l].view = "plain" /\ status \in {"empty", "login", "error"}
             new == [load[l] EXCEPT !.at = "openapi", !.got = None, !.task = task, !.keep = keep]
  <2>1. load[l] \in LoadRecord /\ InHand(l) /\ Remarked(l)
    BY DEF LoadInv
  <2>0. keep \in BOOLEAN
    OBVIOUS
  <2> HIDE DEF keep
  <2>2. /\ new \in LoadRecord
        /\ new.at = "openapi" /\ new.task = task /\ new.account = load[l].account
        /\ new.view = load[l].view /\ new.late = load[l].late
    BY <2>1, <2>0, ZenonT(40) DEF LoadRecord
  <2>3. Set(l, new)
    BY <1>2, <2>1 DEF WithoutStock, LoadRecord, keep
  <2> HIDE DEF new
  <2>4. report # "none" => load[l].late
    BY <2>1 DEF Remarked
  <2>5. load[l].view \in View
    BY <2>1 DEF InHand
  <2>6. task # "done"
    OBVIOUS
  <2> QED
    BY <2>2, <2>3, <2>4, <2>5, <2>6, RequestMoves DEF Inside
<1> QED
  BY <1>1, <1>2

-----------------------------------------------------------------------------
(* The invariant is established and preserved *)

LEMMA InitIInv ==
  ASSUME Init
  PROVE  IInv
<1>1. TypeInv
  BY Lives DEF Init, TypeInv
<1>2. LoadInv
  BY IdleRecord DEF Init, LoadInv, InHand, Remarked, Idle, Inside
<1>3. RegionInv
  BY NoneAssumption DEF Init, RegionInv, HasRegion, Idle
<1>4. AgeInv
  BY DEF Init, AgeInv, OfferAge
<1>5. Withdrawn
  BY DEF Init, Withdrawn
<1> QED
  BY <1>1, <1>2, <1>3, <1>4, <1>5 DEF IInv

\* The caches do not change.
LEMMA OnlyLoad ==
  ASSUME IInv, LoadInv', \A k \in Loader : HasRegion(k)' <=> HasRegion(k),
         UNCHANGED <<lists, stock, sold, report>>
  PROVE  IInv'
<1>1. TypeInv'
  BY DEF IInv, TypeInv, lists, stock
<1>2. RegionInv'
  BY DEF IInv, RegionInv, stock
<1>3. AgeInv'
  BY DEF IInv, AgeInv, OfferAge, StockAge, lists, stock
<1>4. Withdrawn'
  BY DEF IInv, Withdrawn, Clean, Remembered, lists
<1> QED
  BY <1>1, <1>2, <1>3, <1>4 DEF IInv

\* A task ends with a stock or a failure, and gives the region's lock back.
LEMMA StockStep ==
  ASSUME IInv, NEW l \in Loader, HasRegion(l), region' = None, LoadInv',
         load'[l].task \in {"none", "done", "raised"},
         \A k \in Loader \ {l} : load'[k] = load[k],
         shared' \in Read \cup {None}, shared' # None => StockAge(shared'),
         NEW reading \in Read \cup {None}, reading # None => StockAge(reading),
         own' = own \/ own' = [own EXCEPT ![load[l].account] = reading],
         UNCHANGED <<lists, sold, report>>
  PROVE  IInv'
<1>1. own' \in [Account -> Read \cup {None}]
  BY DEF IInv, TypeInv
<1>2. \A a \in Account : own'[a] = own[a] \/ own'[a] = reading
  BY DEF IInv, TypeInv
<1>3. TypeInv'
  BY <1>1 DEF IInv, TypeInv, lists
<1>4. RegionInv'
  BY NoneAssumption DEF IInv, RegionInv, HasRegion
<1>5. AgeInv'
  BY <1>2 DEF IInv, AgeInv, OfferAge, StockAge, lists
<1>6. Withdrawn'
  BY DEF IInv, Withdrawn, Clean, Remembered, lists
<1> QED
  BY <1>3, <1>4, <1>5, <1>6 DEF IInv

LEMMA AskStep ==
  ASSUME IInv, NEW l \in Loader, NEW a \in Account, NEW v \in View, Ask(l, a, v)
  PROVE  IInv'
<1> DEFINE new == [Idle EXCEPT !.view = v, !.account = a, !.late = report # "none"]
           back == [new EXCEPT !.at = "back", !.value = table[v]]
           look == [new EXCEPT !.at = "stock", !.task = "look"]
<1>1. /\ LoadInv /\ load[l] = Idle
      /\ table[v] \in Entry \cup {None}
      /\ UNCHANGED <<lists, stock, sold, report>>
  BY DEF Ask, IInv, TypeInv
<1>2. \/ table[v] # None /\ load' = [load EXCEPT ![l] = back]
      \/ load' = [load EXCEPT ![l] = look]
  BY DEF Ask, Set
<1>3. CASE table[v] # None /\ load' = [load EXCEPT ![l] = back]
  <2>1. /\ back \in LoadRecord
        /\ back.at = "back" /\ back.view = v /\ back.value = table[v]
        /\ back.task = "none" /\ back.late = (report # "none")
    BY <1>1, <1>3 DEF LoadRecord, Idle, Inside
  <2> HIDE DEF back
  <2>2. /\ load' \in [Loader -> LoadRecord]
        /\ load'[l] = back
        /\ \A k \in Loader \ {l} : load'[k] = load[k]
    BY <1>1, <1>3, <2>1 DEF LoadInv
  <2>3. table[v] \in Entry /\ EntryAge(table[v], v)
    BY <1>1, <1>3 DEF IInv, AgeInv, OfferAge, EntryAge
  <2>4. report = "none" => Clean(table[v], table[v].late)
    BY <1>3 DEF IInv, Withdrawn
  <2>5. InHand(l)'
    BY <2>1, <2>2, <2>3 DEF InHand, EntryAge, Inside
  <2>6. Remarked(l)'
    BY <1>1, <2>1, <2>2, <2>4 DEF Remarked, Clean, Remembered
  <2>7. ASSUME NEW k \in Loader \ {l} PROVE InHand(k)' /\ Remarked(k)'
    BY <1>1, <2>2 DEF LoadInv, InHand, Remarked, StockAge, EntryAge, Clean, Remembered
  <2>8. LoadInv'
    BY <2>2, <2>5, <2>6, <2>7 DEF LoadInv
  <2>9. \A k \in Loader : HasRegion(k)' <=> HasRegion(k)
    BY <1>1, <2>1, <2>2 DEF HasRegion, Idle
  <2> QED
    BY <1>1, <2>8, <2>9, OnlyLoad
<1>4. CASE load' = [load EXCEPT ![l] = look]
  <2>1. /\ look \in LoadRecord
        /\ look.at = "stock" /\ look.view = v /\ look.account = a
        /\ look.task = "look" /\ look.late = (report # "none")
    BY DEF LoadRecord, Idle, Waiting
  <2> HIDE DEF look
  <2>2. /\ load' \in [Loader -> LoadRecord]
        /\ load'[l] = look
        /\ \A k \in Loader \ {l} : load'[k] = load[k]
    BY <1>1, <1>4, <2>1 DEF LoadInv
  <2>3. InHand(l)' /\ Remarked(l)'
    BY <1>1, <2>1, <2>2 DEF InHand, Remarked, Inside
  <2>4. ASSUME NEW k \in Loader \ {l} PROVE InHand(k)' /\ Remarked(k)'
    BY <1>1, <2>2 DEF LoadInv, InHand, Remarked, StockAge, EntryAge, Clean, Remembered
  <2>5. LoadInv'
    BY <2>2, <2>3, <2>4 DEF LoadInv
  <2>6. \A k \in Loader : HasRegion(k)' <=> HasRegion(k)
    BY <1>1, <2>1, <2>2 DEF HasRegion, Idle
  <2> QED
    BY <1>1, <2>5, <2>6, OnlyLoad
<1> QED
  BY <1>2, <1>3, <1>4

\* A list comes into a cache as its request carries it.
LEMMA WriteBackStep ==
  ASSUME IInv, NEW l \in Loader, WriteBack(l)
  PROVE  IInv'
<1> DEFINE v == load[l].view
           e == [load[l].value EXCEPT !.late = load[l].value.late \/ load[l].late]
<1>1. /\ LoadInv /\ load[l].at = "back" /\ load[l] \in LoadRecord
      /\ Finish(l) /\ UNCHANGED <<table, stock, sold, report>>
  BY DEF WriteBack, IInv, LoadInv
<1>2. /\ v \in View /\ load[l].value \in Entry /\ EntryAge(load[l].value, v)
      /\ Clean(load[l].value, load[l].value.late \/ load[l].late)
      /\ report # "none" => load[l].late
  BY <1>1 DEF LoadInv, InHand, Remarked, Inside
<1>3. /\ e \in Entry /\ e.late = (load[l].value.late \/ load[l].late)
      /\ e.offers = load[l].value.offers /\ e.age = load[l].value.age
      /\ e.left = load[l].value.left
  BY <1>1, <1>2 DEF Entry, LoadRecord
<1>4. memory' = [memory EXCEPT ![v] = e]
  BY <1>2 DEF WriteBack, Entry
<1> HIDE DEF e, v
<1>5. /\ LoadInv'
      /\ \A k \in Loader : HasRegion(k)' <=> HasRegion(k)
  BY <1>1, FinishStep
<1>6. \A w \in View : memory'[w] = IF w = v THEN e ELSE memory[w]
  BY <1>4 DEF IInv, TypeInv
<1>7. TypeInv'
  BY <1>1, <1>3, <1>4 DEF IInv, TypeInv, stock
<1>8. RegionInv'
  BY <1>1, <1>5 DEF IInv, RegionInv, stock
<1>9. AgeInv'
  BY <1>1, <1>2, <1>3, <1>6 DEF IInv, AgeInv, OfferAge, EntryAge, StockAge, stock
<1>10. Withdrawn'
  BY <1>1, <1>2, <1>3, <1>6 DEF IInv, Withdrawn, Clean, Remembered
<1> QED
  BY <1>5, <1>7, <1>8, <1>9, <1>10 DEF IInv

LEMMA StoreStep ==
  ASSUME IInv, NEW l \in Loader, Store(l)
  PROVE  IInv'
<1> DEFINE v == load[l].view
           e == [load[l].value EXCEPT !.late = load[l].late]
           new == [load[l] EXCEPT !.at = "persist"]
<1>1. /\ LoadInv /\ load[l].at = "store" /\ load[l] \in LoadRecord
      /\ UNCHANGED <<table, stock, sold, report>>
  BY DEF Store, IInv, LoadInv
<1>2. /\ v \in View /\ load[l].value \in Entry /\ EntryAge(load[l].value, v)
      /\ Clean(load[l].value, load[l].late)
      /\ report # "none" => load[l].late
  BY <1>1 DEF LoadInv, InHand, Remarked, Inside
<1>3. /\ e \in Entry /\ e.late = load[l].late
      /\ e.offers = load[l].value.offers /\ e.age = load[l].value.age
      /\ e.left = load[l].value.left
  BY <1>1, <1>2 DEF Entry, LoadRecord
<1>4. memory' = [memory EXCEPT ![v] = e]
  BY <1>2 DEF Store, Entry
<1>5. /\ new \in LoadRecord
      /\ new.at = "persist" /\ new.task = load[l].task /\ new.got = load[l].got
      /\ new.account = load[l].account /\ new.view = v /\ new.value = load[l].value
      /\ new.late = load[l].late
  BY <1>1 DEF LoadRecord, Inside
<1>6. Set(l, new)
  BY DEF Store
<1> HIDE DEF e, v, new
<1>7. /\ LoadInv'
      /\ \A k \in Loader : HasRegion(k)' <=> HasRegion(k)
  BY <1>1, <1>2, <1>5, <1>6, RequestMoves
<1>8. \A w \in View : memory'[w] = IF w = v THEN e ELSE memory[w]
  BY <1>4 DEF IInv, TypeInv
<1>9. TypeInv'
  BY <1>1, <1>3, <1>4 DEF IInv, TypeInv, stock
<1>10. RegionInv'
  BY <1>1, <1>7 DEF IInv, RegionInv, stock
<1>11. AgeInv'
  BY <1>1, <1>2, <1>3, <1>8 DEF IInv, AgeInv, OfferAge, EntryAge, StockAge, stock
<1>12. Withdrawn'
  BY <1>1, <1>2, <1>3, <1>8 DEF IInv, Withdrawn, Clean, Remembered
<1> QED
  BY <1>7, <1>9, <1>10, <1>11, <1>12 DEF IInv

LEMMA PersistStep ==
  ASSUME IInv, NEW l \in Loader, Persist(l)
  PROVE  IInv'
<1> DEFINE v == load[l].view
           e == [load[l].value EXCEPT !.late = load[l].late]
<1>1. /\ LoadInv /\ load[l].at = "persist" /\ load[l] \in LoadRecord
      /\ Finish(l) /\ UNCHANGED <<memory, stock, sold, report>>
  BY DEF Persist, IInv, LoadInv
<1>2. /\ v \in View /\ load[l].value \in Entry /\ EntryAge(load[l].value, v)
      /\ Clean(load[l].value, load[l].late)
      /\ report # "none" => load[l].late
  BY <1>1 DEF LoadInv, InHand, Remarked, Inside
<1>3. /\ e \in Entry /\ e.late = load[l].late
      /\ e.offers = load[l].value.offers /\ e.age = load[l].value.age
      /\ e.left = load[l].value.left
  BY <1>1, <1>2 DEF Entry, LoadRecord
<1>4. table' = [table EXCEPT ![v] = e] \/ table' = table
  BY <1>2 DEF Persist, Entry
<1> HIDE DEF e, v
<1>5. /\ LoadInv'
      /\ \A k \in Loader : HasRegion(k)' <=> HasRegion(k)
  BY <1>1, FinishStep
<1>6. \A w \in View : table'[w] = table[w] \/ (w = v /\ table'[w] = e)
  BY <1>4 DEF IInv, TypeInv
<1>7. TypeInv'
  BY <1>1, <1>3, <1>4 DEF IInv, TypeInv, stock
<1>8. RegionInv'
  BY <1>1, <1>5 DEF IInv, RegionInv, stock
<1>9. AgeInv'
  BY <1>1, <1>2, <1>3, <1>6 DEF IInv, AgeInv, OfferAge, EntryAge, StockAge, stock
<1>10. Withdrawn'
  BY <1>1, <1>2, <1>3, <1>6 DEF IInv, Withdrawn, Clean, Remembered
<1> QED
  BY <1>5, <1>7, <1>8, <1>9, <1>10 DEF IInv

\* Nothing is kept that offers a flavor remembered as sold out.
LEMMA CheckSoldStep ==
  ASSUME IInv, NEW l \in Loader, CheckSold(l)
  PROVE  IInv'
<1> DEFINE new == [load[l] EXCEPT !.at = "store"]
<1>1. /\ LoadInv /\ load[l].at = "check" /\ load[l] \in LoadRecord
      /\ UNCHANGED <<lists, stock, sold, report>>
  BY DEF CheckSold, IInv, LoadInv
<1>2. /\ load[l].view \in View /\ load[l].value \in Entry
      /\ EntryAge(load[l].value, load[l].view)
      /\ report # "none" => load[l].late
  BY <1>1 DEF LoadInv, InHand, Remarked, Inside
<1>3. CASE Finish(l)
  BY <1>1, <1>3, FinishStep, OnlyLoad
<1>4. CASE Set(l, new) /\ \A f \in Listed(l) : ~Remembered(f)
  <2>1. load[l].value.offers \subseteq Listed(l)
    BY <1>2 DEF Listed, Entry
  <2>2. Clean(load[l].value, load[l].late)
    BY <1>4, <2>1 DEF Clean
  <2>3. /\ new \in LoadRecord
        /\ new.at = "store" /\ new.task = load[l].task /\ new.got = load[l].got
        /\ new.account = load[l].account /\ new.view = load[l].view
        /\ new.value = load[l].value /\ new.late = load[l].late
    BY <1>1 DEF LoadRecord, Inside
  <2> HIDE DEF new
  <2> QED
    BY <1>1, <1>2, <1>4, <2>2, <2>3, RequestMoves, OnlyLoad
<1> QED
  BY <1>3, <1>4 DEF CheckSold

LEMMA RequestStep ==
  ASSUME IInv, NEW l \in Loader, Request(l)
  PROVE  IInv'
<1> USE DEF IInv
<1>1. CASE StockArrives(l)
  <2>1. /\ load[l].at = "stock" /\ load[l].task = "done"
        /\ load[l].got \in Read /\ StockAge(load[l].got)
        /\ UNCHANGED <<lists, stock, sold, report>>
    BY <1>1 DEF StockArrives, LoadInv, InHand
  <2>2. CASE load[l].got.status = "ready"
    <3>1. Offer(l, Offered(load[l].view, load[l].got.items), load[l].got.age, TRUE)
      BY <1>1, <2>2 DEF StockArrives
    <3>2. load[l].got.age \in Nat /\ load[l].got.age < StockTTL
      BY <2>1, <2>2, Lives DEF Read, StockAge
    <3> QED
      BY <2>1, <3>1, <3>2, OfferedFlavors, OfferStep, OnlyLoad
  <2>3. CASE load[l].got.status # "ready"
    <3>1. WithoutStock(l, load[l].got.status)
      BY <1>1, <2>3 DEF StockArrives
    <3> QED
      BY <2>1, <3>1, WithoutStockStep, OnlyLoad
  <2> QED
    BY <2>2, <2>3
<1>2. CASE StockRaises(l) \/ StockTimesOut(l)
  <2>1. /\ load[l].at = "stock" /\ UNCHANGED <<lists, stock, sold, report>>
        /\ WithoutStock(l, "raised") \/ WithoutStock(l, "pending")
    BY <1>2 DEF StockRaises, StockTimesOut
  <2> QED
    BY <2>1, WithoutStockStep, OnlyLoad
<1>3. CASE OpenApiArrives(l)
  <2>1. /\ load[l].at = "openapi" /\ UNCHANGED <<lists, stock, sold, report>>
        /\ load[l].keep \in BOOLEAN
    BY <1>3 DEF OpenApiArrives, LoadInv, LoadRecord
  <2>2. PICK offers \in SUBSET Flavor : Offer(l, offers, 0, load[l].keep)
    BY <1>3 DEF OpenApiArrives
  <2>3. 0 \in Nat /\ 0 < StockTTL
    BY Lives
  <2> QED
    BY <2>1, <2>2, <2>3, OfferStep, OnlyLoad
<1>4. CASE OpenApiFails(l)
  BY <1>4, FinishStep, OnlyLoad DEF OpenApiFails
<1> QED
  BY <1>1, <1>2, <1>3, <1>4, WriteBackStep, CheckSoldStep, StoreStep, PersistStep DEF Request

\* A task that goes on with the lock it has.
LEMMA TaskGoesOn ==
  ASSUME IInv, NEW l \in Loader, load[l].task # "none", NEW how \in Waiting,
         Set(l, [load[l] EXCEPT !.task = how]),
         how \in {"read", "session", "browser", "context"} <=> HasRegion(l),
         UNCHANGED <<lists, stock, sold, report>>
  PROVE  IInv'
<1>1. load[l] \in LoadRecord
  BY DEF IInv, LoadInv
<1>2. Set(l, [load[l] EXCEPT !.task = how, !.got = load[l].got]) /\ load[l].got \in Read \cup {None}
  BY <1>1 DEF Set, LoadRecord
<1>3. how \in {"done", "raised"} \cup Waiting /\ how # "done"
  BY DEF Waiting
<1>4. /\ LoadInv' /\ load'[l].task = how
      /\ \A k \in Loader \ {l} : load'[k] = load[k]
  BY <1>2, <1>3, TaskMoves DEF IInv
<1> QED
  BY <1>4, OnlyLoad DEF HasRegion

LEMMA StockReadStep ==
  ASSUME IInv, NEW l \in Loader, HasRegion(l), StockRead(l), UNCHANGED <<lists, sold, report>>
  PROVE  IInv'
<1>1. PICK status \in {"ready", "empty"}, items \in [Flavor -> Verdict] :
        /\ shared' = Reading(status, items)
        /\ own' = [own EXCEPT ![load[l].account] = None]
        /\ region' = None
        /\ Answered(l, Reading(status, items))
  BY DEF StockRead
<1>2. Reading(status, items) \in Read /\ StockAge(Reading(status, items))
  BY ReadingType
<1>3. Ended(l, "done", Reading(status, items)) /\ load[l].task # "none"
  BY <1>1 DEF Answered, HasRegion
<1>4. /\ LoadInv' /\ load'[l].task \in {"none", "done", "raised"}
      /\ \A k \in Loader \ {l} : load'[k] = load[k]
  BY <1>2, <1>3, EndedStep DEF IInv
<1> HIDE DEF HasRegion
<1> QED
  BY <1>1, <1>2, <1>4, StockStep

LEMMA StockFailsStep ==
  ASSUME IInv, NEW l \in Loader, HasRegion(l), NEW status \in {"login", "error"},
         StockFails(l, status), UNCHANGED <<lists, sold, report>>
  PROVE  IInv'
<1> DEFINE reading == Reading(status, NoItems)
<1>1. reading \in Read /\ StockAge(reading)
  BY ReadingType, NoItemsType
<1>2. /\ own' = [own EXCEPT ![load[l].account] = reading]
      /\ region' = None /\ shared' = shared
      /\ Ended(l, "done", reading) /\ load[l].task # "none"
  BY DEF StockFails, Answered, HasRegion
<1> HIDE DEF reading
<1>3. /\ LoadInv' /\ load'[l].task \in {"none", "done", "raised"}
      /\ \A k \in Loader \ {l} : load'[k] = load[k]
  BY <1>1, <1>2, EndedStep DEF IInv
<1>4. shared' \in Read \cup {None} /\ (shared' # None => StockAge(shared'))
  BY <1>2 DEF IInv, TypeInv, AgeInv
<1> QED
  BY <1>1, <1>2, <1>3, <1>4, StockStep

\* A task that finds the stock known takes it and does not touch the lock.
LEMMA FindsStock ==
  ASSUME IInv, NEW l \in Loader, load[l].task \in {"look", "wait"},
         Known(load[l].account) # None, Answered(l, Known(load[l].account)),
         UNCHANGED <<lists, stock, sold, report>>
  PROVE  IInv'
<1> DEFINE reading == Known(load[l].account)
<1>1. load[l].account \in Account
  BY DEF IInv, LoadInv, InHand
<1>2. reading \in Read /\ StockAge(reading)
  BY <1>1 DEF IInv, TypeInv, AgeInv, Known
<1>3. Ended(l, "done", reading) /\ load[l].task # "none"
  BY DEF Answered
<1> HIDE DEF reading
<1>4. /\ LoadInv' /\ load'[l].task \in {"none", "done", "raised"}
      /\ \A k \in Loader \ {l} : load'[k] = load[k]
  BY <1>2, <1>3, EndedStep DEF IInv
<1> QED
  BY <1>4, OnlyLoad DEF HasRegion

LEMMA LookStep ==
  ASSUME IInv, NEW l \in Loader, Look(l)
  PROVE  IInv'
<1>1. /\ load[l].task = "look" /\ ~HasRegion(l)
      /\ UNCHANGED <<lists, stock, sold, report>>
  BY DEF Look, HasRegion
<1>2. CASE Known(load[l].account) # None
  BY <1>1, <1>2, FindsStock DEF Look
<1>3. CASE Known(load[l].account) = None
  BY <1>1, <1>3, TaskGoesOn DEF Look, Waiting
<1> QED
  BY <1>2, <1>3

LEMMA TakeRegionStep ==
  ASSUME IInv, NEW l \in Loader, TakeRegion(l)
  PROVE  IInv'
<1>1. /\ load[l].task = "wait" /\ region = None
      /\ UNCHANGED <<lists, shared, own, sold, report>>
  BY DEF TakeRegion
<1>2. CASE Known(load[l].account) # None
  <2>1. Answered(l, Known(load[l].account)) /\ UNCHANGED stock
    BY <1>1, <1>2 DEF TakeRegion, stock
  <2> QED
    BY <1>1, <1>2, <2>1, FindsStock
<1>3. CASE Known(load[l].account) = None
  <2>1. Set(l, [load[l] EXCEPT !.task = "read"]) /\ region' = l
    BY <1>3 DEF TakeRegion
  <2>2. load[l] \in LoadRecord
    BY DEF IInv, LoadInv
  <2>3. /\ Set(l, [load[l] EXCEPT !.task = "read", !.got = load[l].got])
        /\ load[l].got \in Read \cup {None}
        /\ "read" \in {"done", "raised"} \cup Waiting
    BY <2>1, <2>2 DEF Set, LoadRecord, Waiting
  <2>4. /\ LoadInv' /\ load'[l].task = "read"
        /\ \A k \in Loader \ {l} : load'[k] = load[k]
    BY <1>1, <2>3, TaskMoves DEF IInv
  <2>5. TypeInv'
    BY <1>1 DEF IInv, TypeInv, lists
  <2>6. RegionInv'
    BY <1>1, <2>1, <2>4, NoneAssumption DEF IInv, RegionInv, HasRegion
  <2>7. AgeInv'
    BY <1>1 DEF IInv, AgeInv, OfferAge, StockAge, lists
  <2>8. Withdrawn'
    BY <1>1 DEF IInv, Withdrawn, Clean, Remembered, lists
  <2> QED
    BY <2>4, <2>5, <2>6, <2>7, <2>8 DEF IInv
<1> QED
  BY <1>2, <1>3

LEMMA TaskStep ==
  ASSUME IInv, NEW l \in Loader, Task(l)
  PROVE  IInv'
<1>1. CASE ReadCookie(l)
  BY <1>1, StockReadStep DEF ReadCookie, HasRegion
<1>2. CASE CookieFails(l)
  <2>1. /\ load[l].task = "read" /\ HasRegion(l) /\ UNCHANGED <<lists, sold, report>>
        /\ \/ Set(l, [load[l] EXCEPT !.task = "session"]) /\ UNCHANGED stock
           \/ StockFails(l, "error")
    BY <1>2 DEF CookieFails, HasRegion
  <2> QED
    BY <2>1, StockFailsStep, TaskGoesOn DEF Waiting
<1>3. CASE OpenSession(l)
  <2>1. /\ load[l].task = "session" /\ HasRegion(l) /\ UNCHANGED <<lists, sold, report>>
    BY <1>3 DEF OpenSession, HasRegion
  <2>2. CASE Set(l, [load[l] EXCEPT !.task = "browser"]) /\ UNCHANGED stock
    BY <2>1, <2>2, TaskGoesOn DEF Waiting
  <2>3. CASE StockFails(l, "login")
    BY <2>1, <2>3, StockFailsStep
  <2>4. CASE Ended(l, "raised", None) /\ region' = None /\ UNCHANGED <<shared, own>>
    <3>1. /\ LoadInv' /\ load'[l].task \in {"none", "done", "raised"}
          /\ \A k \in Loader \ {l} : load'[k] = load[k]
      BY <2>1, <2>4, EndedStep DEF IInv
    <3>2. shared' \in Read \cup {None} /\ (shared' # None => StockAge(shared'))
      BY <2>4 DEF IInv, TypeInv, AgeInv
    <3>3. None \in Read \cup {None} /\ (None # None => StockAge(None))
      OBVIOUS
    <3> QED
      BY <2>1, <2>4, <3>1, <3>2, <3>3, StockStep
  <2> QED
    BY <1>3, <2>2, <2>3, <2>4 DEF OpenSession
<1>4. CASE ReadBrowser(l)
  <2>1. /\ load[l].task = "browser" /\ HasRegion(l) /\ UNCHANGED <<lists, sold, report>>
        /\ \/ StockRead(l)
           \/ StockFails(l, "error")
           \/ Set(l, [load[l] EXCEPT !.task = "context"]) /\ UNCHANGED stock
    BY <1>4 DEF ReadBrowser, HasRegion
  <2> QED
    BY <2>1, StockReadStep, StockFailsStep, TaskGoesOn DEF Waiting
<1>5. CASE ReadPage(l)
  <2>1. /\ HasRegion(l) /\ UNCHANGED <<lists, sold, report>>
        /\ StockRead(l) \/ StockFails(l, "error")
    BY <1>5 DEF ReadPage, HasRegion
  <2> QED
    BY <2>1, StockReadStep, StockFailsStep
<1> QED
  BY <1>1, <1>2, <1>3, <1>4, <1>5, LookStep, TakeRegionStep DEF Task

\* Whoever is on the way when a flavor is found sold out is remarked.
LEMMA RefusePriceStep ==
  ASSUME IInv, NEW f \in Flavor, RefusePrice(f)
  PROVE  IInv'
<1>1. /\ sold' = [sold EXCEPT ![f] = SoldTTL] /\ report' = "noted"
      /\ load' = Overlapped /\ UNCHANGED <<lists, stock>>
  BY DEF RefusePrice
<1>2. TypeInv'
  BY <1>1, Lives DEF IInv, TypeInv, lists, stock
<1>3. ASSUME NEW l \in Loader
      PROVE  /\ load'[l] \in LoadRecord
             /\ load'[l].at = load[l].at /\ load'[l].view = load[l].view
             /\ load'[l].task = load[l].task /\ load'[l].account = load[l].account
             /\ load'[l].got = load[l].got /\ load'[l].value = load[l].value
             /\ load'[l].late = (load[l].late \/ load[l].at # "idle")
  <2>1. load[l] \in LoadRecord
    BY DEF IInv, LoadInv
  <2>2. load'[l] = [load[l] EXCEPT !.late = load[l].late \/ load[l].at # "idle"]
    BY <1>1, <2>1 DEF Overlapped, LoadRecord
  <2> QED
    BY <2>1, <2>2 DEF LoadRecord
<1>4. load' \in [Loader -> LoadRecord]
  BY <1>1, <1>3 DEF Overlapped
<1>5. ASSUME NEW l \in Loader PROVE InHand(l)' /\ Remarked(l)'
  BY <1>1, <1>3, ZenonT(40) DEF IInv, LoadInv, InHand, Remarked, StockAge, EntryAge, Clean, Inside
<1>6. LoadInv'
  BY <1>4, <1>5 DEF LoadInv
<1>7. RegionInv'
  BY <1>1, <1>3 DEF IInv, RegionInv, HasRegion, stock
<1>8. AgeInv'
  BY <1>1 DEF IInv, AgeInv, OfferAge, StockAge, lists, stock
<1>9. Withdrawn'
  BY <1>1 DEF IInv, Withdrawn, lists
<1> QED
  BY <1>2, <1>6, <1>7, <1>8, <1>9 DEF IInv

LEMMA ClearMemoryStep ==
  ASSUME IInv, ClearMemory
  PROVE  IInv'
<1>1. /\ report = "noted" /\ report' = "cleared" /\ memory' = [v \in View |-> None]
      /\ UNCHANGED <<table, stock, sold, load>>
  BY DEF ClearMemory
<1>2. TypeInv'
  BY <1>1 DEF IInv, TypeInv, stock
<1>3. LoadInv'
  BY <1>1 DEF IInv, LoadInv, InHand, Remarked, StockAge, EntryAge, Clean, Remembered
<1>4. RegionInv'
  BY <1>1 DEF IInv, RegionInv, HasRegion, stock
<1>5. AgeInv'
  BY <1>1 DEF IInv, AgeInv, OfferAge, StockAge, stock
<1>6. Withdrawn'
  BY <1>1 DEF IInv, Withdrawn
<1> QED
  BY <1>2, <1>3, <1>4, <1>5, <1>6 DEF IInv

\* After the table nothing is left that is not remarked.
LEMMA ClearTableStep ==
  ASSUME IInv, ClearTable
  PROVE  IInv'
<1>1. /\ report = "cleared" /\ report' = "none" /\ UNCHANGED <<memory, stock, sold, load>>
      /\ \/ table' = [v \in View |-> None]
         \/ table' = [v \in View |-> IF table[v] = None THEN None
                                     ELSE [table[v] EXCEPT !.late = TRUE]]
  BY DEF ClearTable
<1>2. ASSUME NEW v \in View
      PROVE  /\ table'[v] \in Entry \cup {None}
             /\ table'[v] # None => /\ table[v] # None /\ table'[v].late
                                    /\ table'[v].age = table[v].age
                                    /\ table'[v].left = table[v].left
  <2>1. table[v] \in Entry \cup {None}
    BY DEF IInv, TypeInv
  <2> QED
    BY <1>1, <2>1 DEF Entry
<1>3. TypeInv'
  BY <1>1, <1>2 DEF IInv, TypeInv, stock
<1>4. LoadInv'
  <2>1. load' \in [Loader -> LoadRecord]
    BY <1>1 DEF IInv, LoadInv
  <2>2. ASSUME NEW l \in Loader PROVE InHand(l)'
    BY <1>1 DEF IInv, LoadInv, InHand, StockAge, EntryAge
  <2>3. ASSUME NEW l \in Loader PROVE Remarked(l)'
    <3>1. load[l].at # "idle" => load[l].late
      BY <1>1 DEF IInv, LoadInv, Remarked
    <3> QED
      BY <1>1, <3>1 DEF Remarked, Clean
  <2> QED
    BY <2>1, <2>2, <2>3 DEF LoadInv
<1>5. RegionInv'
  BY <1>1 DEF IInv, RegionInv, HasRegion, stock
<1>6. AgeInv'
  BY <1>1, <1>2 DEF IInv, AgeInv, OfferAge, StockAge, stock
<1>7. Withdrawn'
  BY <1>1, <1>2 DEF IInv, Withdrawn, Clean
<1> QED
  BY <1>3, <1>4, <1>5, <1>6, <1>7 DEF IInv

\* Time makes an entry older by as much as it takes from the rest of its life.
LEMMA OlderEntry ==
  ASSUME NEW e \in Entry \cup {None}
  PROVE  /\ Older(e) \in Entry \cup {None}
         /\ Older(e) # None => /\ e # None /\ Older(e).age + Older(e).left = e.age + e.left
                               /\ Older(e).offers = e.offers /\ Older(e).late = e.late
<1> DEFINE o == [e EXCEPT !.left = e.left - 1, !.age = e.age + 1]
<1>1. CASE e = None \/ e.left = 1
  BY <1>1 DEF Older
<1>2. CASE ~(e = None \/ e.left = 1)
  <2>1. /\ e \in Entry /\ e.left \in Nat \ {0} /\ e.left # 1 /\ e.age \in Nat
        /\ Older(e) = o
    BY <1>2 DEF Older, Entry
  <2>2. e.left - 1 \in Nat \ {0} /\ e.age + 1 \in Nat
    BY <2>1
  <2>3. /\ o \in Entry /\ o.left = e.left - 1 /\ o.age = e.age + 1
        /\ o.offers = e.offers /\ o.late = e.late
    BY <2>1, <2>2 DEF Entry
  <2> HIDE DEF o
  <2> QED
    BY <1>2, <2>1, <2>3
<1> QED
  BY <1>1, <1>2

LEMMA OlderReading ==
  ASSUME NEW r \in Read \cup {None}
  PROVE  /\ Older(r) \in Read \cup {None}
         /\ Older(r) # None => r # None /\ (StockAge(r) => StockAge(Older(r)))
<1> DEFINE o == [r EXCEPT !.left = r.left - 1, !.age = r.age + 1]
<1>1. CASE r = None \/ r.left = 1
  BY <1>1 DEF Older
<1>2. CASE ~(r = None \/ r.left = 1)
  <2>1. /\ r \in Read /\ r.left \in Nat \ {0} /\ r.left # 1 /\ r.age \in Nat
        /\ Older(r) = o
    BY <1>2 DEF Older, Read
  <2>2. r.left - 1 \in Nat \ {0} /\ r.age + 1 \in Nat
    BY <2>1
  <2>3. /\ o \in Read /\ o.left = r.left - 1 /\ o.age = r.age + 1
        /\ o.status = r.status
    BY <2>1, <2>2 DEF Read
  <2> HIDE DEF o
  <2>4. StockAge(r) => StockAge(o)
    BY <2>1, <2>3, Lives DEF StockAge
  <2> QED
    BY <1>2, <2>1, <2>3, <2>4
<1> QED
  BY <1>1, <1>2

LEMMA TickStep ==
  ASSUME IInv, Tick
  PROVE  IInv'
<1>1. /\ \A l \in Loader : load[l].at = "idle"
      /\ report = "none" /\ UNCHANGED <<region, load, report>>
      /\ memory' = [v \in View |-> Older(memory[v])]
      /\ table' = [v \in View |-> Older(table[v])]
      /\ shared' = Older(shared)
      /\ own' = [a \in Account |-> Older(own[a])]
      /\ sold' = [f \in Flavor |-> IF sold[f] = 0 THEN 0 ELSE sold[f] - 1]
  BY DEF Tick
<1>2. sold' \in [Flavor -> 0 .. SoldTTL] /\ \A f \in Flavor : sold'[f] > 0 => sold[f] > 0
  BY <1>1, Lives DEF IInv, TypeInv
<1>3. ASSUME NEW v \in View
      PROVE  memory[v] \in Entry \cup {None} /\ table[v] \in Entry \cup {None}
  BY DEF IInv, TypeInv
<1>4. ASSUME NEW a \in Account PROVE own[a] \in Read \cup {None}
  BY DEF IInv, TypeInv
<1>5. TypeInv'
  <2>1. /\ memory' \in [View -> Entry \cup {None}]
        /\ table' \in [View -> Entry \cup {None}]
    BY <1>1, <1>3, OlderEntry
  <2>2. shared' \in Read \cup {None} /\ own' \in [Account -> Read \cup {None}]
    BY <1>1, <1>4, OlderReading DEF IInv, TypeInv
  <2> QED
    BY <1>1, <1>2, <2>1, <2>2 DEF IInv, TypeInv
<1>6. LoadInv'
  <2>1. load' \in [Loader -> LoadRecord]
    BY <1>1 DEF IInv, LoadInv
  <2>2. ASSUME NEW l \in Loader PROVE InHand(l)' /\ Remarked(l)'
    BY <1>1 DEF IInv, LoadInv, InHand, Remarked, StockAge, EntryAge, Inside
  <2> QED
    BY <2>1, <2>2 DEF LoadInv
<1>7. RegionInv'
  BY <1>1 DEF IInv, RegionInv, HasRegion
<1>8. AgeInv'
  <2>1. ASSUME NEW v \in View, NEW e \in {memory'[v], table'[v]} \ {None}
        PROVE  e.age + e.left < StockTTL + TTL(v)
    <3>1. PICK d \in {memory[v], table[v]} \ {None} : e = Older(d)
      BY <1>1, <1>3, <2>1, OlderEntry
    <3>2. d \in Entry /\ d.age + d.left < StockTTL + TTL(v)
      BY <1>3, <3>1 DEF IInv, AgeInv, OfferAge
    <3> QED
      BY <3>1, <3>2, OlderEntry
  <2>2. shared' # None => StockAge(shared)' /\ StockAge(shared')
    BY <1>1, OlderReading DEF IInv, TypeInv, AgeInv, StockAge
  <2>3. ASSUME NEW a \in Account PROVE own'[a] # None => StockAge(own'[a])
    BY <1>1, <1>4, OlderReading DEF IInv, AgeInv
  <2> QED
    BY <2>1, <2>2, <2>3 DEF AgeInv, OfferAge, StockAge
<1>9. Withdrawn'
  <2>1. ASSUME NEW v \in View, NEW e \in Entry \cup {None}, Older(e) # None,
               Clean(e, e.late)
        PROVE  Clean(Older(e), Older(e).late)'
    BY <1>2, <2>1, OlderEntry DEF Clean, Remembered
  <2> QED
    BY <1>1, <1>3, <2>1, OlderEntry DEF IInv, Withdrawn, Clean, Remembered
<1> QED
  BY <1>5, <1>6, <1>7, <1>8, <1>9 DEF IInv

LEMMA RestartStep ==
  ASSUME IInv, Restart
  PROVE  IInv'
<1>1. /\ memory' = [v \in View |-> None] /\ shared' = None
      /\ own' = [a \in Account |-> None] /\ region' = None
      /\ sold' = [f \in Flavor |-> 0] /\ load' = [l \in Loader |-> Idle]
      /\ report' = "none" /\ table' = table
  BY DEF Restart
<1>2. TypeInv'
  BY <1>1, Lives DEF IInv, TypeInv
<1>3. LoadInv'
  <2>1. load' \in [Loader -> LoadRecord]
    BY <1>1, IdleRecord
  <2>2. ASSUME NEW l \in Loader PROVE InHand(l)' /\ Remarked(l)'
    BY <1>1 DEF InHand, Remarked, Idle, Inside
  <2> QED
    BY <2>1, <2>2 DEF LoadInv
<1>4. RegionInv'
  BY <1>1, NoneAssumption DEF RegionInv, HasRegion, Idle
<1>5. AgeInv'
  BY <1>1 DEF IInv, AgeInv, OfferAge
<1>6. Withdrawn'
  BY <1>1 DEF Withdrawn, Clean, Remembered
<1> QED
  BY <1>2, <1>3, <1>4, <1>5, <1>6 DEF IInv

\* A step that changes nothing.
LEMMA StutterStep ==
  ASSUME IInv, UNCHANGED vars
  PROVE  IInv'
<1>1. UNCHANGED <<lists, stock, sold, report>> /\ UNCHANGED load
  BY DEF vars, lists, stock
<1>2. LoadInv'
  BY <1>1 DEF IInv, LoadInv, InHand, Remarked, StockAge, EntryAge, Clean, Remembered
<1> QED
  BY <1>1, <1>2, OnlyLoad DEF HasRegion

LEMMA NextIInv ==
  ASSUME IInv, [Next]_vars
  PROVE  IInv'
<1>1. ASSUME NEW l \in Loader, NEW a \in Account, NEW v \in View, Ask(l, a, v) PROVE IInv'
  BY <1>1, AskStep
<1>2. ASSUME NEW l \in Loader, Request(l) \/ Task(l) PROVE IInv'
  BY <1>2, RequestStep, TaskStep
<1>3. ASSUME NEW f \in Flavor, RefusePrice(f) PROVE IInv'
  BY <1>3, RefusePriceStep
<1> QED
  BY <1>1, <1>2, <1>3, ClearMemoryStep, ClearTableStep, TickStep, RestartStep, StutterStep
  DEF Next

\* The invariant holds through every request, task and report, and across restarts.
THEOREM Invariance == Spec => []IInv
BY InitIInv, NextIInv, PTL DEF Spec

-----------------------------------------------------------------------------
(* What the invariant says *)

\* Every variable keeps its kind, and at most one task reads the stock of the region
\* at a time, however many requests are answered without waiting for theirs
\* (get_console_resource_stock and its lock).
THEOREM TypeCorrect == Spec => []TypeOK
<1>1. IInv => TypeOK
  BY DEF IInv, TypeInv, RegionInv, TypeOK
<1> QED
  BY <1>1, Invariance, PTL

\* A list that is offered from a cache is never older than a stock and a list may get,
\* through both caches and across restarts.
THEOREM OffersAreYoung == Spec => []OfferAge
<1>1. IInv => OfferAge
  BY DEF IInv, AgeInv
<1> QED
  BY <1>1, Invariance, PTL

\* A flavor that is remembered as sold out is withdrawn from both caches.
THEOREM SoldOutGoes == Spec => []SoldOutWithdrawn
<1>1. IInv => SoldOutWithdrawn
  BY DEF IInv, Withdrawn, Clean, SoldOutWithdrawn
<1> QED
  BY <1>1, Invariance, PTL

\* The region's lock is only taken for a stock that is not known: requests that waited
\* for it while another read take what that one found.
THEOREM AsksOnceHolds == Spec => AsksOnce
<1> DEFINE A == \A l \in Loader : ~HasRegion(l) /\ HasRegion(l)' => Known(load[l].account) = None
<1>1. ASSUME IInv, IInv', [Next]_vars PROVE [A]_vars
  <2>1. SUFFICES ASSUME NEW l \in Loader, ~HasRegion(l), HasRegion(l)'
                 PROVE  Known(load[l].account) = None
    OBVIOUS
  <2>2. region # l /\ region' = l /\ l # None
    BY <1>1, <2>1, NoneAssumption DEF IInv, RegionInv
  <2>3. PICK k \in Loader : Request(k) \/ Task(k) \/ \E a \in Account, v \in View : Ask(k, a, v)
    BY <1>1, <2>2 DEF Next, vars, RefusePrice, ClearMemory, ClearTable, Tick, Restart, stock
  <2>4. TakeRegion(k) /\ region' = k
    <3>1. ~Request(k) /\ \A a \in Account, v \in View : ~Ask(k, a, v)
      BY <2>2 DEF Request, Ask, WriteBack, StockArrives, StockRaises, StockTimesOut,
        OpenApiArrives, OpenApiFails, CheckSold, Store, Persist, stock
    <3>2. ~Look(k) /\ ~ReadCookie(k) /\ ~CookieFails(k) /\ ~OpenSession(k)
          /\ ~ReadBrowser(k) /\ ~ReadPage(k)
      BY <2>2 DEF Look, ReadCookie, CookieFails, OpenSession, ReadBrowser, ReadPage,
        StockRead, StockFails, stock
    <3> QED
      BY <2>2, <2>3, <3>1, <3>2, SMTT(30) DEF Task, TakeRegion
  <2> QED
    BY <2>2, <2>4 DEF TakeRegion
<1> QED
  BY <1>1, Invariance, PTL DEF Spec, AsksOnce
=============================================================================
