---------------------------- MODULE ResourceSync ----------------------------
(***************************************************************************)
(* Synchronisation of one resource type of one account in the Go server:   *)
(* Client.ListAllDetailed scans the regions (internal/ctyun/client.go) and *)
(* Syncer.SyncKind commits what it found (internal/ctyun/sync.go,          *)
(* internal/storage/storage.go).                                           *)
(*                                                                         *)
(* A region is scanned by a sequence of queries, one per path and variant, *)
(* each read page by page while the provider's lists go on changing.  The  *)
(* regions are scanned by a pool of goroutines; when all are done, each    *)
(* region's rows are replaced, or marked stale, in a transaction of its    *)
(* own.  The claim s.syncing of module ActionJobs keeps two               *)
(* synchronisations of the account apart, and the types of one             *)
(* synchronisation share no row: one type at a time is enough here.        *)
(***************************************************************************)
EXTENDS Naturals, Sequences, FiniteSets

CONSTANTS
  Region,      \* resource pools of the account
  Item,        \* provider ids of the type; a table row each
  NumQueries,  \* paths times variants (3 for images: the visibility codes)
  PageSize,    \* items per page (50 in the code)
  MaxPages,    \* pages read per query (200 in the code)
  Workers,     \* goroutines that scan regions (8 in the code)
  MaxSyncs,    \* bound of the model on synchronisations
  MaxChanges,  \* bound of the model on changes of the provider's lists
  None         \* no region

Query == 1..NumQueries

ASSUME NumQueriesAssumption == NumQueries \in Nat \ {0}
ASSUME PageAssumption == PageSize \in Nat \ {0} /\ MaxPages \in Nat \ {0}
ASSUME WorkersAssumption == Workers \in Nat \ {0}
ASSUME NoneAssumption == None \notin Region
ASSUME BoundAssumption == {MaxSyncs, MaxChanges} \subseteq Nat

VARIABLES
  list,       \* [Region -> [Query -> Seq(Item)]], what the provider lists
  rows,       \* [Item -> region and freshness of its row]        (SQLite)
  records,    \* [Region -> status in resource_sync_regions]      (SQLite)
  phase,      \* of SyncKind: "idle", "scan" or "write"           (memory)
  scan,       \* [Region -> regionResult and position of its scan] (memory)
  unwritten,  \* regions of this synchronisation not written yet  (memory)
  replaced,   \* region whose rows are replaced and not recorded  (memory)
  syncs, changes,               \* counters that bound the model
  before, steady, shrunk, erred, \* history of the current synchronisation
  unrecorded  \* history: regions whose last replacement was not recorded

store   == <<rows, records>>
memory  == <<phase, scan, unwritten, replaced>>
history == <<before, steady, shrunk, erred, unrecorded>>
vars    == <<list, store, memory, syncs, changes, history>>

NoRow == [region |-> None, fresh |-> FALSE]

RowsOf(r) == {i \in Item : rows[i].region = r}

Elements(s) == {s[n] : n \in DOMAIN s}

Listed(r) == UNION {Elements(list[r][q]) : q \in Query}

\* TotalPages of an answer that tells its total, or does not (told is FALSE): one
\* for an empty list, and one for any list whose total is not told.
TotalPages(s, told) ==
  IF ~told \/ s = <<>> THEN 1 ELSE (Len(s) + PageSize - 1) \div PageSize

Page(s, p) == Elements(SubSeq(s, (p - 1) * PageSize + 1,
                              IF p * PageSize < Len(s) THEN p * PageSize ELSE Len(s)))

\* What the list holds behind its page p.
Behind(s, p) == Elements(SubSeq(s, p * PageSize + 1, Len(s)))

NoScan == [pc |-> "out", query |-> 1, page |-> 1, items |-> {}, successes |-> FALSE,
           problem |-> FALSE, incomplete |-> FALSE]

-----------------------------------------------------------------------------
(* The provider *)

Distinct(s) == \A m, n \in DOMAIN s : s[m] = s[n] => m = n

Lists == {s \in UNION {[1..n -> Item] : n \in 0..Cardinality(Item)} : Distinct(s)}

Init ==
  /\ list \in [Region -> [Query -> Lists]]
  /\ rows = [i \in Item |-> NoRow]
  /\ records = [r \in Region |-> "none"]
  /\ phase = "idle"
  /\ scan = [r \in Region |-> NoScan]
  /\ unwritten = {}
  /\ replaced = None
  /\ syncs = 0
  /\ changes = 0
  /\ before = [r \in Region |-> {}]
  /\ steady = [r \in Region |-> {}]
  /\ shrunk = {}
  /\ erred = {}
  /\ unrecorded = {}

\* A new item appears anywhere in a list.
Insert(r, q, i, n) ==
  /\ changes < MaxChanges
  /\ i \notin Elements(list[r][q])
  /\ n \in 0..Len(list[r][q])
  /\ list' = [list EXCEPT ![r][q] = SubSeq(@, 1, n) \o <<i>> \o SubSeq(@, n + 1, Len(@))]
  /\ changes' = changes + 1
  /\ UNCHANGED <<store, memory, syncs, history>>

\* An item disappears; the items behind it move up.
Remove(r, q, n) ==
  /\ changes < MaxChanges
  /\ n \in DOMAIN list[r][q]
  /\ list' = [list EXCEPT ![r][q] = SubSeq(@, 1, n - 1) \o SubSeq(@, n + 1, Len(@))]
  /\ changes' = changes + 1
  /\ shrunk' = shrunk \cup {r}
  /\ steady' = [steady EXCEPT ![r] = @ \ {list[r][q][n]}]
  /\ UNCHANGED <<store, memory, syncs, before, erred, unrecorded>>

-----------------------------------------------------------------------------
(* ListAllDetailed: the goroutine of one region *)

\* SyncKind starts on the regions of the account or of the request.
BeginSync(S) ==
  /\ phase = "idle"
  /\ syncs < MaxSyncs
  /\ syncs' = syncs + 1
  /\ phase' = "scan"
  /\ scan' = [r \in Region |-> IF r \in S THEN [NoScan EXCEPT !.pc = "waiting"] ELSE NoScan]
  /\ unwritten' = S
  /\ replaced' = None
  /\ before' = [r \in Region |-> RowsOf(r)]
  /\ steady' = [r \in Region |-> Listed(r)]
  /\ shrunk' = {}
  /\ erred' = {}
  /\ UNCHANGED <<list, store, changes, unrecorded>>

Scanning == {r \in Region : scan[r].pc = "scanning"}

BeginRegion(r) ==
  /\ phase = "scan"
  /\ scan[r].pc = "waiting"
  /\ Cardinality(Scanning) < Workers
  /\ scan' = [scan EXCEPT ![r].pc = "scanning"]
  /\ UNCHANGED <<list, store, phase, unwritten, replaced, syncs, changes, history>>

\* The next path or variant, or the end of the region: paths and variants are
\* alternatives, so a success makes earlier failures of the others void, unless
\* a list was cut off.
NextQuery(s) ==
  IF s.query < NumQueries THEN [s EXCEPT !.query = @ + 1, !.page = 1]
  ELSE [s EXCEPT !.pc = "done", !.problem = @ /\ (~s.successes \/ s.incomplete)]

\* Mutant: the last page is not read.
MorePages_ExceptLast(page, total) == page < total /\ page <= MaxPages

MorePages(page, total) == page <= total /\ page <= MaxPages

\* A page arrives, with the number of pages of that moment or without one; then the
\* query ends with it, and what is behind it stays unread (history: steady).
PageArrives(r, told) ==
  LET s      == scan[r]
      total  == TotalPages(list[r][s.query], told)
      cutOff == s.page >= MaxPages /\ total > MaxPages
      read   == [s EXCEPT !.successes = TRUE, !.page = @ + 1,
                          !.items = @ \cup Page(list[r][s.query], s.page),
                          !.problem = @ \/ cutOff, !.incomplete = @ \/ cutOff]
  IN /\ phase = "scan"
     /\ s.pc = "scanning"
     /\ scan' = [scan EXCEPT ![r] = IF MorePages(read.page, total) THEN read
                                    ELSE NextQuery(read)]
     /\ steady' = IF told THEN steady
                  ELSE [steady EXCEPT ![r] = @ \ Behind(list[r][s.query], s.page)]
     /\ UNCHANGED <<list, store, phase, unwritten, replaced, syncs, changes, before,
                    shrunk, erred, unrecorded>>

\* A request fails and ends its query.  A region the provider does not support is
\* no problem; any other failure is one, and after the first page the list is cut.
RequestFails(r, unsupported) ==
  LET s == scan[r] IN
  /\ phase = "scan"
  /\ s.pc = "scanning"
  /\ scan' = [scan EXCEPT ![r] =
                NextQuery([s EXCEPT !.problem = @ \/ ~unsupported,
                                    !.incomplete = @ \/ (~unsupported /\ s.page > 1)])]
  /\ erred' = erred \cup {r}
  /\ UNCHANGED <<list, store, phase, unwritten, replaced, syncs, changes,
                 before, steady, shrunk, unrecorded>>

Status(r) ==
  IF scan[r].problem \/ scan[r].incomplete THEN "failed"
  ELSE IF scan[r].successes THEN "success" ELSE "skipped"

-----------------------------------------------------------------------------
(* SyncKind: commit the regions one by one, in whatever order they were given *)

EndScan ==
  /\ phase = "scan"
  /\ \A r \in unwritten : scan[r].pc = "done"
  /\ phase' = "write"
  /\ UNCHANGED <<list, store, scan, unwritten, replaced, syncs, changes, history>>

\* Mutant: the rows of all regions are deleted, as for an empty list of regions.
RowsReplaced_Everywhere(r, items) ==
  [i \in Item |-> IF i \in items THEN [region |-> r, fresh |-> TRUE] ELSE NoRow]

\* The region's rows are deleted and the listed items inserted; an item that had
\* a row in another region takes it along (the key has no region).
RowsReplaced(r, items) ==
  [i \in Item |-> IF i \in items THEN [region |-> r, fresh |-> TRUE]
                  ELSE IF rows[i].region = r THEN NoRow
                  ELSE rows[i]]

\* ReplaceResources of a region that was scanned with success.
ReplaceResources(r) ==
  /\ phase = "write"
  /\ replaced = None
  /\ r \in unwritten
  /\ Status(r) = "success"
  /\ rows' = RowsReplaced(r, scan[r].items)
  /\ unwritten' = unwritten \ {r}
  /\ replaced' = r
  /\ unrecorded' = unrecorded \cup {r}
  /\ UNCHANGED <<list, records, phase, scan, syncs, changes, before, steady, shrunk,
                 erred>>

\* RecordRegionSync of that region.
RecordSuccess ==
  /\ phase = "write"
  /\ replaced # None
  /\ records' = [records EXCEPT ![replaced] = "success"]
  /\ replaced' = None
  /\ unrecorded' = unrecorded \ {replaced}
  /\ UNCHANGED <<list, rows, phase, scan, unwritten, syncs, changes, before, steady,
                 shrunk, erred>>

\* Mutant: the rows of a failed region are left as they are.
MarkStale_Never(r) == rows

MarkStale(r) ==
  [i \in Item |-> IF rows[i].region = r THEN [rows[i] EXCEPT !.fresh = FALSE] ELSE rows[i]]

\* RecordRegionSync of a failed or skipped region: its rows stay, stale.
RecordFailure(r) ==
  /\ phase = "write"
  /\ replaced = None
  /\ r \in unwritten
  /\ Status(r) # "success"
  /\ records' = [records EXCEPT ![r] = Status(r)]
  /\ rows' = MarkStale(r)
  /\ unwritten' = unwritten \ {r}
  /\ unrecorded' = unrecorded \ {r}
  /\ UNCHANGED <<list, phase, scan, replaced, syncs, changes, before, steady, shrunk,
                 erred>>

EndSync ==
  /\ phase = "write"
  /\ unwritten = {}
  /\ replaced = None
  /\ phase' = "idle"
  /\ UNCHANGED <<list, store, scan, unwritten, replaced, syncs, changes, history>>

\* The context ends during the scan, a transaction fails, or the process stops:
\* the remaining regions keep what they had.
Abort ==
  /\ phase # "idle"
  /\ phase' = "idle"
  /\ UNCHANGED <<list, store, scan, unwritten, replaced, syncs, changes, history>>

-----------------------------------------------------------------------------
RegionStep(r) ==
  \/ BeginRegion(r)
  \/ \E told \in BOOLEAN : PageArrives(r, told)
  \/ \E unsupported \in BOOLEAN : RequestFails(r, unsupported)
  \/ ReplaceResources(r) \/ RecordFailure(r)

Next ==
  \/ \E r \in Region, q \in Query, i \in Item :
       \E n \in 0..Len(list[r][q]) : Insert(r, q, i, n)
  \/ \E r \in Region, q \in Query : \E n \in DOMAIN list[r][q] : Remove(r, q, n)
  \/ \E S \in SUBSET Region \ {{}} : BeginSync(S)
  \/ \E r \in Region : RegionStep(r)
  \/ EndScan \/ RecordSuccess \/ EndSync \/ Abort

Spec == Init /\ [][Next]_vars

-----------------------------------------------------------------------------
(* Properties *)

ScanRecord == [pc : {"out", "waiting", "scanning", "done"}, query : Query,
               page : 1..(MaxPages + 1), items : SUBSET Item, successes : BOOLEAN,
               problem : BOOLEAN, incomplete : BOOLEAN]

TypeOK ==
  /\ list \in [Region -> [Query -> Seq(Item)]]
  /\ rows \in [Item -> [region : Region \cup {None}, fresh : BOOLEAN]]
  /\ records \in [Region -> {"none", "success", "failed", "skipped"}]
  /\ phase \in {"idle", "scan", "write"}
  /\ scan \in [Region -> ScanRecord]
  /\ unwritten \subseteq Region
  /\ replaced \in Region \cup {None}
  /\ syncs \in 0..MaxSyncs
  /\ changes \in 0..MaxChanges
  /\ before \in [Region -> SUBSET Item]
  /\ steady \in [Region -> SUBSET Item]
  /\ shrunk \subseteq Region
  /\ erred \cup unrecorded \subseteq Region

HasRow(i) == rows[i].region # None

\* The latest synchronisation has committed region r.
Written(r) == scan[r].pc = "done" /\ r \notin unwritten

\* No row is lost with a region that failed or was skipped, whatever the other
\* regions of the synchronisation do and wherever it is cut off.
FailedKeepsRows ==
  \A r \in Region :
    scan[r].pc = "done" /\ Status(r) # "success" => \A i \in before[r] : HasRow(i)

\* What the provider listed all the time has a row after a success without a failed
\* request, although the lists grew and their pages shifted while they were read.
\* It is lost in two cases only: it was behind a page whose answer told no total,
\* which ends the query (and only what was behind it is lost), or a list of the
\* region shrank, which can move an item to a page already read.
SteadyItemsKept ==
  \A r \in Region :
    Written(r) /\ Status(r) = "success" /\ r \notin erred \cup shrunk
      => \A i \in steady[r] : HasRow(i)

\* The overview counts the fresh rows only: they are the rows of the regions whose
\* last attempt is recorded as a success, or of one whose rows were replaced while
\* the record of it is still to come or was lost.
RecordsAgree ==
  \A i \in Item :
    HasRow(i) => (rows[i].fresh <=> \/ records[rows[i].region] = "success"
                                    \/ rows[i].region \in unrecorded)

\* A timeout, a missing permission or an interface error never deletes an old row
\* (README.md, resource synchronisation).
ErrorsKeepRows ==
  \A r \in Region : Written(r) /\ r \in erred => \A i \in before[r] : HasRow(i)
=============================================================================
