------------------------- MODULE ResourceSync_proofs -------------------------
(***************************************************************************)
(* Proofs about ResourceSync, for any regions, items, queries, page sizes  *)
(* and numbers of synchronisations: a success without a failed request     *)
(* holds what was listed all the time, a region that failed loses no row,  *)
(* and fresh rows are those of the regions recorded as read.               *)
(***************************************************************************)
EXTENDS ResourceSync, FiniteSetTheorems, TLAPS

-----------------------------------------------------------------------------
(* The inductive invariant *)

\* Rows are lost to a commit only from the region that commits: the rows of regions
\* that are not to be written any more are safe.
Safe(i) == HasRow(i) /\ rows[i].region \notin unwritten

\* Regions under way are to be written; what is replaced is not recorded yet.
Phases ==
  /\ phase = "scan" => replaced = None /\ \A r \in Region : scan[r].pc # "out" => r \in unwritten
  /\ phase = "write" => /\ \A r \in unwritten : scan[r].pc = "done"
                        /\ replaced # None => replaced \in unrecorded

\* An item that is listed all the time has been read or is still ahead: behind the last
\* page read of the query under way, or in a query to come.
Ahead(r, i) ==
  \E q \in Query : \E n \in DOMAIN list[r][q] :
    /\ list[r][q][n] = i
    /\ q >= scan[r].query
    /\ q = scan[r].query => n > (scan[r].page - 1) * PageSize

Reads(r) ==
  /\ scan[r].pc \in {"waiting", "scanning"} => scan[r].page <= MaxPages
  /\ r \notin erred \cup shrunk => \A i \in steady[r] :
       /\ scan[r].pc \in {"waiting", "scanning"} =>
            i \in scan[r].items \/ scan[r].incomplete \/ Ahead(r, i)
       /\ scan[r].pc = "done" => i \in scan[r].items \/ scan[r].incomplete

\* What was committed stays.
Commits(r) ==
  Written(r) /\ Status(r) = "success" => \A i \in scan[r].items : Safe(i)

\* What a region had it keeps until it is written itself, unless another one of the
\* synchronisation has taken it over.
Keeps(r) ==
  /\ phase = "scan" => \A i \in before[r] : rows[i].region = r
  /\ scan[r].pc = "done" /\ Status(r) # "success" =>
       \A i \in before[r] : rows[i].region = r \/ Safe(i)

ScanInv == Phases /\ \A r \in Region : Reads(r) /\ Commits(r) /\ Keeps(r)

IInv == TypeOK /\ ScanInv /\ RecordsAgree

-----------------------------------------------------------------------------
(* Lists and pages *)

LEMMA Joined ==
  ASSUME NEW S, NEW a \in Seq(S), NEW b \in Seq(S)
  PROVE  /\ a \o b \in Seq(S) /\ Len(a \o b) = Len(a) + Len(b)
         /\ \A m \in 1..Len(a) : (a \o b)[m] = a[m]
         /\ \A m \in 1..Len(b) : (a \o b)[Len(a) + m] = b[m]
OBVIOUS

Put(s, n, b) == SubSeq(s, 1, n) \o b \o SubSeq(s, n + 1, Len(s))

\* A list with an item put in behind its n-th: the items move by one place at most.
LEMMA Inserted ==
  ASSUME NEW s \in Seq(Item), NEW b \in Seq(Item), Len(b) = 1, NEW n \in 0..Len(s),
         NEW t, t = Put(s, n, b)
  PROVE  /\ t \in Seq(Item) /\ Len(t) = Len(s) + 1
         /\ \A m \in 1..Len(s) : IF m <= n THEN t[m] = s[m] ELSE t[m + 1] = s[m]
<1> DEFINE a == SubSeq(s, 1, n)
           c == SubSeq(s, n + 1, Len(s))
           l == Len(s)
<1>1. l \in Nat /\ n \in Nat /\ n <= l /\ \A m \in 1..l : s[m] \in Item
  OBVIOUS
<1>2. a \in Seq(Item) /\ Len(a) = n /\ \A m \in 1..n : a[m] = s[m]
  BY <1>1
<1>4. c \in Seq(Item) /\ Len(c) = l - n /\ \A m \in 1..(l - n) : c[m] = s[n + m]
  BY <1>1
<1> HIDE DEF a, c
<1>5. /\ a \o b \in Seq(Item) /\ Len(a \o b) = n + 1 /\ \A m \in 1..n : (a \o b)[m] = a[m]
  <2>1. /\ a \o b \in Seq(Item) /\ Len(a \o b) = Len(a) + Len(b)
        /\ \A m \in 1..Len(a) : (a \o b)[m] = a[m]
    BY <1>2, Joined
  <2> QED
    BY <1>2, <2>1
<1> DEFINE d == a \o b
<1>6. d \in Seq(Item) /\ Len(d) = n + 1 /\ \A m \in 1..n : d[m] = s[m]
  BY <1>1, <1>2, <1>5
<1> HIDE DEF d
<1>7. /\ d \o c \in Seq(Item) /\ Len(d \o c) = l + 1
      /\ \A m \in 1..n : (d \o c)[m] = d[m]
      /\ \A m \in 1..(l - n) : (d \o c)[n + 1 + m] = c[m]
  BY <1>1, <1>4, <1>6
<1>8. t = d \o c
  BY DEF a, c, d, Put
<1>9. ASSUME NEW m \in 1..l PROVE IF m <= n THEN t[m] = s[m] ELSE t[m + 1] = s[m]
  <2>1. CASE m <= n
    <3>1. m \in 1..n
      BY <1>1, <2>1
    <3> QED
      BY <1>6, <1>7, <1>8, <2>1, <3>1
  <2>2. CASE ~(m <= n)
    <3>1. m - n \in 1..(l - n) /\ n + 1 + (m - n) = m + 1 /\ n + (m - n) = m /\ ~(m <= n)
      BY <1>1, <2>2
    <3> QED
      BY <1>4, <1>7, <1>8, <3>1
  <2> QED
    BY <2>1, <2>2
<1> HIDE DEF l
<1> QED
  BY <1>7, <1>8, <1>9 DEF l

\* A list without its n-th item.
LEMMA Removed ==
  ASSUME NEW s \in Seq(Item), NEW n \in DOMAIN s
  PROVE  SubSeq(s, 1, n - 1) \o SubSeq(s, n + 1, Len(s)) \in Seq(Item)
<1>1. Len(s) \in Nat /\ n \in 1..Len(s) /\ \A m \in 1..Len(s) : s[m] \in Item
  OBVIOUS
<1>2. SubSeq(s, 1, n - 1) \in Seq(Item) /\ SubSeq(s, n + 1, Len(s)) \in Seq(Item)
  BY <1>1
<1> QED
  BY <1>2

\* The places of page p are those behind (p - 1) * PageSize up to p * PageSize.
LEMMA Places ==
  ASSUME NEW p \in Nat \ {0}
  PROVE  /\ (p - 1) * PageSize \in Nat /\ p * PageSize \in Nat
         /\ p * PageSize = (p - 1) * PageSize + PageSize
         /\ ((p + 1) - 1) * PageSize = p * PageSize
BY PageAssumption

LEMMA PageItems ==
  ASSUME NEW s \in Seq(Item), NEW p \in Nat \ {0}
  PROVE  /\ Page(s, p) \subseteq Item
         /\ \A n \in DOMAIN s : n > (p - 1) * PageSize /\ n <= p * PageSize => s[n] \in Page(s, p)
<1> DEFINE lo == (p - 1) * PageSize
           hi == p * PageSize
           e  == IF hi < Len(s) THEN hi ELSE Len(s)
           v  == SubSeq(s, lo + 1, e)
<1>1. lo \in Nat /\ hi \in Nat /\ hi = lo + PageSize /\ PageSize \in Nat \ {0}
  BY Places, PageAssumption
<1>2. Page(s, p) = Elements(v)
  BY DEF Page
<1> HIDE DEF lo, hi
<1>3. Len(s) \in Nat /\ DOMAIN s = 1..Len(s) /\ e \in Nat /\ e <= Len(s) /\ e <= hi
      /\ \A n \in 1..Len(s) : s[n] \in Item /\ (n <= hi => n <= e)
  BY <1>1
<1> HIDE DEF e
<1>4. v \in Seq(Item)
  BY <1>1, <1>3
<1>5. \A n \in (lo + 1)..e : n - lo \in DOMAIN v /\ v[n - lo] = s[n]
  <2>1. e >= lo + 1 => Len(v) = e - lo /\ \A m \in 1..(e - lo) : v[m] = s[lo + m]
    BY <1>1, <1>3
  <2> TAKE n \in (lo + 1)..e
  <2>2. n - lo \in 1..(e - lo) /\ lo + (n - lo) = n /\ e >= lo + 1
    BY <1>1, <1>3
  <2> QED
    BY <1>4, <2>1, <2>2
<1> HIDE DEF v
<1>6. Elements(v) \subseteq Item
  BY <1>4 DEF Elements
<1>7. \A n \in DOMAIN s : n > lo /\ n <= hi => n \in (lo + 1)..e
  BY <1>1, <1>3
<1>8. \A n \in DOMAIN s : n > lo /\ n <= hi => s[n] \in Elements(v)
  BY <1>5, <1>7 DEF Elements
<1> QED
  BY <1>2, <1>6, <1>8 DEF lo, hi

\* Division rounds down.
LEMMA Division ==
  ASSUME NEW x \in Nat, NEW y \in Nat \ {0}
  PROVE  \E t \in Nat : x \div y = t /\ y * t <= x /\ x < y * (t + 1)
<1>1. PICK t \in Nat : t = x \div y
  OBVIOUS
<1>2. x = y * (x \div y) + (x % y) /\ (x % y) \in 0..(y - 1)
  OBVIOUS
<1>3. PICK m \in 0..(y - 1) : x = y * t + m
  BY <1>1, <1>2
<1>4. PICK z \in Nat : z = y * t /\ y * (t + 1) = z + y
  OBVIOUS
<1>5. y * t <= x /\ x < y * (t + 1)
  BY <1>3, <1>4
<1> QED
  BY <1>1, <1>5

\* A list that goes on behind page p has more pages.
LEMMA PagesAhead ==
  ASSUME NEW s \in Seq(Item), NEW p \in Nat \ {0}, NEW told \in BOOLEAN, told
  PROVE  TotalPages(s, told) \in Nat /\ (Len(s) > p * PageSize => TotalPages(s, told) >= p + 1)
<1> DEFINE l == Len(s)
<1>1. l \in Nat /\ PageSize \in Nat \ {0} /\ (s = <<>> => l = 0)
  BY PageAssumption
<1>2. l + PageSize - 1 \in Nat
  BY <1>1
<1>3. PICK t \in Nat : /\ (l + PageSize - 1) \div PageSize = t
                      /\ l + PageSize - 1 < PageSize * (t + 1)
  BY <1>1, <1>2, Division
<1> DEFINE total == TotalPages(s, told)
<1>4. total = IF s = <<>> THEN 1 ELSE t
  BY <1>3 DEF TotalPages
<1> HIDE DEF total
<1>5. PICK z \in Nat : z = p * PageSize
  BY Places
<1> HIDE DEF l
<1>6. ASSUME l > z, t <= p PROVE FALSE
  <2>1. PageSize * (t + 1) = PageSize * t + PageSize /\ PageSize * t \in Nat
    BY <1>1
  <2>2. PageSize * t <= PageSize * p /\ PageSize * p = z
    BY <1>1, <1>5, <1>6
  <2> QED
    BY <1>1, <1>3, <1>6, <2>1, <2>2
<1>7. l > z => t >= p + 1
  BY <1>6
<1>8. l > p * PageSize => s # <<>> /\ t >= p + 1
  BY <1>1, <1>5, <1>7
<1>9. total \in Nat /\ (Len(s) > p * PageSize => total >= p + 1)
  BY <1>4, <1>8 DEF l
<1> QED
  BY <1>9 DEF total

\* What is not on the pages up to p is behind page p.
LEMMA BehindItems ==
  ASSUME NEW s \in Seq(Item), NEW p \in Nat \ {0}, NEW n \in DOMAIN s, n > p * PageSize
  PROVE  s[n] \in Behind(s, p)
<1>1. PICK lo \in Nat : lo = p * PageSize
  BY Places
<1>2. /\ Len(s) \in Nat /\ n \in 1..Len(s) /\ n > lo
      /\ \A m \in 1..Len(s) : s[m] \in Item
  BY <1>1
<1> DEFINE v == SubSeq(s, lo + 1, Len(s))
<1>3. n - lo \in 1..Len(v) /\ v[n - lo] = s[n]
  <2>1. Len(v) = Len(s) - lo /\ \A m \in 1..(Len(s) - lo) : v[m] = s[lo + m]
    <3>1. lo + 1 \in Nat /\ lo + 1 <= Len(s) /\ Len(s) \in Nat
      BY <1>2
    <3> QED
      BY <1>2, <3>1
  <2>2. n - lo \in 1..(Len(s) - lo) /\ lo + (n - lo) = n
    BY <1>2
  <2> QED
    BY <2>1, <2>2
<1>4. v \in Seq(Item)
  BY <1>2
<1>5. n - lo \in DOMAIN v
  BY <1>3, <1>4
<1>6. Behind(s, p) = Elements(v)
  BY <1>1 DEF Behind
<1> HIDE DEF v
<1> QED
  BY <1>3, <1>5, <1>6 DEF Elements

-----------------------------------------------------------------------------
(* The provider's lists *)

LEMMA Facts ==
  ASSUME IInv
  PROVE  /\ list \in [Region -> [Query -> Seq(Item)]]
         /\ rows \in [Item -> [region : Region \cup {None}, fresh : BOOLEAN]]
         /\ records \in [Region -> {"none", "success", "failed", "skipped"}]
         /\ phase \in {"idle", "scan", "write"} /\ scan \in [Region -> ScanRecord]
         /\ unwritten \subseteq Region /\ replaced \in Region \cup {None}
         /\ syncs \in 0..MaxSyncs /\ changes \in 0..MaxChanges
         /\ before \in [Region -> SUBSET Item] /\ steady \in [Region -> SUBSET Item]
         /\ shrunk \subseteq Region /\ erred \subseteq Region /\ unrecorded \subseteq Region
         /\ Phases /\ RecordsAgree
         /\ \A r \in Region : Reads(r) /\ Commits(r) /\ Keeps(r)
BY DEF IInv, TypeOK, ScanInv

LEMMA NumbersFacts ==
  /\ MaxPages \in Nat \ {0} /\ NumQueries \in Nat \ {0} /\ PageSize \in Nat \ {0}
  /\ MaxSyncs \in Nat /\ MaxChanges \in Nat
  /\ 1 \in Query /\ 1 \in 1..(MaxPages + 1)
  /\ \A q \in Query : q \in Nat /\ q <= NumQueries
BY NumQueriesAssumption, PageAssumption, BoundAssumption DEF Query

\* Only lists change: what is left of the invariant are types and what is still ahead.
LEMMA ListKept ==
  ASSUME IInv, NEW r \in Region, NEW q \in Query, NEW t \in Seq(Item),
         list' = [list EXCEPT ![r][q] = t], changes < MaxChanges, changes' = changes + 1,
         UNCHANGED <<rows, records, phase, scan, unwritten, replaced, syncs, before, erred,
                     unrecorded>>,
         steady' \in [Region -> SUBSET Item], shrunk' \subseteq Region,
         \A s \in Region \ {r} : steady'[s] = steady[s] /\ (s \in shrunk <=> s \in shrunk'),
         Reads(r)'
  PROVE  IInv'
<1>1. changes' \in 0..MaxChanges
  <2>1. changes \in 0..MaxChanges /\ changes < MaxChanges /\ changes' = changes + 1
    BY Facts
  <2> QED
    BY <2>1, NumbersFacts
<1>2. list' \in [Region -> [Query -> Seq(Item)]] /\ \A s \in Region \ {r} : list'[s] = list[s]
  BY Facts
<1>3. TypeOK'
  BY <1>1, <1>2, Facts DEF TypeOK
<1>4. \A s \in Region \ {r} : Reads(s)'
  BY <1>2, Facts DEF Reads, Ahead
<1>5. \A s \in Region : Commits(s)' /\ Keeps(s)'
  BY Facts DEF Commits, Keeps, Written, Status, Safe, HasRow
<1>6. Phases' /\ RecordsAgree'
  BY Facts DEF Phases, RecordsAgree, HasRow
<1> QED
  BY <1>3, <1>4, <1>5, <1>6 DEF IInv, ScanInv

LEMMA InsertInv ==
  ASSUME IInv, NEW r \in Region, NEW q \in Query, NEW i \in Item, NEW n \in 0..Len(list[r][q]),
         Insert(r, q, i, n)
  PROVE  IInv'
<1> DEFINE s == list[r][q]
           t == SubSeq(s, 1, n) \o <<i>> \o SubSeq(s, n + 1, Len(s))
<1>1. /\ list' = [list EXCEPT ![r][q] = t] /\ changes < MaxChanges /\ changes' = changes + 1
      /\ UNCHANGED <<rows, records, phase, scan, unwritten, replaced, syncs, before, steady,
                     shrunk, erred, unrecorded>>
  BY DEF Insert, store, memory, history
<1>2. s \in Seq(Item) /\ n \in 0..Len(s)
  BY Facts
<1> HIDE DEF s
<1>3. /\ t \in Seq(Item) /\ Len(t) = Len(s) + 1
      /\ \A m \in 1..Len(s) : IF m <= n THEN t[m] = s[m] ELSE t[m + 1] = s[m]
  <2> HIDE DEF t
  <2>1. t = SubSeq(s, 1, n) \o <<i>> \o SubSeq(s, n + 1, Len(s))
    BY DEF t
  <2> DEFINE b == <<i>>
  <2>2. b \in Seq(Item) /\ Len(b) = 1 /\ t = Put(s, n, b)
    BY <2>1 DEF Put
  <2> HIDE DEF b
  <2>3. \A u \in Seq(Item), v \in Seq(Item) : \A k \in 0..Len(u) :
          Len(v) = 1 => LET w == Put(u, k, v) IN
            /\ w \in Seq(Item) /\ Len(w) = Len(u) + 1
            /\ \A m \in 1..Len(u) : IF m <= k THEN w[m] = u[m] ELSE w[m + 1] = u[m]
    BY Inserted
  <2>4. t \in Seq(Item) /\ Len(t) = Len(s) + 1
    BY <1>2, <2>2, <2>3
  <2> QED
    BY <1>2, <2>2, <2>3, <2>4
<1> HIDE DEF t
<1>4. /\ list'[r][q] = t /\ \A p \in Query \ {q} : list'[r][p] = list[r][p]
      /\ DOMAIN s = 1..Len(s) /\ DOMAIN t = 1..(Len(s) + 1) /\ Len(s) \in Nat
  BY <1>1, <1>2, <1>3, Facts
<1>5. ASSUME NEW j, Ahead(r, j) PROVE Ahead(r, j)'
  <2> DEFINE bound == (scan[r].page - 1) * PageSize
  <2>1. PICK p \in Query : \E m \in DOMAIN list[r][p] :
          list[r][p][m] = j /\ p >= scan[r].query /\ (p = scan[r].query => m > bound)
    BY <1>5 DEF Ahead
  <2>2. PICK m \in DOMAIN list[r][p] :
          list[r][p][m] = j /\ p >= scan[r].query /\ (p = scan[r].query => m > bound)
    BY <2>1
  <2>3. bound \in Int
    <3>1. scan[r].page \in Nat
      BY Facts, NumbersFacts DEF ScanRecord
    <3> QED
      BY <3>1, NumbersFacts
  <2>4. \E k \in DOMAIN list'[r][p] : list'[r][p][k] = j /\ k >= m
    <3>1. m \in Nat
      BY <2>2, Facts
    <3>2. CASE p # q
      BY <1>4, <2>2, <3>1, <3>2
    <3>3. CASE p = q
      <4>1. m \in 1..Len(s) /\ s[m] = j
        BY <1>4, <2>2, <3>3 DEF s
      <4>2. m \in DOMAIN t /\ m + 1 \in DOMAIN t /\ m >= m /\ m + 1 >= m
        BY <1>4, <4>1
      <4>3. t[m] = j \/ t[m + 1] = j
        BY <1>3, <4>1
      <4> QED
        BY <1>4, <3>3, <4>2, <4>3
    <3> QED
      BY <3>2, <3>3
  <2>5. PICK k \in DOMAIN list'[r][p] : list'[r][p][k] = j /\ k >= m
    BY <2>4
  <2>6. m \in Nat /\ k \in Nat
    <3>1. list'[r][p] \in Seq(Item) /\ list[r][p] \in Seq(Item)
      BY <1>1, <1>3, <1>4, Facts
    <3> QED
      BY <2>2, <2>5, <3>1
  <2>7. p = scan[r].query => k > bound
    BY <2>2, <2>3, <2>5, <2>6
  <2>8. scan'[r] = scan[r] /\ UNCHANGED PageSize
    BY <1>1
  <2> QED
    BY <2>2, <2>5, <2>7, <2>8 DEF Ahead
<1>6. Reads(r)'
  BY <1>1, <1>5, Facts DEF Reads
<1>7. steady' \in [Region -> SUBSET Item] /\ shrunk' \subseteq Region
  BY <1>1, Facts
<1> QED
  BY <1>1, <1>3, <1>6, <1>7, ListKept

LEMMA RemoveInv ==
  ASSUME IInv, NEW r \in Region, NEW q \in Query, NEW n \in DOMAIN list[r][q], Remove(r, q, n)
  PROVE  IInv'
<1> DEFINE s == list[r][q]
           t == SubSeq(s, 1, n - 1) \o SubSeq(s, n + 1, Len(s))
<1>1. /\ list' = [list EXCEPT ![r][q] = t] /\ changes < MaxChanges /\ changes' = changes + 1
      /\ shrunk' = shrunk \cup {r} /\ steady' = [steady EXCEPT ![r] = @ \ {s[n]}]
      /\ UNCHANGED <<rows, records, phase, scan, unwritten, replaced, syncs, before, erred,
                     unrecorded>>
  BY DEF Remove, store, memory
<1>2. s \in Seq(Item)
  BY Facts
<1>3. t \in Seq(Item)
  BY <1>2, Removed
<1> HIDE DEF s, t
<1>4. /\ steady' \in [Region -> SUBSET Item] /\ shrunk' \subseteq Region
      /\ \A x \in Region \ {r} : steady'[x] = steady[x] /\ (x \in shrunk <=> x \in shrunk')
  BY <1>1, Facts
<1>5. Reads(r)'
  BY <1>1, Facts DEF Reads
<1> QED
  BY <1>1, <1>3, <1>4, <1>5, ListKept

-----------------------------------------------------------------------------
(* The scan *)

LEMMA BeginSyncInv ==
  ASSUME IInv, NEW S \in SUBSET Region, BeginSync(S)
  PROVE  IInv'
<1> DEFINE w == [NoScan EXCEPT !.pc = "waiting"]
<1>1. /\ scan' = [r \in Region |-> IF r \in S THEN w ELSE NoScan]
      /\ phase' = "scan" /\ unwritten' = S /\ replaced' = None /\ shrunk' = {} /\ erred' = {}
      /\ syncs < MaxSyncs /\ syncs' = syncs + 1
      /\ before' = [r \in Region |-> RowsOf(r)] /\ steady' = [r \in Region |-> Listed(r)]
      /\ UNCHANGED <<list, rows, records, changes, unrecorded>>
  BY DEF BeginSync, store
<1>2. /\ w \in ScanRecord /\ w.pc = "waiting" /\ w.query = 1 /\ w.page = 1
      /\ NoScan \in ScanRecord /\ NoScan.pc = "out" /\ NoScan.query = 1 /\ NoScan.page = 1
  BY NumbersFacts DEF NoScan, ScanRecord
<1> HIDE DEF w
<1>3. /\ scan' \in [Region -> ScanRecord]
      /\ \A r \in Region : /\ scan'[r].pc \in {"out", "waiting"}
                           /\ scan'[r].query = 1 /\ scan'[r].page = 1
                           /\ scan'[r].pc # "out" => r \in S
  BY <1>1, <1>2
<1>4. TypeOK'
  <2>1. \A r \in Region : RowsOf(r) \subseteq Item
    BY DEF RowsOf
  <2>2. \A r \in Region : Listed(r) \subseteq Item
    BY Facts DEF Listed, Elements
  <2>3. syncs' \in 0..MaxSyncs
    <3>1. syncs \in 0..MaxSyncs
      BY Facts
    <3> QED
      BY <1>1, <3>1, NumbersFacts
  <2> QED
    BY <1>1, <1>3, <2>1, <2>2, <2>3, Facts DEF TypeOK
<1>5. ASSUME NEW r \in Region, NEW i \in steady'[r] PROVE Ahead(r, i)'
  <2>0. PICK q \in Query : \E n \in DOMAIN list[r][q] : list[r][q][n] = i
    BY <1>1, <1>5 DEF Listed, Elements
  <2>1. PICK n \in DOMAIN list[r][q] : list[r][q][n] = i
    BY <2>0
  <2>2. q \in Nat /\ q >= 1 /\ n \in Nat /\ n >= 1
    <3>1. list[r][q] \in Seq(Item)
      BY Facts
    <3>2. n \in 1..Len(list[r][q]) /\ q \in 1..NumQueries
      BY <2>1, <3>1 DEF Query
    <3> QED
      BY <3>2
  <2>3. n > (1 - 1) * PageSize
    BY <2>2, NumbersFacts
  <2> QED
    BY <1>1, <1>3, <2>1, <2>2, <2>3 DEF Ahead
<1>6. ASSUME NEW r \in Region PROVE Reads(r)' /\ Commits(r)' /\ Keeps(r)'
  <2>1. Reads(r)'
    BY <1>3, <1>5, NumbersFacts DEF Reads
  <2>2. Commits(r)' /\ Keeps(r)'
    BY <1>1, <1>3 DEF Commits, Keeps, Written, RowsOf
  <2> QED
    BY <2>1, <2>2
<1>7. Phases' /\ RecordsAgree'
  BY <1>1, <1>3, Facts DEF Phases, RecordsAgree, HasRow
<1> QED
  BY <1>4, <1>6, <1>7 DEF IInv, ScanInv

\* A region that is scanned is not written: of the invariant it can disturb only what
\* has been read of it.
LEMMA ScanKept ==
  ASSUME IInv, NEW r \in Region, phase = "scan", scan[r].pc # "out", NEW x \in ScanRecord,
         scan' = [scan EXCEPT ![r] = x], erred \subseteq erred', erred' \subseteq Region,
         UNCHANGED <<list, rows, records, phase, unwritten, replaced, syncs, changes, before,
                     shrunk, unrecorded>>,
         steady' \in [Region -> SUBSET Item], \A s \in Region \ {r} : steady'[s] = steady[s],
         Reads(r)'
  PROVE  IInv'
<1>1. /\ scan' \in [Region -> ScanRecord] /\ scan'[r] = x
      /\ \A s \in Region \ {r} : scan'[s] = scan[s]
  BY Facts
<1>2. TypeOK'
  BY <1>1, Facts DEF TypeOK
<1>3. r \in unwritten
  BY Facts DEF Phases
<1>4. ASSUME NEW s \in Region PROVE Reads(s)' /\ Commits(s)' /\ Keeps(s)'
  <2>1. Reads(s)'
    <3>1. CASE s # r
      BY <1>1, <3>1, Facts DEF Reads, Ahead
    <3> QED
      BY <3>1
  <2>2. Commits(s)'
    <3>1. CASE s # r
      BY <1>1, <3>1, Facts DEF Commits, Written, Status, Safe, HasRow
    <3> QED
      BY <1>3, <3>1 DEF Commits, Written
  <2>3. Keeps(s)'
    BY Facts DEF Keeps
  <2> QED
    BY <2>1, <2>2, <2>3
<1>5. Phases' /\ RecordsAgree'
  BY <1>1, <1>3, Facts DEF Phases, RecordsAgree, HasRow
<1> QED
  BY <1>2, <1>4, <1>5 DEF IInv, ScanInv

LEMMA NextQueryMoves ==
  ASSUME NEW s \in ScanRecord, s.pc = "scanning"
  PROVE  LET z == NextQuery(s) IN
         /\ z \in ScanRecord /\ z.items = s.items /\ z.incomplete = s.incomplete
         /\ s.query < NumQueries =>
              z.pc = "scanning" /\ z.query = s.query + 1 /\ z.page = 1
         /\ ~(s.query < NumQueries) => z.pc = "done"
<1>1. s.query \in Query /\ s.query \in Nat /\ NumQueries \in Nat /\ 1 \in 1..(MaxPages + 1)
  BY NumbersFacts DEF ScanRecord
<1>2. CASE s.query < NumQueries
  <2>1. s.query + 1 \in Query
    BY <1>1, <1>2 DEF Query
  <2> QED
    BY <1>1, <1>2, <2>1 DEF NextQuery, ScanRecord
<1>3. CASE ~(s.query < NumQueries)
  BY <1>3 DEF NextQuery, ScanRecord
<1> QED
  BY <1>2, <1>3

LEMMA BeginRegionInv ==
  ASSUME IInv, NEW r \in Region, BeginRegion(r)
  PROVE  IInv'
<1> DEFINE x == [scan[r] EXCEPT !.pc = "scanning"]
<1>1. /\ phase = "scan" /\ scan[r].pc = "waiting" /\ scan' = [scan EXCEPT ![r] = x]
      /\ UNCHANGED <<list, rows, records, phase, unwritten, replaced, syncs, changes, before,
                     steady, shrunk, erred, unrecorded>>
  BY Facts DEF BeginRegion, store, history
<1>2. scan[r] \in ScanRecord
  BY Facts
<1>3. /\ x \in ScanRecord /\ x.pc = "scanning" /\ x.query = scan[r].query
      /\ x.page = scan[r].page /\ x.items = scan[r].items /\ x.incomplete = scan[r].incomplete
  BY <1>2 DEF ScanRecord
<1> HIDE DEF x
<1>4. scan'[r] = x
  BY <1>1, Facts
<1>5. Reads(r)'
  BY <1>1, <1>3, <1>4, Facts DEF Reads, Ahead
<1> QED
  BY <1>1, <1>3, <1>5, Facts, ScanKept

LEMMA RequestFailsInv ==
  ASSUME IInv, NEW r \in Region, NEW unsupported \in BOOLEAN, RequestFails(r, unsupported)
  PROVE  IInv'
<1> DEFINE y == [scan[r] EXCEPT !.problem = @ \/ ~unsupported,
                                !.incomplete = @ \/ (~unsupported /\ scan[r].page > 1)]
           x == NextQuery(y)
<1>1. /\ phase = "scan" /\ scan[r].pc = "scanning" /\ scan' = [scan EXCEPT ![r] = x]
      /\ erred' = erred \cup {r}
      /\ UNCHANGED <<list, rows, records, phase, unwritten, replaced, syncs, changes, before,
                     steady, shrunk, unrecorded>>
  BY DEF RequestFails, store
<1>2. scan[r] \in ScanRecord
  BY Facts
<1>3. y \in ScanRecord /\ y.pc = "scanning"
  BY <1>1, <1>2 DEF ScanRecord
<1> HIDE DEF y
<1>4. x \in ScanRecord /\ (x.pc = "done" \/ x.page = 1)
  BY <1>3, NextQueryMoves
<1> HIDE DEF x
<1>5. scan'[r] = x /\ erred \subseteq erred' /\ erred' \subseteq Region
  BY <1>1, Facts
<1>6. Reads(r)'
  BY <1>1, <1>4, <1>5, NumbersFacts DEF Reads
<1> QED
  BY <1>1, <1>4, <1>5, <1>6, Facts, ScanKept

\* A page read leaves nothing behind that was listed all the time: what is not on it is
\* on a page to come, or the pages read are limited and the list is incomplete, or the
\* total was not told and it is not counted as steady any more.
LEMMA PageArrivesInv ==
  ASSUME IInv, NEW r \in Region, NEW told \in BOOLEAN, PageArrives(r, told)
  PROVE  IInv'
<1> DEFINE s == scan[r]
           L == list[r][s.query]
           p == s.page
           total == TotalPages(L, told)
           cutOff == p >= MaxPages /\ total > MaxPages
           read == [s EXCEPT !.successes = TRUE, !.page = @ + 1,
                             !.items = @ \cup Page(L, p),
                             !.problem = @ \/ cutOff, !.incomplete = @ \/ cutOff]
           more == MorePages(read.page, total)
           x == IF more THEN read ELSE NextQuery(read)
<1>1. /\ phase = "scan" /\ s.pc = "scanning" /\ scan' = [scan EXCEPT ![r] = x]
      /\ steady' = IF told THEN steady ELSE [steady EXCEPT ![r] = @ \ Behind(L, p)]
      /\ UNCHANGED <<list, rows, records, phase, unwritten, replaced, syncs, changes, before,
                     shrunk, erred, unrecorded>>
  BY DEF PageArrives, store
<1>2. s \in ScanRecord /\ p <= MaxPages
  BY <1>1, Facts DEF Reads
<1>3. s.query \in Query /\ s.query \in Nat /\ p \in Nat \ {0} /\ p + 1 \in 1..(MaxPages + 1)
      /\ s.query <= NumQueries /\ NumQueries \in Nat /\ MaxPages \in Nat
  <2>1. s.query \in Query /\ p \in 1..(MaxPages + 1)
    BY <1>2 DEF ScanRecord
  <2> QED
    BY <1>2, <2>1, NumbersFacts
<1>4. L \in Seq(Item)
  BY <1>3, Facts
<1> HIDE DEF L, p
<1>5. Page(L, p) \subseteq Item
      /\ \A n \in DOMAIN L : n > (p - 1) * PageSize /\ n <= p * PageSize => L[n] \in Page(L, p)
  BY <1>3, <1>4, PageItems
<1>6. total \in Nat /\ (told /\ Len(L) > p * PageSize => total >= p + 1)
  <2>1. CASE told
    BY <1>3, <1>4, <2>1, PagesAhead
  <2>2. CASE ~told
    <3>1. total = 1
      BY <2>2 DEF TotalPages
    <3> QED
      BY <2>2, <3>1
  <2> QED
    BY <2>1, <2>2
<1> HIDE DEF total
<1>7. cutOff \in BOOLEAN
  OBVIOUS
<1> HIDE DEF cutOff
<1>8. /\ read \in ScanRecord /\ read.pc = "scanning" /\ read.query = s.query
      /\ read.page = p + 1 /\ read.items = s.items \cup Page(L, p)
      /\ read.incomplete = (s.incomplete \/ cutOff)
  BY <1>1, <1>2, <1>3, <1>5, <1>7 DEF ScanRecord, p
<1> HIDE DEF read
<1>9. more <=> p + 1 <= total /\ p + 1 <= MaxPages
  BY <1>8 DEF MorePages
<1> HIDE DEF more
<1>10. /\ x \in ScanRecord /\ x.items = s.items \cup Page(L, p)
       /\ x.incomplete = (s.incomplete \/ cutOff)
       /\ more => x.pc = "scanning" /\ x.query = s.query /\ x.page = p + 1
       /\ ~more /\ s.query < NumQueries =>
            x.pc = "scanning" /\ x.query = s.query + 1 /\ x.page = 1
       /\ ~more /\ ~(s.query < NumQueries) => x.pc = "done"
  BY <1>8, NextQueryMoves
<1> HIDE DEF x
<1>11. /\ scan'[r] = x /\ list' = list /\ shrunk' = shrunk /\ erred' = erred
       /\ steady' \in [Region -> SUBSET Item]
       /\ \A v \in Region \ {r} : steady'[v] = steady[v]
       /\ steady'[r] \subseteq steady[r]
       /\ ~told => steady'[r] \cap Behind(L, p) = {}
  BY <1>1, Facts
<1>12. x.pc \in {"waiting", "scanning"} => x.page <= MaxPages
  <2>1. CASE more
    BY <1>9, <1>10, <2>1
  <2>2. CASE ~more
    BY <1>10, <2>2, NumbersFacts
  <2> QED
    BY <2>1, <2>2
<1>13. ASSUME r \notin erred \cup shrunk, NEW i \in steady'[r]
       PROVE  \/ i \in x.items \/ x.incomplete
              \/ x.pc = "scanning" /\ Ahead(r, i)'
  <2>1. i \in s.items \/ s.incomplete \/ Ahead(r, i)
    BY <1>1, <1>11, <1>13, Facts DEF Reads
  <2>2. CASE i \in s.items \/ s.incomplete
    BY <1>10, <2>2
  <2>3. CASE Ahead(r, i)
    <3>1. PICK q \in Query : \E n \in DOMAIN list[r][q] :
            list[r][q][n] = i /\ q >= s.query /\ (q = s.query => n > (p - 1) * PageSize)
      BY <2>3 DEF Ahead, p
    <3>2. PICK n \in DOMAIN list[r][q] :
            list[r][q][n] = i /\ q >= s.query /\ (q = s.query => n > (p - 1) * PageSize)
      BY <3>1
    <3>3. n \in Nat /\ n >= 1 /\ n <= Len(list[r][q]) /\ Len(list[r][q]) \in Nat
      <4>1. list[r][q] \in Seq(Item)
        BY Facts
      <4> QED
        BY <3>2, <4>1
    <3>4. /\ q \in Nat /\ q <= NumQueries /\ q >= s.query
          /\ p * PageSize \in Nat /\ ((p + 1) - 1) * PageSize = p * PageSize
          /\ n > (1 - 1) * PageSize
      BY <1>3, <3>2, <3>3, NumbersFacts, Places
    <3>5. ASSUME x.pc = "scanning", x.query = s.query \/ q > s.query,
                 q = x.query => n > (x.page - 1) * PageSize, q >= x.query
          PROVE  x.pc = "scanning" /\ Ahead(r, i)'
      BY <1>11, <3>2, <3>5 DEF Ahead
    <3>6. CASE q > s.query
      <4>1. s.query < NumQueries
        BY <1>3, <3>4, <3>6
      <4>2. CASE more
        <5>1. x.pc = "scanning" /\ q # x.query /\ q >= x.query
          BY <1>3, <1>10, <3>4, <3>6, <4>2
        <5> QED
          BY <3>5, <3>6, <5>1
      <4>3. CASE ~more
        <5>1. x.pc = "scanning" /\ x.page = 1 /\ q >= x.query
          BY <1>3, <1>10, <3>4, <3>6, <4>1, <4>3
        <5> QED
          BY <3>4, <3>5, <3>6, <5>1
      <4> QED
        BY <4>2, <4>3
    <3>7. CASE q = s.query
      <4>1. L = list[r][q] /\ n > (p - 1) * PageSize
        BY <3>2, <3>7 DEF L
      <4>2. CASE n <= p * PageSize
        <5>1. L[n] \in Page(L, p) /\ L[n] = i
          BY <1>5, <3>2, <4>1, <4>2
        <5> QED
          BY <1>10, <5>1
      <4>3. CASE ~(n <= p * PageSize)
        <5>1. n > p * PageSize /\ Len(L) > p * PageSize
          BY <3>3, <3>4, <4>1, <4>3
        <5>2. total >= p + 1
          <6>1. L[n] \in Behind(L, p) /\ L[n] = i
            BY <1>3, <1>4, <3>2, <4>1, <5>1, BehindItems
          <6>2. told
            BY <1>11, <1>13, <6>1
          <6> QED
            BY <1>6, <5>1, <6>2
        <5>3. CASE more
          <6>1. x.pc = "scanning" /\ x.query = s.query /\ n > (x.page - 1) * PageSize
            BY <1>10, <3>4, <5>1, <5>3
          <6> QED
            BY <3>4, <3>5, <6>1
        <5>4. CASE ~more
          <6>1. p >= MaxPages /\ total > MaxPages
            BY <1>3, <1>6, <1>9, <5>2, <5>4
          <6> QED
            BY <1>10, <6>1 DEF cutOff
        <5> QED
          BY <5>3, <5>4
      <4> QED
        BY <4>2, <4>3
    <3>8. q > s.query \/ q = s.query
      BY <1>3, <3>4
    <3> QED
      BY <3>6, <3>7, <3>8
  <2> QED
    BY <2>1, <2>2, <2>3
<1>14. Reads(r)'
  BY <1>11, <1>12, <1>13 DEF Reads
<1>15. erred \subseteq erred' /\ erred' \subseteq Region
  BY <1>1, Facts
<1> QED
  BY <1>1, <1>10, <1>11, <1>14, <1>15, ScanKept

LEMMA EndScanInv ==
  ASSUME IInv, EndScan
  PROVE  IInv'
<1>1. /\ phase = "scan" /\ (\A r \in unwritten : scan[r].pc = "done") /\ phase' = "write"
      /\ UNCHANGED <<list, rows, records, scan, unwritten, replaced, syncs, changes, before,
                     steady, shrunk, erred, unrecorded>>
  BY DEF EndScan, store, history
<1>2. TypeOK'
  BY <1>1, Facts DEF TypeOK
<1>3. \A r \in Region : Reads(r)' /\ Commits(r)' /\ Keeps(r)'
  BY <1>1, Facts DEF Reads, Ahead, Commits, Keeps, Written, Status, Safe, HasRow
<1>4. Phases' /\ RecordsAgree'
  BY <1>1, Facts DEF Phases, RecordsAgree, HasRow
<1> QED
  BY <1>2, <1>3, <1>4 DEF IInv, ScanInv

\* The end of a synchronisation, and one that is cut off.
LEMMA IdleInv ==
  ASSUME IInv, EndSync \/ Abort
  PROVE  IInv'
<1>1. /\ phase' = "idle"
      /\ UNCHANGED <<list, rows, records, scan, unwritten, replaced, syncs, changes, before,
                     steady, shrunk, erred, unrecorded>>
  BY DEF EndSync, Abort, store, history
<1>2. TypeOK'
  BY <1>1, Facts DEF TypeOK
<1>3. \A r \in Region : Reads(r)' /\ Commits(r)' /\ Keeps(r)'
  BY <1>1, Facts DEF Reads, Ahead, Commits, Keeps, Written, Status, Safe, HasRow
<1>4. Phases' /\ RecordsAgree'
  BY <1>1, Facts DEF Phases, RecordsAgree, HasRow
<1> QED
  BY <1>2, <1>3, <1>4 DEF IInv, ScanInv

LEMMA StutterInv ==
  ASSUME IInv, UNCHANGED vars
  PROVE  IInv'
<1>1. UNCHANGED <<list, rows, records, phase, scan, unwritten, replaced, syncs, changes,
                  before, steady, shrunk, erred, unrecorded>>
  BY DEF vars, store, memory, history
<1>2. TypeOK'
  BY <1>1, Facts DEF TypeOK
<1>3. \A r \in Region : Reads(r)' /\ Commits(r)' /\ Keeps(r)'
  BY <1>1, Facts DEF Reads, Ahead, Commits, Keeps, Written, Status, Safe, HasRow
<1>4. Phases' /\ RecordsAgree'
  BY <1>1, Facts DEF Phases, RecordsAgree, HasRow
<1> QED
  BY <1>2, <1>3, <1>4 DEF IInv, ScanInv

-----------------------------------------------------------------------------
(* The commits *)

\* A commit leaves what was read, and what is not to be written, as it is.
LEMMA ReadsKept ==
  ASSUME IInv, UNCHANGED <<list, scan, steady, shrunk, erred>>
  PROVE  \A s \in Region : Reads(s)'
BY Facts DEF Reads, Ahead

LEMMA ReplaceResourcesInv ==
  ASSUME IInv, NEW r \in Region, ReplaceResources(r)
  PROVE  IInv'
<1> DEFINE items == scan[r].items
           own == [region |-> r, fresh |-> TRUE]
<1>1. /\ phase = "write" /\ r \in unwritten /\ Status(r) = "success"
      /\ rows' = [i \in Item |-> IF i \in items THEN own
                                 ELSE IF rows[i].region = r THEN NoRow ELSE rows[i]]
      /\ unwritten' = unwritten \ {r} /\ replaced' = r /\ unrecorded' = unrecorded \cup {r}
      /\ UNCHANGED <<list, records, phase, scan, syncs, changes, before, steady, shrunk, erred>>
  BY DEF ReplaceResources, RowsReplaced
<1>2. items \subseteq Item
  BY Facts DEF ScanRecord
<1> HIDE DEF items
<1>3. /\ own \in [region : Region \cup {None}, fresh : BOOLEAN]
      /\ own.region = r /\ own.fresh = TRUE /\ r # None
      /\ NoRow \in [region : Region \cup {None}, fresh : BOOLEAN] /\ NoRow.region = None
  BY NoneAssumption DEF NoRow
<1> HIDE DEF own
<1>4. rows' \in [Item -> [region : Region \cup {None}, fresh : BOOLEAN]]
  BY <1>1, <1>3, Facts
<1>5. TypeOK'
  BY <1>1, <1>4, Facts DEF TypeOK
<1>6. \A i \in items : Safe(i)'
  BY <1>1, <1>2, <1>3 DEF Safe, HasRow
<1>7. ASSUME NEW i \in Item, rows[i].region # r PROVE i \in items \/ rows'[i] = rows[i]
  BY <1>1, <1>7
<1>8. ASSUME NEW i \in Item, Safe(i) PROVE Safe(i)'
  <2>1. rows[i].region # r
    BY <1>1, <1>8 DEF Safe
  <2>2. i \in items \/ rows'[i] = rows[i]
    BY <1>7, <2>1
  <2>3. CASE rows'[i] = rows[i]
    BY <1>1, <1>8, <2>3 DEF Safe, HasRow
  <2> QED
    BY <1>6, <2>2, <2>3
<1>9. ASSUME NEW s \in Region PROVE Commits(s)' /\ Keeps(s)'
  <2>1. Commits(s)'
    <3>1. CASE s = r
      BY <1>1, <1>6, <3>1 DEF Commits, items
    <3>2. CASE s # r
      <4>1. scan[s].items \subseteq Item
        BY Facts DEF ScanRecord
      <4> QED
        BY <1>1, <1>8, <3>2, <4>1, Facts DEF Commits, Written, Status
    <3> QED
      BY <3>1, <3>2
  <2>2. ASSUME scan'[s].pc = "done", Status(s)' # "success", NEW i \in before'[s]
        PROVE  rows'[i].region = s \/ Safe(i)'
    <3>1. s # r /\ i \in before[s] /\ i \in Item
      BY <1>1, <2>2, Facts DEF Status
    <3>2. rows[i].region = s \/ Safe(i)
      BY <1>1, <2>2, <3>1, Facts DEF Keeps, Status
    <3>3. CASE rows[i].region = s
      BY <1>6, <1>7, <3>1, <3>3
    <3> QED
      BY <1>8, <3>1, <3>2, <3>3
  <2>3. phase' # "scan"
    BY <1>1
  <2> QED
    BY <2>1, <2>2, <2>3 DEF Keeps
<1>10. Phases'
  BY <1>1, Facts DEF Phases
<1>11. RecordsAgree'
  <2> SUFFICES ASSUME NEW i \in Item, HasRow(i)'
               PROVE  rows'[i].fresh <=> \/ records'[rows'[i].region] = "success"
                                         \/ rows'[i].region \in unrecorded'
    BY DEF RecordsAgree
  <2>1. CASE i \in items
    BY <1>1, <1>3, <2>1
  <2>2. CASE i \notin items
    <3>1. rows[i].region # r /\ rows'[i] = rows[i]
      BY <1>1, <1>3, <2>2 DEF HasRow
    <3>2. HasRow(i)
      BY <3>1 DEF HasRow
    <3> QED
      BY <1>1, <3>1, <3>2, Facts DEF RecordsAgree
  <2> QED
    BY <2>1, <2>2
<1> QED
  BY <1>1, <1>5, <1>9, <1>10, <1>11, ReadsKept DEF IInv, ScanInv

LEMMA RecordSuccessInv ==
  ASSUME IInv, RecordSuccess
  PROVE  IInv'
<1>1. /\ phase = "write" /\ replaced # None
      /\ records' = [records EXCEPT ![replaced] = "success"]
      /\ replaced' = None /\ unrecorded' = unrecorded \ {replaced}
      /\ UNCHANGED <<list, rows, phase, scan, unwritten, syncs, changes, before, steady,
                     shrunk, erred>>
  BY DEF RecordSuccess
<1>2. TypeOK'
  BY <1>1, Facts DEF TypeOK
<1>3. \A r \in Region : Commits(r)' /\ Keeps(r)'
  BY <1>1, Facts DEF Commits, Keeps, Written, Status, Safe, HasRow
<1>4. Phases'
  BY <1>1, Facts DEF Phases
<1>5. replaced \in unrecorded /\ replaced \in Region
  BY <1>1, Facts DEF Phases
<1>6. RecordsAgree'
  <2> SUFFICES ASSUME NEW i \in Item, HasRow(i)'
               PROVE  rows'[i].fresh <=> \/ records'[rows'[i].region] = "success"
                                         \/ rows'[i].region \in unrecorded'
    BY DEF RecordsAgree
  <2>1. HasRow(i) /\ rows'[i] = rows[i] /\ rows[i].region \in Region
    BY <1>1, Facts DEF HasRow
  <2>2. rows[i].fresh <=> records[rows[i].region] = "success" \/ rows[i].region \in unrecorded
    BY <2>1, Facts DEF RecordsAgree
  <2>3. CASE rows[i].region = replaced
    BY <1>1, <1>5, <2>1, <2>2, <2>3, Facts
  <2>4. CASE rows[i].region # replaced
    BY <1>1, <1>5, <2>1, <2>2, <2>4, Facts
  <2> QED
    BY <2>3, <2>4
<1> QED
  BY <1>1, <1>2, <1>3, <1>4, <1>6, ReadsKept DEF IInv, ScanInv

LEMMA RecordFailureInv ==
  ASSUME IInv, NEW r \in Region, RecordFailure(r)
  PROVE  IInv'
<1>1. /\ phase = "write" /\ replaced = None /\ Status(r) # "success"
      /\ records' = [records EXCEPT ![r] = Status(r)]
      /\ rows' = [i \in Item |-> IF rows[i].region = r THEN [rows[i] EXCEPT !.fresh = FALSE]
                                 ELSE rows[i]]
      /\ unwritten' = unwritten \ {r} /\ unrecorded' = unrecorded \ {r}
      /\ UNCHANGED <<list, phase, scan, replaced, syncs, changes, before, steady, shrunk, erred>>
  BY DEF RecordFailure, MarkStale
<1>2. ASSUME NEW i \in Item
      PROVE  /\ rows'[i] \in [region : Region \cup {None}, fresh : BOOLEAN]
             /\ rows'[i].region = rows[i].region
             /\ rows[i].region = r => rows'[i].fresh = FALSE
             /\ rows[i].region # r => rows'[i] = rows[i]
  <2>1. rows[i] \in [region : Region \cup {None}, fresh : BOOLEAN]
    BY Facts
  <2> QED
    BY <1>1, <2>1
<1>3. rows' \in [Item -> [region : Region \cup {None}, fresh : BOOLEAN]]
  BY <1>1, <1>2
<1>4. Status(r) \in {"failed", "skipped"} /\ Status(r) # "success"
  BY <1>1 DEF Status
<1>5. records' \in [Region -> {"none", "success", "failed", "skipped"}]
  BY <1>1, <1>4, Facts
<1>6. TypeOK'
  BY <1>1, <1>3, <1>5, Facts DEF TypeOK
<1>7. \A i \in Item : Safe(i) => Safe(i)'
  BY <1>1, <1>2 DEF Safe, HasRow
<1>8. ASSUME NEW s \in Region PROVE Commits(s)' /\ Keeps(s)'
  <2>1. Status(s)' = Status(s) /\ scan[s].items \subseteq Item /\ before[s] \subseteq Item
    BY <1>1, Facts DEF Status, ScanRecord
  <2>2. Commits(s)'
    BY <1>1, <1>7, <2>1, Facts DEF Commits, Written
  <2>3. Keeps(s)'
    BY <1>1, <1>2, <1>7, <2>1, Facts DEF Keeps
  <2> QED
    BY <2>2, <2>3
<1>9. Phases'
  BY <1>1, Facts DEF Phases
<1>10. RecordsAgree'
  <2> SUFFICES ASSUME NEW i \in Item, HasRow(i)'
               PROVE  rows'[i].fresh <=> \/ records'[rows'[i].region] = "success"
                                         \/ rows'[i].region \in unrecorded'
    BY DEF RecordsAgree
  <2>1. HasRow(i)
    BY <1>2 DEF HasRow
  <2>2. rows[i].fresh <=> records[rows[i].region] = "success" \/ rows[i].region \in unrecorded
    BY <2>1, Facts DEF RecordsAgree
  <2>3. CASE rows[i].region = r
    BY <1>1, <1>2, <1>4, <2>3, Facts
  <2>4. CASE rows[i].region # r
    BY <1>1, <1>2, <2>2, <2>4, Facts
  <2> QED
    BY <2>3, <2>4
<1> QED
  BY <1>1, <1>6, <1>8, <1>9, <1>10, ReadsKept DEF IInv, ScanInv

-----------------------------------------------------------------------------
(* The theorems *)

LEMMA InitIInv == Init => IInv
<1> SUFFICES ASSUME Init PROVE IInv
  OBVIOUS
<1>1. /\ list \in [Region -> [Query -> Lists]] /\ rows = [i \in Item |-> NoRow]
      /\ records = [r \in Region |-> "none"] /\ phase = "idle"
      /\ scan = [r \in Region |-> NoScan] /\ unwritten = {} /\ replaced = None
      /\ syncs = 0 /\ changes = 0 /\ before = [r \in Region |-> {}]
      /\ steady = [r \in Region |-> {}] /\ shrunk = {} /\ erred = {} /\ unrecorded = {}
  BY DEF Init
<1>2. Lists \subseteq Seq(Item)
  <2> SUFFICES ASSUME NEW s \in Lists PROVE s \in Seq(Item)
    OBVIOUS
  <2>1. PICK n \in 0..Cardinality(Item) : s \in [1..n -> Item]
    BY DEF Lists
  <2>2. n \in Nat
    OBVIOUS
  <2> QED
    BY <2>1, <2>2
<1>3. list \in [Region -> [Query -> Seq(Item)]]
  BY <1>1, <1>2
<1>4. NoScan \in ScanRecord /\ NoScan.pc = "out"
  BY NumbersFacts DEF NoScan, ScanRecord
<1>5. NoRow \in [region : Region \cup {None}, fresh : BOOLEAN] /\ NoRow.region = None
  BY DEF NoRow
<1>6. syncs \in 0..MaxSyncs /\ changes \in 0..MaxChanges
  BY <1>1, NumbersFacts
<1>7. TypeOK
  BY <1>1, <1>3, <1>4, <1>5, <1>6 DEF TypeOK
<1>8. \A r \in Region : Reads(r) /\ Commits(r) /\ Keeps(r)
  BY <1>1, <1>4 DEF Reads, Commits, Keeps, Written
<1>9. Phases /\ RecordsAgree
  BY <1>1, <1>5 DEF Phases, RecordsAgree, HasRow
<1> QED
  BY <1>7, <1>8, <1>9 DEF IInv, ScanInv

LEMMA NextIInv == IInv /\ [Next]_vars => IInv'
<1> SUFFICES ASSUME IInv, [Next]_vars PROVE IInv'
  OBVIOUS
<1>1. ASSUME NEW r \in Region, NEW q \in Query, NEW i \in Item,
             NEW n \in 0..Len(list[r][q]), Insert(r, q, i, n)
      PROVE  IInv'
  BY <1>1, InsertInv
<1>2. ASSUME NEW r \in Region, NEW q \in Query, NEW n \in DOMAIN list[r][q], Remove(r, q, n)
      PROVE  IInv'
  BY <1>2, RemoveInv
<1>3. ASSUME NEW S \in SUBSET Region, BeginSync(S) PROVE IInv'
  BY <1>3, BeginSyncInv
<1>4. ASSUME NEW r \in Region, RegionStep(r) PROVE IInv'
  <2>1. CASE BeginRegion(r)
    BY <2>1, BeginRegionInv
  <2>2. ASSUME NEW told \in BOOLEAN, PageArrives(r, told) PROVE IInv'
    BY <2>2, PageArrivesInv
  <2>3. ASSUME NEW unsupported \in BOOLEAN, RequestFails(r, unsupported) PROVE IInv'
    BY <2>3, RequestFailsInv
  <2>4. CASE ReplaceResources(r)
    BY <2>4, ReplaceResourcesInv
  <2>5. CASE RecordFailure(r)
    BY <2>5, RecordFailureInv
  <2> QED
    BY <1>4, <2>1, <2>2, <2>3, <2>4, <2>5 DEF RegionStep
<1>5. CASE EndScan \/ RecordSuccess \/ EndSync \/ Abort
  BY <1>5, EndScanInv, RecordSuccessInv, IdleInv
<1>6. CASE UNCHANGED vars
  BY <1>6, StutterInv
<1> QED
  BY <1>1, <1>2, <1>3, <1>4, <1>5, <1>6 DEF Next

\* The inductive invariant holds in every state of the synchronisation.
THEOREM Invariance == Spec => []IInv
<1> QED
  BY InitIInv, NextIInv, PTL DEF Spec

\* Every variable keeps its type, however the lists of the provider change and wherever
\* the scan (ListAllDetailed) and the commits (SyncKind) are.
THEOREM TypeCorrect == Spec => []TypeOK
<1>1. IInv => TypeOK
  BY DEF IInv
<1> QED
  BY <1>1, Invariance, PTL

\* What the provider listed all the time has a row once ListAllDetailed reported a
\* success without a failed request and SyncKind has committed it: for any number of
\* pages, queries and goroutines, and any growth of the lists between two pages.
THEOREM SteadyKept == Spec => []SteadyItemsKept
<1>1. IInv => SteadyItemsKept
  <2> SUFFICES ASSUME IInv, NEW r \in Region, Written(r), Status(r) = "success",
                      r \notin erred \cup shrunk, NEW i \in steady[r]
               PROVE  HasRow(i)
    BY DEF SteadyItemsKept
  <2>1. ~scan[r].incomplete
    BY DEF Status
  <2>2. i \in scan[r].items
    BY <2>1, Facts DEF Reads, Written
  <2> QED
    BY <2>2, Facts DEF Commits, Safe
<1> QED
  BY <1>1, Invariance, PTL

\* SyncKind deletes rows of the regions only that were read with success: a region that
\* failed or was skipped keeps an entry for everything it had.
THEOREM FailedKeeps == Spec => []FailedKeepsRows
<1>1. IInv => FailedKeepsRows
  <2> SUFFICES ASSUME IInv, NEW r \in Region, scan[r].pc = "done", Status(r) # "success",
                      NEW i \in before[r]
               PROVE  HasRow(i)
    BY DEF FailedKeepsRows
  <2>1. rows[i].region = r \/ Safe(i)
    BY Facts DEF Keeps
  <2> QED
    BY <2>1, NoneAssumption DEF Safe, HasRow
<1> QED
  BY <1>1, Invariance, PTL

\* ReplaceResources and RecordRegionSync are two transactions; between them, and after a
\* crash between them, the fresh rows are still those of the regions recorded as a
\* success and of the ones whose record is outstanding.
THEOREM RecordsMatch == Spec => []RecordsAgree
<1>1. IInv => RecordsAgree
  BY DEF IInv
<1> QED
  BY <1>1, Invariance, PTL
=============================================================================
