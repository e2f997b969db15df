----------------------------- MODULE RegionProofs -----------------------------
(***************************************************************************)
(* Proofs about RegionMap: the mutex is one, and an answer was true at some*)
(* moment of its lookup.                                                   *)
(***************************************************************************)
EXTENDS RegionMap, FiniteSetTheorems, WellFoundedInduction, TLAPS

-----------------------------------------------------------------------------
(* The mutex. *)

\* A lookup holds the mutex at these places, and two of one thread hold it twice.
Held == {"rewind", "reset", "line", "store", "count", "first", "begin", "search", "unlock"}
Holding(t, k) == k \in DOMAIN calls[t] /\ calls[t][k].at \in Held
Times(t) == (IF Holding(t, 1) THEN 1 ELSE 0) + (IF Holding(t, 2) THEN 1 ELSE 0)

Owned ==
    /\ \A t \in Threads : Len(calls[t]) <= 2
    /\ \A t \in Threads : IF owner = t THEN depth = Times(t) /\ depth > 0 ELSE Times(t) = 0
    /\ owner = NoOne => depth = 0

-----------------------------------------------------------------------------
(* What a scan has found. *)

\* The lines read, the one that is not counted yet included.
Pending(t) == At(t, "store") \/ At(t, "count")
View(t) == IF Pending(t) THEN [table EXCEPT ![mapNum] = Cur(t).line] ELSE table
Num(t) == IF Pending(t) THEN mapNum + 1 ELSE mapNum

\* The first n entries of a table are readable regions, in the order of their ends.
Rising(tbl, n) ==
    \A i \in 0 .. n - 1 :
        /\ tbl[i] \in Regions /\ tbl[i].opt # "none"
        /\ \A j \in 0 .. i - 1 : tbl[j].end < tbl[i].end

\* Of the entries, those that hold an address were true of it; and it was in no
\* region if it lies below the first entry that ends behind it.
Right(tbl, n, a, T) ==
    \A i \in 0 .. n - 1 :
        /\ Holds(tbl[i], a) => tbl[i] \in T
        /\ a < tbl[i].beg /\ (i # 0 => tbl[i - 1].end <= a) => Empty \in T

Below(tbl, n, a) == n # 0 => tbl[n - 1].end <= a

\* A scan that has got as far as p, and one that has come to the end.
Code == CHOOSE code \in Regions :
            code.opt # "none" /\ \A m \in Layouts : \E i \in DOMAIN m : m[i] = code
Scan(tbl, n, p, a, T) ==
    /\ Rising(tbl, n) /\ Right(tbl, n, a, T)
    /\ \A i \in 0 .. n - 1 : tbl[i].end <= p
    /\ a < p /\ Below(tbl, n, a) => Empty \in T
    /\ Code.end <= p => \E i \in 0 .. n - 1 : tbl[i] = Code
Whole(tbl, n, a, T) ==
    /\ Rising(tbl, n) /\ Right(tbl, n, a, T)
    /\ n # 0 /\ (Below(tbl, n, a) => Empty \in T)

\* The lookups of one thread see one scan; between the rewind and the reset there
\* is nothing to see.
Scanning(t) == At(t, "line") \/ Pending(t)
ScanOk(t, c) ==
  ~At(t, "reset") =>
    IF c.at \in {"line", "store", "count"} \/ Scanning(t)
    THEN Scan(View(t), Num(t), pos, c.addr, c.truth)
    ELSE Whole(table, mapNum, c.addr, c.truth)

SearchOk(c) ==
    /\ Whole(c.seen, c.iMapNum, c.addr, c.truth)
    /\ c.l \in 1 .. c.iMapNum + 1 /\ c.r \in 0 .. c.iMapNum /\ c.l <= c.r + 1
    /\ ~c.stale =>
          /\ \A i \in 0 .. c.l - 1 : i < c.iMapNum => c.seen[i].end <= c.addr
          /\ c.r < c.iMapNum - 1 => c.addr < c.seen[c.r + 1].beg

Told(t, c) ==
    /\ c.at \in {"line", "store", "count", "first", "begin"} => ScanOk(t, c)
    /\ c.at = "begin" => c.line.end <= c.addr
    /\ c.at = "search" => SearchOk(c)
    /\ c.at = "reread" => c.line \in c.truth
    /\ c.at \in {"unlock", "done"} => c.stale \/ c.res \in c.truth

LookupOk(t, c) ==
    /\ Region(maps, c.addr) \in c.truth
    /\ c.at \notin {"unlock", "done"} => c.res = Empty
    /\ c.at = "search" => c.l # 0
    /\ ~c.torn => Told(t, c)

LookupsOk(t) == \A k \in DOMAIN calls[t] : LookupOk(t, calls[t][k])

\* The line a scan has stored, the file it has rewound, and the end of the table.
StoredOk(t) ==
    /\ \A k \in DOMAIN calls[t] : calls[t][k].at \in {"store", "count"} => mapNum < Room
    /\ At(t, "count") /\ ~Cur(t).torn => table[mapNum] = Cur(t).line
    /\ At(t, "reset") /\ ~Cur(t).torn => pos = 0
    /\ Len(calls[t]) = 2 =>
          /\ ~calls[t][2].torn
          /\ calls[t][1].at \in {"reset", "store", "count"} => calls[t][1].torn

RegionInv == TypeOK /\ Owned /\ \A t \in Threads : StoredOk(t) /\ LookupsOk(t)

-----------------------------------------------------------------------------
(* Regions and scans. *)

LEMMA CodeIs ==
    /\ Code \in Regions /\ Code.opt # "none"
    /\ \A m \in Layouts : \E i \in DOMAIN m : m[i] = Code
BY LayoutConstants DEF Code

LEMMA LayoutType ==
    ASSUME NEW m \in Layouts
    PROVE  /\ m \in Seq(Entry) /\ DOMAIN m \subseteq Nat
           /\ \A i \in DOMAIN m : /\ m[i] \in Regions
                                  /\ m[i].beg \in Nat /\ m[i].end \in Nat /\ m[i].beg < m[i].end
           /\ \A i, j \in DOMAIN m : j < i => m[j].end <= m[i].beg
<1>1. m \in Seq(Entry)
  BY RegionConstants
<1>2. \A i \in DOMAIN m : m[i] \in Entry
  BY <1>1
<1> QED BY <1>1, <1>2, LayoutConstants DEF Regions, Entry

LEMMA RegionsType ==
    ASSUME NEW e \in Regions PROVE e \in Entry /\ e.beg \in Nat /\ e.end \in Nat /\ e.beg < e.end
<1>1. PICK m \in Layouts : \E i \in DOMAIN m : e = m[i]
  BY DEF Regions
<1>2. e \in Entry
  BY <1>1, RegionConstants
<1> QED BY <1>1, <1>2, LayoutType

\* An address lies in one region at most.
LEMMA RegionOf ==
    ASSUME NEW m \in Layouts, NEW a \in Nat, NEW i \in DOMAIN m, Holds(m[i], a)
    PROVE  Region(m, a) = IF m[i].opt # "none" THEN m[i] ELSE Empty
<1>1. \A j \in DOMAIN m : Holds(m[j], a) => j = i
  <2> SUFFICES ASSUME NEW j \in DOMAIN m, Holds(m[j], a), j # i PROVE FALSE
    OBVIOUS
  <2>1. i \in Nat /\ j \in Nat
    BY LayoutType
  <2>2. CASE j < i
    BY <2>2, LayoutType DEF Holds
  <2>3. CASE i < j
    BY <2>3, LayoutType DEF Holds
  <2> QED BY <2>1, <2>2, <2>3
<1>2. (CHOOSE j \in DOMAIN m : Holds(m[j], a)) = i
  BY <1>1
<1> QED BY <1>1, <1>2 DEF Region

\* The regions an entry stands for are as many as there are: a table of them is
\* never full.
LEMMA RoomIsLeft ==
    ASSUME NEW tbl \in [0 .. Room -> Entry], NEW n \in 0 .. Room + 1, Rising(tbl, n)
    PROVE  n < Room
<1> SUFFICES ASSUME n >= Room PROVE FALSE
  BY LayoutConstants
<1>1. Room \in Nat /\ IsFiniteSet(Regions) /\ Cardinality(Regions) \in Nat /\ Cardinality(Regions) < Room
  BY LayoutConstants, FS_CardinalityType
<1> DEFINE I == 0 .. Room - 1
           f == [i \in I |-> tbl[i]]
<1>2. IsFiniteSet(I) /\ Cardinality(I) = Room
  <2>1. 0 \in Int /\ Room - 1 \in Int
    BY <1>1
  <2>2. IsFiniteSet(I) /\ Cardinality(I) = IF 0 > Room - 1 THEN 0 ELSE Room - 1 - 0 + 1
    BY <2>1, FS_Interval
  <2> QED BY <1>1, <2>2
<1>3. f \in [I -> Regions]
  BY <1>1 DEF Rising
<1>4. PICK x, y \in I : x # y /\ f[x] = f[y]
  <2> HIDE DEF f, I
  <2> QED BY <1>1, <1>2, <1>3, FS_PigeonHole
<1>5. tbl[x].end < tbl[y].end \/ tbl[y].end < tbl[x].end
  BY <1>1, <1>4 DEF Rising
<1>6. tbl[x] = tbl[y] /\ tbl[x].end \in Nat
  BY <1>1, <1>3, <1>4, RegionsType DEF Rising
<1> QED BY <1>5, <1>6

\* The first line behind a position, and what lies between.
First(m, p, k) == k \in DOMAIN m /\ m[k].end > p /\ \A j \in DOMAIN m : m[j].end > p => k <= j

LEMMA Skipped ==
    ASSUME NEW m \in Layouts, NEW p \in Nat, NEW k, First(m, p, k), NEW a \in Nat, p <= a
    PROVE  /\ a < m[k].beg => Region(m, a) = Empty
           /\ a < m[k].end /\ m[k].opt = "none" => Region(m, a) = Empty
<1>1. ASSUME a < m[k].beg PROVE Region(m, a) = Empty
  <2> SUFFICES ASSUME NEW i \in DOMAIN m, Holds(m[i], a) PROVE FALSE
    BY DEF Region
  <2>1. k <= i
    BY LayoutType DEF First, Holds
  <2>2. m[k].beg <= m[i].beg
    BY <2>1, LayoutType DEF First
  <2> QED BY <1>1, <2>2, LayoutType DEF Holds, First
<1>2. ASSUME m[k].beg <= a, a < m[k].end, m[k].opt = "none" PROVE Region(m, a) = Empty
  BY <1>2, RegionOf DEF Holds, First
<1> QED BY <1>1, <1>2, LayoutType DEF First

\* The region of the code is crossed only by reading it.
LEMMA CodeCrossed ==
    ASSUME NEW m \in Layouts, NEW p \in Nat, NEW k, First(m, p, k), p < Code.end, Code.end <= m[k].end
    PROVE  m[k] = Code
<1>1. PICK i \in DOMAIN m : m[i] = Code
  BY CodeIs
<1>2. k <= i /\ i \in Nat /\ k \in Nat
  BY <1>1, LayoutType DEF First
<1>3. CASE k < i
  BY <1>1, <1>3, LayoutType DEF First
<1> QED BY <1>1, <1>2, <1>3

LEMMA ScanStarts ==
    ASSUME NEW tbl, NEW a \in Nat, NEW T PROVE Scan(tbl, 0, 0, a, T)
<1>1. ~(Code.end <= 0)
  BY CodeIs, RegionsType
<1> QED BY <1>1 DEF Scan, Rising, Right

\* A line of a region that may not be accessed.
LEMMA ScanPasses ==
    ASSUME NEW m \in Layouts, NEW tbl \in [0 .. Room -> Entry], NEW n \in 0 .. Room, NEW p \in Nat,
           NEW a \in Nat, NEW T, Region(m, a) \in T, Scan(tbl, n, p, a, T),
           NEW k, First(m, p, k), m[k].opt = "none"
    PROVE  Scan(tbl, n, m[k].end, a, T)
<1>1. m[k].end \in Nat /\ p < m[k].end
  BY LayoutType DEF First
<1>2. \A i \in 0 .. n - 1 : tbl[i].end <= m[k].end
  <2>1. \A i \in 0 .. n - 1 : tbl[i].end \in Nat /\ tbl[i].end <= p
    BY RegionsType DEF Scan, Rising
  <2> QED BY <1>1, <2>1
<1>3. a < m[k].end /\ Below(tbl, n, a) => Empty \in T
  BY Skipped DEF Scan
<1>4. Code.end <= m[k].end => Code.end <= p
  <2>1. Code.end \in Nat
    BY CodeIs, RegionsType
  <2> QED BY <2>1, CodeCrossed, CodeIs
<1> QED BY <1>2, <1>3, <1>4 DEF Scan

\* A line of a region that may.
LEMMA ScanTakes ==
    ASSUME NEW m \in Layouts, NEW tbl \in [0 .. Room -> Entry], NEW n \in 0 .. Room, NEW p \in Nat,
           NEW a \in Nat, NEW T, Region(m, a) \in T, Scan(tbl, n, p, a, T),
           NEW k, First(m, p, k), m[k].opt # "none"
    PROVE  Scan([tbl EXCEPT ![n] = m[k]], n + 1, m[k].end, a, T)
<1> DEFINE new == [tbl EXCEPT ![n] = m[k]]
<1>1. m[k].end \in Nat /\ p < m[k].end /\ m[k] \in Regions /\ m[k].beg \in Nat
  BY LayoutType DEF First
<1>2. n \in Nat /\ new[n] = m[k] /\ \A i \in 0 .. n - 1 : new[i] = tbl[i]
  BY LayoutConstants
<1>3. \A i \in 0 .. n - 1 : tbl[i].end \in Nat /\ tbl[i].end <= p
  BY RegionsType DEF Scan, Rising
<1>4. \A i \in 0 .. n : i \in 0 .. n - 1 \/ i = n
  BY <1>2
<1> HIDE DEF new
<1>5. Rising(new, n + 1)
  <2> SUFFICES ASSUME NEW i \in 0 .. n
               PROVE  /\ new[i] \in Regions /\ new[i].opt # "none"
                      /\ \A j \in 0 .. i - 1 : new[j].end < new[i].end
    BY <1>2 DEF Rising
  <2>1. CASE i = n
    BY <1>1, <1>2, <1>3, <2>1
  <2>2. CASE i \in 0 .. n - 1
    <3>1. \A j \in 0 .. i - 1 : j \in 0 .. n - 1
      BY <1>2
    <3> QED BY <1>2, <2>2, <3>1 DEF Scan, Rising
  <2> QED BY <1>4, <2>1, <2>2
<1>6. Right(new, n + 1, a, T)
  <2> SUFFICES ASSUME NEW i \in 0 .. n
               PROVE  /\ Holds(new[i], a) => new[i] \in T
                      /\ a < new[i].beg /\ (i # 0 => new[i - 1].end <= a) => Empty \in T
    BY <1>2 DEF Right
  <2>1. CASE i = n
    <3>1. Holds(m[k], a) => m[k] \in T
      BY RegionOf DEF First
    <3>2. a < m[k].beg /\ p <= a => Empty \in T
      BY Skipped
    <3>3. a < p /\ a < m[k].beg /\ (n # 0 => tbl[n - 1].end <= a) => Empty \in T
      BY DEF Scan, Below
    <3>4. n # 0 => new[n - 1] = tbl[n - 1]
      BY <1>2
    <3> QED BY <1>1, <1>2, <2>1, <3>1, <3>2, <3>3, <3>4
  <2>2. CASE i \in 0 .. n - 1
    <3>1. i # 0 => i - 1 \in 0 .. n - 1
      BY <2>2
    <3> QED BY <1>2, <2>2, <3>1 DEF Scan, Right
  <2> QED BY <1>4, <2>1, <2>2
<1>7. \A i \in 0 .. n : new[i].end <= m[k].end
  BY <1>1, <1>2, <1>3, <1>4
<1>8. ~(a < m[k].end /\ Below(new, n + 1, a))
  <2>1. n + 1 # 0 /\ n + 1 - 1 = n
    BY <1>2
  <2> QED BY <1>1, <1>2, <2>1 DEF Below
<1>9. Code.end <= m[k].end => \E i \in 0 .. n : new[i] = Code
  <2>1. Code.end \in Nat
    BY CodeIs, RegionsType
  <2>2. CASE Code.end <= p
    <3>1. PICK i \in 0 .. n - 1 : tbl[i] = Code
      BY <2>2 DEF Scan
    <3> QED BY <1>2, <3>1
  <2>3. CASE p < Code.end
    BY <1>2, <2>3, CodeCrossed
  <2> QED BY <2>1, <2>2, <2>3
<1>10. n + 1 - 1 = n
  BY <1>2
<1> QED BY <1>5, <1>6, <1>7, <1>8, <1>9, <1>10 DEF Scan, new

\* The end of the file.
LEMMA ScanEnds ==
    ASSUME NEW m \in Layouts, NEW tbl \in [0 .. Room -> Entry], NEW n \in 0 .. Room, NEW p \in Nat,
           NEW a \in Nat, NEW T, Region(m, a) \in T, Scan(tbl, n, p, a, T),
           \A i \in DOMAIN m : ~(m[i].end > p)
    PROVE  Whole(tbl, n, a, T)
<1>1. p <= a => Region(m, a) = Empty
  <2> SUFFICES ASSUME p <= a, NEW i \in DOMAIN m, Holds(m[i], a) PROVE FALSE
    BY DEF Region
  <2> QED BY LayoutType DEF Holds
<1>2. Code.end <= p
  <2>1. PICK i \in DOMAIN m : m[i] = Code
    BY CodeIs
  <2> QED BY <2>1, LayoutType
<1>3. n # 0
  <2>1. PICK i \in 0 .. n - 1 : tbl[i] = Code
    BY <1>2 DEF Scan
  <2> QED BY <2>1
<1> QED BY <1>1, <1>3 DEF Scan, Whole

\* What was true once stays so.
LEMMA MoreTruth ==
    ASSUME NEW tbl, NEW n, NEW p, NEW a, NEW T, NEW U, T \subseteq U
    PROVE  /\ Scan(tbl, n, p, a, T) => Scan(tbl, n, p, a, U)
           /\ Whole(tbl, n, a, T) => Whole(tbl, n, a, U)
BY DEF Scan, Whole, Right

-----------------------------------------------------------------------------
(* The lookup of a thread that takes a step, and those that do not. *)

\* Only the last lookup of t may have changed.
Moved(t) ==
    /\ calls' \in [Threads -> Seq(Lookup)]
    /\ Len(calls'[t]) = Len(calls[t]) /\ calls[t] # <<>> /\ calls'[t] # <<>>
    /\ \A u \in Threads \ {t} : calls'[u] = calls[u]
    /\ \A k \in DOMAIN calls[t] : k # Len(calls[t]) => calls'[t][k] = calls[t][k]

LEMMA TopIs ==
    ASSUME TypeOK, Owned, NEW t \in Threads, calls[t] # <<>>
    PROVE  /\ Len(calls[t]) \in {1, 2} /\ DOMAIN calls[t] = 1 .. Len(calls[t])
           /\ Len(calls[t]) \in DOMAIN calls[t] /\ Cur(t) \in Lookup
           /\ \A k \in DOMAIN calls[t] : calls[t][k] \in Lookup
<1>1. calls[t] \in Seq(Lookup)
  BY DEF TypeOK
<1>2. Len(calls[t]) \in Nat /\ Len(calls[t]) # 0 /\ Len(calls[t]) <= 2
  BY <1>1 DEF Owned
<1>3. Len(calls[t]) \in {1, 2}
  <2>1. \A n \in Nat : n # 0 /\ n <= 2 => n \in {1, 2}
    OBVIOUS
  <2> QED BY <1>2, <2>1
<1>4. DOMAIN calls[t] = 1 .. Len(calls[t]) /\ \A k \in 1 .. Len(calls[t]) : calls[t][k] \in Lookup
  BY <1>1
<1>5. Len(calls[t]) \in 1 .. Len(calls[t])
  BY <1>2
<1> QED BY <1>3, <1>4, <1>5 DEF Cur

LEMMA SetTop ==
    ASSUME TypeOK, Owned, NEW t \in Threads, calls[t] # <<>>, NEW c \in Lookup, Set(t, c)
    PROVE  Moved(t) /\ Cur(t)' = c
<1>1. calls \in [Threads -> Seq(Lookup)] /\ calls[t] \in Seq(Lookup)
  BY DEF TypeOK
<1>2. calls' = [calls EXCEPT ![t] = [calls[t] EXCEPT ![Len(calls[t])] = c]]
  BY DEF Set
<1>3. PICK s : s = [calls[t] EXCEPT ![Len(calls[t])] = c]
  OBVIOUS
<1>4. /\ s \in Seq(Lookup) /\ Len(s) = Len(calls[t]) /\ s[Len(calls[t])] = c
      /\ \A k \in DOMAIN calls[t] : k # Len(calls[t]) => s[k] = calls[t][k]
      /\ s # <<>>
  BY <1>1, <1>3, TopIs
<1>5. calls' = [calls EXCEPT ![t] = s]
  BY <1>2, <1>3
<1> QED BY <1>1, <1>4, <1>5 DEF Moved, Cur

\* Who holds the mutex is its owner.
LEMMA OwnerIs ==
    ASSUME TypeOK, Owned, NEW t \in Threads, calls[t] # <<>>, Cur(t).at \in Held
    PROVE  owner = t /\ depth = Times(t) /\ depth \in {1, 2}
<1>1. Holding(t, Len(calls[t]))
  BY TopIs DEF Holding, Cur
<1>2. Times(t) \in {1, 2}
  BY <1>1, TopIs DEF Times
<1> QED BY <1>2 DEF Owned

LEMMA OthersKept ==
    ASSUME RegionInv, NEW t \in Threads, NEW u \in Threads \ {t}, calls'[u] = calls[u], UNCHANGED maps,
           UNCHANGED <<table, mapNum, pos>> \/ owner = t
    PROVE  StoredOk(u)' /\ LookupsOk(u)'
<1>1. calls[u] = <<>> \/ calls[u] # <<>>
  OBVIOUS
<1>2. CASE UNCHANGED <<table, mapNum, pos>>
  <2>1. StoredOk(u)'
    BY <1>2 DEF RegionInv, StoredOk, At, Cur
  <2>2. ASSUME NEW k \in DOMAIN calls[u] PROVE LookupOk(u, calls[u][k])'
    BY <1>2, <2>2 DEF RegionInv, LookupsOk, LookupOk, Told, ScanOk, View, Num, Pending, Scanning, At, Cur
  <2> QED BY <2>1, <2>2 DEF LookupsOk
<1>3. CASE owner = t
  <2>1. \A k \in DOMAIN calls[u] : calls[u][k].at \notin Held
    <3> SUFFICES ASSUME NEW k \in DOMAIN calls[u], calls[u][k].at \in Held PROVE FALSE
      OBVIOUS
    <3>1. Times(u) = 0
      BY <1>3 DEF RegionInv, Owned
    <3>2. calls[u] # <<>> /\ k \in {1, 2}
      <4>1. calls[u] \in Seq(Lookup) /\ Len(calls[u]) <= 2 /\ Len(calls[u]) \in Nat
        BY DEF RegionInv, TypeOK, Owned
      <4>2. k \in 1 .. Len(calls[u])
        BY <4>1
      <4> QED BY <4>1, <4>2
    <3> QED BY <3>1, <3>2 DEF Times, Holding
  <2>2. calls[u] # <<>> => Cur(u).at \notin Held
    BY <2>1, TopIs DEF RegionInv, Cur
  <2>3. StoredOk(u)'
    BY <2>1, <2>2 DEF RegionInv, StoredOk, At, Cur, Held
  <2>4. ASSUME NEW k \in DOMAIN calls[u] PROVE LookupOk(u, calls[u][k])'
    BY <2>1 DEF RegionInv, LookupsOk, LookupOk, Told, Held
  <2> QED BY <2>3, <2>4 DEF LookupsOk
<1> QED BY <1>2, <1>3

\* The lookup a handler has interrupted.
LEMMA LowerKept ==
    ASSUME RegionInv, NEW t \in Threads, Moved(t), UNCHANGED maps,
           NEW k \in DOMAIN calls[t], k # Len(calls[t]),
           calls[t][k].at \in {"line", "first", "begin"} /\ ~calls[t][k].torn => ScanOk(t, calls[t][k])'
    PROVE  LookupOk(t, calls[t][k])'
<1>1. k = 1 /\ Len(calls[t]) = 2
  BY TopIs DEF RegionInv, Moved
<1>2. calls'[t][k] = calls[t][k]
  BY DEF Moved
<1>3. calls[t][k].at \in {"store", "count"} => calls[t][k].torn
  BY <1>1 DEF RegionInv, StoredOk
<1>4. LookupOk(t, calls[t][k])
  BY DEF RegionInv, LookupsOk
<1> QED BY <1>2, <1>3, <1>4 DEF LookupOk, Told

LEMMA LookupsKept ==
    ASSUME RegionInv, NEW t \in Threads, Moved(t), LookupOk(t, Cur(t))',
           \A k \in DOMAIN calls[t] : k # Len(calls[t]) => LookupOk(t, calls[t][k])'
    PROVE  LookupsOk(t)'
<1>1. Len(calls'[t]) = Len(calls[t]) /\ DOMAIN calls'[t] = DOMAIN calls[t]
  <2>1. calls[t] \in Seq(Lookup) /\ calls'[t] \in Seq(Lookup)
    BY DEF RegionInv, TypeOK, Moved
  <2> QED BY <2>1 DEF Moved
<1> QED BY <1>1 DEF LookupsOk, Cur

-----------------------------------------------------------------------------
(* The mutex is taken and given back. *)

LEMMA TimesMoved ==
    ASSUME TypeOK, Owned, NEW t \in Threads, Moved(t)
    PROVE  /\ \A u \in Threads \ {t} : Times(u)' = Times(u)
           /\ Times(t)' = Times(t) + (IF Cur(t)'.at \in Held THEN 1 ELSE 0)
                                   - (IF Cur(t).at \in Held THEN 1 ELSE 0)
<1>1. Len(calls[t]) \in {1, 2} /\ DOMAIN calls[t] = 1 .. Len(calls[t])
  BY TopIs DEF Moved
<1>2. Len(calls'[t]) = Len(calls[t]) /\ DOMAIN calls'[t] = DOMAIN calls[t]
  <2>1. calls[t] \in Seq(Lookup) /\ calls'[t] \in Seq(Lookup)
    BY DEF TypeOK, Moved
  <2> QED BY <2>1 DEF Moved
<1>3. CASE Len(calls[t]) = 1
  <2>1. 1 \in DOMAIN calls[t] /\ 2 \notin DOMAIN calls[t]
    BY <1>1, <1>3
  <2> QED BY <1>2, <1>3, <2>1 DEF Times, Holding, Cur, Moved
<1>4. CASE Len(calls[t]) = 2
  <2>1. 1 \in DOMAIN calls[t] /\ 2 \in DOMAIN calls[t] /\ calls'[t][1] = calls[t][1]
    BY <1>1, <1>4 DEF Moved
  <2> QED BY <1>2, <1>4, <2>1 DEF Times, Holding, Cur, Moved
<1> QED BY <1>1, <1>3, <1>4

LEMMA LengthsKept ==
    ASSUME TypeOK, Owned, NEW t \in Threads, Moved(t) PROVE \A u \in Threads : Len(calls'[u]) <= 2
BY DEF Owned, Moved

LEMMA OwnedKept ==
    ASSUME TypeOK, Owned, NEW t \in Threads, Moved(t), UNCHANGED <<owner, depth>>,
           Cur(t).at \in Held <=> Cur(t)'.at \in Held
    PROVE  Owned'
<1>1. \A u \in Threads : Times(u) \in Nat
  BY DEF Times
<1>2. Times(t)' = Times(t)
  BY <1>1, TimesMoved
<1> QED BY <1>2, TimesMoved, LengthsKept DEF Owned

LEMMA OwnedTaken ==
    ASSUME TypeOK, Owned, NEW t \in Threads, Moved(t), owner \in {NoOne, t}, owner' = t, depth' = depth + 1,
           Cur(t).at \notin Held, Cur(t)'.at \in Held
    PROVE  Owned'
<1>1. \A u \in Threads : Times(u) \in Nat
  BY DEF Times
<1>2. Times(t)' = Times(t) + 1
  BY <1>1, TimesMoved
<1>3. depth = Times(t) /\ depth \in Nat
  BY <1>1, RegionConstants DEF Owned
<1>4. \A u \in Threads \ {t} : Times(u)' = 0
  BY TimesMoved, RegionConstants DEF Owned
<1> QED BY <1>1, <1>2, <1>3, <1>4, RegionConstants, LengthsKept DEF Owned

LEMMA OwnedGiven ==
    ASSUME TypeOK, Owned, NEW t \in Threads, Moved(t), Unlock,
           Cur(t).at \in Held, Cur(t)'.at \notin Held
    PROVE  Owned'
<1>1. \A u \in Threads : Times(u) \in Nat
  BY DEF Times
<1>2. Times(t)' = Times(t) - 1
  BY <1>1, TimesMoved
<1>3. owner = t /\ depth = Times(t) /\ depth \in {1, 2}
  BY OwnerIs DEF Moved
<1>4. \A u \in Threads \ {t} : Times(u)' = 0
  BY <1>3, TimesMoved DEF Owned
<1>5. depth' = depth - 1 /\ owner' = IF depth = 1 THEN NoOne ELSE owner
  BY DEF Unlock
<1> QED BY <1>2, <1>3, <1>4, <1>5, RegionConstants, LengthsKept DEF Owned

-----------------------------------------------------------------------------
(* Steps outside the scan. *)

Quiet == {"lock", "first", "begin", "search", "reread", "unlock", "done"}

\* Steps that leave the table and the file alone, of a lookup that is not scanning.
LEMMA QuietStep ==
    ASSUME RegionInv, NEW t \in Threads, Moved(t), UNCHANGED <<maps, table, mapNum, pos>>,
           Cur(t).at \in Quiet \cup {"rewind"}, Cur(t)'.at \in Quiet \cup {"rewind"},
           Cur(t)'.torn = Cur(t).torn,
           LookupOk(t, Cur(t))'
    PROVE  \A u \in Threads : StoredOk(u)' /\ LookupsOk(u)'
<1>1. \A u \in Threads \ {t} : StoredOk(u)' /\ LookupsOk(u)'
  BY OthersKept DEF Moved
<1>2. /\ ~Scanning(t) /\ ~Scanning(t)' /\ ~Pending(t) /\ ~Pending(t)'
      /\ ~At(t, "reset") /\ ~At(t, "reset")'
  BY DEF Scanning, Pending, At, Quiet
<1>3. ASSUME NEW k \in DOMAIN calls[t], k # Len(calls[t]) PROVE LookupOk(t, calls[t][k])'
  <2>1. calls'[t][k] = calls[t][k] /\ LookupOk(t, calls[t][k])
    BY <1>3 DEF Moved, RegionInv, LookupsOk
  <2>2. calls[t][k].at \in {"line", "first", "begin"} /\ ~calls[t][k].torn => ScanOk(t, calls[t][k])'
    BY <1>2, <2>1 DEF LookupOk, Told, ScanOk, View, Num
  <2> QED BY <1>3, <2>2, LowerKept
<1>4. LookupsOk(t)'
  BY <1>3, LookupsKept
<1>5. StoredOk(t)'
  <2>1. Len(calls'[t]) = Len(calls[t]) /\ DOMAIN calls'[t] = DOMAIN calls[t]
    <3>1. calls[t] \in Seq(Lookup) /\ calls'[t] \in Seq(Lookup)
      BY DEF RegionInv, TypeOK, Moved
    <3> QED BY <3>1 DEF Moved
  <2>2. \A k \in DOMAIN calls[t] : k # Len(calls[t]) => calls'[t][k] = calls[t][k]
    BY DEF Moved
  <2>3. calls'[t][Len(calls[t])] = Cur(t)' /\ calls[t][Len(calls[t])] = Cur(t)
    BY <2>1 DEF Cur
  <2> QED BY <1>2, <2>1, <2>2, <2>3 DEF RegionInv, StoredOk, Pending, Quiet
<1> QED BY <1>1, <1>4, <1>5

\* The lookup of t goes on as c.
LEMMA QuietTop ==
    ASSUME RegionInv, NEW t \in Threads, UNCHANGED <<maps, table, mapNum, pos>>,
           calls[t] # <<>>, Cur(t).at \in Quiet \cup {"rewind"}, NEW c \in Lookup, Set(t, c),
           c.at \in Quiet \cup {"rewind"}, c.torn = Cur(t).torn, c.addr = Cur(t).addr, c.truth = Cur(t).truth,
           c.at \notin {"unlock", "done"} => c.res = Empty, c.at = "search" => c.l # 0,
           ~c.torn /\ Told(t, Cur(t)) =>
              /\ c.at \in {"first", "begin"} => Whole(table, mapNum, c.addr, c.truth)
              /\ c.at = "begin" => c.line.end <= c.addr
              /\ c.at = "search" => SearchOk(c)
              /\ c.at = "reread" => c.line \in c.truth
              /\ c.at \in {"unlock", "done"} => c.stale \/ c.res \in c.truth
    PROVE  \A u \in Threads : StoredOk(u)' /\ LookupsOk(u)'
<1>1. Moved(t) /\ Cur(t)' = c
  BY SetTop DEF RegionInv
<1>2. LookupOk(t, Cur(t))
  BY TopIs DEF RegionInv, LookupsOk, Cur
<1>3. ~Scanning(t)' /\ ~At(t, "reset")'
  BY <1>1 DEF Scanning, Pending, At, Quiet
<1>4. LookupOk(t, c)'
  BY <1>2, <1>3 DEF LookupOk, Told, ScanOk, Quiet
<1> QED BY <1>1, <1>4, QuietStep

LEMMA LockStep ==
    ASSUME RegionInv, NEW t \in Threads, Lock(t) PROVE RegionInv'
<1>1. calls[t] # <<>> /\ Cur(t).at = "lock" /\ Cur(t) \in Lookup /\ TypeOK /\ Owned
  BY TopIs DEF Lock, At, RegionInv
<1>2. PICK c : c = [Cur(t) EXCEPT !.at = "rewind"]
  OBVIOUS
<1>3. /\ c \in Lookup /\ c.at = "rewind" /\ c.res = Cur(t).res
      /\ c.torn = Cur(t).torn /\ c.addr = Cur(t).addr /\ c.truth = Cur(t).truth
  BY <1>1, <1>2 DEF Lookup
<1>4. Set(t, c)
  BY <1>2 DEF Lock, Goto
<1>5. Moved(t) /\ Cur(t)' = c
  BY <1>1, <1>3, <1>4, SetTop
<1>6. Owned'
  BY <1>1, <1>3, <1>5, OwnedTaken DEF Lock, Held
<1>7. TypeOK'
  BY <1>1, <1>5 DEF TypeOK, Lock, Moved
<1>8. \A u \in Threads : StoredOk(u)' /\ LookupsOk(u)'
  <2>1. Cur(t).res = Empty
    BY <1>1, TopIs DEF RegionInv, LookupsOk, LookupOk, Cur
  <2> QED BY <1>1, <1>3, <1>4, <2>1, QuietTop DEF Lock, Quiet
<1> QED BY <1>6, <1>7, <1>8 DEF RegionInv

LEMMA RereadStep ==
    ASSUME RegionInv, NEW t \in Threads, RereadFirst(t) PROVE RegionInv'
<1>1. calls[t] # <<>> /\ Cur(t).at = "reread" /\ Cur(t) \in Lookup /\ TypeOK /\ Owned
  BY TopIs DEF RereadFirst, At, RegionInv
<1>2. PICK c : c = [Cur(t) EXCEPT !.res = table[0], !.stale = table[0] # Cur(t).line,
                                  !.line = Empty, !.at = "done"]
  OBVIOUS
<1>3. table[0] \in Entry /\ Empty \in Entry
  BY <1>1, LayoutConstants DEF TypeOK, Empty, Entry, Opts
<1>4. /\ c \in Lookup /\ c.at = "done" /\ c.res = table[0] /\ c.stale = (table[0] # Cur(t).line)
      /\ c.torn = Cur(t).torn /\ c.addr = Cur(t).addr /\ c.truth = Cur(t).truth
  BY <1>1, <1>2, <1>3 DEF Lookup
<1>5. Set(t, c)
  BY <1>2 DEF RereadFirst
<1>6. Moved(t) /\ Cur(t)' = c
  BY <1>1, <1>4, <1>5, SetTop
<1>7. Owned'
  BY <1>1, <1>4, <1>6, OwnedKept DEF RereadFirst, Held
<1>8. TypeOK'
  BY <1>1, <1>6 DEF TypeOK, RereadFirst, Moved
<1>9. \A u \in Threads : StoredOk(u)' /\ LookupsOk(u)'
  <2>1. Told(t, Cur(t)) => c.stale \/ c.res \in c.truth
    BY <1>1, <1>4 DEF Told
  <2> QED BY <1>1, <1>4, <1>5, <2>1, QuietTop DEF RereadFirst, Quiet
<1> QED BY <1>7, <1>8, <1>9 DEF RegionInv

\* What an untorn lookup has before and while it searches.
LEMMA TopWhole ==
    ASSUME RegionInv, NEW t \in Threads, calls[t] # <<>>, Cur(t).at \in {"first", "begin"},
           ~Cur(t).torn
    PROVE  Whole(table, mapNum, Cur(t).addr, Cur(t).truth)
<1>1. LookupOk(t, Cur(t))
  BY TopIs DEF RegionInv, LookupsOk, Cur
<1>2. ~Scanning(t) /\ ~At(t, "reset")
  BY DEF Scanning, Pending, At
<1> QED BY <1>1, <1>2 DEF LookupOk, Told, ScanOk

LEMMA TryFirstStep ==
    ASSUME RegionInv, NEW t \in Threads, TryFirst(t) PROVE RegionInv'
<1>1. calls[t] # <<>> /\ Cur(t).at = "first" /\ Cur(t) \in Lookup /\ TypeOK /\ Owned
  BY TopIs DEF TryFirst, At, RegionInv
<1>2. /\ table[0] \in Entry /\ table[0].beg \in Nat /\ table[0].end \in Nat
      /\ Cur(t).addr \in Nat /\ mapNum \in Nat
  <2>1. Cur(t).addr \in Nat
    BY <1>1 DEF Lookup
  <2>2. 0 \in 0 .. Room /\ table \in [0 .. Room -> Entry] /\ mapNum \in Nat
    BY <1>1, LayoutConstants DEF TypeOK
  <2>3. table[0] \in Entry
    BY <2>2
  <2> QED BY <2>1, <2>2, <2>3 DEF Entry
<1>3. PICK l : l = IF ~(Cur(t).addr < table[0].end) THEN "begin"
                   ELSE IF Cur(t).addr >= table[0].beg THEN "reread" ELSE "done"
  OBVIOUS
<1>4. PICK c : c = [Cur(t) EXCEPT !.at = l, !.line = table[0]]
  OBVIOUS
<1>5. /\ c \in Lookup /\ c.at = l /\ c.line = table[0] /\ c.res = Cur(t).res
      /\ c.torn = Cur(t).torn /\ c.addr = Cur(t).addr /\ c.truth = Cur(t).truth
  BY <1>1, <1>2, <1>3, <1>4 DEF Lookup
<1>6. Set(t, c)
  BY <1>3, <1>4 DEF TryFirst
<1>7. Moved(t) /\ Cur(t)' = c
  BY <1>1, <1>5, <1>6, SetTop
<1>8. Owned'
  <2>1. CASE Cur(t).addr < table[0].end
    <3>1. Unlock /\ l \in {"reread", "done"}
      BY <1>3, <2>1 DEF TryFirst
    <3> QED BY <1>1, <1>5, <1>7, <3>1, OwnedGiven DEF Held
  <2>2. CASE ~(Cur(t).addr < table[0].end)
    <3>1. l = "begin" /\ UNCHANGED <<owner, depth>>
      BY <1>3, <2>2 DEF TryFirst
    <3> QED BY <1>1, <1>5, <1>7, <3>1, OwnedKept DEF Held
  <2> QED BY <2>1, <2>2
<1>9. TypeOK'
  <2>1. owner' \in Threads \cup {NoOne} /\ depth' \in Nat
    BY <1>1, OwnerIs DEF TryFirst, Unlock, TypeOK, Held
  <2> QED BY <1>1, <1>7, <2>1 DEF TypeOK, TryFirst, Moved
<1>10. \A u \in Threads : StoredOk(u)' /\ LookupsOk(u)'
  <2>1. Cur(t).res = Empty
    BY <1>1, TopIs DEF RegionInv, LookupsOk, LookupOk, Cur
  <2>2. ASSUME ~c.torn
        PROVE  /\ c.at = "begin" => Whole(table, mapNum, c.addr, c.truth) /\ c.line.end <= c.addr
               /\ c.at = "reread" => c.line \in c.truth
               /\ c.at = "done" => c.res \in c.truth
    <3>1. Whole(table, mapNum, c.addr, c.truth)
      BY <1>1, <1>5, <2>2, TopWhole
    <3>2. 0 \in 0 .. mapNum - 1
      BY <1>2, <3>1 DEF Whole
    <3>3. /\ Holds(table[0], c.addr) => table[0] \in c.truth
          /\ c.addr < table[0].beg => Empty \in c.truth
      BY <3>1, <3>2 DEF Whole, Right
    <3> QED BY <1>2, <1>3, <1>5, <2>1, <3>1, <3>3 DEF Holds
  <2>3. c.at \in {"begin", "reread", "done"}
    BY <1>3, <1>5
  <2> QED BY <1>1, <1>5, <1>6, <2>1, <2>2, <2>3, QuietTop DEF TryFirst, Quiet
<1> QED BY <1>8, <1>9, <1>10 DEF RegionInv

-----------------------------------------------------------------------------
(* The binary search. *)

LEMMA BeginStep ==
    ASSUME RegionInv, NEW t \in Threads, BeginSearch(t) PROVE RegionInv'
<1>1. calls[t] # <<>> /\ Cur(t).at = "begin" /\ Cur(t) \in Lookup /\ TypeOK /\ Owned
  BY TopIs DEF BeginSearch, At, RegionInv
<1>2. PICK c : c = [Cur(t) EXCEPT !.l = 1, !.r = mapNum, !.iMapNum = mapNum, !.seen = table,
                                  !.stale = table[0] # Cur(t).line, !.line = Empty, !.at = "search"]
  OBVIOUS
<1>3. /\ table \in [0 .. Room -> Entry] /\ mapNum \in 0 .. Room /\ mapNum \in Nat
      /\ Empty \in Entry /\ 1 \in 0 .. Room + 1 /\ Cur(t).addr \in Nat
  <2>1. Empty \in Entry
    BY DEF Empty, Entry, Opts
  <2>2. Cur(t).addr \in Nat
    BY <1>1 DEF Lookup
  <2> QED BY <1>1, <2>1, <2>2, LayoutConstants DEF TypeOK
<1>4. /\ c \in Lookup /\ c.at = "search" /\ c.res = Cur(t).res /\ c.l = 1 /\ c.r = mapNum
      /\ c.iMapNum = mapNum /\ c.seen = table /\ c.stale = (table[0] # Cur(t).line)
      /\ c.torn = Cur(t).torn /\ c.addr = Cur(t).addr /\ c.truth = Cur(t).truth
  BY <1>1, <1>2, <1>3 DEF Lookup
<1>5. Set(t, c)
  BY <1>2 DEF BeginSearch
<1>6. Moved(t) /\ Cur(t)' = c
  BY <1>1, <1>4, <1>5, SetTop
<1>7. Owned'
  BY <1>1, <1>4, <1>6, OwnedKept DEF BeginSearch, Held
<1>8. TypeOK'
  BY <1>1, <1>6 DEF TypeOK, BeginSearch, Moved
<1>9. \A u \in Threads : StoredOk(u)' /\ LookupsOk(u)'
  <2>1. Cur(t).res = Empty
    BY <1>1, TopIs DEF RegionInv, LookupsOk, LookupOk, Cur
  <2>2. ASSUME ~c.torn, Told(t, Cur(t)) PROVE SearchOk(c)
    <3>1. Whole(c.seen, c.iMapNum, c.addr, c.truth)
      BY <1>1, <1>4, <2>2, TopWhole
    <3>2. ~c.stale => c.seen[0].end <= c.addr
      BY <1>1, <1>4, <2>2 DEF Told
    <3>3. \A i \in 0 .. c.l - 1 : i = 0
      BY <1>4
    <3>4. ~(c.r < c.iMapNum - 1) /\ c.l \in 1 .. c.iMapNum + 1 /\ c.r \in 0 .. c.iMapNum /\ c.l <= c.r + 1
      BY <1>3, <1>4
    <3> QED BY <3>1, <3>2, <3>3, <3>4 DEF SearchOk
  <2> QED BY <1>1, <1>4, <1>5, <2>1, <2>2, QuietTop DEF BeginSearch, Quiet
<1> QED BY <1>7, <1>8, <1>9 DEF RegionInv

\* A probe of c.seen at m, between l and r.
LEMMA Probed ==
    ASSUME NEW c \in Lookup, SearchOk(c), ~c.stale, NEW m \in c.l .. c.r,
           m = c.iMapNum => c.l = c.iMapNum
    PROVE  /\ m # c.iMapNum /\ Holds(c.seen[m], c.addr) => c.seen[m] \in c.truth
           /\ m # c.iMapNum => c.seen[m].end \in Nat
           /\ (m # c.iMapNum => c.seen[m].end <= c.addr) =>
                 \A i \in 0 .. m : i < c.iMapNum => c.seen[i].end <= c.addr
<1>1. c.l \in Nat /\ c.r \in Nat /\ c.iMapNum \in Nat /\ c.addr \in Nat /\ c.l # 0 /\ c.r <= c.iMapNum
  <2>1. c.iMapNum \in Nat /\ c.addr \in Nat
    BY LayoutConstants DEF Lookup
  <2> QED BY <2>1 DEF SearchOk
<1>2. Rising(c.seen, c.iMapNum) /\ Right(c.seen, c.iMapNum, c.addr, c.truth)
  BY DEF SearchOk, Whole
<1>3. m \in Nat /\ c.l <= m /\ m <= c.iMapNum
  BY <1>1
<1>4. \A i \in 0 .. c.iMapNum - 1 : c.seen[i].end \in Nat
  BY <1>2, RegionsType DEF Rising
<1>5. CASE m # c.iMapNum
  <2>1. m \in 0 .. c.iMapNum - 1
    BY <1>1, <1>3, <1>5
  <2>2. \A i \in 0 .. m : i \in 0 .. c.iMapNum - 1
    BY <1>1, <2>1
  <2>3. \A i \in 0 .. m - 1 : c.seen[i].end < c.seen[m].end
    BY <1>2, <2>1 DEF Rising
  <2>4. \A i \in 0 .. m : i = m \/ i \in 0 .. m - 1
    BY <1>3
  <2>5. \A i \in 0 .. m : c.seen[m].end <= c.addr => c.seen[i].end <= c.addr
    BY <1>1, <1>4, <2>1, <2>2, <2>3, <2>4
  <2> QED BY <1>2, <1>4, <1>5, <2>1, <2>5 DEF Right
<1>6. CASE m = c.iMapNum
  <2>1. \A i \in 0 .. m : i < c.iMapNum => i \in 0 .. c.l - 1
    BY <1>1, <1>6
  <2> QED BY <1>6, <2>1 DEF SearchOk
<1> QED BY <1>5, <1>6

\* A search that has run out of entries.
LEMMA NotFound ==
    ASSUME NEW c \in Lookup, SearchOk(c), ~c.stale, c.l > c.r
    PROVE  Empty \in c.truth
<1>1. c.l \in Nat /\ c.r \in Nat /\ c.iMapNum \in Nat /\ c.l = c.r + 1 /\ c.iMapNum # 0
  <2>1. c.iMapNum \in Nat
    BY LayoutConstants DEF Lookup
  <2> QED BY <2>1 DEF SearchOk, Whole
<1>2. \A i \in 0 .. c.r : i < c.iMapNum => c.seen[i].end <= c.addr
  BY <1>1 DEF SearchOk
<1>3. CASE c.r < c.iMapNum - 1
  <2>1. c.addr < c.seen[c.r + 1].beg
    BY <1>3 DEF SearchOk
  <2>2. c.r + 1 \in 0 .. c.iMapNum - 1 /\ c.r + 1 - 1 = c.r /\ c.seen[c.r].end <= c.addr
    BY <1>1, <1>2, <1>3
  <2> QED BY <2>1, <2>2 DEF SearchOk, Whole, Right
<1>4. CASE ~(c.r < c.iMapNum - 1)
  <2>1. c.iMapNum - 1 \in 0 .. c.r /\ c.iMapNum - 1 < c.iMapNum
    BY <1>1, <1>4
  <2> QED BY <1>2, <2>1 DEF SearchOk, Whole, Below
<1> QED BY <1>3, <1>4

LEMMA ProbeStep ==
    ASSUME RegionInv, NEW t \in Threads, Probe(t) PROVE RegionInv'
<1>1. /\ calls[t] # <<>> /\ Cur(t).at = "search" /\ Cur(t).l <= Cur(t).r
      /\ Cur(t) \in Lookup /\ TypeOK /\ Owned
  BY TopIs DEF Probe, At, RegionInv
<1>2. LookupOk(t, Cur(t))
  BY <1>1, TopIs DEF RegionInv, LookupsOk, Cur
<1>3. /\ Cur(t).l \in Nat /\ Cur(t).r \in Nat /\ Cur(t).l # 0 /\ Cur(t).iMapNum \in Nat
      /\ Cur(t).addr \in Nat /\ Cur(t).r <= Room /\ Room \in Nat
  <2>1. Cur(t).addr \in Nat
    BY <1>1 DEF Lookup
  <2>2. Cur(t).l \in 0 .. Room + 1 /\ Cur(t).r \in 0 .. Room /\ Cur(t).iMapNum \in 0 .. Room
    BY <1>1 DEF Lookup
  <2> QED BY <1>1, <1>2, <2>1, <2>2, LayoutConstants DEF LookupOk
<1>4. PICK m : m = (Cur(t).l + Cur(t).r) \div 2
  OBVIOUS
<1>5. /\ m \in Cur(t).l .. Cur(t).r /\ m - 1 \in 0 .. Room /\ m + 1 \in 0 .. Room + 1 /\ m \in 0 .. Room
      /\ m \in Nat
  BY <1>1, <1>3, <1>4
<1>6. table[m] \in Entry /\ table[m].beg \in Nat /\ table[m].end \in Nat
  <2>1. table[m] \in Entry
    BY <1>1, <1>5 DEF TypeOK
  <2> QED BY <2>1 DEF Entry
<1>7. PICK was \in BOOLEAN : was <=> (m = Cur(t).iMapNum \/ table[m] = Cur(t).seen[m])
  OBVIOUS
<1>8. PICK c : c = IF Cur(t).addr < table[m].beg THEN [Cur(t) EXCEPT !.r = m - 1, !.stale = @ \/ ~was]
                   ELSE IF Cur(t).addr >= table[m].end
                   THEN [Cur(t) EXCEPT !.l = m + 1, !.stale = @ \/ ~was]
                   ELSE [Cur(t) EXCEPT !.res = table[m], !.at = "unlock",
                                       !.stale = @ \/ ~was \/ m = Cur(t).iMapNum]
  OBVIOUS
<1>9. /\ c \in Lookup /\ c.at \in {"search", "unlock"} /\ c.seen = Cur(t).seen /\ c.iMapNum = Cur(t).iMapNum
      /\ c.torn = Cur(t).torn /\ c.addr = Cur(t).addr /\ c.truth = Cur(t).truth
      /\ Cur(t).stale => c.stale
  BY <1>1, <1>5, <1>6, <1>8 DEF Lookup
<1>10. Set(t, c)
  <2>1. Cur(t).stale \in BOOLEAN
    BY <1>1 DEF Lookup
  <2> QED BY <1>4, <1>7, <1>8, <2>1 DEF Probe
<1>11. Moved(t) /\ Cur(t)' = c
  BY <1>1, <1>9, <1>10, SetTop
<1>12. Owned'
  BY <1>1, <1>9, <1>11, OwnedKept DEF Probe, Held
<1>13. TypeOK'
  BY <1>1, <1>11 DEF TypeOK, Probe, Moved
<1>14. \A u \in Threads : StoredOk(u)' /\ LookupsOk(u)'
  <2>1. Cur(t).res = Empty
    BY <1>1, <1>2 DEF LookupOk
  <2>2. c.at = "search" => c.res = Empty /\ c.l # 0
    BY <1>1, <1>3, <1>5, <1>8, <2>1 DEF Lookup
  <2>3. ASSUME ~c.torn, Told(t, Cur(t))
        PROVE  /\ c.at = "search" => SearchOk(c)
               /\ c.at = "unlock" => c.stale \/ c.res \in c.truth
    <3>1. SearchOk(Cur(t)) /\ Cur(t).r <= Cur(t).iMapNum
      BY <1>1, <2>3 DEF Told, SearchOk
    <3>2. m = Cur(t).iMapNum => Cur(t).l = Cur(t).iMapNum
      BY <1>3, <1>4, <1>5, <3>1
    <3>3. ~Cur(t).stale =>
             /\ m # Cur(t).iMapNum /\ Holds(Cur(t).seen[m], Cur(t).addr) => Cur(t).seen[m] \in Cur(t).truth
             /\ m # Cur(t).iMapNum => Cur(t).seen[m].end \in Nat
             /\ (m # Cur(t).iMapNum => Cur(t).seen[m].end <= Cur(t).addr) =>
                   \A i \in 0 .. m : i < Cur(t).iMapNum => Cur(t).seen[i].end <= Cur(t).addr
      BY <1>1, <1>5, <3>1, <3>2, Probed
    <3>4. CASE Cur(t).addr < table[m].beg
      <4>1. c.at = "search" /\ c.l = Cur(t).l /\ c.r = m - 1 /\ (c.stale <=> Cur(t).stale \/ ~was)
        BY <1>1, <1>8, <3>4 DEF Lookup
      <4>2. c.r < c.iMapNum - 1 => c.r + 1 = m /\ m # c.iMapNum
        BY <1>3, <1>5, <1>9, <4>1
      <4>3. ~c.stale /\ c.r < c.iMapNum - 1 => c.addr < c.seen[c.r + 1].beg
        BY <1>7, <1>9, <3>4, <4>1, <4>2
      <4>4. c.l \in 1 .. c.iMapNum + 1 /\ c.r \in 0 .. c.iMapNum /\ c.l <= c.r + 1
        BY <1>3, <1>5, <1>9, <3>1, <4>1 DEF SearchOk
      <4> QED BY <1>9, <3>1, <4>1, <4>3, <4>4 DEF SearchOk
    <3>5. CASE ~(Cur(t).addr < table[m].beg) /\ Cur(t).addr >= table[m].end
      <4>1. c.at = "search" /\ c.l = m + 1 /\ c.r = Cur(t).r /\ (c.stale <=> Cur(t).stale \/ ~was)
        BY <1>1, <1>8, <3>5 DEF Lookup
      <4>2. ~c.stale => \A i \in 0 .. m : i < c.iMapNum => c.seen[i].end <= c.addr
        BY <1>6, <1>7, <1>9, <3>3, <3>5, <4>1
      <4>3. /\ c.l - 1 = m /\ c.l \in 1 .. c.iMapNum + 1 /\ c.r \in 0 .. c.iMapNum /\ c.l <= c.r + 1
        BY <1>3, <1>5, <1>9, <3>1, <4>1
      <4> QED BY <1>9, <3>1, <4>1, <4>2, <4>3 DEF SearchOk
    <3>6. CASE ~(Cur(t).addr < table[m].beg) /\ ~(Cur(t).addr >= table[m].end)
      <4>1. c.at = "unlock" /\ c.res = table[m] /\ (c.stale <=> Cur(t).stale \/ ~was \/ m = Cur(t).iMapNum)
        BY <1>1, <1>8, <3>6 DEF Lookup
      <4>2. Holds(table[m], Cur(t).addr)
        BY <1>3, <1>6, <3>6 DEF Holds
      <4> QED BY <1>7, <1>9, <3>3, <4>1, <4>2
    <3> QED BY <3>4, <3>5, <3>6
  <2> QED BY <1>1, <1>9, <1>10, <2>2, <2>3, QuietTop DEF Probe, Quiet
<1> QED BY <1>12, <1>13, <1>14 DEF RegionInv

LEMMA UnlockStep ==
    ASSUME RegionInv, NEW t \in Threads, UnlockSearch(t) PROVE RegionInv'
<1>1. /\ calls[t] # <<>> /\ Cur(t) \in Lookup /\ TypeOK /\ Owned
      /\ Cur(t).at = "unlock" \/ (Cur(t).at = "search" /\ Cur(t).l > Cur(t).r)
  BY TopIs DEF UnlockSearch, At, RegionInv
<1>2. PICK c : c = [Cur(t) EXCEPT !.l = 0, !.r = 0, !.iMapNum = 0, !.seen = NoTable, !.at = "done"]
  OBVIOUS
<1>3. Empty \in Entry /\ NoTable \in [0 .. Room -> Entry] /\ 0 \in 0 .. Room /\ 0 \in 0 .. Room + 1
  <2>1. Empty \in Entry
    BY DEF Empty, Entry, Opts
  <2> QED BY <2>1, LayoutConstants DEF NoTable
<1>4. /\ c \in Lookup /\ c.at = "done" /\ c.res = Cur(t).res /\ c.stale = Cur(t).stale
      /\ c.torn = Cur(t).torn /\ c.addr = Cur(t).addr /\ c.truth = Cur(t).truth
  BY <1>1, <1>2, <1>3 DEF Lookup
<1>5. Set(t, c)
  BY <1>2 DEF UnlockSearch
<1>6. Moved(t) /\ Cur(t)' = c
  BY <1>1, <1>4, <1>5, SetTop
<1>7. Owned'
  BY <1>1, <1>4, <1>6, OwnedGiven DEF UnlockSearch, Held
<1>8. TypeOK'
  <2>1. owner' \in Threads \cup {NoOne} /\ depth' \in Nat
    BY <1>1, OwnerIs DEF UnlockSearch, Unlock, TypeOK, Held
  <2> QED BY <1>1, <1>6, <2>1 DEF TypeOK, UnlockSearch, Moved
<1>9. \A u \in Threads : StoredOk(u)' /\ LookupsOk(u)'
  <2>1. Cur(t).at = "search" => Cur(t).res = Empty
    BY <1>1, TopIs DEF RegionInv, LookupsOk, LookupOk, Cur
  <2>2. Told(t, Cur(t)) => c.stale \/ c.res \in c.truth
    BY <1>1, <1>4, <2>1, NotFound DEF Told
  <2> QED BY <1>1, <1>4, <1>5, <2>2, QuietTop DEF UnlockSearch, Quiet
<1> QED BY <1>7, <1>8, <1>9 DEF RegionInv

-----------------------------------------------------------------------------
(* The scan. *)

\* Two lookups of a thread: the second is under way.
LEMMA StoredKept ==
    ASSUME RegionInv, NEW t \in Threads, Moved(t), Cur(t)'.torn = Cur(t).torn,
           \A k \in DOMAIN calls[t] : k # Len(calls[t]) /\ calls[t][k].at \in {"store", "count"} => mapNum' < Room,
           Cur(t)'.at \in {"store", "count"} => mapNum' < Room,
           Cur(t)'.at = "count" /\ ~Cur(t)'.torn => table'[mapNum'] = Cur(t)'.line,
           Cur(t)'.at = "reset" /\ ~Cur(t)'.torn => pos' = 0
    PROVE  StoredOk(t)'
<1>1. /\ Len(calls[t]) \in {1, 2} /\ DOMAIN calls[t] = 1 .. Len(calls[t])
      /\ Len(calls'[t]) = Len(calls[t]) /\ DOMAIN calls'[t] = DOMAIN calls[t]
  <2>1. calls[t] \in Seq(Lookup) /\ calls'[t] \in Seq(Lookup)
    BY DEF RegionInv, TypeOK, Moved
  <2> QED BY <2>1, TopIs DEF RegionInv, Moved
<1>2. calls'[t][Len(calls[t])] = Cur(t)' /\ calls[t][Len(calls[t])] = Cur(t)
  BY <1>1 DEF Cur
<1>3. \A k \in DOMAIN calls[t] : calls'[t][k].at \in {"store", "count"} => mapNum' < Room
  BY <1>2 DEF Moved
<1>4. /\ (At(t, "count") /\ ~Cur(t).torn => table[mapNum] = Cur(t).line)'
      /\ (At(t, "reset") /\ ~Cur(t).torn => pos = 0)'
  BY DEF At
<1>5. Len(calls[t]) = 2 => /\ ~calls'[t][2].torn
                           /\ calls'[t][1].at \in {"reset", "store", "count"} => calls'[t][1].torn
  <2>1. SUFFICES ASSUME Len(calls[t]) = 2
                 PROVE  /\ ~calls'[t][2].torn
                        /\ calls'[t][1].at \in {"reset", "store", "count"} => calls'[t][1].torn
    OBVIOUS
  <2>2. calls'[t][1] = calls[t][1]
    BY <1>1, <2>1 DEF Moved
  <2> QED BY <1>2, <2>1, <2>2 DEF RegionInv, StoredOk
<1> QED BY <1>1, <1>3, <1>4, <1>5 DEF StoredOk

LEMMA ScanStep ==
    ASSUME RegionInv, NEW t \in Threads, Moved(t), owner = t, UNCHANGED maps,
           Scanning(t), NEW c, Cur(t)' = c, c.at \in {"line", "store", "count", "first"},
           c.torn = Cur(t).torn, c.addr = Cur(t).addr, c.truth = Cur(t).truth, c.res = Cur(t).res,
           ~c.torn => \A a \in Nat : \A T :
              Region(maps, a) \in T /\ Scan(View(t), Num(t), pos, a, T) =>
                 /\ Scan(View(t)', Num(t)', pos', a, T)
                 /\ c.at = "first" => Whole(table', mapNum', a, T)
    PROVE  LookupsOk(t)'
<1>1. /\ Len(calls[t]) \in {1, 2} /\ DOMAIN calls[t] = 1 .. Len(calls[t])
      /\ Len(calls'[t]) = Len(calls[t]) /\ Len(calls[t]) \in DOMAIN calls[t]
      /\ Cur(t) \in Lookup /\ \A k \in DOMAIN calls[t] : calls[t][k].addr \in Nat
  <2>1. /\ Len(calls[t]) \in {1, 2} /\ DOMAIN calls[t] = 1 .. Len(calls[t])
        /\ Len(calls[t]) \in DOMAIN calls[t]
        /\ Cur(t) \in Lookup /\ \A k \in DOMAIN calls[t] : calls[t][k] \in Lookup
    BY TopIs DEF RegionInv, Moved
  <2>2. \A d \in Lookup : d.addr \in Nat
    BY DEF Lookup
  <2> QED BY <2>1, <2>2 DEF Moved
<1>2. LookupOk(t, Cur(t)) /\ Cur(t).addr \in Nat
  BY <1>1 DEF RegionInv, LookupsOk, Cur
<1>3. Cur(t).at \in {"line", "store", "count"}
  BY DEF Scanning, Pending, At
<1>4. (Scanning(t)' <=> c.at # "first") /\ ~At(t, "reset") /\ ~At(t, "reset")'
  BY DEF Scanning, Pending, At, Moved
<1>5. LookupOk(t, Cur(t))'
  <2>1. ~c.torn => Scan(View(t), Num(t), pos, c.addr, c.truth)
    BY <1>2, <1>3, <1>4 DEF LookupOk, Told, ScanOk
  <2>2. ~c.torn => /\ Scan(View(t)', Num(t)', pos', c.addr, c.truth)
                   /\ c.at = "first" => Whole(table', mapNum', c.addr, c.truth)
    BY <1>2, <2>1 DEF LookupOk
  <2>3. ~c.torn => ScanOk(t, Cur(t))'
    BY <1>4, <2>2 DEF ScanOk
  <2> QED BY <1>2, <1>3, <2>3 DEF LookupOk, Told
<1>6. ASSUME NEW k \in DOMAIN calls[t], k # Len(calls[t]) PROVE LookupOk(t, calls[t][k])'
  <2>1. calls'[t][k] = calls[t][k] /\ LookupOk(t, calls[t][k])
    BY <1>6 DEF Moved, RegionInv, LookupsOk
  <2>2. ~c.torn
    <3>1. Len(calls[t]) = 2
      BY <1>1, <1>6
    <3> QED BY <3>1 DEF RegionInv, StoredOk, Cur
  <2>3. ASSUME calls[t][k].at \in {"line", "first", "begin"}, ~calls[t][k].torn PROVE ScanOk(t, calls[t][k])'
    <3>1. Scan(View(t), Num(t), pos, calls[t][k].addr, calls[t][k].truth)
      BY <1>4, <2>1, <2>3 DEF LookupOk, Told, ScanOk
    <3>2. /\ Scan(View(t)', Num(t)', pos', calls[t][k].addr, calls[t][k].truth)
          /\ c.at = "first" => Whole(table', mapNum', calls[t][k].addr, calls[t][k].truth)
      BY <1>1, <2>1, <2>2, <3>1 DEF LookupOk
    <3> QED BY <1>4, <2>1, <3>2 DEF ScanOk
  <2> QED BY <1>6, <2>3, LowerKept
<1> QED BY <1>5, <1>6, LookupsKept

LEMMA RewindStep ==
    ASSUME RegionInv, NEW t \in Threads, Rewind(t) PROVE RegionInv'
<1>1. calls[t] # <<>> /\ Cur(t).at = "rewind" /\ Cur(t) \in Lookup /\ TypeOK /\ Owned /\ UNCHANGED maps
  BY TopIs DEF Rewind, At, RegionInv
<1>2. PICK c : c = [Cur(t) EXCEPT !.at = "reset"]
  OBVIOUS
<1>3. /\ c \in Lookup /\ c.at = "reset" /\ c.res = Cur(t).res
      /\ c.torn = Cur(t).torn /\ c.addr = Cur(t).addr /\ c.truth = Cur(t).truth
  BY <1>1, <1>2 DEF Lookup
<1>4. Set(t, c)
  BY <1>2 DEF Rewind, Goto
<1>5. Moved(t) /\ Cur(t)' = c
  BY <1>1, <1>3, <1>4, SetTop
<1>6. Owned'
  BY <1>1, <1>3, <1>5, OwnedKept DEF Rewind, Held
<1>7. TypeOK'
  BY <1>1, <1>5, LayoutConstants DEF TypeOK, Rewind, Moved
<1>8. StoredOk(t)'
  <2>1. pos' = 0 /\ mapNum' = mapNum
    BY DEF Rewind
  <2>2. \A k \in DOMAIN calls[t] : calls[t][k].at \in {"store", "count"} => mapNum < Room
    BY DEF RegionInv, StoredOk
  <2> QED BY <1>3, <1>5, <2>1, <2>2, StoredKept
<1>9. LookupsOk(t)'
  <2>1. At(t, "reset")'
    BY <1>3, <1>5 DEF At, Moved
  <2>2. LookupOk(t, Cur(t))
    BY <1>1, TopIs DEF RegionInv, LookupsOk, Cur
  <2>4. LookupOk(t, Cur(t))'
    BY <1>1, <1>3, <1>5, <2>2 DEF LookupOk, Told
  <2>5. \A k \in DOMAIN calls[t] : k # Len(calls[t]) => LookupOk(t, calls[t][k])'
    <3> SUFFICES ASSUME NEW k \in DOMAIN calls[t], k # Len(calls[t]) PROVE LookupOk(t, calls[t][k])'
      OBVIOUS
    <3>1. calls'[t][k] = calls[t][k]
      BY <1>5 DEF Moved
    <3>2. ScanOk(t, calls[t][k])'
      BY <2>1, <3>1 DEF ScanOk
    <3> QED BY <1>1, <1>5, <3>2, LowerKept
  <2> QED BY <1>5, <2>4, <2>5, LookupsKept
<1>10. \A u \in Threads : StoredOk(u)' /\ LookupsOk(u)'
  BY <1>1, <1>5, <1>8, <1>9, OthersKept, OwnerIs DEF Held, Moved
<1> QED BY <1>6, <1>7, <1>10 DEF RegionInv

LEMMA ResetStep ==
    ASSUME RegionInv, NEW t \in Threads, ResetNum(t) PROVE RegionInv'
<1>1. calls[t] # <<>> /\ Cur(t).at = "reset" /\ Cur(t) \in Lookup /\ TypeOK /\ Owned /\ UNCHANGED maps
  BY TopIs DEF ResetNum, At, RegionInv
<1>2. PICK c : c = [Cur(t) EXCEPT !.at = "line"]
  OBVIOUS
<1>3. /\ c \in Lookup /\ c.at = "line" /\ c.res = Cur(t).res
      /\ c.torn = Cur(t).torn /\ c.addr = Cur(t).addr /\ c.truth = Cur(t).truth
  BY <1>1, <1>2 DEF Lookup
<1>4. Set(t, c)
  BY <1>2 DEF ResetNum, Goto
<1>5. Moved(t) /\ Cur(t)' = c
  BY <1>1, <1>3, <1>4, SetTop
<1>6. Owned'
  BY <1>1, <1>3, <1>5, OwnedKept DEF ResetNum, Held
<1>7. TypeOK'
  BY <1>1, <1>5, LayoutConstants DEF TypeOK, ResetNum, Moved
<1>8. 0 < Room
  BY LayoutConstants, FS_CardinalityType
<1>9. StoredOk(t)'
  BY <1>3, <1>5, <1>8, StoredKept DEF ResetNum
<1>10. ~c.torn => \A a \in Nat : \A T : Scan(View(t)', Num(t)', pos', a, T)
  <2>1. View(t)' = table' /\ Num(t)' = 0
    BY <1>3, <1>5 DEF View, Num, Pending, At, ResetNum
  <2>2. ~c.torn => pos' = 0
    BY <1>1, <1>3 DEF ResetNum, RegionInv, StoredOk
  <2> QED BY <2>1, <2>2, ScanStarts
<1>11. \A k \in DOMAIN calls[t] : calls[t][k].addr \in Nat
  <2>1. \A d \in Lookup : d.addr \in Nat
    BY DEF Lookup
  <2> QED BY <1>1, <2>1, TopIs
<1>12. LookupsOk(t)'
  <2>1. Scanning(t)'
    BY <1>3, <1>5 DEF Scanning, At, Moved
  <2>2. LookupOk(t, Cur(t))
    BY <1>1, TopIs DEF RegionInv, LookupsOk, Cur
  <2>3. c.addr \in Nat
    BY <1>3 DEF Lookup
  <2>4. ~c.torn => ScanOk(t, Cur(t))'
    BY <1>5, <1>10, <2>1, <2>3 DEF ScanOk
  <2>5. LookupOk(t, Cur(t))'
    BY <1>1, <1>3, <1>5, <2>2, <2>4 DEF LookupOk, Told
  <2>6. \A k \in DOMAIN calls[t] : k # Len(calls[t]) => LookupOk(t, calls[t][k])'
    <3> SUFFICES ASSUME NEW k \in DOMAIN calls[t], k # Len(calls[t]) PROVE LookupOk(t, calls[t][k])'
      OBVIOUS
    <3>1. calls'[t][k] = calls[t][k]
      BY <1>5 DEF Moved
    <3>2. Len(calls[t]) = 2
      BY <1>1, TopIs
    <3>3. ~c.torn
      BY <1>3, <3>2 DEF RegionInv, StoredOk, Cur
    <3>4. ScanOk(t, calls[t][k])'
      BY <1>10, <1>11, <2>1, <3>1, <3>3 DEF ScanOk
    <3> QED BY <1>1, <1>5, <3>4, LowerKept
  <2> QED BY <1>5, <2>5, <2>6, LookupsKept
<1>13. \A u \in Threads : StoredOk(u)' /\ LookupsOk(u)'
  BY <1>1, <1>5, <1>9, <1>12, OthersKept, OwnerIs DEF Held, Moved
<1> QED BY <1>6, <1>7, <1>13 DEF RegionInv

LEMMA StoreStep ==
    ASSUME RegionInv, NEW t \in Threads, StoreLine(t) PROVE RegionInv'
<1>1. calls[t] # <<>> /\ Cur(t).at = "store" /\ Cur(t) \in Lookup /\ TypeOK /\ Owned /\ UNCHANGED maps
  BY TopIs DEF StoreLine, At, RegionInv
<1>2. PICK c : c = [Cur(t) EXCEPT !.at = "count"]
  OBVIOUS
<1>3. /\ c \in Lookup /\ c.at = "count" /\ c.res = Cur(t).res /\ c.line = Cur(t).line /\ c.line \in Entry
      /\ c.torn = Cur(t).torn /\ c.addr = Cur(t).addr /\ c.truth = Cur(t).truth
  BY <1>1, <1>2 DEF Lookup
<1>4. Set(t, c)
  BY <1>2 DEF StoreLine, Goto
<1>5. Moved(t) /\ Cur(t)' = c
  BY <1>1, <1>3, <1>4, SetTop
<1>6. Owned'
  BY <1>1, <1>3, <1>5, OwnedKept DEF StoreLine, Held
<1>7. table' = [table EXCEPT ![mapNum] = c.line] /\ mapNum' = mapNum /\ pos' = pos /\ mapNum \in 0 .. Room
  BY <1>1, <1>3 DEF StoreLine, TypeOK
<1>8. TypeOK'
  BY <1>1, <1>3, <1>5, <1>7 DEF TypeOK, StoreLine, Moved
<1>9. StoredOk(t)'
  <2>1. mapNum < Room
    BY <1>1, TopIs DEF RegionInv, StoredOk, Cur
  <2>2. table'[mapNum] = c.line
    BY <1>1, <1>7 DEF TypeOK
  <2> QED BY <1>3, <1>5, <1>7, <2>1, <2>2, StoredKept
<1>10. View(t)' = View(t) /\ Num(t)' = Num(t)
  <2>1. View(t) = [table EXCEPT ![mapNum] = c.line] /\ Num(t) = mapNum + 1
    BY <1>1, <1>3 DEF View, Num, Pending, At
  <2>2. View(t)' = [table' EXCEPT ![mapNum] = c.line] /\ Num(t)' = mapNum + 1
    BY <1>3, <1>5, <1>7 DEF View, Num, Pending, At, Moved
  <2>3. [table' EXCEPT ![mapNum] = c.line] = [table EXCEPT ![mapNum] = c.line]
    BY <1>1, <1>7 DEF TypeOK
  <2> QED BY <2>1, <2>2, <2>3
<1>11. LookupsOk(t)'
  <2>1. Scanning(t) /\ owner = t
    BY <1>1, OwnerIs DEF Scanning, Pending, At, Held
  <2> QED BY <1>1, <1>3, <1>5, <1>7, <1>10, <2>1, ScanStep
<1>12. \A u \in Threads : StoredOk(u)' /\ LookupsOk(u)'
  BY <1>1, <1>5, <1>9, <1>11, OthersKept, OwnerIs DEF Held, Moved
<1> QED BY <1>6, <1>8, <1>12 DEF RegionInv

LEMMA CountStep ==
    ASSUME RegionInv, NEW t \in Threads, CountLine(t) PROVE RegionInv'
<1>1. calls[t] # <<>> /\ Cur(t).at = "count" /\ Cur(t) \in Lookup /\ TypeOK /\ Owned /\ UNCHANGED maps
  BY TopIs DEF CountLine, At, RegionInv
<1>2. PICK c : c = [Cur(t) EXCEPT !.line = Empty, !.at = "line"]
  OBVIOUS
<1>3. Empty \in Entry
  BY DEF Empty, Entry, Opts
<1>4. /\ c \in Lookup /\ c.at = "line" /\ c.res = Cur(t).res
      /\ c.torn = Cur(t).torn /\ c.addr = Cur(t).addr /\ c.truth = Cur(t).truth
  BY <1>1, <1>2, <1>3 DEF Lookup
<1>5. Set(t, c)
  BY <1>2 DEF CountLine
<1>6. Moved(t) /\ Cur(t)' = c
  BY <1>1, <1>4, <1>5, SetTop
<1>7. Owned'
  BY <1>1, <1>4, <1>6, OwnedKept DEF CountLine, Held
<1>8. table' = table /\ mapNum' = mapNum + 1 /\ pos' = pos /\ mapNum \in 0 .. Room /\ mapNum < Room
  BY <1>1, TopIs DEF CountLine, TypeOK, RegionInv, StoredOk, Cur
<1>9. mapNum' \in 0 .. Room
  BY <1>8, LayoutConstants
<1>10. TypeOK'
  BY <1>1, <1>6, <1>9 DEF TypeOK, CountLine, Moved
<1>11. ~c.torn => View(t)' = View(t) /\ Num(t)' = Num(t) /\ View(t) = table /\ Num(t) = mapNum'
  <2>1. ~c.torn => table[mapNum] = Cur(t).line
    BY <1>1, <1>4 DEF RegionInv, StoredOk, At
  <2>2. View(t) = [table EXCEPT ![mapNum] = Cur(t).line] /\ Num(t) = mapNum + 1
    BY <1>1 DEF View, Num, Pending, At
  <2>3. View(t)' = table /\ Num(t)' = mapNum + 1
    BY <1>4, <1>6, <1>8 DEF View, Num, Pending, At, Moved
  <2> QED BY <1>1, <1>8, <2>1, <2>2, <2>3 DEF TypeOK
<1>12. \A k \in DOMAIN calls[t] : k # Len(calls[t]) => mapNum' < Room
  <2> SUFFICES ASSUME NEW k \in DOMAIN calls[t], k # Len(calls[t]) PROVE mapNum' < Room
    OBVIOUS
  <2>1. Len(calls[t]) = 2
    BY <1>1, TopIs
  <2>2. ~c.torn
    BY <1>4, <2>1 DEF RegionInv, StoredOk, Cur
  <2>3. LookupOk(t, Cur(t))
    BY <1>1, TopIs DEF RegionInv, LookupsOk, Cur
  <2>4. Rising(table, mapNum')
    BY <1>1, <1>4, <1>11, <2>2, <2>3 DEF LookupOk, Told, ScanOk, Scan, At
  <2>5. mapNum' \in 0 .. Room + 1 /\ table \in [0 .. Room -> Entry]
    BY <1>1, <1>9, LayoutConstants DEF TypeOK
  <2> QED BY <2>4, <2>5, RoomIsLeft
<1>13. StoredOk(t)'
  BY <1>4, <1>6, <1>12, StoredKept
<1>14. LookupsOk(t)'
  <2>1. Scanning(t) /\ owner = t
    BY <1>1, OwnerIs DEF Scanning, Pending, At, Held
  <2> QED BY <1>1, <1>4, <1>6, <1>8, <1>11, <2>1, ScanStep
<1>15. \A u \in Threads : StoredOk(u)' /\ LookupsOk(u)'
  BY <1>1, <1>6, <1>13, <1>14, OthersKept, OwnerIs DEF Held, Moved
<1> QED BY <1>7, <1>10, <1>15 DEF RegionInv

\* There is a first line, if there is any.
LEMMA FirstLine ==
    ASSUME NEW m \in Layouts, NEW p \in Nat, NEW j \in DOMAIN m, m[j].end > p
    PROVE  LET L == {i \in DOMAIN m : m[i].end > p}
           IN  First(m, p, CHOOSE i \in L : \A h \in L : i <= h)
<1> DEFINE L == {i \in DOMAIN m : m[i].end > p}
<1>1. L \subseteq Nat /\ j \in L
  BY LayoutType
<1>2. PICK i \in L : \A h \in L : ~(<<h, i>> \in OpToRel(<, Nat))
  BY <1>1, NatLessThanWellFounded, WFMin
<1>3. \A h \in L : i <= h
  <2>1. \A h \in L : ~(h < i)
    BY <1>1, <1>2 DEF OpToRel
  <2> QED BY <1>1, <2>1
<1> QED BY <1>3 DEF First

\* A line of a region that may not be accessed changes the position alone.
LEMMA PassStep ==
    ASSUME RegionInv, NEW t \in Threads, At(t, "line"), UNCHANGED <<maps, table, mapNum, owner, depth, calls>>,
           NEW k, First(maps, pos, k), maps[k].opt = "none", pos' = maps[k].end
    PROVE  RegionInv'
<1>1. calls[t] # <<>> /\ Cur(t).at = "line" /\ Cur(t) \in Lookup /\ TypeOK /\ Owned
  BY TopIs DEF At, RegionInv
<1>2. Moved(t) /\ Cur(t)' = Cur(t)
  BY <1>1 DEF Moved, TypeOK, Cur
<1>3. Owned'
  BY <1>1, <1>2, OwnedKept
<1>4. TypeOK'
  BY <1>1, LayoutType DEF TypeOK, First
<1>5. StoredOk(t)'
  BY <1>1, <1>2, StoredKept DEF RegionInv, StoredOk
<1>6. LookupsOk(t)'
  <2>1. Scanning(t) /\ owner = t
    BY <1>1, OwnerIs DEF Scanning, Pending, At, Held
  <2>2. View(t) = table /\ Num(t) = mapNum /\ View(t)' = table /\ Num(t)' = mapNum
    BY <1>1, <1>2 DEF View, Num, Pending, At
  <2>3. ASSUME NEW a \in Nat, NEW T, Region(maps, a) \in T, Scan(View(t), Num(t), pos, a, T)
        PROVE  Scan(View(t)', Num(t)', pos', a, T)
    BY <1>1, <2>2, <2>3, ScanPasses DEF TypeOK
  <2>4. PICK c : c = Cur(t)
    OBVIOUS
  <2> QED BY <1>1, <1>2, <2>1, <2>3, <2>4, ScanStep
<1>7. \A u \in Threads : StoredOk(u)' /\ LookupsOk(u)'
  BY <1>1, <1>5, <1>6, OthersKept, OwnerIs DEF Held
<1> QED BY <1>3, <1>4, <1>7 DEF RegionInv

\* One that may is kept for the next two steps.
LEMMA TakeStep ==
    ASSUME RegionInv, NEW t \in Threads, At(t, "line"), UNCHANGED <<maps, table, mapNum, owner, depth>>,
           mapNum < Room, NEW k, First(maps, pos, k), maps[k].opt # "none", pos' = maps[k].end,
           Set(t, [Cur(t) EXCEPT !.line = maps[k], !.at = "store"])
    PROVE  RegionInv'
<1>1. calls[t] # <<>> /\ Cur(t).at = "line" /\ Cur(t) \in Lookup /\ TypeOK /\ Owned
  BY TopIs DEF At, RegionInv
<1>2. PICK e : e = maps[k]
  OBVIOUS
<1>3. e \in Entry
  BY <1>1, <1>2, LayoutType, RegionsType DEF TypeOK, First
<1>4. PICK c : c = [Cur(t) EXCEPT !.line = e, !.at = "store"]
  OBVIOUS
<1>5. /\ c \in Lookup /\ c.at = "store" /\ c.res = Cur(t).res /\ c.line = e
      /\ c.torn = Cur(t).torn /\ c.addr = Cur(t).addr /\ c.truth = Cur(t).truth
  BY <1>1, <1>3, <1>4 DEF Lookup
<1>6. Moved(t) /\ Cur(t)' = c
  BY <1>1, <1>2, <1>4, <1>5, SetTop
<1>7. Owned'
  BY <1>1, <1>5, <1>6, OwnedKept DEF Held
<1>8. TypeOK'
  BY <1>1, <1>6, LayoutType DEF TypeOK, First, Moved
<1>9. StoredOk(t)'
  BY <1>5, <1>6, StoredKept
<1>10. LookupsOk(t)'
  <2>1. Scanning(t) /\ owner = t
    BY <1>1, OwnerIs DEF Scanning, Pending, At, Held
  <2>2. View(t) = table /\ Num(t) = mapNum
    BY <1>1 DEF View, Num, Pending, At
  <2>3. View(t)' = [table EXCEPT ![mapNum] = e] /\ Num(t)' = mapNum + 1
    BY <1>5, <1>6 DEF View, Num, Pending, At, Moved
  <2>4. ASSUME NEW a \in Nat, NEW T, Region(maps, a) \in T, Scan(View(t), Num(t), pos, a, T)
        PROVE  Scan(View(t)', Num(t)', pos', a, T)
    <3>1. maps \in Layouts /\ table \in [0 .. Room -> Entry] /\ mapNum \in 0 .. Room /\ pos \in Nat
      BY <1>1 DEF TypeOK
    <3>2. Scan(table, mapNum, pos, a, T)
      BY <2>2, <2>4
    <3>3. Scan([table EXCEPT ![mapNum] = maps[k]], mapNum + 1, maps[k].end, a, T)
      BY <2>4, <3>1, <3>2, ScanTakes
    <3> QED BY <1>2, <2>3, <3>3
  <2> QED BY <1>1, <1>5, <1>6, <2>1, <2>4, ScanStep
<1>11. \A u \in Threads : StoredOk(u)' /\ LookupsOk(u)'
  BY <1>1, <1>6, <1>9, <1>10, OthersKept, OwnerIs DEF Held, Moved
<1> QED BY <1>7, <1>8, <1>11 DEF RegionInv

\* At the end of the file the scan is over: the table has room for every region.
LEMMA EndStep ==
    ASSUME RegionInv, NEW t \in Threads, At(t, "line"), UNCHANGED <<maps, table, mapNum, pos, owner, depth>>,
           Lines = {} \/ mapNum >= Room, Goto(t, "first")
    PROVE  RegionInv'
<1>1. calls[t] # <<>> /\ Cur(t).at = "line" /\ Cur(t) \in Lookup /\ TypeOK /\ Owned
  BY TopIs DEF At, RegionInv
<1>2. PICK c : c = [Cur(t) EXCEPT !.at = "first"]
  OBVIOUS
<1>3. /\ c \in Lookup /\ c.at = "first" /\ c.res = Cur(t).res
      /\ c.torn = Cur(t).torn /\ c.addr = Cur(t).addr /\ c.truth = Cur(t).truth
  BY <1>1, <1>2 DEF Lookup
<1>4. Moved(t) /\ Cur(t)' = c
  BY <1>1, <1>2, <1>3, SetTop DEF Goto
<1>5. Owned'
  BY <1>1, <1>3, <1>4, OwnedKept DEF Held
<1>6. TypeOK'
  BY <1>1, <1>4 DEF TypeOK, Moved
<1>7. StoredOk(t)'
  BY <1>3, <1>4, StoredKept DEF RegionInv, StoredOk
<1>8. LookupsOk(t)'
  <2>1. Scanning(t) /\ owner = t
    BY <1>1, OwnerIs DEF Scanning, Pending, At, Held
  <2>2. View(t) = table /\ Num(t) = mapNum /\ View(t)' = table /\ Num(t)' = mapNum
    BY <1>1, <1>3, <1>4 DEF View, Num, Pending, At, Moved
  <2>3. ASSUME NEW a \in Nat, NEW T, Region(maps, a) \in T, Scan(View(t), Num(t), pos, a, T)
        PROVE  Scan(View(t)', Num(t)', pos', a, T) /\ Whole(table', mapNum', a, T)
    <3>1. /\ maps \in Layouts /\ table \in [0 .. Room -> Entry] /\ mapNum \in 0 .. Room /\ pos \in Nat
          /\ mapNum \in 0 .. Room + 1
      BY <1>1, LayoutConstants DEF TypeOK
    <3>2. mapNum < Room
      BY <2>2, <2>3, <3>1, RoomIsLeft DEF Scan
    <3>3. \A i \in DOMAIN maps : ~(maps[i].end > pos)
      BY <3>1, <3>2, LayoutConstants DEF Lines
    <3> QED BY <2>2, <2>3, <3>1, <3>3, ScanEnds
  <2> QED BY <1>1, <1>3, <1>4, <2>1, <2>3, ScanStep
<1>9. \A u \in Threads : StoredOk(u)' /\ LookupsOk(u)'
  BY <1>1, <1>4, <1>7, <1>8, OthersKept, OwnerIs DEF Held, Moved
<1> QED BY <1>5, <1>6, <1>9 DEF RegionInv

LEMMA ReadStep ==
    ASSUME RegionInv, NEW t \in Threads, ReadLine(t) PROVE RegionInv'
<1>1. At(t, "line") /\ UNCHANGED <<maps, table, mapNum, owner, depth>> /\ maps \in Layouts /\ pos \in Nat
      /\ mapNum \in Nat /\ Room \in Nat
  BY LayoutConstants DEF ReadLine, RegionInv, TypeOK
<1>2. CASE Lines = {} \/ mapNum >= Room
  BY <1>1, <1>2, EndStep DEF ReadLine
<1>3. CASE ~(Lines = {} \/ mapNum >= Room)
  <2>1. PICK k : k = CHOOSE i \in Lines : \A j \in Lines : i <= j
    OBVIOUS
  <2>2. First(maps, pos, k)
    <3>1. PICK j \in DOMAIN maps : maps[j].end > pos
      BY <1>3 DEF Lines
    <3> QED BY <1>1, <2>1, <3>1, FirstLine DEF Lines
  <2>3. /\ pos' = maps[k].end
        /\ IF maps[k].opt = "none" THEN UNCHANGED calls
           ELSE Set(t, [Cur(t) EXCEPT !.line = maps[k], !.at = "store"])
    BY <1>3, <2>1 DEF ReadLine
  <2>4. mapNum < Room
    BY <1>1, <1>3
  <2> QED BY <1>1, <2>2, <2>3, <2>4, PassStep, TakeStep
<1> QED BY <1>2, <1>3

-----------------------------------------------------------------------------
(* Lookups begin, end and are interrupted. *)

LEMMA RegionType ==
    ASSUME NEW m \in Layouts, NEW a PROVE Region(m, a) \in Entry
<1>1. Empty \in Entry
  BY DEF Empty, Entry, Opts
<1>2. CASE \E i \in DOMAIN m : Holds(m[i], a) /\ m[i].opt # "none"
  <2>1. \E i \in DOMAIN m : Holds(m[i], a)
    BY <1>2
  <2>2. PICK i \in DOMAIN m : i = CHOOSE j \in DOMAIN m : Holds(m[j], a)
    BY <2>1
  <2>3. m[i] \in Entry
    BY LayoutType, RegionsType
  <2> QED BY <1>2, <2>2, <2>3 DEF Region
<1> QED BY <1>1, <1>2 DEF Region

\* A lookup that is not storing a line, seen before and after its thread begins or
\* ends another.
LEMMA SameTold ==
    ASSUME NEW t \in Threads, UNCHANGED <<maps, table, mapNum, pos>>, NEW c,
           ~Pending(t), ~Pending(t)', ~At(t, "reset"), c.at \notin {"store", "count"},
           c.at # "line" => ~Scanning(t) /\ ~Scanning(t)', Told(t, c)
    PROVE  Told(t, c)'
<1>1. View(t)' = View(t) /\ Num(t)' = Num(t)
  BY DEF View, Num
<1>2. c.at \in {"line", "store", "count", "first", "begin"} => ScanOk(t, c)'
  BY <1>1 DEF Told, ScanOk
<1> QED BY <1>2 DEF Told

LEMMA CallStep ==
    ASSUME RegionInv, NEW t \in Threads, Call(t) PROVE RegionInv'
<1>1. PICK a : /\ a \in IF calls[t] = <<>> THEN Addrs[t] ELSE HandlerAddrs
               /\ calls' = [calls EXCEPT ![t] = Append(Interrupt(@), Asked(a))]
  BY DEF Call
<1>2. /\ calls[t] \in Seq(Lookup) /\ calls \in [Threads -> Seq(Lookup)] /\ TypeOK /\ Owned
      /\ UNCHANGED <<maps, table, mapNum, pos, owner, depth>> /\ maps \in Layouts
  BY DEF RegionInv, TypeOK, Call
<1>3. a \in Nat \ {0}
  BY <1>1, RegionConstants
<1>4. PICK new : new = Asked(a)
  OBVIOUS
<1>5. /\ new \in Lookup /\ new.at = "lock" /\ new.addr = a /\ new.res = Empty
      /\ new.truth = {Region(maps, a)} /\ ~new.torn
  <2>1. Empty \in Entry /\ {Region(maps, a)} \in SUBSET Entry
    BY <1>2, RegionType DEF Empty, Entry, Opts
  <2>2. NoTable \in [0 .. Room -> Entry] /\ 0 \in 0 .. Room /\ 0 \in 0 .. Room + 1
    BY <2>1, LayoutConstants DEF NoTable
  <2> QED BY <1>3, <1>4, <2>1, <2>2 DEF Asked, Lookup
<1>6. PICK n \in {0, 1} : n = Len(calls[t])
  BY DEF Call
<1>7. DOMAIN calls[t] = 1 .. n /\ \A k \in 1 .. n : calls[t][k] \in Lookup
  BY <1>2, <1>6
<1>8. PICK old : old = Interrupt(calls[t])
  OBVIOUS
<1>9. /\ old \in Seq(Lookup) /\ Len(old) = n
      /\ \A k \in 1 .. n :
            /\ old[k].at = calls[t][k].at /\ old[k].addr = calls[t][k].addr
            /\ old[k].truth = calls[t][k].truth /\ old[k].res = calls[t][k].res
            /\ old[k].torn <=> calls[t][k].torn \/ calls[t][k].at \in {"reset", "store", "count"}
            /\ ~old[k].torn => old[k] = calls[t][k]
  <2>1. old = [i \in 1 .. n |->
                 [calls[t][i] EXCEPT !.torn = @ \/ calls[t][i].at \in {"reset", "store", "count"}]]
    BY <1>7, <1>8 DEF Interrupt
  <2>2. ASSUME NEW k \in 1 .. n
        PROVE  /\ old[k] \in Lookup
               /\ old[k].at = calls[t][k].at /\ old[k].addr = calls[t][k].addr
               /\ old[k].truth = calls[t][k].truth /\ old[k].res = calls[t][k].res
               /\ old[k].torn <=> calls[t][k].torn \/ calls[t][k].at \in {"reset", "store", "count"}
               /\ ~old[k].torn => old[k] = calls[t][k]
    <3>1. PICK d \in Lookup : d = calls[t][k]
      BY <1>7
    <3>2. PICK b \in BOOLEAN : b <=> d.torn \/ d.at \in {"reset", "store", "count"}
      OBVIOUS
    <3>3. old[k] = [d EXCEPT !.torn = b]
      <4>1. old[k] = [d EXCEPT !.torn = d.torn \/ d.at \in {"reset", "store", "count"}]
        BY <2>1, <3>1
      <4>2. b = (d.torn \/ d.at \in {"reset", "store", "count"})
        BY <3>2
      <4> QED BY <4>1, <4>2
    <3>4. [d EXCEPT !.torn = d.torn] = d /\ d.torn \in BOOLEAN
      BY DEF Lookup
    <3>5. ~b => b = d.torn
      BY <3>2, <3>4
    <3>6. /\ old[k] \in Lookup /\ old[k].torn = b /\ old[k].at = d.at /\ old[k].addr = d.addr
          /\ old[k].truth = d.truth /\ old[k].res = d.res
      BY <3>3 DEF Lookup
    <3> QED BY <3>1, <3>2, <3>3, <3>4, <3>5, <3>6
  <2> QED BY <2>1, <2>2
<1>10. PICK s : s = Append(old, new)
  OBVIOUS
<1>11. /\ s \in Seq(Lookup) /\ Len(s) = n + 1 /\ DOMAIN s = 1 .. n + 1 /\ s[n + 1] = new
       /\ \A k \in 1 .. n : s[k] = old[k]
       /\ s # <<>>
  BY <1>5, <1>9, <1>10
<1>12. calls' = [calls EXCEPT ![t] = s]
  BY <1>1, <1>4, <1>8, <1>10
<1>13. calls' \in [Threads -> Seq(Lookup)] /\ calls'[t] = s /\ \A u \in Threads \ {t} : calls'[u] = calls[u]
  BY <1>2, <1>11, <1>12
<1>14. Cur(t)' = new
  BY <1>11, <1>13 DEF Cur
<1>15. Owned'
  <2>1. \A k \in {1, 2} : Holding(t, k)' <=> Holding(t, k)
    BY <1>5, <1>6, <1>7, <1>9, <1>11, <1>13 DEF Holding, Held
  <2>2. \A u \in Threads : Times(u)' = Times(u)
    BY <1>13, <2>1 DEF Times, Holding
  <2>3. \A u \in Threads : Len(calls'[u]) <= 2
    BY <1>2, <1>6, <1>11, <1>13 DEF Owned
  <2> QED BY <1>2, <2>2, <2>3 DEF Owned
<1>16. TypeOK'
  BY <1>2, <1>13 DEF TypeOK
<1>17. ~Pending(t)' /\ ~Scanning(t)' /\ ~At(t, "reset")'
  BY <1>5, <1>14 DEF Pending, Scanning, At
<1>18. StoredOk(t)'
  <2>1. \A k \in 1 .. n + 1 : s[k].at \in {"store", "count"} => mapNum' < Room
    BY <1>2, <1>5, <1>6, <1>7, <1>9, <1>11 DEF RegionInv, StoredOk
  <2>2. n = 1 => ~s[2].torn /\ (s[1].at \in {"reset", "store", "count"} => s[1].torn)
    BY <1>5, <1>9, <1>11
  <2> QED BY <1>6, <1>11, <1>13, <1>17, <2>1, <2>2 DEF StoredOk, Pending, At
<1>19. LookupsOk(t)'
  <2>1. LookupOk(t, new)'
    BY <1>2, <1>5 DEF LookupOk, Told
  <2>2. ASSUME NEW k \in 1 .. n PROVE LookupOk(t, old[k])'
    <3>1. k = n /\ n = 1 /\ calls[t] # <<>> /\ Cur(t) = calls[t][k]
      BY <1>2, <1>6 DEF Cur
    <3>2. LookupOk(t, calls[t][k])
      BY <1>7 DEF RegionInv, LookupsOk
    <3>3. Pending(t) => calls[t][k].at \in {"store", "count"}
      BY <3>1 DEF Pending, At
    <3>4. Scanning(t) => calls[t][k].at = "line" \/ Pending(t)
      BY <3>1 DEF Scanning, At
    <3>5. PICK c : c = calls[t][k]
      OBVIOUS
    <3>6. ~old[k].torn => /\ old[k] = c /\ Told(t, c) /\ c.at \notin {"store", "count"}
                          /\ ~At(t, "reset")
      BY <1>9, <3>1, <3>2, <3>5 DEF LookupOk, At
    <3>7. ~old[k].torn => Told(t, old[k])'
      BY <1>2, <1>17, <3>3, <3>4, <3>5, <3>6, SameTold
    <3>8. old[k].at = "search" => old[k].l = calls[t][k].l
      <4>1. calls[t][k] \in Lookup
        BY <1>7
      <4> QED BY <1>7, <1>8, <4>1 DEF Interrupt, Lookup
    <3> QED BY <1>2, <1>9, <3>2, <3>7, <3>8 DEF LookupOk
  <2>3. \A k \in 1 .. n + 1 : k \in 1 .. n \/ k = n + 1
    BY <1>6
  <2> QED BY <1>11, <1>13, <2>1, <2>2, <2>3 DEF LookupsOk
<1>20. \A u \in Threads : StoredOk(u)' /\ LookupsOk(u)'
  BY <1>2, <1>13, <1>18, <1>19, OthersKept
<1> QED BY <1>15, <1>16, <1>20 DEF RegionInv

LEMMA ReturnStep ==
    ASSUME RegionInv, NEW t \in Threads, Return(t) PROVE RegionInv'
<1>1. /\ calls[t] # <<>> /\ Cur(t).at = "done" /\ TypeOK /\ Owned /\ UNCHANGED <<maps, table, mapNum, pos, owner, depth>>
      /\ calls[t] \in Seq(Lookup) /\ calls \in [Threads -> Seq(Lookup)]
  BY DEF Return, At, RegionInv, TypeOK
<1>2. PICK n \in {1, 2} : n = Len(calls[t])
  BY <1>1, TopIs
<1>3. /\ DOMAIN calls[t] = 1 .. n /\ calls[t][n].at = "done"
      /\ \A k \in 1 .. n : calls[t][k] \in Lookup /\ LookupOk(t, calls[t][k])
  BY <1>1, <1>2, TopIs DEF Cur, RegionInv, LookupsOk
<1>4. PICK s : s = SubSeq(calls[t], 1, n - 1)
  OBVIOUS
<1>5. s \in Seq(Lookup) /\ Len(s) = n - 1 /\ DOMAIN s = 1 .. n - 1 /\ \A k \in 1 .. n - 1 : s[k] = calls[t][k]
  BY <1>1, <1>2, <1>4
<1>6. calls' = [calls EXCEPT ![t] = s]
  BY <1>2, <1>4 DEF Return
<1>7. calls' \in [Threads -> Seq(Lookup)] /\ calls'[t] = s /\ \A u \in Threads \ {t} : calls'[u] = calls[u]
  BY <1>1, <1>5, <1>6
<1>8. Owned'
  <2>1. \A k \in {1, 2} : Holding(t, k)' <=> Holding(t, k)
    BY <1>2, <1>3, <1>5, <1>7 DEF Holding, Held
  <2>2. \A u \in Threads : Times(u)' = Times(u)
    BY <1>7, <2>1 DEF Times, Holding
  <2>3. \A u \in Threads : Len(calls'[u]) <= 2
    <3>1. Len(calls'[t]) <= 2
      BY <1>2, <1>5, <1>7
    <3> QED BY <1>1, <1>7, <3>1 DEF Owned
  <2> QED BY <1>1, <2>2, <2>3 DEF Owned
<1>9. TypeOK'
  BY <1>1, <1>7 DEF TypeOK
<1>10. ~Pending(t) /\ ~Scanning(t) /\ ~At(t, "reset")
  BY <1>1 DEF Pending, Scanning, At
<1>11. \A k \in 1 .. n - 1 : k = 1 /\ n = 2 /\ Cur(t)' = s[1] /\ calls'[t] # <<>>
  <2> SUFFICES ASSUME NEW k \in 1 .. n - 1 PROVE k = 1 /\ n = 2 /\ Cur(t)' = s[1] /\ calls'[t] # <<>>
    OBVIOUS
  <2>1. k = 1 /\ n = 2
    <3>1. \A i \in {1, 2} : \A j \in 1 .. i - 1 : j = 1 /\ i = 2
      OBVIOUS
    <3> QED BY <3>1
  <2>2. Len(s) = 1 /\ s # <<>> /\ calls'[t] = s
    <3>1. Len(s) = 1
      BY <1>5, <2>1
    <3>2. s # <<>>
      BY <3>1
    <3> QED BY <1>7, <3>1, <3>2
  <2> QED BY <2>1, <2>2 DEF Cur
<1>12. \A k \in 1 .. n - 1 : /\ s[k].at \in {"reset", "store", "count"} => s[k].torn
                             /\ s[k].at \in {"store", "count"} => mapNum' < Room
  <2> SUFFICES ASSUME NEW k \in 1 .. n - 1
               PROVE  /\ s[k].at \in {"reset", "store", "count"} => s[k].torn
                      /\ s[k].at \in {"store", "count"} => mapNum' < Room
    OBVIOUS
  <2>1. k = 1 /\ n = 2 /\ s[k] = calls[t][k] /\ k \in DOMAIN calls[t]
    BY <1>2, <1>3, <1>5
  <2> QED BY <1>1, <1>2, <2>1 DEF RegionInv, StoredOk
<1>13. StoredOk(t)'
  <2>1. /\ (At(t, "count") /\ ~Cur(t).torn => table[mapNum] = Cur(t).line)'
        /\ (At(t, "reset") /\ ~Cur(t).torn => pos = 0)'
    <3>1. CASE n = 1
      <4>1. calls'[t] = <<>>
        BY <1>5, <1>7, <3>1
      <4> QED BY <4>1 DEF At
    <3>2. CASE n = 2
      <4>1. 1 \in 1 .. n - 1
        BY <3>2
      <4>2. Cur(t)' = s[1] /\ (s[1].at \in {"reset", "store", "count"} => s[1].torn)
        BY <1>11, <1>12, <4>1
      <4> QED BY <4>2 DEF At
    <3> QED BY <1>2, <3>1, <3>2
  <2>2. Len(calls'[t]) # 2
    <3>1. n - 1 # 2
      BY <1>2
    <3> QED BY <1>5, <1>7, <3>1
  <2> QED BY <1>5, <1>7, <1>12, <2>1, <2>2 DEF StoredOk
<1>14. LookupsOk(t)'
  <2> SUFFICES ASSUME NEW k \in 1 .. n - 1 PROVE LookupOk(t, s[k])'
    BY <1>5, <1>7 DEF LookupsOk
  <2>1. s[k] = calls[t][k] /\ LookupOk(t, s[k])
    BY <1>2, <1>3, <1>5
  <2>2. Pending(t)' => s[k].torn
    BY <1>11, <1>12 DEF Pending, At
  <2>3. Scanning(t)' => s[k].at = "line" \/ s[k].torn
    BY <1>11, <2>2 DEF Scanning, At
  <2>4. PICK c : c = s[k]
    OBVIOUS
  <2>5. ~c.torn => Told(t, c)'
    BY <1>1, <1>10, <1>12, <2>1, <2>2, <2>3, <2>4, SameTold DEF LookupOk
  <2> QED BY <1>1, <2>1, <2>4, <2>5 DEF LookupOk
<1>15. \A u \in Threads : StoredOk(u)' /\ LookupsOk(u)'
  BY <1>1, <1>7, <1>13, <1>14, OthersKept
<1> QED BY <1>8, <1>9, <1>15 DEF RegionInv

LEMMA RemapStep ==
    ASSUME RegionInv, Remap PROVE RegionInv'
<1>1. PICK m \in Layouts :
         /\ maps' = m
         /\ calls' = [t \in Threads |-> [i \in DOMAIN calls[t] |->
                        [calls[t][i] EXCEPT !.truth = @ \cup {Region(m, calls[t][i].addr)}]]]
  BY DEF Remap
<1>2. /\ TypeOK /\ Owned /\ UNCHANGED <<table, mapNum, pos, owner, depth>>
      /\ \A t \in Threads : calls[t] \in Seq(Lookup) /\ calls'[t] = [i \in DOMAIN calls[t] |->
                        [calls[t][i] EXCEPT !.truth = @ \cup {Region(m, calls[t][i].addr)}]]
  BY <1>1 DEF RegionInv, TypeOK, Remap
<1> DEFINE Fields == {"at", "addr", "line", "l", "r", "iMapNum", "res", "seen", "torn", "stale"}
<1>3. ASSUME NEW t \in Threads, NEW k \in DOMAIN calls[t]
      PROVE  /\ calls'[t][k] \in Lookup
             /\ \A f \in Fields : calls'[t][k][f] = calls[t][k][f]
             /\ calls'[t][k].truth = calls[t][k].truth \cup {Region(m, calls[t][k].addr)}
  <2>1. PICK d \in Lookup : d = calls[t][k]
    <3>1. calls[t] \in Seq(Lookup)
      BY <1>2
    <3> QED BY <1>3, <3>1
  <2>2. Region(m, d.addr) \in Entry /\ d.truth \in SUBSET Entry
    BY RegionType DEF Lookup
  <2>3. PICK T \in SUBSET Entry : T = d.truth \cup {Region(m, d.addr)}
    BY <2>2
  <2>4. calls'[t][k] = [d EXCEPT !.truth = T]
    BY <1>2, <1>3, <2>1, <2>3
  <2> QED BY <2>1, <2>3, <2>4 DEF Lookup
<1>4. ASSUME NEW t \in Threads
      PROVE  /\ calls'[t] \in Seq(Lookup) /\ Len(calls'[t]) = Len(calls[t])
             /\ DOMAIN calls'[t] = DOMAIN calls[t] /\ (calls'[t] = <<>> <=> calls[t] = <<>>)
  <2>1. calls[t] \in Seq(Lookup)
    BY <1>2
  <2>2. DOMAIN calls[t] = 1 .. Len(calls[t]) /\ Len(calls[t]) \in Nat
    BY <2>1
  <2>3. PICK s : s = calls'[t]
    OBVIOUS
  <2>4. s = [i \in 1 .. Len(calls[t]) |-> s[i]] /\ \A i \in 1 .. Len(calls[t]) : s[i] \in Lookup
    BY <1>2, <1>3, <2>2, <2>3
  <2>5. s \in Seq(Lookup) /\ Len(s) = Len(calls[t])
    BY <2>2, <2>4
  <2>6. DOMAIN s = DOMAIN calls[t] /\ (s = <<>> <=> calls[t] = <<>>)
    BY <2>1, <2>2, <2>4, <2>5
  <2> QED BY <2>3, <2>5, <2>6
<1>5. ASSUME NEW t \in Threads, calls[t] # <<>>
      PROVE  /\ \A f \in Fields : Cur(t)'[f] = Cur(t)[f]
             /\ Cur(t)' = calls'[t][Len(calls[t])] /\ Len(calls[t]) \in DOMAIN calls[t]
  BY <1>2, <1>3, <1>4, <1>5, TopIs DEF Cur
<1>6. TypeOK'
  <2>1. calls' \in [Threads -> Seq(Lookup)]
    BY <1>1, <1>4
  <2> QED BY <1>1, <1>2, <2>1 DEF TypeOK
<1>7. Owned'
  <2>1. \A t \in Threads, k \in {1, 2} : Holding(t, k)' <=> Holding(t, k)
    BY <1>3, <1>4 DEF Holding
  <2> QED BY <1>2, <1>4, <2>1 DEF Owned, Times
<1>8. ASSUME NEW t \in Threads PROVE StoredOk(t)'
  <2>1. /\ At(t, "count")' /\ ~Cur(t)'.torn => table'[mapNum'] = Cur(t)'.line
        /\ At(t, "reset")' /\ ~Cur(t)'.torn => pos' = 0
    BY <1>2, <1>4, <1>5 DEF RegionInv, StoredOk, At
  <2>2. \A k \in DOMAIN calls'[t] : calls'[t][k].at \in {"store", "count"} => mapNum' < Room
    BY <1>2, <1>3, <1>4 DEF RegionInv, StoredOk
  <2>3. Len(calls'[t]) = 2 => /\ ~calls'[t][2].torn
                              /\ calls'[t][1].at \in {"reset", "store", "count"} => calls'[t][1].torn
    <3>1. Len(calls[t]) = 2 => 1 \in DOMAIN calls[t] /\ 2 \in DOMAIN calls[t]
      BY <1>2
    <3> QED BY <1>3, <1>4, <3>1 DEF RegionInv, StoredOk
  <2> QED BY <2>1, <2>2, <2>3 DEF StoredOk
<1>9. ASSUME NEW t \in Threads PROVE LookupsOk(t)'
  <2>1. /\ (Pending(t)' <=> Pending(t)) /\ (Scanning(t)' <=> Scanning(t))
        /\ (At(t, "reset")' <=> At(t, "reset"))
    BY <1>4, <1>5 DEF Pending, Scanning, At
  <2>2. View(t)' = View(t) /\ Num(t)' = Num(t)
    BY <1>2, <1>5, <2>1 DEF View, Num, Pending, At
  <2> SUFFICES ASSUME NEW k \in DOMAIN calls[t] PROVE LookupOk(t, calls[t][k])'
    BY <1>4 DEF LookupsOk
  <2>3. PICK c, d : c = calls[t][k] /\ d = calls'[t][k]
    OBVIOUS
  <2>4. /\ LookupOk(t, c) /\ c.truth \subseteq d.truth /\ Region(m, c.addr) \in d.truth
        /\ d.at = c.at /\ d.addr = c.addr /\ d.line = c.line /\ d.l = c.l /\ d.r = c.r /\ d.iMapNum = c.iMapNum
        /\ d.res = c.res /\ d.seen = c.seen /\ d.torn = c.torn /\ d.stale = c.stale
    BY <1>3, <2>3 DEF RegionInv, LookupsOk
  <2>5. ASSUME ~d.torn PROVE Told(t, d)'
    <3>1. Told(t, c)
      BY <2>4, <2>5 DEF LookupOk
    <3>2. d.at \in {"line", "store", "count", "first", "begin"} => ScanOk(t, d)'
      BY <1>2, <2>1, <2>2, <2>4, <3>1, MoreTruth DEF Told, ScanOk
    <3>3. SearchOk(c) => SearchOk(d)
      BY <2>4, MoreTruth DEF SearchOk
    <3> QED BY <2>4, <3>1, <3>2, <3>3 DEF Told
  <2> QED BY <1>1, <2>3, <2>4, <2>5 DEF LookupOk
<1> QED BY <1>6, <1>7, <1>8, <1>9 DEF RegionInv

-----------------------------------------------------------------------------
LEMMA RegionInit ==
    ASSUME Init PROVE RegionInv
<1>1. TypeOK
  <2>1. Empty \in Entry
    BY DEF Empty, Entry, Opts
  <2>2. NoTable \in [0 .. Room -> Entry]
    BY <2>1 DEF NoTable
  <2> QED BY <2>2, LayoutConstants DEF Init, TypeOK
<1>2. \A t \in Threads : calls[t] = <<>>
  BY DEF Init
<1>3. Owned
  BY <1>2, RegionConstants DEF Init, Owned, Times, Holding
<1> QED BY <1>1, <1>2, <1>3 DEF RegionInv, StoredOk, LookupsOk, At

LEMMA RegionNext ==
    ASSUME RegionInv, [Next]_vars PROVE RegionInv'
<1>1. CASE UNCHANGED vars
  BY <1>1 DEF vars, RegionInv, TypeOK, Owned, Times, Holding, StoredOk, LookupsOk, LookupOk, Told, ScanOk,
              View, Num, Pending, Scanning, At, Cur
<1>2. CASE Remap
  BY <1>2, RemapStep
<1>3. ASSUME NEW t \in Threads, Call(t) \/ Step(t) PROVE RegionInv'
  BY <1>3, CallStep, LockStep, RewindStep, ResetStep, ReadStep, StoreStep, CountStep, TryFirstStep, RereadStep,
     BeginStep, ProbeStep, UnlockStep, ReturnStep DEF Step
<1> QED BY <1>1, <1>2, <1>3 DEF Next

\* An answer of a lookup was true at some moment of it, under the exceptions that
\* AnswerWasTrue names: thread_util.c's promise to be thread safe.
THEOREM AnswersWereTrue == Spec => []AnswerWasTrue
<1>1. RegionInv => AnswerWasTrue
  <2> SUFFICES ASSUME RegionInv, NEW t \in Threads, At(t, "done"), ~Cur(t).torn, ~Cur(t).stale
               PROVE  Cur(t).res \in Cur(t).truth
    BY DEF AnswerWasTrue
  <2>1. LookupOk(t, Cur(t))
    BY TopIs DEF RegionInv, LookupsOk, Cur, At
  <2> QED BY <2>1 DEF LookupOk, Told, At
<1> QED BY <1>1, RegionInit, RegionNext, PTL DEF Spec

\* No index leaves the table, even in a scan that a handler's scan has torn, and the
\* mutex is held by the lookups between getRegionEntry and the unlocks.
THEOREM TableIsKept == Spec => [](TypeOK /\ Owned)
<1>1. RegionInv => TypeOK /\ Owned
  BY DEF RegionInv
<1> QED BY <1>1, RegionInit, RegionNext, PTL DEF Spec

=============================================================================
