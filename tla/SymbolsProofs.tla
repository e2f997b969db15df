---------------------------- MODULE SymbolsProofs ----------------------------
(***************************************************************************)
(* Proofs about Symbols: what the library maps is a file dumpsym has       *)
(* written to its end, and stays that file; an address is named after the  *)
(* symbol it lies in; a name is found where it is.                         *)
(***************************************************************************)
EXTENDS Symbols, FiniteSetTheorems, SequenceTheorems, NaturalsInduction,
        WellFoundedInduction, TLAPS

ToolPcs == {"idle", "started", "unlinked", "opened", "writing", "ended"}
Lens == {"none", "empty", "part", "whole"}
Inodes == 1 .. MaxInodes

\* The files that exist: the one found at the start, and one for every run that
\* has got as far as opening its output.
Made == IF tool.pc \in {"started", "unlinked"} THEN tool.runs ELSE tool.runs + 1

TypeOK ==
    /\ tool \in [pc : ToolPcs, image : DOMAIN Images \cup {0}, runs : 0 .. 2, status : {0, 1}]
    /\ inodes \in [Inodes -> [image : DOMAIN Images \cup {Foreign}, len : Lens]]
    /\ dir \in 0 .. Made
    /\ lib.fd \in 0 .. Made /\ lib.map \in 0 .. Made /\ lib.tables \in 0 .. Made

\* The tool: it works for an executable, its run has a number, and it writes to
\* the one file the directory names, which nobody else has written.
ToolWrites ==
    /\ tool.pc = "idle" => tool.runs = 0
    /\ tool.pc # "idle" => tool.runs > 0 /\ tool.image \in DOMAIN Images
    /\ tool.pc = "unlinked" => dir = NoFile
    /\ tool.pc \in {"opened", "writing"} =>
          /\ dir # NoFile
          /\ inodes[dir] = [image |-> tool.image,
                            len |-> IF tool.pc = "opened" THEN "empty" ELSE "part"]

\* A symbol file with something in it is one process() made.
Contents ==
    \A n \in Inodes :
        inodes[n].image # Foreign /\ inodes[n].len \in {"part", "whole"} =>
            /\ inodes[n].image \in DOMAIN Images
            /\ Written[inodes[n].image].outcome = "written"

\* The library: a mapped file, if its size was that of a whole one, is whole,
\* and the tables stand in a file that was found good.
Mapped ==
    /\ lib.pc = "map" => lib.fd # NoFile
    /\ lib.pc = "check" => lib.map # NoFile /\ (lib.nBytes = "whole" => inodes[lib.map].len = "whole")
    /\ lib.tables # NoFile =>
          /\ inodes[lib.tables].len = "whole"
          /\ inodes[lib.tables].image \in DOMAIN Images
          /\ Images[inodes[lib.tables].image].class = 2

FilesInv == TypeOK /\ ToolWrites /\ Contents /\ Mapped

-----------------------------------------------------------------------------
(* The file process() makes. *)

\* Of the executables process() makes a file for, only those of the 64 bit class
\* get the 64 bit form: a file of another class is refused, or is given the 32 bit
\* form (process.c).
LEMMA WrittenClass ==
    ASSUME NEW k \in DOMAIN Images,
           Written[k].outcome = "written", Written[k].bits = 64
    PROVE  Images[k].class = 2
<1> DEFINE image == Images[k]
           s == Sections(image)
           full == s.symtab /\ s.strtab
           tab == IF full THEN sym_tabs(image) ELSE <<>>
           dwarf == IF full /\ s.line THEN LineTables(image) ELSE NoTables
           w == File64(image, s, tab, dwarf)
           fate == ListFate(image.info, image.abbrevs)
<1>1. Written[k] = Process(image, w)
  BY DEF Written, process, process64, Tables
<1>2. w.bits = 64 /\ w.outcome = Outcome(image, s, fate, Len(tab), dwarf)
  BY DEF File64
<1>3. [w EXCEPT !.bits = 32, !.index = SubSeq(@, 1, Len(@) \div 2)].bits = 32
  BY DEF File64
<1> HIDE DEF w, dwarf, tab, full, s, fate
<1>4. get_bit_size(image) # 32
  BY <1>1, <1>3, 64 # 32 DEF Process, process32
<1>5. get_bit_size(image) # 0
  <2> SUFFICES ASSUME get_bit_size(image) = 0 PROVE FALSE
    OBVIOUS
  <2>1. Outcome(image, s, fate, Len(tab), dwarf) = "refused"
    BY DEF Outcome
  <2> QED BY <1>1, <1>2, <1>4, <2>1 DEF Process
<1>6. image.class = 2
  BY <1>4, <1>5 DEF get_bit_size
<1> QED BY <1>6

-----------------------------------------------------------------------------
(* The invariant. *)

LEMMA FilesInit == Init => FilesInv
<1> SUFFICES ASSUME Init PROVE FilesInv
  OBVIOUS
<1> USE DEF Init, Foreign, NoFile, MaxInodes, Inodes
<1>1. TypeOK
  BY DEF TypeOK, ToolPcs, Lens, Made
<1>2. ToolWrites
  BY DEF ToolWrites
<1>3. Contents
  BY DEF Contents
<1>4. Mapped
  BY DEF Mapped
<1> QED BY <1>1, <1>2, <1>3, <1>4 DEF FilesInv

\* The tool's steps that leave the files alone.
LEMMA ToolKeepsFiles ==
    ASSUME FilesInv,
           \/ \E k \in DOMAIN Images : Run(k)
           \/ Unlink \/ RefuseInput \/ GiveUp \/ DiskFull \/ Kill
    PROVE  FilesInv' /\ inodes' = inodes
<1> USE DEF FilesInv
<1>1. CASE \E k \in DOMAIN Images : Run(k)
  <2> PICK k \in DOMAIN Images : Run(k)
    BY <1>1
  <2> USE DEF Run
  <2>1. TypeOK'
    BY DEF TypeOK, ToolPcs, Made, ToolWrites
  <2>2. ToolWrites' /\ Contents' /\ Mapped'
    BY DEF TypeOK, ToolWrites, Contents, Mapped
  <2> QED BY <2>1, <2>2
<1>2. CASE Unlink
  <2> USE DEF Unlink, Tool
  <2>1. TypeOK'
    BY <1>2 DEF TypeOK, ToolPcs, Made, NoFile
  <2>2. ToolWrites' /\ Contents' /\ Mapped'
    BY <1>2 DEF TypeOK, ToolWrites, Contents, Mapped
  <2> QED BY <1>2, <2>1, <2>2
<1>3. CASE RefuseInput \/ GiveUp \/ DiskFull \/ Kill
  <2>1. /\ tool' = [tool EXCEPT !.pc = "ended", !.status = tool'.status]
        /\ tool'.status \in {0, 1} /\ tool.pc # "idle"
        /\ UNCHANGED <<dir, inodes, lib, answer>>
    BY <1>3 DEF TypeOK, RefuseInput, GiveUp, DiskFull, Kill, Tool
  <2>2. TypeOK'
    <3>1. /\ tool' \in [pc : ToolPcs, image : DOMAIN Images \cup {0}, runs : 0 .. 2, status : {0, 1}]
          /\ tool'.pc = "ended" /\ tool'.runs = tool.runs
      BY <2>1 DEF TypeOK, ToolPcs
    <3>2. Made \in Nat /\ Made' \in Nat /\ Made <= Made'
      BY <3>1 DEF TypeOK, Made
    <3> HIDE DEF Made
    <3> QED BY <2>1, <3>1, <3>2 DEF TypeOK
  <2>3. ToolWrites' /\ Contents' /\ Mapped'
    BY <2>1 DEF TypeOK, ToolWrites, Contents, Mapped
  <2> QED BY <2>1, <2>2, <2>3
<1> QED BY <1>1, <1>2, <1>3

\* A new run opens a file that nobody has seen: the name is free then.
LEMMA OpenOutputKeeps ==
    ASSUME FilesInv, OpenOutput
    PROVE  /\ FilesInv'
           /\ lib.tables # NoFile => inodes'[lib.tables] = inodes[lib.tables]
<1> USE DEF FilesInv, NoFile, MaxInodes, Inodes
<1> DEFINE f == tool.runs + 1
<1>1. /\ f \in Inodes /\ lib.tables # f /\ lib.map # f /\ dir' = f
      /\ inodes' = [inodes EXCEPT ![f] = [image |-> tool.image, len |-> "empty"]]
      /\ tool' = [tool EXCEPT !.pc = "opened"]
      /\ tool.pc = "unlinked" /\ UNCHANGED <<lib, answer>>
  BY DEF OpenOutput, Tool, TypeOK, ToolWrites, Made
<1>2. TypeOK'
  BY <1>1 DEF TypeOK, ToolPcs, Lens, Made, ToolWrites
<1>3. ToolWrites'
  BY <1>1 DEF TypeOK, ToolWrites
<1>4. Contents'
  BY <1>1 DEF TypeOK, Contents
<1>5. Mapped'
  BY <1>1 DEF TypeOK, Mapped
<1>6. lib.tables # NoFile => inodes'[lib.tables] = inodes[lib.tables]
  BY <1>1 DEF TypeOK
<1> QED BY <1>2, <1>3, <1>4, <1>5, <1>6

\* What is written to is not whole yet, so that it is not in use.
LEMMA WriteKeeps ==
    ASSUME FilesInv, WriteSome \/ WriteRest
    PROVE  /\ FilesInv'
           /\ lib.tables # NoFile => inodes'[lib.tables] = inodes[lib.tables]
<1> USE DEF FilesInv, NoFile, MaxInodes, Inodes
<1> DEFINE len == inodes'[dir].len
<1>1. /\ tool.pc \in {"opened", "writing"}
      /\ Written[tool.image].outcome = "written"
      /\ \/ /\ inodes' = [inodes EXCEPT ![dir].len = "part"]
            /\ tool' = [tool EXCEPT !.pc = "writing"]
         \/ /\ inodes' = [inodes EXCEPT ![dir].len = "whole"]
            /\ tool' = [tool EXCEPT !.pc = "ended", !.status = tool'.status]
            /\ tool'.status \in {0, 1}
      /\ UNCHANGED <<dir, lib, answer>>
  <2>1. CASE WriteSome
    BY <2>1 DEF WriteSome, Tool
  <2>2. CASE WriteRest
    BY <2>2 DEF WriteRest, TypeOK
  <2> QED BY <2>1, <2>2
<1>2. /\ dir \in Inodes /\ tool.image \in DOMAIN Images
      /\ inodes[dir].image = tool.image /\ inodes[dir].len \in {"empty", "part"}
  BY <1>1 DEF TypeOK, ToolWrites, Made
<1>3. /\ inodes' = [inodes EXCEPT ![dir] = [image |-> tool.image, len |-> len]]
      /\ len \in {"part", "whole"}
      /\ tool'.pc = "writing" => len = "part"
  <2>1. inodes[dir] = [image |-> tool.image, len |-> inodes[dir].len]
    BY <1>2 DEF TypeOK
  <2>2. ASSUME NEW l PROVE [inodes[dir] EXCEPT !.len = l] = [image |-> tool.image, len |-> l]
    BY <2>1
  <2>3. PICK l \in {"part", "whole"} :
           /\ inodes' = [inodes EXCEPT ![dir].len = l]
           /\ tool'.pc = "writing" => l = "part"
    BY <1>1 DEF TypeOK
  <2>4. inodes' = [inodes EXCEPT ![dir] = [image |-> tool.image, len |-> l]]
    BY <2>2, <2>3
  <2>5. len = l
    BY <1>2, <2>4 DEF TypeOK
  <2> QED BY <2>3, <2>4, <2>5
<1> HIDE DEF len
<1>4. /\ lib.tables # dir /\ (lib.pc = "check" /\ lib.nBytes = "whole" => lib.map # dir)
  BY <1>2 DEF TypeOK, Mapped
<1>5. TypeOK'
  BY <1>1, <1>2, <1>3 DEF TypeOK, ToolPcs, Lens, Made
<1>6. ToolWrites'
  BY <1>1, <1>2, <1>3 DEF TypeOK, ToolWrites
<1>7. Contents'
  BY <1>1, <1>2, <1>3 DEF TypeOK, Contents
<1>8. Mapped'
  BY <1>1, <1>2, <1>3, <1>4 DEF TypeOK, Mapped
<1>9. lib.tables # NoFile => inodes'[lib.tables] = inodes[lib.tables]
  BY <1>2, <1>3, <1>4 DEF TypeOK
<1> QED BY <1>5, <1>6, <1>7, <1>8, <1>9

\* The library checks the size it has read, the mark and the magic number.
LEMMA LibraryKeeps ==
    ASSUME FilesInv,
           \/ Ask \/ OpenSymbols \/ MapSymbols \/ CheckSymbols
           \/ \E a \in Addresses : Frame(a)
           \/ \E n \in Names : Named(n)
    PROVE  FilesInv' /\ inodes' = inodes
<1> USE DEF FilesInv, NoFile, Foreign
<1>1. UNCHANGED <<tool, dir, inodes>>
  BY DEF Ask, OpenSymbols, MapSymbols, CheckSymbols, Frame, Named, Answer
<1>2. ToolWrites' /\ Contents'
  BY <1>1 DEF ToolWrites, Contents
<1>3. TypeOK' /\ Mapped'
  <2>1. CASE Ask
    BY <1>1, <2>1 DEF Ask, TypeOK, Mapped, Made
  <2>2. CASE OpenSymbols
    BY <1>1, <2>2 DEF OpenSymbols, TypeOK, Mapped, Made
  <2>3. CASE MapSymbols
    BY <1>1, <2>3 DEF MapSymbols, NotLoaded, TypeOK, Mapped, Made
  <2>4. CASE CheckSymbols
    <3> DEFINE image == inodes[lib.map].image
    <3>1. \/ lib'.tables = NoFile /\ lib'.pc = "look" /\ lib'.map = NoFile /\ lib'.fd = NoFile
          \/ /\ image # Foreign /\ Written[image].bits = 64 /\ lib.nBytes = "whole"
             /\ lib'.tables = lib.map /\ lib'.pc = "look" /\ lib'.map = lib.map /\ lib'.fd = lib.fd
      BY <2>4 DEF CheckSymbols, Checked, NotLoaded
    <3>2. CASE lib'.tables = NoFile
      BY <1>1, <3>1, <3>2 DEF TypeOK, Mapped, Made
    <3>3. CASE lib'.tables # NoFile
      <4>1. lib.map \in Inodes /\ lib.map # NoFile /\ inodes[lib.map].len = "whole"
        BY <2>4, <3>1, <3>3 DEF CheckSymbols, TypeOK, Mapped, Made, Inodes, MaxInodes
      <4>2. image \in DOMAIN Images /\ Written[image].outcome = "written"
        BY <3>1, <3>3, <4>1 DEF Contents
      <4>3. Images[image].class = 2
        BY <3>1, <3>3, <4>2, WrittenClass
      <4> QED BY <1>1, <3>1, <3>3, <4>1, <4>2, <4>3 DEF TypeOK, Mapped, Made
    <3> QED BY <3>2, <3>3
  <2>5. CASE (\E a \in Addresses : Frame(a)) \/ \E n \in Names : Named(n)
    <3>1. lib' = [lib EXCEPT !.pc = "idle"]
      BY <2>5 DEF Frame, Named, Answer
    <3> QED BY <1>1, <3>1 DEF TypeOK, Mapped, Made
  <2> QED BY <2>1, <2>2, <2>3, <2>4, <2>5
<1> QED BY <1>1, <1>2, <1>3

\* No step disturbs the invariant, or the file in use.
LEMMA FilesStep ==
    ASSUME FilesInv, [Next]_vars
    PROVE  /\ FilesInv'
           /\ lib.tables # NoFile => inodes'[lib.tables] = inodes[lib.tables]
<1>1. CASE UNCHANGED vars
  BY <1>1 DEF vars, FilesInv, TypeOK, ToolWrites, Contents, Mapped, Made
<1>2. CASE Next
  BY <1>2, ToolKeepsFiles, OpenOutputKeeps, WriteKeeps, LibraryKeeps DEF Next
<1> QED BY <1>1, <1>2

\* The invariant of the files and of who uses them.
THEOREM FilesAreKept == Spec => []FilesInv
<1>1. Init => FilesInv
  BY FilesInit
<1>2. FilesInv /\ [Next]_vars => FilesInv'
  BY FilesStep
<1> QED BY <1>1, <1>2, PTL DEF Spec

\* The library never uses a symbol file that is not of its class or that dumpsym
\* has not finished (OnlyWholeFiles), whatever executables are dumped.
THEOREM FilesInUseAreWhole == Spec => []OnlyWholeFiles
<1>1. FilesInv => OnlyWholeFiles
  BY DEF FilesInv, Mapped, OnlyWholeFiles
<1> QED BY <1>1, FilesAreKept, PTL

\* The file in use keeps what it holds: a run of dumpsym beside the library makes
\* a new file, since main.c unlinks the old one before it opens its output.
THEOREM FileInUseIsKept ==
    Spec => [][lib.tables # NoFile => inodes'[lib.tables] = inodes[lib.tables]]_vars
<1>1. FilesInv /\ [Next]_vars
        => [lib.tables # NoFile => inodes'[lib.tables] = inodes[lib.tables]]_vars
  BY FilesStep
<1> QED BY <1>1, FilesAreKept, PTL DEF Spec

-----------------------------------------------------------------------------
(* The binary search.  side[x] says on which side of entry x it goes on.    *)

\* What the search among the entries from l to r comes to, x being the middle.
Turn(v, side, l, r, x) ==
    IF l > r THEN -1
    ELSE CASE side[x] < 0 -> v[<<l, x - 1>>]
           [] side[x] = 0 -> x
           [] OTHER -> v[<<x + 1, r>>]

Bounds(n) == (0 .. n) \X (-1 .. n - 1)
SearchBy(n, side) ==
    CHOOSE v : v = [b \in Bounds(n) |-> Turn(v, side, b[1], b[2], (b[1] + b[2]) \div 2)]

\* v is what the search comes to among up to k entries.
IsSearch(n, side, k, v) ==
    /\ v = [b \in Bounds(n) |-> v[b]]
    /\ \A l \in 0 .. n, r \in -1 .. n - 1 :
          r - l + 1 <= k => v[<<l, r>>] = Turn(v, side, l, r, (l + r) \div 2)

\* Every set of naturals has a least element.
LEMMA Least ==
    ASSUME NEW T \in SUBSET Nat, T # {}
    PROVE  \E m \in T : \A k \in 0 .. m - 1 : k \notin T
<1>1. PICK m \in T : \A k \in T : ~(<<k, m>> \in OpToRel(<, Nat))
  BY NatLessThanWellFounded, WFMin
<1>2. \A k \in T : ~(k < m)
  BY <1>1 DEF OpToRel
<1>3. \A k \in 0 .. m - 1 : k \notin T
  BY <1>2
<1> QED BY <1>3

\* The middle lies between the ends.
LEMMA Middle ==
    ASSUME NEW n \in Nat, NEW l \in 0 .. n, NEW r \in -1 .. n - 1, l <= r
    PROVE  \E x \in Int : /\ x = (l + r) \div 2 /\ l <= x /\ x <= r /\ x \in 0 .. n - 1
                          /\ x - 1 \in -1 .. n - 1 /\ x + 1 \in 0 .. n
<1>1. PICK x \in Int : x = (l + r) \div 2
  OBVIOUS
<1>2. l <= x /\ x <= r
  BY <1>1
<1> QED BY <1>1, <1>2

LEMMA SearchGrows ==
    ASSUME NEW n \in Nat, NEW side, NEW k \in Nat, NEW v, IsSearch(n, side, k, v)
    PROVE  \E u : IsSearch(n, side, k + 1, u)
<1> DEFINE At(b) == Turn(v, side, b[1], b[2], (b[1] + b[2]) \div 2)
           u == [b \in Bounds(n) |-> IF b[2] - b[1] + 1 <= k THEN v[b] ELSE At(b)]
<1>1. \A l \in 0 .. n, r \in -1 .. n - 1 :
         u[<<l, r>>] = IF r - l + 1 <= k THEN v[<<l, r>>] ELSE Turn(v, side, l, r, (l + r) \div 2)
  BY DEF Bounds
<1>2. u = [b \in Bounds(n) |-> u[b]]
  OBVIOUS
<1> HIDE DEF u
<1>3. ASSUME NEW l \in 0 .. n, NEW r \in -1 .. n - 1, r - l + 1 <= k + 1
      PROVE  u[<<l, r>>] = Turn(u, side, l, r, (l + r) \div 2)
  <2>1. u[<<l, r>>] = Turn(v, side, l, r, (l + r) \div 2)
    BY <1>1 DEF IsSearch
  <2>2. CASE l > r
    BY <2>1, <2>2 DEF Turn
  <2>3. CASE l <= r
    <3>1. PICK x \in Int : /\ x = (l + r) \div 2 /\ l <= x /\ x <= r /\ x \in 0 .. n - 1
                           /\ x - 1 \in -1 .. n - 1 /\ x + 1 \in 0 .. n
      BY <2>3, Middle
    <3>2. (x - 1) - l + 1 <= k /\ r - (x + 1) + 1 <= k
      BY <1>3, <3>1
    <3>3. u[<<l, x - 1>>] = v[<<l, x - 1>>] /\ u[<<x + 1, r>>] = v[<<x + 1, r>>]
      BY <1>1, <3>1, <3>2
    <3>4. Turn(v, side, l, r, x) = Turn(u, side, l, r, x)
      BY <3>3 DEF Turn
    <3> QED BY <2>1, <3>1, <3>4
  <2> QED BY <2>2, <2>3
<1> QED BY <1>2, <1>3 DEF IsSearch

\* The search comes to something, among any number of entries.
LEMMA SearchExists ==
    ASSUME NEW n \in Nat, NEW side, NEW k \in Nat
    PROVE  \E v : IsSearch(n, side, k, v)
<1> DEFINE none == {m \in Nat : ~\E v : IsSearch(n, side, m, v)}
<1>1. 0 \notin none
  <2> DEFINE v == [b \in Bounds(n) |-> -1]
  <2>1. \A l \in 0 .. n, r \in -1 .. n - 1 : r - l + 1 <= 0 => v[<<l, r>>] = Turn(v, side, l, r, (l + r) \div 2)
    BY DEF Bounds, Turn
  <2>2. v = [b \in Bounds(n) |-> v[b]]
    OBVIOUS
  <2> HIDE DEF v
  <2>3. IsSearch(n, side, 0, v)
    BY <2>1, <2>2 DEF IsSearch
  <2> QED BY <2>3
<1>2. ASSUME none # {} PROVE FALSE
  <2>1. PICK m \in none : \A i \in 0 .. m - 1 : i \notin none
    BY <1>2, Least
  <2>2. m - 1 \in Nat /\ m - 1 \notin none /\ (m - 1) + 1 = m
    BY <1>1, <2>1
  <2>3. PICK v : IsSearch(n, side, m - 1, v)
    BY <2>2
  <2>4. \E u : IsSearch(n, side, (m - 1) + 1, u)
    BY <2>2, <2>3, SearchGrows
  <2> QED BY <2>1, <2>2, <2>4
<1> QED BY <1>2

LEMMA SearchIs ==
    ASSUME NEW n \in Nat, NEW side
    PROVE  \A l \in 0 .. n, r \in -1 .. n - 1 :
              SearchBy(n, side)[<<l, r>>] = Turn(SearchBy(n, side), side, l, r, (l + r) \div 2)
<1> DEFINE Good(v) == v = [b \in Bounds(n) |-> Turn(v, side, b[1], b[2], (b[1] + b[2]) \div 2)]
           s == SearchBy(n, side)
<1>1. n + 1 \in Nat /\ \A l \in 0 .. n, r \in -1 .. n - 1 : r - l + 1 <= n + 1
  OBVIOUS
<1>2. PICK v : IsSearch(n, side, n + 1, v)
  BY <1>1, SearchExists
<1>3. Good(v)
  <2>1. ASSUME NEW b \in Bounds(n) PROVE v[b] = Turn(v, side, b[1], b[2], (b[1] + b[2]) \div 2)
    <3>1. b = <<b[1], b[2]>> /\ b[1] \in 0 .. n /\ b[2] \in -1 .. n - 1
      BY DEF Bounds
    <3> QED BY <1>1, <1>2, <3>1 DEF IsSearch
  <2>2. v = [b \in Bounds(n) |-> v[b]]
    BY <1>2 DEF IsSearch
  <2> QED BY <2>1, <2>2
<1>4. s = CHOOSE u : Good(u)
  BY DEF SearchBy
<1> HIDE DEF Good, s
<1>5. Good(s)
  BY <1>3, <1>4
<1> SUFFICES ASSUME NEW l \in 0 .. n, NEW r \in -1 .. n - 1
             PROVE  s[<<l, r>>] = Turn(s, side, l, r, (l + r) \div 2)
  BY DEF s
<1>6. <<l, r>> \in Bounds(n)
  BY DEF Bounds
<1> QED BY <1>5, <1>6 DEF Good

\* Where the sides point towards what is looked for, the search finds an entry of
\* side 0 if there is one, and answers -1 if there is none.
Points(n, side) ==
    /\ side \in [0 .. n - 1 -> Int]
    /\ \A x, y \in 0 .. n - 1 : x < y => (side[x] < 0 => side[y] < 0) /\ (side[y] > 0 => side[x] > 0)

LEMMA SearchFinds ==
    ASSUME NEW n \in Nat, NEW side, Points(n, side), NEW l \in 0 .. n, NEW r \in -1 .. n - 1
    PROVE  LET x == SearchBy(n, side)[<<l, r>>]
           IN  \/ x \in l .. r /\ side[x] = 0
               \/ x = -1 /\ \A y \in l .. r : side[y] # 0
<1> DEFINE s == SearchBy(n, side)
           Right(i, j) == \/ s[<<i, j>>] \in i .. j /\ side[s[<<i, j>>]] = 0
                          \/ s[<<i, j>>] = -1 /\ \A y \in i .. j : side[y] # 0
           Bad == {k \in Nat : \E i \in 0 .. n, j \in -1 .. n - 1 : j - i + 1 = k /\ ~Right(i, j)}
<1>1. \A i \in 0 .. n, j \in -1 .. n - 1 : s[<<i, j>>] = Turn(s, side, i, j, (i + j) \div 2)
  BY SearchIs
<1> HIDE DEF s
<1>2. ASSUME NEW i \in 0 .. n, NEW j \in -1 .. n - 1, i > j PROVE Right(i, j)
  <2>1. s[<<i, j>>] = -1
    BY <1>1, <1>2 DEF Turn
  <2>2. \A y \in i .. j : FALSE
    BY <1>2
  <2> QED BY <2>1, <2>2
<1>3. ASSUME Bad # {} PROVE FALSE
  <2>1. PICK k \in Bad : \A m \in 0 .. k - 1 : m \notin Bad
    BY <1>3, Least
  <2>2. PICK i \in 0 .. n, j \in -1 .. n - 1 : j - i + 1 = k /\ ~Right(i, j)
    BY <2>1
  <2>3. i <= j
    BY <1>2, <2>2
  <2>4. PICK x \in Int : /\ x = (i + j) \div 2 /\ i <= x /\ x <= j /\ x \in 0 .. n - 1
                         /\ x - 1 \in -1 .. n - 1 /\ x + 1 \in 0 .. n
    BY <2>3, Middle
  <2>5. \A a \in 0 .. n, b \in -1 .. n - 1 : b - a + 1 >= 0 /\ b - a + 1 < k => Right(a, b)
    <3> SUFFICES ASSUME NEW a \in 0 .. n, NEW b \in -1 .. n - 1, b - a + 1 >= 0, b - a + 1 < k
                 PROVE  Right(a, b)
      OBVIOUS
    <3>1. b - a + 1 \in 0 .. k - 1 /\ b - a + 1 \in Nat
      BY <2>1
    <3>2. b - a + 1 \notin Bad
      BY <2>1, <3>1
    <3> QED BY <3>1, <3>2
  <2>6. Right(i, x - 1) /\ Right(x + 1, j)
    <3> HIDE DEF Right
    <3> QED BY <2>2, <2>4, <2>5
  <2>7. s[<<i, j>>] = Turn(s, side, i, j, x)
    BY <1>1, <2>4
  <2>8. side[x] \in Int /\ \A y \in i .. j : y \in 0 .. n - 1 /\ side[y] \in Int
    BY <2>4 DEF Points
  <2>9. CASE side[x] < 0
    <3>1. s[<<i, j>>] = s[<<i, x - 1>>]
      BY <2>3, <2>7, <2>8, <2>9 DEF Turn
    <3>2. \A y \in i .. j : side[y] = 0 => y \in i .. x - 1
      <4> SUFFICES ASSUME NEW y \in i .. j, side[y] = 0 PROVE y < x
        BY <2>4
      <4>1. x < y => side[y] < 0
        BY <2>4, <2>8, <2>9 DEF Points
      <4> QED BY <2>4, <2>8, <2>9, <4>1
    <3>3. \A y \in i .. x - 1 : y \in i .. j
      BY <2>4
    <3> QED BY <2>2, <2>6, <3>1, <3>2, <3>3
  <2>10. CASE side[x] = 0
    <3>1. s[<<i, j>>] = x
      BY <2>3, <2>7, <2>10 DEF Turn
    <3> QED BY <2>2, <2>4, <2>10, <3>1
  <2>11. CASE side[x] > 0
    <3>1. s[<<i, j>>] = s[<<x + 1, j>>]
      BY <2>3, <2>7, <2>8, <2>11 DEF Turn
    <3>2. \A y \in i .. j : side[y] = 0 => y \in x + 1 .. j
      <4> SUFFICES ASSUME NEW y \in i .. j, side[y] = 0 PROVE x < y
        BY <2>4
      <4>1. y < x => side[y] > 0
        BY <2>4, <2>8, <2>11 DEF Points
      <4> QED BY <2>4, <2>8, <2>11, <4>1
    <3>3. \A y \in x + 1 .. j : y \in i .. j
      BY <2>4
    <3> QED BY <2>2, <2>6, <3>1, <3>2, <3>3
  <2> QED BY <2>8, <2>9, <2>10, <2>11
<1>4. CASE l > r
  BY <1>2, <1>4 DEF s
<1>5. CASE l <= r
  <2>1. r - l + 1 \in Nat
    BY <1>5
  <2> QED BY <1>3, <2>1 DEF s
<1> QED BY <1>4, <1>5

\* findDmgSymByAddr and findSymByName search like that.
LEMMA HitFinds ==
    ASSUME NEW n \in Nat \ {0}, NEW side, Points(n, side)
    PROVE  LET x == SearchBy(n, side)[<<0, n - 1>>]
           IN  \/ x \in 0 .. n - 1 /\ side[x] = 0
               \/ x = -1 /\ \A y \in 0 .. n - 1 : side[y] # 0
<1>1. n \in Nat /\ 0 \in 0 .. n /\ n - 1 \in -1 .. n - 1
  OBVIOUS
<1> QED BY <1>1, SearchFinds

-----------------------------------------------------------------------------
(* The sorts.  What is sorted by key is, at each place k, the entry that    *)
(* k - 1 others come before.                                                *)

AheadOf(n, key, i) == {m \in 1 .. n : key[m] < key[i] \/ (m < i /\ ~(key[i] < key[m]))}
OrderBy(n, key) == [k \in 1 .. n |-> CHOOSE i \in 1 .. n : Cardinality(AheadOf(n, key, i)) = k - 1]

LEMMA FewerAhead ==
    ASSUME NEW n \in Nat, NEW key \in [1 .. n -> Int], NEW i \in 1 .. n, NEW j \in 1 .. n, i \in AheadOf(n, key, j)
    PROVE  Cardinality(AheadOf(n, key, i)) < Cardinality(AheadOf(n, key, j))
<1> DEFINE A == AheadOf(n, key, i)
           B == AheadOf(n, key, j)
<1>1. \A m \in 1 .. n : key[m] \in Int /\ m \in Int
  OBVIOUS
<1>2. A \subseteq B /\ A # B
  BY <1>1 DEF AheadOf
<1>3. IsFiniteSet(1 .. n)
  BY FS_Interval
<1>4. B \in SUBSET (1 .. n)
  BY DEF AheadOf
<1> HIDE DEF A, B
<1>5. IsFiniteSet(B) /\ Cardinality(B) \in Nat
  BY <1>3, <1>4, FS_Subset, FS_CardinalityType
<1>6. IsFiniteSet(A) /\ Cardinality(A) \in Nat
  BY <1>2, <1>5, FS_Subset, FS_CardinalityType
<1>7. Cardinality(A) <= Cardinality(B) /\ Cardinality(A) # Cardinality(B)
  BY <1>2, <1>5, FS_Subset
<1> QED BY <1>5, <1>6, <1>7 DEF A, B

\* Of two entries one comes before the other.
LEMMA OneAhead ==
    ASSUME NEW n \in Nat, NEW key \in [1 .. n -> Int], NEW i \in 1 .. n, NEW j \in 1 .. n, i # j
    PROVE  i \in AheadOf(n, key, j) \/ j \in AheadOf(n, key, i)
<1>1. key[i] \in Int /\ key[j] \in Int /\ i \in Int /\ j \in Int
  OBVIOUS
<1> QED BY <1>1 DEF AheadOf

LEMMA RankIs ==
    ASSUME NEW n \in Nat, NEW key \in [1 .. n -> Int], NEW i \in 1 .. n
    PROVE  Cardinality(AheadOf(n, key, i)) \in 0 .. n - 1
<1> DEFINE A == AheadOf(n, key, i)
<1>1. IsFiniteSet(1 .. n) /\ Cardinality(1 .. n) = n
  BY FS_Interval
<1>2. A \in SUBSET (1 .. n) /\ i \notin A
  BY DEF AheadOf
<1> HIDE DEF A
<1>3. IsFiniteSet(A) /\ Cardinality(A) \in Nat /\ Cardinality(A) <= n /\ Cardinality(A) # n
  BY <1>1, <1>2, FS_Subset, FS_CardinalityType
<1> QED BY <1>3 DEF A

\* Sorting puts every entry somewhere, none of them twice, and orders the keys.
LEMMA OrderIs ==
    ASSUME NEW n \in Nat, NEW key \in [1 .. n -> Int]
    PROVE  LET o == OrderBy(n, key)
           IN  /\ o \in [1 .. n -> 1 .. n]
               /\ \A j, k \in 1 .. n : j < k => o[j] # o[k] /\ key[o[j]] <= key[o[k]]
               /\ \A i \in 1 .. n : \E k \in 1 .. n : o[k] = i
<1> DEFINE rank == [i \in 1 .. n |-> Cardinality(AheadOf(n, key, i))]
           o == OrderBy(n, key)
<1>1. rank \in [1 .. n -> 0 .. n - 1]
  BY RankIs
<1>2. \A i, j \in 1 .. n : i \in AheadOf(n, key, j) => rank[i] < rank[j]
  BY FewerAhead
<1> HIDE DEF rank
<1>3. \A i, j \in 1 .. n : i # j => rank[i] # rank[j]
  <2> SUFFICES ASSUME NEW i \in 1 .. n, NEW j \in 1 .. n, i # j PROVE rank[i] # rank[j]
    OBVIOUS
  <2>1. rank[i] < rank[j] \/ rank[j] < rank[i]
    BY <1>2, OneAhead
  <2>2. rank[i] \in Int /\ rank[j] \in Int
    BY <1>1
  <2> QED BY <2>1, <2>2
<1>4. rank \in Surjection(1 .. n, 0 .. n - 1)
  <2>1. rank \in Injection(1 .. n, 0 .. n - 1)
    BY <1>1, <1>3 DEF Injection, IsInjective
  <2>2. IsFiniteSet(0 .. n - 1) /\ Cardinality(0 .. n - 1) = n /\ Cardinality(1 .. n) = n
    BY FS_Interval
  <2> QED BY <2>1, <2>2, FS_Injection
<1>5. \A k \in 1 .. n : o[k] \in 1 .. n /\ rank[o[k]] = k - 1
  <2> SUFFICES ASSUME NEW k \in 1 .. n PROVE o[k] \in 1 .. n /\ rank[o[k]] = k - 1
    OBVIOUS
  <2>1. o[k] = CHOOSE i \in 1 .. n : rank[i] = k - 1
    BY DEF OrderBy, rank
  <2>2. k - 1 \in 0 .. n - 1
    OBVIOUS
  <2>3. \E i \in 1 .. n : rank[i] = k - 1
    BY <1>4, <2>2 DEF Surjection
  <2> HIDE DEF o
  <2> QED BY <2>1, <2>3
<1>6. o \in [1 .. n -> 1 .. n]
  <2>1. o = [k \in 1 .. n |-> o[k]]
    BY DEF OrderBy
  <2> HIDE DEF o
  <2> QED BY <1>5, <2>1
<1> HIDE DEF o
<1>7. ASSUME NEW j \in 1 .. n, NEW k \in 1 .. n, j < k
      PROVE  o[j] # o[k] /\ key[o[j]] <= key[o[k]]
  <2>1. o[j] \in 1 .. n /\ o[k] \in 1 .. n /\ rank[o[j]] = j - 1 /\ rank[o[k]] = k - 1
    BY <1>5
  <2>2. o[j] # o[k] /\ ~(rank[o[k]] < rank[o[j]])
    BY <1>7, <2>1
  <2>3. o[j] \in AheadOf(n, key, o[k])
    BY <1>2, <2>1, <2>2, OneAhead
  <2>4. key[o[j]] \in Int /\ key[o[k]] \in Int
    BY <2>1
  <2> QED BY <2>2, <2>3, <2>4 DEF AheadOf
<1>8. ASSUME NEW i \in 1 .. n PROVE \E k \in 1 .. n : o[k] = i
  <2>1. rank[i] \in 0 .. n - 1
    BY <1>1
  <2>2. PICK k \in 1 .. n : k = rank[i] + 1
    BY <2>1
  <2>3. rank[o[k]] = rank[i] /\ o[k] \in 1 .. n
    BY <1>5, <2>1, <2>2
  <2> QED BY <1>3, <2>3
<1> QED BY <1>6, <1>7, <1>8 DEF o

-----------------------------------------------------------------------------
(* The symbols that are taken, one after the other.                         *)

Item(image, sym) ==
    [addr |-> Field(image, "stab", "value", sym.value),
     size |-> Field(image, "stab", "size", sym.size),
     ptr |-> sym.name]
Room(n) == n < MaxSyms /\ n * (NameSize + 1) + NameSize < MaxBuff
Take(image, tab, sym) == IF Wanted(sym) /\ Room(Len(tab)) THEN Append(tab, Item(image, sym)) ELSE tab

\* What has been taken of every set of symbols.
TakenOf(image, q) ==
    CHOOSE it : it = [s \in SUBSET DOMAIN q |->
                         IF s = {} THEN <<>> ELSE Take(image, it[s \ {Max(s)}], q[Max(s)])]

IsTaken(image, q, n, it) ==
    /\ it = [s \in SUBSET (1 .. n) |-> it[s]]
    /\ it[{}] = <<>>
    /\ \A s \in SUBSET (1 .. n) : s # {} => it[s] = Take(image, it[s \ {Max(s)}], q[Max(s)])

\* The greatest of a set that holds an upper bound of it.
LEMMA HighestOfPrefix ==
    ASSUME NEW k \in Nat, NEW s \in SUBSET (1 .. k + 1), k + 1 \in s
    PROVE  Max(s) = k + 1 /\ s \ {k + 1} \in SUBSET (1 .. k)
<1>1. \A x \in s : x \in Nat /\ k + 1 >= x
  OBVIOUS
<1>2. \A m \in s : (\A x \in s : m >= x) => m = k + 1
  BY <1>1
<1>3. Max(s) \in s /\ \A x \in s : Max(s) >= x
  BY <1>1 DEF Max
<1>4. Max(s) = k + 1
  BY <1>2, <1>3
<1> QED BY <1>4

LEMMA TakenGrows ==
    ASSUME NEW image, NEW q, NEW k \in Nat, NEW it, IsTaken(image, q, k, it)
    PROVE  \E jt : IsTaken(image, q, k + 1, jt)
<1> DEFINE jt == [s \in SUBSET (1 .. k + 1) |->
                     IF k + 1 \in s THEN Take(image, it[s \ {k + 1}], q[k + 1]) ELSE it[s]]
<1>1. \A s \in SUBSET (1 .. k + 1) : s \ {Max(s)} \in SUBSET (1 .. k + 1)
  OBVIOUS
<1>2. {} \in SUBSET (1 .. k + 1) /\ jt[{}] = it[{}] /\ it[{}] = <<>>
  BY DEF IsTaken
<1>3. ASSUME NEW s \in SUBSET (1 .. k + 1), s # {}
      PROVE  jt[s] = Take(image, jt[s \ {Max(s)}], q[Max(s)])
  <2>1. CASE k + 1 \in s
    <3>1. Max(s) = k + 1 /\ s \ {k + 1} \in SUBSET (1 .. k) /\ s \ {k + 1} \in SUBSET (1 .. k + 1)
      BY <2>1, HighestOfPrefix
    <3>2. jt[s] = Take(image, it[s \ {k + 1}], q[k + 1]) /\ jt[s \ {k + 1}] = it[s \ {k + 1}]
      BY <2>1, <3>1
    <3> QED BY <3>1, <3>2
  <2>2. CASE k + 1 \notin s
    <3>1. s \in SUBSET (1 .. k)
      BY <2>2
    <3>2. jt[s] = it[s] /\ jt[s \ {Max(s)}] = it[s \ {Max(s)}]
      BY <1>1, <2>2
    <3>3. it[s] = Take(image, it[s \ {Max(s)}], q[Max(s)])
      BY <1>3, <3>1 DEF IsTaken
    <3> QED BY <3>2, <3>3
  <2> QED BY <2>1, <2>2
<1>4. jt = [s \in SUBSET (1 .. k + 1) |-> jt[s]]
  OBVIOUS
<1> HIDE DEF jt
<1>5. IsTaken(image, q, k + 1, jt)
  BY <1>2, <1>3, <1>4 DEF IsTaken
<1> QED BY <1>5

LEMMA TakenExists ==
    ASSUME NEW image, NEW q, NEW n \in Nat
    PROVE  \E it : IsTaken(image, q, n, it)
<1> DEFINE none == {k \in Nat : ~\E it : IsTaken(image, q, k, it)}
<1>1. 0 \notin none
  <2> DEFINE it == [s \in SUBSET (1 .. 0) |-> <<>>]
  <2>1. SUBSET (1 .. 0) = {{}}
    OBVIOUS
  <2>2. IsTaken(image, q, 0, it)
    BY <2>1 DEF IsTaken
  <2> QED BY <2>2
<1>2. ASSUME none # {} PROVE FALSE
  <2>1. PICK m \in none : \A k \in 0 .. m - 1 : k \notin none
    BY <1>2, Least
  <2>2. m - 1 \in Nat /\ m - 1 \notin none /\ (m - 1) + 1 = m
    BY <1>1, <2>1
  <2>3. PICK it : IsTaken(image, q, m - 1, it)
    BY <2>2
  <2>4. \E jt : IsTaken(image, q, (m - 1) + 1, jt)
    BY <2>2, <2>3, TakenGrows
  <2> QED BY <2>1, <2>2, <2>4
<1> QED BY <1>2

LEMMA TakenIs ==
    ASSUME NEW image, NEW q, NEW n \in Nat, DOMAIN q = 1 .. n
    PROVE  IsTaken(image, q, n, TakenOf(image, q))
<1> DEFINE It == TakenOf(image, q)
           Made2(it, s) == IF s = {} THEN <<>> ELSE Take(image, it[s \ {Max(s)}], q[Max(s)])
           Good(it) == it = [s \in SUBSET (1 .. n) |-> Made2(it, s)]
<1>1. PICK jt : IsTaken(image, q, n, jt)
  BY TakenExists
<1>2. It = CHOOSE it : Good(it)
  BY DEF TakenOf
<1>3. \A it, s : Made2(it, s) = IF s = {} THEN <<>> ELSE Take(image, it[s \ {Max(s)}], q[Max(s)])
  OBVIOUS
<1> HIDE DEF It, Made2
<1>4. Good(jt)
  <2>1. \A s \in SUBSET (1 .. n) : jt[s] = Made2(jt, s)
    BY <1>1, <1>3 DEF IsTaken
  <2>2. jt = [s \in SUBSET (1 .. n) |-> jt[s]]
    BY <1>1 DEF IsTaken
  <2> QED BY <2>1, <2>2
<1> HIDE DEF Good
<1>5. Good(It)
  BY <1>2, <1>4
<1>6. \A s \in SUBSET (1 .. n) : It[s] = Made2(It, s)
  BY <1>5 DEF Good
<1>7. It = [s \in SUBSET (1 .. n) |-> It[s]]
  BY <1>5, <1>6 DEF Good
<1>8. {} \in SUBSET (1 .. n)
  OBVIOUS
<1>9. IsTaken(image, q, n, It)
  BY <1>3, <1>6, <1>7, <1>8 DEF IsTaken
<1> QED BY <1>9 DEF It

LEMMA ImportedIsTaken ==
    ASSUME NEW image
    PROVE  Imported(image) = TakenOf(image, image.symbols)[DOMAIN image.symbols]
BY DEF Imported, TakenOf, Take, Item, Room, FoldLeft, MapThenFoldSet

\* One symbol after the other: nothing at first, then what one more step makes.
LEMMA TakenSteps ==
    ASSUME NEW image, NEW q, NEW n \in Nat, NEW it, IsTaken(image, q, n, it)
    PROVE  /\ it[1 .. 0] = <<>>
           /\ \A k \in 1 .. n : it[1 .. k] = Take(image, it[1 .. k - 1], q[k])
<1>1. it[1 .. 0] = <<>>
  <2>1. 1 .. 0 = {}
    OBVIOUS
  <2> QED BY <2>1 DEF IsTaken
<1>2. ASSUME NEW k \in 1 .. n PROVE it[1 .. k] = Take(image, it[1 .. k - 1], q[k])
  <2>1. k - 1 \in Nat /\ k = (k - 1) + 1 /\ k \in 1 .. k /\ 1 .. k \in SUBSET (1 .. n)
    OBVIOUS
  <2>2. Max(1 .. k) = k
    BY <2>1, HighestOfPrefix
  <2>3. 1 .. k # {} /\ (1 .. k) \ {k} = 1 .. k - 1
    BY <2>1
  <2>4. it[1 .. k] = Take(image, it[(1 .. k) \ {Max(1 .. k)}], q[Max(1 .. k)])
    BY <2>1, <2>3 DEF IsTaken
  <2> QED BY <2>2, <2>3, <2>4
<1> QED BY <1>1, <1>2

Syms == [name : Nat, value : Nat, size : Nat, type : STRING, mapping : BOOLEAN]
Items == [addr : Nat, size : Nat, ptr : Nat]

\* g says which of the first k symbols each entry of the table is for: they are
\* wanted, none of them is there twice, and all are there, unless the room is used up.
Stands(image, k, tab, g) ==
    /\ tab \in Seq(Items)
    /\ g \in [1 .. Len(tab) -> {s \in 1 .. k : Wanted(image.symbols[s])}]
    /\ \A i, j \in 1 .. Len(tab) : i # j => g[i] # g[j]
    /\ \A i \in 1 .. Len(tab) : LET sym == image.symbols[g[i]]
                                IN  tab[i] = [addr |-> sym.value, size |-> sym.size, ptr |-> sym.name]
    /\ \/ \A s \in 1 .. k : Wanted(image.symbols[s]) => \E i \in 1 .. Len(tab) : g[i] = s
       \/ ~Room(Len(tab))

\* The byte order of a file makes no difference to its symbols.
LEMMA ItemIs ==
    ASSUME NEW image, NEW sym
    PROVE  Item(image, sym) = [addr |-> sym.value, size |-> sym.size, ptr |-> sym.name]
BY DEF Item, Field, SwappedFields

LEMMA SymbolsAre ==
    ASSUME NEW k \in DOMAIN Images
    PROVE  /\ Images[k].symbols \in Seq(Syms)
           /\ Len(Images[k].symbols) \in Nat
           /\ DOMAIN Images[k].symbols = 1 .. Len(Images[k].symbols)
           /\ \A s \in 1 .. Len(Images[k].symbols) : Images[k].symbols[s] \in Syms
           /\ SymbolsOf(Images[k]) \subseteq 1 .. Len(Images[k].symbols)
           /\ IsFiniteSet(SymbolsOf(Images[k]))
<1> DEFINE q == Images[k].symbols
<1>1. q \in Seq(Syms)
  BY SymbolConstants DEF Syms
<1> HIDE DEF q
<1>2. Len(q) \in Nat /\ DOMAIN q = 1 .. Len(q) /\ \A s \in 1 .. Len(q) : q[s] \in Syms
  BY <1>1
<1>3. SymbolsOf(Images[k]) \subseteq 1 .. Len(q)
  BY <1>1, <1>2 DEF q, SymbolsOf
<1>4. IsFiniteSet(1 .. Len(q))
  BY <1>2, FS_Interval
<1>5. IsFiniteSet(SymbolsOf(Images[k]))
  BY <1>3, <1>4, FS_Subset
<1> QED BY <1>1, <1>2, <1>3, <1>5 DEF q

\* One symbol more.
LEMMA TakeStands ==
    ASSUME NEW image, NEW k \in Nat \ {0}, image.symbols[k] \in Syms,
           NEW tab, NEW g, Stands(image, k - 1, tab, g)
    PROVE  \E h : Stands(image, k, Take(image, tab, image.symbols[k]), h)
<1> DEFINE sym == image.symbols[k]
           m == Len(tab)
           item == [addr |-> sym.value, size |-> sym.size, ptr |-> sym.name]
           Of(s) == Wanted(image.symbols[s])
<1>1. m \in Nat /\ tab \in Seq(Items) /\ DOMAIN tab = 1 .. m
  BY DEF Stands
<1>2. /\ g \in [1 .. m -> {s \in 1 .. k - 1 : Of(s)}]
      /\ \A i, j \in 1 .. m : i # j => g[i] # g[j]
      /\ \A i \in 1 .. m : tab[i] = [addr |-> image.symbols[g[i]].value, size |-> image.symbols[g[i]].size,
                                     ptr |-> image.symbols[g[i]].name]
      /\ (\A s \in 1 .. k - 1 : Of(s) => \E i \in 1 .. m : g[i] = s) \/ ~Room(m)
  BY DEF Stands
<1>3. item \in Items
  BY DEF Items, Syms
<1>4. k \in 1 .. k /\ \A s \in 1 .. k : s = k \/ s \in 1 .. k - 1
  OBVIOUS
<1>5. \A i \in 1 .. m : g[i] \in 1 .. k /\ g[i] # k /\ Of(g[i])
  BY <1>2
<1>6. CASE ~(Wanted(sym) /\ Room(m))
  <2>1. Take(image, tab, sym) = tab
    BY <1>6 DEF Take
  <2>2. g \in [1 .. m -> {s \in 1 .. k : Of(s)}]
    BY <1>2, <1>5
  <2>3. (\A s \in 1 .. k : Of(s) => \E i \in 1 .. m : g[i] = s) \/ ~Room(m)
    BY <1>2, <1>4, <1>6
  <2>4. Stands(image, k, tab, g)
    BY <1>1, <1>2, <2>2, <2>3 DEF Stands
  <2> QED BY <2>1, <2>4
<1>7. CASE Wanted(sym) /\ Room(m)
  <2> DEFINE p == Append(tab, item)
             h == [i \in 1 .. m + 1 |-> IF i = m + 1 THEN k ELSE g[i]]
  <2>1. Take(image, tab, sym) = p
    BY <1>7, ItemIs DEF Take
  <2>2. p \in Seq(Items) /\ Len(p) = m + 1 /\ p[m + 1] = item /\ \A i \in 1 .. m : p[i] = tab[i]
    BY <1>1, <1>3
  <2>3. \A i \in 1 .. m + 1 : i = m + 1 \/ i \in 1 .. m
    BY <1>1
  <2>4. h[m + 1] = k /\ \A i \in 1 .. m : h[i] = g[i]
    BY <1>1
  <2>5. h \in [1 .. m + 1 -> {s \in 1 .. k : Of(s)}]
    BY <1>4, <1>5, <1>7, <2>3
  <2> HIDE DEF h, p
  <2>6. \A i, j \in 1 .. m + 1 : i # j => h[i] # h[j]
    BY <1>2, <1>5, <2>3, <2>4
  <2>7. \A i \in 1 .. m + 1 : p[i] = [addr |-> image.symbols[h[i]].value, size |-> image.symbols[h[i]].size,
                                      ptr |-> image.symbols[h[i]].name]
    BY <1>2, <2>2, <2>3, <2>4
  <2>8. \A s \in 1 .. k : Of(s) => \E i \in 1 .. m + 1 : h[i] = s
    <3>1. \A s \in 1 .. k - 1 : Of(s) => \E i \in 1 .. m : g[i] = s
      BY <1>2, <1>7
    <3>2. m + 1 \in 1 .. m + 1 /\ \A i \in 1 .. m : i \in 1 .. m + 1
      BY <1>1
    <3> QED BY <1>4, <2>4, <3>1, <3>2
  <2>9. Stands(image, k, p, h)
    BY <2>2, <2>5, <2>6, <2>7, <2>8 DEF Stands
  <2> QED BY <2>1, <2>9
<1> QED BY <1>6, <1>7

\* The table of an executable.
LEMMA ImportedIs ==
    ASSUME NEW k \in DOMAIN Images
    PROVE  \E g : Stands(Images[k], Len(Images[k].symbols), Imported(Images[k]), g)
<1> DEFINE image == Images[k]
           q == image.symbols
           n == Len(q)
           it == TakenOf(image, q)
           Good(i) == \E g : Stands(image, i, it[1 .. i], g)
           Bad == {i \in Nat : i <= n /\ ~Good(i)}
<1>1. n \in Nat /\ DOMAIN q = 1 .. n /\ \A s \in 1 .. n : q[s] \in Syms
  BY SymbolsAre
<1> HIDE DEF n
<1>i. IsTaken(image, q, n, it)
  BY <1>1, TakenIs
<1> HIDE DEF it
<1>2. it[1 .. 0] = <<>> /\ \A i \in 1 .. n : it[1 .. i] = Take(image, it[1 .. i - 1], q[i])
  <2> HIDE DEF q, image
  <2>1. n \in Nat
    BY <1>1
  <2>2. it[1 .. 0] = <<>>
    BY <2>1, <1>i, TakenSteps
  <2>3. \A i \in 1 .. n : it[1 .. i] = Take(image, it[1 .. i - 1], q[i])
    BY <2>1, <1>i, TakenSteps
  <2> QED BY <2>2, <2>3
<1>3. Good(0)
  <2> DEFINE g == [i \in 1 .. 0 |-> 0]
  <2>1. 1 .. 0 = {} /\ Len(<<>>) = 0 /\ <<>> \in Seq(Items)
    BY EmptySeq
  <2>2. Stands(image, 0, <<>>, g)
    BY <2>1 DEF Stands
  <2> QED BY <1>2, <2>2
<1>4. ASSUME Bad # {} PROVE FALSE
  <2>1. PICK i \in Bad : \A j \in 0 .. i - 1 : j \notin Bad
    BY <1>4, Least
  <2>2. i \in 1 .. n /\ i \in Nat \ {0} /\ i - 1 \in 0 .. i - 1 /\ i - 1 \in Nat /\ i - 1 <= n
    BY <1>1, <1>3, <2>1
  <2>3. PICK g : Stands(image, i - 1, it[1 .. i - 1], g)
    BY <2>1, <2>2
  <2>4. it[1 .. i] = Take(image, it[1 .. i - 1], q[i]) /\ q[i] \in Syms
    BY <1>1, <1>2, <2>2
  <2>5. Good(i)
    BY <2>2, <2>3, <2>4, TakeStands
  <2> QED BY <2>1, <2>5
<1>5. Good(n)
  BY <1>1, <1>4
<1>6. Imported(image) = it[1 .. n]
  BY <1>1, ImportedIsTaken DEF it
<1> QED BY <1>5, <1>6 DEF n

-----------------------------------------------------------------------------
(* What the file holds for the lookups.                                     *)

\* What an executable's file must be for the library to use it.
Loadable(k) ==
    k \in DOMAIN Images /\ Written[k].outcome = "written" /\ Written[k].bits = 64 /\ Written[k].mark

LEMMA LoadableIs ==
    ASSUME NEW k, Loadable(k)
    PROVE  LET t == sym_tabs(Images[k])
           IN  /\ Written[k].tab = Entries(t)
               /\ Written[k].hash = sym_hash(t)
               /\ Len(t) \in Nat => Len(t) * (NameSize + 1) + 1 + Len(t) < MaxBuff
               /\ SymbolsOf(Images[k]) # {}
<1> DEFINE image == Images[k]
           s == Sections(image)
           full == s.symtab /\ s.strtab
           tab == IF full THEN sym_tabs(image) ELSE <<>>
           dwarf == IF full /\ s.line THEN LineTables(image) ELSE NoTables
           w == File64(image, s, tab, dwarf)
           n == Len(tab)
<1>0. k \in DOMAIN Images
  BY DEF Loadable
<1>1. Written[k] = Process(image, w)
  BY <1>0 DEF Written, process, process64, Tables
<1>2. /\ w.bits = 64 /\ w.outcome = Outcome(image, s, ListFate(image.info, image.abbrevs), Len(tab), dwarf)
      /\ w.mark <=> full
      /\ w.tab = Entries(tab) /\ w.hash = sym_hash(tab) /\ w.index = dwarf.index /\ w.packets = dwarf.packets
  BY DEF File64
<1>3. [w EXCEPT !.bits = 32, !.index = SubSeq(@, 1, Len(@) \div 2)].bits = 32
  BY DEF File64
<1> HIDE DEF w, dwarf
<1>4. get_bit_size(image) # 32
  BY <1>1, <1>3, 64 # 32 DEF Loadable, Process, process32
<1>5. Written[k] = w
  BY <1>1, <1>4 DEF Process
<1>6. full
  BY <1>2, <1>5 DEF Loadable
<1>7. tab = sym_tabs(image)
  BY <1>6
<1> HIDE DEF tab, full
<1>8. ASSUME n \in Nat PROVE n * (NameSize + 1) + 1 + n < MaxBuff
  <2>1. Outcome(image, s, ListFate(image.info, image.abbrevs), n, dwarf) = "written"
    BY <1>2, <1>5 DEF Loadable
  <2>2. ~(n * (NameSize + 1) + TableSize(n, dwarf) >= MaxBuff)
    <3>0. ListFate(image.info, image.abbrevs) # "written"
      BY DEF ListFate, FateOf
    <3> HIDE DEF s, n
    <3>1. CASE ~(s.symtab /\ s.strtab)
      BY <1>6, <3>1 DEF full
    <3>2. CASE s.symtab /\ s.strtab
      BY <2>1, <3>0, <3>2 DEF Outcome
    <3> QED BY <3>1, <3>2
  <2>3. TableSize(n, dwarf) \in Nat /\ TableSize(n, dwarf) >= 1 + n
    <3>1. Len(dwarf.index) \in Nat /\ Len(dwarf.packets) \in Nat
      BY <1>0, <1>2, <1>5, TablesAreSequences DEF Loadable
    <3> DEFINE a == Len(dwarf.index)
               b == Len(dwarf.packets)
               extra == IF dwarf = NoTables THEN 0 ELSE 3 + 2 * a + b
    <3>2. extra \in Nat
      <4> HIDE DEF a, b
      <4>1. a \in Nat /\ b \in Nat
        BY <3>1 DEF a, b
      <4> QED BY <4>1
    <3>3. TableSize(n, dwarf) = 1 + n + (n % 2) + extra
      BY DEF TableSize
    <3> HIDE DEF extra, n
    <3>4. n % 2 \in Nat
      BY <1>8
    <3> QED BY <1>8, <3>2, <3>3, <3>4
  <2> HIDE DEF n
  <2>4. n * (NameSize + 1) \in Nat
    BY <1>8 DEF NameSize
  <2>5. MaxBuff \in Nat
    BY SymbolConstants
  <2> DEFINE size == TableSize(n, dwarf)
             names == n * (NameSize + 1)
  <2> HIDE DEF size, names
  <2>6. ~(names + size >= MaxBuff) /\ size \in Nat /\ size >= 1 + n /\ names \in Nat
    BY <2>2, <2>3, <2>4 DEF size, names
  <2>7. names + 1 + n < MaxBuff
    BY <1>8, <2>5, <2>6
  <2> QED BY <2>7 DEF names
<1>9. SymbolsOf(image) # {}
  BY <1>0, <1>6, SymbolConstants DEF full, SymbolsOf
<1> QED BY <1>2, <1>5, <1>7, <1>8, <1>9

\* A table t of an executable: h says for which of its symbols each entry stands;
\* each of them is wanted and none of them has two entries.
IsTable(image, t, m, h) ==
    /\ m \in Nat \ {0} /\ t \in [1 .. m -> Items] /\ Len(t) = m
    /\ h \in [1 .. m -> SymbolsOf(image)]
    /\ \A i, j \in 1 .. m : i # j => h[i] # h[j]
    /\ \A i \in 1 .. m : LET sym == image.symbols[h[i]]
                         IN  /\ t[i] = [addr |-> sym.value, size |-> sym.size, ptr |-> sym.name]
                             /\ t[i].addr = sym.value /\ t[i].size = sym.size /\ t[i].ptr = sym.name

\* Nothing is missing from it, unless the room is used up.
Complete(image, m, h) ==
    (\A s \in SymbolsOf(image) : \E i \in 1 .. m : h[i] = s) \/ ~Room(m)

LEMMA ImportedIsTable ==
    ASSUME NEW k \in DOMAIN Images, SymbolsOf(Images[k]) # {}
    PROVE  \E h : /\ IsTable(Images[k], Imported(Images[k]), Len(Imported(Images[k])), h)
                  /\ Complete(Images[k], Len(Imported(Images[k])), h)
<1> DEFINE image == Images[k]
           t == Imported(image)
           m == Len(t)
           n == Len(image.symbols)
<1>1. PICK g : Stands(image, n, t, g)
  BY ImportedIs
<1>2. n \in Nat /\ DOMAIN image.symbols = 1 .. n /\ SymbolsOf(image) # {}
  BY SymbolsAre
<1> HIDE DEF t, n
<1>3. SymbolsOf(image) = {s \in 1 .. n : Wanted(image.symbols[s])}
  BY <1>2 DEF SymbolsOf
<1>4. m \in Nat /\ t \in [1 .. m -> Items]
  BY <1>1 DEF Stands
<1> HIDE DEF m
<1>5. /\ g \in [1 .. m -> SymbolsOf(image)]
      /\ \A i, j \in 1 .. m : i # j => g[i] # g[j]
      /\ \A i \in 1 .. m : t[i] = [addr |-> image.symbols[g[i]].value, size |-> image.symbols[g[i]].size,
                                   ptr |-> image.symbols[g[i]].name]
  BY <1>1, <1>3 DEF Stands, m
<1>6. Complete(image, m, g)
  BY <1>1, <1>3 DEF Stands, Complete, m
<1>7. m # 0
  <2> SUFFICES ASSUME m = 0 PROVE FALSE
    OBVIOUS
  <2>1. Room(0)
    BY SymbolConstants DEF Room, NameSize
  <2>2. \A i \in 1 .. m : FALSE
    OBVIOUS
  <2> QED BY <1>2, <1>6, <2>1, <2>2 DEF Complete
<1>8. \A i \in 1 .. m : /\ t[i].addr = image.symbols[g[i]].value
                        /\ t[i].size = image.symbols[g[i]].size
                        /\ t[i].ptr = image.symbols[g[i]].name
  <2> SUFFICES ASSUME NEW i \in 1 .. m
               PROVE  /\ t[i].addr = image.symbols[g[i]].value
                      /\ t[i].size = image.symbols[g[i]].size
                      /\ t[i].ptr = image.symbols[g[i]].name
    OBVIOUS
  <2> DEFINE sym == image.symbols[g[i]]
  <2>1. t[i] = [addr |-> sym.value, size |-> sym.size, ptr |-> sym.name]
    BY <1>5
  <2> QED BY <2>1
<1>9. IsTable(image, t, m, g)
  BY <1>4, <1>5, <1>7, <1>8 DEF IsTable, m
<1> QED BY <1>6, <1>9 DEF t, m

\* The two sorts of a table.
LEMMA ByAddress ==
    ASSUME NEW t, NEW m \in Nat, DOMAIN t = 1 .. m
    PROVE  SortedBy(t, LAMBDA a, b : a.addr < b.addr) = OrderBy(m, [i \in 1 .. m |-> t[i].addr])
<1> DEFINE key == [i \in 1 .. m |-> t[i].addr]
           Ahead(n) == {i \in DOMAIN t : t[i].addr < t[n].addr \/ (i < n /\ ~(t[n].addr < t[i].addr))}
<1>1. SortedBy(t, LAMBDA a, b : a.addr < b.addr)
        = [k \in DOMAIN t |-> CHOOSE n \in DOMAIN t : Cardinality(Ahead(n)) = k - 1]
  BY DEF SortedBy
<1>2. \A n \in 1 .. m : Ahead(n) = AheadOf(m, key, n)
  <2> SUFFICES ASSUME NEW n \in 1 .. m PROVE Ahead(n) = AheadOf(m, key, n)
    OBVIOUS
  <2>1. \A i \in 1 .. m : key[i] = t[i].addr
    OBVIOUS
  <2> HIDE DEF key
  <2> QED BY <2>1 DEF AheadOf
<1> HIDE DEF Ahead, key
<1>3. \A k : (CHOOSE n \in 1 .. m : Cardinality(Ahead(n)) = k - 1)
               = CHOOSE n \in 1 .. m : Cardinality(AheadOf(m, key, n)) = k - 1
  BY <1>2
<1> QED BY <1>1, <1>3 DEF OrderBy, key

LEMMA ByName ==
    ASSUME NEW t, NEW m \in Nat, DOMAIN t = 1 .. m
    PROVE  sym_hash(t) = OrderBy(m, [i \in 1 .. m |-> t[i].ptr])
<1> DEFINE key == [i \in 1 .. m |-> t[i].ptr]
           Ahead(n) == {i \in DOMAIN t : t[i].ptr < t[n].ptr \/ (i < n /\ ~(t[n].ptr < t[i].ptr))}
<1>1. sym_hash(t) = [k \in DOMAIN t |-> CHOOSE n \in DOMAIN t : Cardinality(Ahead(n)) = k - 1]
  BY DEF SortedBy, sym_hash
<1>2. \A n \in 1 .. m : Ahead(n) = AheadOf(m, key, n)
  <2> SUFFICES ASSUME NEW n \in 1 .. m PROVE Ahead(n) = AheadOf(m, key, n)
    OBVIOUS
  <2>1. \A i \in 1 .. m : key[i] = t[i].ptr
    OBVIOUS
  <2> HIDE DEF key
  <2> QED BY <2>1 DEF AheadOf
<1> HIDE DEF Ahead, key
<1>3. \A k : (CHOOSE n \in 1 .. m : Cardinality(Ahead(n)) = k - 1)
               = CHOOSE n \in 1 .. m : Cardinality(AheadOf(m, key, n)) = k - 1
  BY <1>2
<1> QED BY <1>1, <1>3 DEF OrderBy, key

AddrsAscend(t, m) == \A i, j \in 1 .. m : i < j => t[i].addr <= t[j].addr

\* sym_tabs holds what was imported, by address.
LEMMA TableIs ==
    ASSUME NEW k \in DOMAIN Images, SymbolsOf(Images[k]) # {}
    PROVE  \E m, h : /\ IsTable(Images[k], sym_tabs(Images[k]), m, h)
                     /\ Complete(Images[k], m, h)
                     /\ AddrsAscend(sym_tabs(Images[k]), m)
                     /\ m = Len(Imported(Images[k]))
<1> DEFINE image == Images[k]
           u == Imported(image)
           m == Len(u)
           key == [i \in 1 .. m |-> u[i].addr]
           o == OrderBy(m, key)
           t == sym_tabs(image)
<1>1. PICK g : IsTable(image, u, m, g) /\ Complete(image, m, g)
  BY ImportedIsTable
<1> HIDE DEF u, m, image
<1>2. m \in Nat \ {0} /\ u \in [1 .. m -> Items] /\ DOMAIN u = 1 .. m /\ \A i \in 1 .. m : u[i].addr \in Nat
  BY <1>1 DEF IsTable, Items
<1>3. key \in [1 .. m -> Int]
  BY <1>2
<1>4. /\ o \in [1 .. m -> 1 .. m]
      /\ \A i, j \in 1 .. m : i < j => o[i] # o[j] /\ key[o[i]] <= key[o[j]]
      /\ \A i \in 1 .. m : \E j \in 1 .. m : o[j] = i
  <2> HIDE DEF key
  <2> QED BY <1>2, <1>3, OrderIs
<1>5. t = [i \in 1 .. m |-> u[o[i]]]
  <2>1. t = LET order == SortedBy(u, LAMBDA a, b : a.addr < b.addr) IN [i \in DOMAIN order |-> u[order[i]]]
    BY DEF sym_tabs, InOrder, u
  <2>2. SortedBy(u, LAMBDA a, b : a.addr < b.addr) = o
    BY <1>2, ByAddress
  <2> HIDE DEF o, t
  <2> QED BY <1>4, <2>1, <2>2
<1>6. \A i \in 1 .. m : key[i] = u[i].addr
  OBVIOUS
<1> DEFINE h == [i \in 1 .. m |-> g[o[i]]]
<1> HIDE DEF o, t, key
<1>7. \A i \in 1 .. m : o[i] \in 1 .. m /\ h[i] = g[o[i]] /\ t[i] = u[o[i]]
  BY <1>4, <1>5
<1>8. \A i, j \in 1 .. m : i # j => o[i] # o[j]
  <2> SUFFICES ASSUME NEW i \in 1 .. m, NEW j \in 1 .. m, i # j PROVE o[i] # o[j]
    OBVIOUS
  <2>1. i < j \/ j < i
    OBVIOUS
  <2> QED BY <1>4, <2>1
<1>9. AddrsAscend(t, m)
  <2> SUFFICES ASSUME NEW i \in 1 .. m, NEW j \in 1 .. m, i < j PROVE t[i].addr <= t[j].addr
    BY DEF AddrsAscend
  <2>1. key[o[i]] <= key[o[j]]
    BY <1>4
  <2>2. t[i] = u[o[i]] /\ t[j] = u[o[j]] /\ key[o[i]] = u[o[i]].addr /\ key[o[j]] = u[o[j]].addr
    BY <1>6, <1>7
  <2> QED BY <2>1, <2>2
<1>10. IsTable(image, t, m, h)
  <2>1. t \in [1 .. m -> Items] /\ h \in [1 .. m -> SymbolsOf(image)]
    BY <1>1, <1>2, <1>5, <1>7 DEF IsTable
  <2>2. Len(t) = m
    BY <1>2, <2>1
  <2> HIDE DEF h
  <2>3. \A i, j \in 1 .. m : i # j => h[i] # h[j]
    BY <1>1, <1>7, <1>8 DEF IsTable
  <2>4. \A i \in 1 .. m : LET sym == image.symbols[h[i]]
                          IN  /\ t[i] = [addr |-> sym.value, size |-> sym.size, ptr |-> sym.name]
                              /\ t[i].addr = sym.value /\ t[i].size = sym.size /\ t[i].ptr = sym.name
    BY <1>1, <1>7 DEF IsTable
  <2> QED BY <1>2, <2>1, <2>2, <2>3, <2>4 DEF IsTable
<1>11. Complete(image, m, h)
  <2> SUFFICES ASSUME Room(m), NEW s \in SymbolsOf(image) PROVE \E i \in 1 .. m : h[i] = s
    BY DEF Complete
  <2>1. PICK i \in 1 .. m : g[i] = s
    BY <1>1 DEF Complete
  <2>2. PICK j \in 1 .. m : o[j] = i
    BY <1>4
  <2> QED BY <1>7, <2>1, <2>2
<1> QED BY <1>9, <1>10, <1>11 DEF t, image, m, u

-----------------------------------------------------------------------------
(* The lookups.                                                             *)

Entry == [addr : Nat, ptr : Nat, end : Nat]
Holds(x, a) == x.addr <= a /\ a < x.end

\* The entries of a table lie one behind the other.
Spread(e, m) == \A i, j \in 1 .. m : i < j => e[i].addr < e[j].addr /\ e[i].end <= e[j].addr

SidesAt(e, m, a) == [x \in 0 .. m - 1 |-> SideOf(a, e[x + 1].addr, e[x + 1].end)]

SidesFor(tab, hash, m, name) == [x \in 0 .. m - 1 |-> name - tab[hash[x + 1]].ptr]

\* findDmgSymByAddr searches like that ...
LEMMA HitAt ==
    ASSUME NEW m \in Nat \ {0}, NEW e, Len(e) = m, NEW a
    PROVE  Hit(Len(e), LAMBDA n : SideOf(a, e[n + 1].addr, e[n + 1].end))
             = SearchBy(m, SidesAt(e, m, a))[<<0, m - 1>>]
<1> DEFINE S(n) == SideOf(a, e[n + 1].addr, e[n + 1].end)
           Down(v, l, r, x) == IF l > r THEN -1
                      ELSE CASE S(x) < 0 -> v[<<l, x - 1>>] [] S(x) = 0 -> x [] OTHER -> v[<<x + 1, r>>]
           At(v, b) == Down(v, b[1], b[2], (b[1] + b[2]) \div 2)
           s == CHOOSE v : v = [b \in Bounds(m) |-> At(v, b)]
<1>1. Hit(Len(e), LAMBDA n : SideOf(a, e[n + 1].addr, e[n + 1].end)) = s[<<0, m - 1>>]
  BY DEF Hit, Bounds
<1>2. ASSUME NEW v, NEW b \in Bounds(m)
      PROVE  At(v, b) = Turn(v, SidesAt(e, m, a), b[1], b[2], (b[1] + b[2]) \div 2)
  <2>1. b = <<b[1], b[2]>> /\ b[1] \in 0 .. m /\ b[2] \in -1 .. m - 1
    BY DEF Bounds
  <2>2. CASE b[1] > b[2]
    BY <2>2 DEF Turn
  <2>3. CASE b[1] <= b[2]
    <3>1. PICK x \in Int : x = (b[1] + b[2]) \div 2 /\ x \in 0 .. m - 1
      BY <2>1, <2>3, Middle
    <3>2. SidesAt(e, m, a)[x] = S(x)
      BY <3>1 DEF SidesAt
    <3> HIDE DEF S
    <3>3. Down(v, b[1], b[2], x) = Turn(v, SidesAt(e, m, a), b[1], b[2], x)
      BY <3>2 DEF Turn
    <3> QED BY <3>1, <3>3
  <2> QED BY <2>1, <2>2, <2>3
<1> HIDE DEF At
<1>3. ASSUME NEW v
      PROVE  [b \in Bounds(m) |-> At(v, b)]
               = [b \in Bounds(m) |-> Turn(v, SidesAt(e, m, a), b[1], b[2], (b[1] + b[2]) \div 2)]
  BY <1>2
<1>4. s = SearchBy(m, SidesAt(e, m, a))
  BY <1>3 DEF SearchBy
<1> QED BY <1>1, <1>4

\* ... and so does findSymByName.
LEMMA HitFor ==
    ASSUME NEW m \in Nat \ {0}, NEW tab, NEW hash, Len(hash) = m, NEW name
    PROVE  Hit(Len(hash), LAMBDA n : name - tab[hash[n + 1]].ptr)
             = SearchBy(m, SidesFor(tab, hash, m, name))[<<0, m - 1>>]
<1> DEFINE S(n) == name - tab[hash[n + 1]].ptr
           Down(v, l, r, x) == IF l > r THEN -1
                      ELSE CASE S(x) < 0 -> v[<<l, x - 1>>] [] S(x) = 0 -> x [] OTHER -> v[<<x + 1, r>>]
           At(v, b) == Down(v, b[1], b[2], (b[1] + b[2]) \div 2)
           s == CHOOSE v : v = [b \in Bounds(m) |-> At(v, b)]
<1>1. Hit(Len(hash), LAMBDA n : name - tab[hash[n + 1]].ptr) = s[<<0, m - 1>>]
  BY DEF Hit, Bounds
<1>2. ASSUME NEW v, NEW b \in Bounds(m)
      PROVE  At(v, b) = Turn(v, SidesFor(tab, hash, m, name), b[1], b[2], (b[1] + b[2]) \div 2)
  <2>1. b = <<b[1], b[2]>> /\ b[1] \in 0 .. m /\ b[2] \in -1 .. m - 1
    BY DEF Bounds
  <2>2. CASE b[1] > b[2]
    BY <2>2 DEF Turn
  <2>3. CASE b[1] <= b[2]
    <3>1. PICK x \in Int : x = (b[1] + b[2]) \div 2 /\ x \in 0 .. m - 1
      BY <2>1, <2>3, Middle
    <3>2. SidesFor(tab, hash, m, name)[x] = S(x)
      BY <3>1 DEF SidesFor
    <3> HIDE DEF S
    <3>3. Down(v, b[1], b[2], x) = Turn(v, SidesFor(tab, hash, m, name), b[1], b[2], x)
      BY <3>2 DEF Turn
    <3> QED BY <3>1, <3>3
  <2> QED BY <2>1, <2>2, <2>3
<1> HIDE DEF At
<1>3. ASSUME NEW v
      PROVE  [b \in Bounds(m) |-> At(v, b)]
               = [b \in Bounds(m) |-> Turn(v, SidesFor(tab, hash, m, name), b[1], b[2], (b[1] + b[2]) \div 2)]
  BY <1>2
<1>4. s = SearchBy(m, SidesFor(tab, hash, m, name))
  BY <1>3 DEF SearchBy
<1> QED BY <1>1, <1>4

LEMMA SymbolAtIs ==
    ASSUME NEW m \in Nat \ {0}, NEW e \in [1 .. m -> Entry], Len(e) = m, Spread(e, m), NEW a \in Nat
    PROVE  \/ \E i \in 1 .. m : Holds(e[i], a) /\ SymbolAt(e, a) = e[i].ptr
           \/ SymbolAt(e, a) = 0 /\ \A i \in 1 .. m : ~Holds(e[i], a)
<1> DEFINE side == SidesAt(e, m, a)
           x == SearchBy(m, side)[<<0, m - 1>>]
<1>1. \A y \in 0 .. m - 1 : side[y] = SideOf(a, e[y + 1].addr, e[y + 1].end)
  BY DEF SidesAt
<1>2. \A i \in 1 .. m : e[i].addr \in Nat /\ e[i].end \in Nat
  BY DEF Entry
<1>3. \A y \in 0 .. m - 1 : y + 1 \in 1 .. m
  OBVIOUS
<1>4. side \in [0 .. m - 1 -> Int]
  BY DEF SidesAt, SideOf
<1> HIDE DEF side
<1>5. ASSUME NEW y \in 0 .. m - 1, NEW z \in 0 .. m - 1, y < z
      PROVE  (side[y] < 0 => side[z] < 0) /\ (side[z] > 0 => side[y] > 0)
  <2>1. /\ y + 1 \in 1 .. m /\ z + 1 \in 1 .. m /\ y + 1 < z + 1
        /\ e[y + 1].addr \in Nat /\ e[y + 1].end \in Nat /\ e[z + 1].addr \in Nat /\ e[z + 1].end \in Nat
    BY <1>2, <1>3, <1>5
  <2>2. e[y + 1].addr < e[z + 1].addr /\ e[y + 1].end <= e[z + 1].addr
    BY <2>1 DEF Spread
  <2>3. side[z] > 0 => a >= e[z + 1].addr
    BY <1>1, <2>1 DEF SideOf
  <2>4. a < e[z + 1].addr => side[z] < 0
    BY <1>1, <2>1 DEF SideOf
  <2>5. a >= e[y + 1].addr /\ a >= e[y + 1].end => side[y] > 0
    BY <1>1, <2>1 DEF SideOf
  <2>6. side[y] < 0 => a < e[y + 1].addr
    BY <1>1, <2>1 DEF SideOf
  <2> QED BY <2>1, <2>2, <2>3, <2>4, <2>5, <2>6
<1>6. Points(m, side)
  BY <1>4, <1>5 DEF Points
<1>7. \/ x \in 0 .. m - 1 /\ side[x] = 0
      \/ x = -1 /\ \A y \in 0 .. m - 1 : side[y] # 0
  BY <1>6, HitFinds
<1>8. SymbolAt(e, a) = IF x = -1 THEN 0 ELSE e[x + 1].ptr
  BY HitAt DEF SymbolAt, side
<1>9. \A y \in 0 .. m - 1 : side[y] = 0 <=> Holds(e[y + 1], a)
  BY <1>1, <1>2, <1>3 DEF SideOf, Holds
<1> HIDE DEF x
<1>10. CASE x \in 0 .. m - 1 /\ side[x] = 0
  <2>1. x # -1 /\ x + 1 \in 1 .. m
    BY <1>10
  <2> QED BY <1>8, <1>9, <1>10, <2>1
<1>11. CASE x = -1 /\ \A y \in 0 .. m - 1 : side[y] # 0
  <2>1. ASSUME NEW i \in 1 .. m PROVE ~Holds(e[i], a)
    <3>1. PICK y \in 0 .. m - 1 : i = y + 1
      BY <2>1
    <3> QED BY <1>9, <1>11, <3>1
  <2> QED BY <1>8, <1>11, <2>1
<1> QED BY <1>7, <1>10, <1>11

LEMMA AddressSearch ==
    ASSUME NEW w, NEW m \in Nat \ {0}, Len(w.hash) = m, NEW name
    PROVE  LET x == SearchBy(m, SidesFor(w.tab, w.hash, m, name))[<<0, m - 1>>]
           IN  AddressOf(w, name) = IF x = -1 THEN 0 ELSE w.tab[w.hash[x + 1]].addr
<1>1. Hit(Len(w.hash), LAMBDA n : name - w.tab[w.hash[n + 1]].ptr)
        = SearchBy(m, SidesFor(w.tab, w.hash, m, name))[<<0, m - 1>>]
  BY HitFor
<1> QED BY <1>1 DEF AddressOf

LEMMA AddressOfIs ==
    ASSUME NEW w, NEW m \in Nat \ {0}, w.tab \in [1 .. m -> Entry],
           w.hash = OrderBy(m, [i \in 1 .. m |-> w.tab[i].ptr]), Len(w.hash) = m, NEW name \in Nat
    PROVE  \/ \E i \in 1 .. m : w.tab[i].ptr = name /\ AddressOf(w, name) = w.tab[i].addr
           \/ AddressOf(w, name) = 0 /\ \A i \in 1 .. m : w.tab[i].ptr # name
<1> DEFINE tab == w.tab
           key == [i \in 1 .. m |-> tab[i].ptr]
           o == w.hash
           side == SidesFor(tab, o, m, name)
           x == SearchBy(m, side)[<<0, m - 1>>]
<1>1. m \in Nat /\ key \in [1 .. m -> Int] /\ \A i \in 1 .. m : tab[i].ptr \in Nat /\ key[i] = tab[i].ptr
  BY DEF Entry
<1>2. AddressOf(w, name) = IF x = -1 THEN 0 ELSE tab[o[x + 1]].addr
  BY AddressSearch
<1> HIDE DEF tab
<1>3. o = OrderBy(m, key)
  BY DEF tab
<1> HIDE DEF key, o
<1>4. /\ o \in [1 .. m -> 1 .. m]
      /\ \A i, j \in 1 .. m : i < j => o[i] # o[j] /\ key[o[i]] <= key[o[j]]
      /\ \A i \in 1 .. m : \E j \in 1 .. m : o[j] = i
  <2> DEFINE p == OrderBy(m, key)
  <2>1. /\ p \in [1 .. m -> 1 .. m]
        /\ \A i, j \in 1 .. m : i < j => p[i] # p[j] /\ key[p[i]] <= key[p[j]]
        /\ \A i \in 1 .. m : \E j \in 1 .. m : p[j] = i
    <3>1. m \in Nat
      OBVIOUS
    <3>2. key \in [1 .. m -> Int]
      BY <1>1
    <3> HIDE DEF side, x
    <3> QED BY ONLY <3>1, <3>2, OrderIs
  <2> QED BY <1>3, <2>1
<1>5. \A y \in 0 .. m - 1 : /\ y + 1 \in 1 .. m /\ o[y + 1] \in 1 .. m
                            /\ side[y] = name - tab[o[y + 1]].ptr
                            /\ key[o[y + 1]] = tab[o[y + 1]].ptr /\ tab[o[y + 1]].ptr \in Nat
  <2> SUFFICES ASSUME NEW y \in 0 .. m - 1
               PROVE  /\ y + 1 \in 1 .. m /\ o[y + 1] \in 1 .. m
                      /\ side[y] = name - tab[o[y + 1]].ptr
                      /\ key[o[y + 1]] = tab[o[y + 1]].ptr /\ tab[o[y + 1]].ptr \in Nat
    OBVIOUS
  <2>1. y + 1 \in 1 .. m
    OBVIOUS
  <2>2. o[y + 1] \in 1 .. m
    BY <1>4, <2>1
  <2>3. side[y] = name - tab[o[y + 1]].ptr
    BY DEF SidesFor
  <2> HIDE DEF side
  <2> QED BY <1>1, <2>1, <2>2, <2>3
<1>6. side \in [0 .. m - 1 -> Int]
  BY <1>5 DEF SidesFor
<1> HIDE DEF side
<1>7. ASSUME NEW y \in 0 .. m - 1, NEW z \in 0 .. m - 1, y < z
      PROVE  (side[y] < 0 => side[z] < 0) /\ (side[z] > 0 => side[y] > 0)
  <2>1. y + 1 < z + 1 /\ y + 1 \in 1 .. m /\ z + 1 \in 1 .. m
    BY <1>7
  <2>2. key[o[y + 1]] <= key[o[z + 1]]
    BY <1>4, <2>1
  <2>3. /\ side[y] = name - tab[o[y + 1]].ptr /\ side[z] = name - tab[o[z + 1]].ptr
        /\ tab[o[y + 1]].ptr \in Nat /\ tab[o[z + 1]].ptr \in Nat
        /\ tab[o[y + 1]].ptr <= tab[o[z + 1]].ptr
    BY <1>5, <2>2
  <2>4. ASSUME side[y] < 0 PROVE side[z] < 0
    BY <2>3, <2>4
  <2>5. ASSUME side[z] > 0 PROVE side[y] > 0
    BY <2>3, <2>5
  <2> QED BY <2>4, <2>5
<1>8. Points(m, side)
  BY <1>6, <1>7 DEF Points
<1>9. \/ x \in 0 .. m - 1 /\ side[x] = 0
      \/ x = -1 /\ \A y \in 0 .. m - 1 : side[y] # 0
  BY <1>8, HitFinds
<1> HIDE DEF x
<1>10. CASE x \in 0 .. m - 1 /\ side[x] = 0
  <2>1. x # -1 /\ x + 1 \in 1 .. m /\ o[x + 1] \in 1 .. m /\ tab[o[x + 1]].ptr = name
    BY <1>5, <1>10
  <2> QED BY <1>2, <2>1 DEF tab
<1>11. CASE x = -1 /\ \A y \in 0 .. m - 1 : side[y] # 0
  <2>1. ASSUME NEW i \in 1 .. m PROVE tab[i].ptr # name
    <3>1. PICK j \in 1 .. m : o[j] = i
      BY <1>4
    <3>2. PICK y \in 0 .. m - 1 : j = y + 1
      OBVIOUS
    <3>3. side[y] # 0 /\ side[y] = name - tab[i].ptr /\ tab[i].ptr \in Nat
      BY <1>5, <1>11, <3>1, <3>2
    <3> QED BY <3>3
  <2> QED BY <1>2, <1>11, <2>1 DEF tab
<1> QED BY <1>9, <1>10, <1>11

-----------------------------------------------------------------------------
(* What a lookup in the table of an executable comes to.                    *)

LEMMA EntriesAre ==
    ASSUME NEW image, NEW t, NEW m, NEW h, IsTable(image, t, m, h)
    PROVE  LET e == Entries(t)
           IN  /\ e \in [1 .. m -> Entry] /\ Len(e) = m
               /\ \A i \in 1 .. m :
                     /\ e[i].addr = image.symbols[h[i]].value /\ e[i].addr = t[i].addr
                     /\ e[i].ptr = image.symbols[h[i]].name /\ e[i].ptr = t[i].ptr
                     /\ t[i].size # 0 => e[i].end = t[i].addr + t[i].size
                     /\ t[i].size = 0 /\ i < m => e[i].end = t[i + 1].addr
                     /\ t[i].size = 0 /\ i = m => e[i].end = 0
<1> DEFINE e == Entries(t)
           End(i) == CASE t[i].size # 0 -> t[i].addr + t[i].size
                       [] t[i].size = 0 /\ i < Len(t) -> t[i + 1].addr
                       [] OTHER -> 0
<1>1. m \in Nat \ {0} /\ Len(t) = m /\ DOMAIN t = 1 .. m
  BY DEF IsTable
<1>2. \A i \in 1 .. m : t[i].addr \in Nat /\ t[i].size \in Nat /\ t[i].ptr \in Nat
  BY DEF IsTable, Items
<1>3. \A i \in 1 .. m : /\ t[i].addr = image.symbols[h[i]].value /\ t[i].ptr = image.symbols[h[i]].name
  BY DEF IsTable
<1>4. \A i \in 1 .. m : /\ t[i].size # 0 => End(i) = t[i].addr + t[i].size
                        /\ t[i].size = 0 /\ i < m => End(i) = t[i + 1].addr
                        /\ t[i].size = 0 /\ i = m => End(i) = 0
  BY <1>1
<1>5. \A i \in 1 .. m : End(i) \in Nat
  <2> SUFFICES ASSUME NEW i \in 1 .. m PROVE End(i) \in Nat
    OBVIOUS
  <2>1. CASE t[i].size # 0
    BY <1>2, <1>4, <2>1
  <2>2. CASE t[i].size = 0 /\ i < m
    <3>1. i + 1 \in 1 .. m
      BY <1>1, <2>2
    <3>2. End(i) = t[i + 1].addr
      BY <1>4, <2>2
    <3> QED BY <1>2, <3>1, <3>2
  <2>3. CASE t[i].size = 0 /\ i = m
    BY <1>4, <2>3
  <2> QED BY <1>1, <2>1, <2>2, <2>3
<1>6. e = [i \in 1 .. m |-> [addr |-> t[i].addr, ptr |-> t[i].ptr, end |-> End(i)]]
  BY <1>1 DEF Entries
<1> HIDE DEF e, End
<1>7. \A i \in 1 .. m : /\ e[i] \in Entry
                        /\ e[i].addr = t[i].addr /\ e[i].ptr = t[i].ptr /\ e[i].end = End(i)
  <2> SUFFICES ASSUME NEW i \in 1 .. m
               PROVE  /\ e[i] \in Entry
                      /\ e[i].addr = t[i].addr /\ e[i].ptr = t[i].ptr /\ e[i].end = End(i)
    OBVIOUS
  <2>1. e[i] = [addr |-> t[i].addr, ptr |-> t[i].ptr, end |-> End(i)]
    BY <1>6
  <2> QED BY <1>2, <1>5, <2>1 DEF Entry
<1>8. e \in [1 .. m -> Entry]
  BY <1>6, <1>7
<1>9. Len(e) = m
  BY <1>1, <1>8
<1> QED BY <1>3, <1>4, <1>7, <1>8, <1>9 DEF e

\* All symbols have an entry, when there are as many of them.
LEMMA AllStand ==
    ASSUME NEW image, NEW t, NEW m, NEW h, IsTable(image, t, m, h),
           IsFiniteSet(SymbolsOf(image)), Cardinality(SymbolsOf(image)) <= m
    PROVE  \A s \in SymbolsOf(image) : \E i \in 1 .. m : h[i] = s
<1> DEFINE S == SymbolsOf(image)
<1>1. m \in Nat /\ h \in [1 .. m -> S] /\ \A i, j \in 1 .. m : i # j => h[i] # h[j]
  BY DEF IsTable
<1> HIDE DEF S
<1>2. h \in Injection(1 .. m, S)
  BY <1>1 DEF Injection, IsInjective
<1>3. IsFiniteSet(1 .. m) /\ Cardinality(1 .. m) = m
  BY <1>1, FS_Interval
<1>4. IsFiniteSet(S) /\ Cardinality(S) \in Nat /\ Cardinality(S) <= m
  BY FS_CardinalityType DEF S
<1>5. Cardinality(1 .. m) <= Cardinality(S)
  BY <1>2, <1>4, FS_Injection
<1>6. Cardinality(1 .. m) = Cardinality(S)
  BY <1>1, <1>3, <1>4, <1>5
<1>7. h \in Surjection(1 .. m, S)
  BY <1>2, <1>4, <1>6, FS_Injection
<1> QED BY <1>7 DEF Surjection, S

\* Where no symbol lies in another one, the entries lie one behind the other, and
\* an entry holds an address when its symbol covers it.
LEMMA EntriesSpread ==
    ASSUME NEW k \in DOMAIN Images, Apart(Images[k]), NEW t, NEW m, NEW h,
           IsTable(Images[k], t, m, h), AddrsAscend(t, m), m = Len(Imported(Images[k]))
    PROVE  /\ Spread(Entries(t), m)
           /\ \A s \in SymbolsOf(Images[k]) : \E i \in 1 .. m : h[i] = s
           /\ \A i \in 1 .. m, a \in Nat : Holds(Entries(t)[i], a) <=> Covers(Images[k], h[i], a)
<1> DEFINE image == Images[k]
           S == SymbolsOf(image)
           e == Entries(t)
           Beg(s) == image.symbols[s].value
           Bytes(s) == image.symbols[s].size
<1>1. IsFiniteSet(S) /\ Cardinality(S) = m
  BY SymbolsAre DEF Apart
<1> HIDE DEF image, e
<1>2. /\ m \in Nat \ {0} /\ h \in [1 .. m -> S]
      /\ \A i, j \in 1 .. m : i # j => h[i] # h[j]
  BY DEF IsTable, image
<1>3. \A i \in 1 .. m : h[i] \in S
  BY <1>2
<1>4. \A s \in S : \E i \in 1 .. m : h[i] = s
  <2>1. Cardinality(S) <= m
    BY <1>1, <1>2
  <2> QED BY <1>1, <2>1, AllStand DEF image
<1>5. \A i \in 1 .. m : /\ t[i].addr \in Nat /\ t[i].size \in Nat
                        /\ t[i].addr = Beg(h[i]) /\ t[i].size = Bytes(h[i])
  BY DEF IsTable, Items, image
<1>6. \A i \in 1 .. m : /\ e[i].addr = t[i].addr
                        /\ t[i].size # 0 => e[i].end = t[i].addr + t[i].size
                        /\ t[i].size = 0 /\ i < m => e[i].end = t[i + 1].addr
                        /\ t[i].size = 0 /\ i = m => e[i].end = 0
  BY EntriesAre DEF e
<1>7. \A r, s \in S : r # s => Beg(r) # Beg(s) /\ ~Covers(image, r, Beg(s))
  BY DEF Apart, image
<1>8. \A s \in S : \A a : Covers(image, s, a) <=>
         /\ Beg(s) <= a
         /\ IF Bytes(s) # 0 THEN a < Beg(s) + Bytes(s)
            ELSE \E r \in S : Beg(r) > a /\ \A o \in S \ {s} : Beg(o) \notin Beg(s) .. a
  BY DEF Covers
<1> HIDE DEF S, Beg, Bytes
<1>9. \A i, j \in 1 .. m : i < j => t[i].addr < t[j].addr
  <2> SUFFICES ASSUME NEW i \in 1 .. m, NEW j \in 1 .. m, i < j PROVE t[i].addr < t[j].addr
    OBVIOUS
  <2>1. t[i].addr <= t[j].addr
    BY DEF AddrsAscend
  <2>2. Beg(h[i]) # Beg(h[j])
    BY <1>2, <1>3, <1>7
  <2> QED BY <1>5, <2>1, <2>2
<1>10. \A i, j \in 1 .. m : i < j => e[i].addr < e[j].addr /\ e[i].end <= e[j].addr
  <2> SUFFICES ASSUME NEW i \in 1 .. m, NEW j \in 1 .. m, i < j
               PROVE  e[i].addr < e[j].addr /\ e[i].end <= e[j].addr
    OBVIOUS
  <2>1. t[i].addr < t[j].addr /\ e[i].addr = t[i].addr /\ e[j].addr = t[j].addr
    BY <1>6, <1>9
  <2>2. CASE t[i].size # 0
    <3>1. ~Covers(image, h[i], Beg(h[j]))
      BY <1>2, <1>3, <1>7
    <3>2. ~(t[j].addr < t[i].addr + t[i].size)
      BY <1>3, <1>5, <1>8, <2>1, <2>2, <3>1
    <3>3. e[i].end = t[i].addr + t[i].size
      BY <1>6, <2>2
    <3> QED BY <1>5, <2>1, <3>2, <3>3
  <2>3. CASE t[i].size = 0
    <3>1. i + 1 \in 1 .. m /\ (i + 1 = j \/ i + 1 < j) /\ i < m
      BY <1>2
    <3>2. e[i].end = t[i + 1].addr
      BY <1>6, <2>3, <3>1
    <3>3. t[i + 1].addr <= t[j].addr
      BY <1>5, <1>9, <3>1
    <3> QED BY <2>1, <3>2, <3>3
  <2> QED BY <1>5, <2>2, <2>3
<1>11. ASSUME NEW i \in 1 .. m, NEW a \in Nat
       PROVE  Holds(e[i], a) <=> Covers(image, h[i], a)
  <2>1. Holds(e[i], a) <=> t[i].addr <= a /\ a < e[i].end
    BY <1>6 DEF Holds
  <2>2. h[i] \in S /\ Beg(h[i]) = t[i].addr /\ Bytes(h[i]) = t[i].size /\ t[i].addr \in Nat
    BY <1>3, <1>5
  <2>3. CASE t[i].size # 0
    BY <1>6, <1>8, <2>1, <2>2, <2>3
  <2>4. CASE t[i].size = 0 /\ i < m
    <3>1. i + 1 \in 1 .. m /\ e[i].end = t[i + 1].addr /\ t[i + 1].addr \in Nat /\ t[i].addr < t[i + 1].addr
      BY <1>2, <1>5, <1>6, <1>9, <2>4
    <3>2. h[i + 1] \in S \ {h[i]} /\ Beg(h[i + 1]) = t[i + 1].addr
      BY <1>2, <1>3, <1>5, <3>1
    <3>3. ASSUME Holds(e[i], a) PROVE Covers(image, h[i], a)
      <4>1. t[i].addr <= a /\ a < t[i + 1].addr
        BY <2>1, <3>1, <3>3
      <4>2. ASSUME NEW o \in S \ {h[i]} PROVE Beg(o) \notin t[i].addr .. a
        <5>1. PICK j \in 1 .. m : h[j] = o
          BY <1>4
        <5>2. j < i \/ j = i + 1 \/ i + 1 < j
          BY <5>1
        <5>3. t[j].addr < t[i].addr \/ t[j].addr >= t[i + 1].addr
          BY <1>5, <1>9, <3>1, <5>2
        <5> QED BY <1>5, <2>2, <3>1, <4>1, <5>1, <5>3
      <4>3. Beg(h[i + 1]) > a
        BY <3>1, <3>2, <4>1
      <4> QED BY <1>8, <2>2, <2>4, <3>2, <4>1, <4>2, <4>3
    <3>4. ASSUME Covers(image, h[i], a) PROVE Holds(e[i], a)
      <4>1. t[i].addr <= a /\ t[i + 1].addr \notin t[i].addr .. a
        BY <1>8, <2>2, <2>4, <3>2, <3>4
      <4>2. a < t[i + 1].addr
        BY <2>2, <3>1, <4>1
      <4> QED BY <2>1, <3>1, <4>1, <4>2
    <3> QED BY <3>3, <3>4
  <2>5. CASE t[i].size = 0 /\ i = m
    <3>1. ~Holds(e[i], a)
      BY <1>6, <2>1, <2>5
    <3>2. ASSUME Covers(image, h[i], a) PROVE FALSE
      <4>1. t[i].addr <= a /\ \E r \in S : Beg(r) > a
        BY <1>8, <2>2, <2>5, <3>2
      <4>2. PICK r \in S : Beg(r) > a
        BY <4>1
      <4>3. PICK j \in 1 .. m : h[j] = r
        BY <1>4
      <4>4. j = i \/ j < i
        BY <1>2, <2>5
      <4>5. t[j].addr <= t[i].addr /\ t[j].addr > a /\ t[j].addr \in Nat
        BY <1>5, <1>9, <2>2, <4>2, <4>3, <4>4
      <4> QED BY <2>2, <4>1, <4>5
    <3> QED BY <3>1, <3>2
  <2> QED BY <1>2, <1>5, <2>3, <2>4, <2>5
<1> QED BY <1>4, <1>10, <1>11 DEF Spread, e, S, image

\* An address is named after the symbol that covers it, if there is one.
LEMMA NamedIs ==
    ASSUME NEW k, Loadable(k), Apart(Images[k]), NEW a \in Nat
    PROVE  LET image == Images[k]
               owners == {image.symbols[n].name : n \in {s \in SymbolsOf(image) : Covers(image, s, a)}}
               sym == SymbolAt(Written[k].tab, a)
           IN  IF owners = {} THEN sym = 0 ELSE sym \in owners
<1> DEFINE image == Images[k]
           t == sym_tabs(image)
           e == Entries(t)
           sym == SymbolAt(Written[k].tab, a)
           owners == {image.symbols[n].name : n \in {s \in SymbolsOf(image) : Covers(image, s, a)}}
<1>1. k \in DOMAIN Images /\ Written[k].tab = e /\ SymbolsOf(image) # {}
  BY LoadableIs DEF Loadable
<1>2. PICK m, h : IsTable(image, t, m, h) /\ AddrsAscend(t, m) /\ m = Len(Imported(image))
  BY <1>1, TableIs
<1> HIDE DEF t
<1>3. m \in Nat \ {0} /\ \A i \in 1 .. m : h[i] \in SymbolsOf(image)
  BY <1>2 DEF IsTable
<1>4. /\ e \in [1 .. m -> Entry] /\ Len(e) = m
      /\ \A i \in 1 .. m : e[i].ptr = image.symbols[h[i]].name
  BY <1>2, EntriesAre
<1>5. /\ Spread(e, m)
      /\ \A s \in SymbolsOf(image) : \E i \in 1 .. m : h[i] = s
      /\ \A i \in 1 .. m : Holds(e[i], a) <=> Covers(image, h[i], a)
  BY <1>1, <1>2, EntriesSpread
<1>6. \/ \E i \in 1 .. m : Holds(e[i], a) /\ sym = e[i].ptr
      \/ sym = 0 /\ \A i \in 1 .. m : ~Holds(e[i], a)
  <2>1. Spread(e, m)
    BY <1>5
  <2>2. e \in [1 .. m -> Entry]
    BY <1>4
  <2>3. Len(e) = m
    BY <1>4
  <2>4. m \in Nat \ {0}
    BY <1>3
  <2> HIDE DEF e
  <2>5. \/ \E i \in 1 .. m : Holds(e[i], a) /\ SymbolAt(e, a) = e[i].ptr
        \/ SymbolAt(e, a) = 0 /\ \A i \in 1 .. m : ~Holds(e[i], a)
    BY <2>1, <2>2, <2>3, <2>4, SymbolAtIs
  <2> QED BY <1>1, <2>5
<1> HIDE DEF e, sym, image
<1>7. CASE \E i \in 1 .. m : Holds(e[i], a) /\ sym = e[i].ptr
  <2>1. PICK i \in 1 .. m : Holds(e[i], a) /\ sym = e[i].ptr
    BY <1>7
  <2>2. h[i] \in SymbolsOf(image) /\ Covers(image, h[i], a) /\ sym = image.symbols[h[i]].name
    BY <1>3, <1>4, <1>5, <2>1
  <2>3. sym \in owners
    BY <2>2
  <2> QED BY <2>3 DEF sym, image
<1>8. CASE sym = 0 /\ \A i \in 1 .. m : ~Holds(e[i], a)
  <2>1. owners = {}
    BY <1>5, <1>8
  <2> QED BY <1>8, <2>1 DEF sym, image
<1> QED BY <1>6, <1>7, <1>8

\* A name that some symbol has is found at the address of one that has it.
LEMMA FoundIs ==
    ASSUME NEW k, Loadable(k), Cardinality(SymbolsOf(Images[k])) <= MaxSyms, NEW name \in Nat
    PROVE  LET image == Images[k]
               places == {image.symbols[n].value : n \in {s \in SymbolsOf(image) :
                                                            image.symbols[s].name = name}}
               sym == AddressOf(Written[k], name)
           IN  IF places = {} THEN sym = 0 ELSE sym \in places
<1> DEFINE image == Images[k]
           t == sym_tabs(image)
           w == Written[k]
           sym == AddressOf(w, name)
           places == {image.symbols[n].value : n \in {s \in SymbolsOf(image) :
                                                        image.symbols[s].name = name}}
<1>1. /\ k \in DOMAIN Images /\ w.tab = Entries(t) /\ w.hash = sym_hash(t)
      /\ Len(t) \in Nat => Len(t) * (NameSize + 1) + 1 + Len(t) < MaxBuff
      /\ SymbolsOf(image) # {}
  BY LoadableIs DEF Loadable
<1>2. PICK m, h : IsTable(image, t, m, h) /\ Complete(image, m, h)
  BY <1>1, TableIs
<1>3. IsFiniteSet(SymbolsOf(image)) /\ Cardinality(SymbolsOf(image)) <= MaxSyms
  BY <1>1, SymbolsAre
<1> HIDE DEF t, image, w
<1>4. /\ m \in Nat \ {0} /\ Len(t) = m /\ DOMAIN t = 1 .. m
      /\ \A i \in 1 .. m : h[i] \in SymbolsOf(image)
  BY <1>2 DEF IsTable
<1>5. m * 2 + 1 + m < MaxBuff
  BY <1>1, <1>4 DEF NameSize
<1>6. \A s \in SymbolsOf(image) : \E i \in 1 .. m : h[i] = s
  <2>1. CASE Room(m)
    BY <1>2, <2>1 DEF Complete
  <2>2. CASE ~Room(m)
    <3>1. MaxSyms <= m
      BY <1>4, <1>5, <2>2, SymbolConstants DEF Room, NameSize
    <3>2. Cardinality(SymbolsOf(image)) <= m
      BY <1>3, <1>4, <3>1, SymbolConstants, FS_CardinalityType
    <3> QED BY <1>2, <1>3, <3>2, AllStand
  <2> QED BY <2>1, <2>2
<1>7. /\ w.tab \in [1 .. m -> Entry]
      /\ \A i \in 1 .. m : /\ w.tab[i].addr = image.symbols[h[i]].value
                           /\ w.tab[i].ptr = image.symbols[h[i]].name /\ w.tab[i].ptr = t[i].ptr
  BY <1>1, <1>2, EntriesAre
<1>8. w.hash = OrderBy(m, [i \in 1 .. m |-> w.tab[i].ptr]) /\ Len(w.hash) = m
  <2>1. w.hash = OrderBy(m, [i \in 1 .. m |-> t[i].ptr])
    BY <1>1, <1>4, ByName
  <2>2. [i \in 1 .. m |-> t[i].ptr] = [i \in 1 .. m |-> w.tab[i].ptr]
    BY <1>7
  <2>3. Len(OrderBy(m, [i \in 1 .. m |-> w.tab[i].ptr])) = m
    BY <1>4 DEF OrderBy
  <2> QED BY <2>1, <2>2, <2>3
<1>9. \/ \E i \in 1 .. m : w.tab[i].ptr = name /\ sym = w.tab[i].addr
      \/ sym = 0 /\ \A i \in 1 .. m : w.tab[i].ptr # name
  <2>1. m \in Nat \ {0}
    BY <1>4
  <2>2. w.tab \in [1 .. m -> Entry]
    BY <1>7
  <2>3. w.hash = OrderBy(m, [i \in 1 .. m |-> w.tab[i].ptr])
    BY <1>8
  <2>4. Len(w.hash) = m
    BY <1>8
  <2> QED BY <2>1, <2>2, <2>3, <2>4, AddressOfIs
<1> HIDE DEF sym
<1>10. CASE \E i \in 1 .. m : w.tab[i].ptr = name /\ sym = w.tab[i].addr
  <2>1. PICK i \in 1 .. m : w.tab[i].ptr = name /\ sym = w.tab[i].addr
    BY <1>10
  <2>2. h[i] \in SymbolsOf(image) /\ image.symbols[h[i]].name = name /\ sym = image.symbols[h[i]].value
    BY <1>4, <1>7, <2>1
  <2>3. sym \in places
    BY <2>2
  <2> QED BY <2>3 DEF sym, image, w
<1>11. CASE sym = 0 /\ \A i \in 1 .. m : w.tab[i].ptr # name
  <2>1. places = {}
    BY <1>6, <1>7, <1>11
  <2> QED BY <1>11, <2>1 DEF sym, image, w
<1> QED BY <1>9, <1>10, <1>11

-----------------------------------------------------------------------------
(* What the library answers.                                                *)

\* A file the library takes, and keeps.
Good(n) == inodes[n].len = "whole" /\ Loadable(inodes[n].image)

\* The answer comes from the tables of an executable.
Answered ==
    /\ answer.kind = "addr" =>
          /\ Loadable(answer.image) /\ answer.key \in Nat
          /\ answer.sym = SymbolAt(Written[answer.image].tab, answer.key)
    /\ answer.kind = "name" =>
          /\ Loadable(answer.image) /\ answer.key \in Nat
          /\ answer.sym = AddressOf(Written[answer.image], answer.key)

LookupInv ==
    /\ FilesInv
    /\ lib.early \in 0 .. Made
    /\ lib.tables # NoFile => Good(lib.tables)
    /\ lib.early # NoFile => Good(lib.early)
    /\ Answered

\* A file that is whole stays as it is, and no file goes.
LEMMA WholeIsKept ==
    ASSUME FilesInv, [Next]_vars
    PROVE  /\ Made \in Nat /\ Made' \in Nat /\ Made <= Made' /\ Made <= MaxInodes
           /\ \A n \in 1 .. Made : inodes[n].len = "whole" => inodes'[n] = inodes[n]
<1> USE DEF FilesInv, NoFile, MaxInodes, Inodes
<1>1. CASE UNCHANGED vars
  BY <1>1 DEF vars, Made, TypeOK
<1>2. CASE \E k \in DOMAIN Images : Run(k)
  BY <1>2 DEF Run, Made, TypeOK, ToolWrites
<1>3. CASE Unlink \/ RefuseInput \/ GiveUp \/ DiskFull \/ Kill
  <2>1. tool'.runs = tool.runs /\ inodes' = inodes /\ tool.pc \in ToolPcs /\ tool.runs \in 0 .. 2
    BY <1>3 DEF TypeOK, Unlink, RefuseInput, GiveUp, DiskFull, Kill, Tool
  <2>2. tool'.pc \in {"started", "unlinked"} => tool.pc \in {"started", "unlinked"}
    BY <1>3 DEF TypeOK, Unlink, RefuseInput, GiveUp, DiskFull, Kill, Tool
  <2>3. tool.pc \in {"started", "unlinked"} => tool.runs <= 2
    BY <2>1
  <2> QED BY <2>1, <2>2 DEF Made
<1>4. CASE OpenOutput
  <2>1. /\ tool.pc = "unlinked" /\ dir = NoFile /\ tool.runs \in 0 .. 2
        /\ tool'.pc = "opened" /\ tool'.runs = tool.runs
        /\ inodes' = [inodes EXCEPT ![tool.runs + 1] = [image |-> tool.image, len |-> "empty"]]
    BY <1>4 DEF OpenOutput, Tool, TypeOK, ToolWrites
  <2> QED BY <2>1 DEF Made, TypeOK
<1>5. CASE WriteSome \/ WriteRest
  <2>1. /\ tool.pc \in {"opened", "writing"} /\ tool.runs \in 0 .. 2
        /\ tool'.pc \in {"writing", "ended"} /\ tool'.runs = tool.runs
        /\ \E l : inodes' = [inodes EXCEPT ![dir].len = l]
    BY <1>5 DEF WriteSome, WriteRest, Tool, TypeOK
  <2>2. inodes[dir].len # "whole"
    BY <2>1 DEF ToolWrites
  <2> QED BY <2>1, <2>2 DEF Made, TypeOK
<1>6. CASE \/ Ask \/ OpenSymbols \/ MapSymbols \/ CheckSymbols
           \/ \E a \in Addresses : Frame(a)
           \/ \E n \in Names : Named(n)
  <2>1. UNCHANGED <<tool, dir, inodes>>
    BY <1>6 DEF Ask, OpenSymbols, MapSymbols, CheckSymbols, Frame, Named, Answer
  <2> QED BY <2>1 DEF Made, TypeOK
<1> QED BY <1>1, <1>2, <1>3, <1>4, <1>5, <1>6 DEF Next

\* What the library knows when a step does nothing to it.
LEMMA LookupKept ==
    ASSUME LookupInv, [Next]_vars, lib' = lib, answer' = answer
    PROVE  LookupInv'
<1>1. FilesInv /\ FilesInv'
  BY FilesStep DEF LookupInv
<1>2. /\ Made \in Nat /\ Made' \in Nat /\ Made <= Made'
      /\ \A n \in 1 .. Made : inodes[n].len = "whole" => inodes'[n] = inodes[n]
  BY <1>1, WholeIsKept
<1>3. lib.tables \in 0 .. Made /\ lib.early \in 0 .. Made
  BY <1>1 DEF FilesInv, TypeOK, LookupInv
<1>4. ASSUME NEW n \in 0 .. Made, n # NoFile, Good(n) PROVE Good(n)'
  <2>1. n \in 1 .. Made
    BY <1>2, <1>4 DEF NoFile
  <2>2. inodes'[n] = inodes[n]
    BY <1>2, <1>4, <2>1 DEF Good
  <2> QED BY <1>4, <2>2 DEF Good, Loadable
<1>5. lib'.early \in 0 .. Made'
  BY <1>2, <1>3
<1>6. lib'.tables # NoFile => Good(lib.tables)'
  BY <1>3, <1>4 DEF LookupInv
<1>7. lib'.early # NoFile => Good(lib.early)'
  BY <1>3, <1>4 DEF LookupInv
<1>8. Answered'
  BY DEF LookupInv, Answered, Loadable
<1> QED BY <1>1, <1>5, <1>6, <1>7, <1>8 DEF LookupInv

\* The library: the tables of a file it takes, and what it finds in them.
LEMMA LibraryAnswers ==
    ASSUME LookupInv,
           \/ Ask \/ OpenSymbols \/ MapSymbols \/ CheckSymbols
           \/ \E a \in Addresses : Frame(a)
           \/ \E n \in Names : Named(n)
    PROVE  LookupInv'
<1>1. FilesInv /\ FilesInv'
  BY LibraryKeeps DEF LookupInv
<1>2. UNCHANGED <<tool, dir, inodes>>
  BY DEF Ask, OpenSymbols, MapSymbols, CheckSymbols, Frame, Named, Answer
<1>3. Made' = Made
  BY <1>2 DEF Made
<1>4. \A n : Good(n)' <=> Good(n)
  BY <1>2 DEF Good, Loadable
<1>5. /\ lib'.early \in {lib.early, lib.tables}
      /\ lib'.tables \notin {NoFile, lib.tables} => Good(lib'.tables)
  <2>1. CASE Ask
    BY <2>1 DEF Ask
  <2>2. CASE OpenSymbols
    BY <2>2 DEF OpenSymbols
  <2>3. CASE MapSymbols
    BY <2>3 DEF MapSymbols, NotLoaded
  <2>4. CASE CheckSymbols
    <3> DEFINE image == inodes[lib.map].image
    <3>1. lib.pc = "check" /\ lib.map \in Inodes
      <4>1. lib.pc = "check"
        BY <2>4 DEF CheckSymbols
      <4>2. lib.map # NoFile /\ lib.map \in 0 .. Made
        BY <1>1, <4>1 DEF FilesInv, TypeOK, Mapped
      <4>3. Made \in Nat /\ Made <= MaxInodes
        BY <1>1 DEF FilesInv, TypeOK, Made, MaxInodes
      <4> QED BY <4>1, <4>2, <4>3 DEF Inodes, NoFile, MaxInodes
    <3>2. \/ lib'.tables = NoFile /\ lib'.early = lib.early
          \/ /\ image # Foreign /\ Written[image].bits = 64 /\ Written[image].mark /\ lib.nBytes = "whole"
             /\ lib'.tables = lib.map /\ lib'.early = lib.early
      BY <2>4 DEF CheckSymbols, Checked, NotLoaded
    <3>3. CASE lib'.tables = NoFile
      BY <3>2, <3>3
    <3>4. CASE lib'.tables # NoFile
      <4>1. inodes[lib.map].len = "whole"
        BY <1>1, <3>1, <3>2, <3>4 DEF FilesInv, Mapped
      <4>2. image \in DOMAIN Images /\ Written[image].outcome = "written"
        BY <1>1, <3>1, <3>2, <3>4, <4>1 DEF FilesInv, Contents
      <4> QED BY <3>2, <3>4, <4>1, <4>2 DEF Good, Loadable
    <3> QED BY <3>3, <3>4
  <2>5. CASE (\E a \in Addresses : Frame(a)) \/ \E n \in Names : Named(n)
    <3>1. lib' = [lib EXCEPT !.pc = "idle"]
      BY <2>5 DEF Frame, Named, Answer
    <3> QED BY <3>1
  <2> QED BY <2>1, <2>2, <2>3, <2>4, <2>5
<1>6. lib'.tables # NoFile => Good(lib'.tables)
  BY <1>5 DEF LookupInv
<1>7. lib'.early # NoFile => Good(lib'.early)
  BY <1>5 DEF LookupInv
<1>8. lib'.early \in 0 .. Made'
  BY <1>1, <1>3, <1>5 DEF LookupInv, FilesInv, TypeOK
<1>9. Answered'
  <2> DEFINE image == inodes[lib.early].image
  <2>1. CASE Ask
    BY <2>1 DEF Ask, NoAnswerYet, Answered
  <2>2. CASE OpenSymbols \/ MapSymbols \/ CheckSymbols
    <3>1. answer' = answer
      BY <2>2 DEF OpenSymbols, MapSymbols, CheckSymbols
    <3> QED BY <3>1 DEF LookupInv, Answered, Loadable
  <2>3. ASSUME NEW a \in Addresses, Frame(a) PROVE Answered'
    <3>1. CASE lib.early = NoFile
      <4>1. answer'.kind = "no table"
        BY <2>3, <3>1 DEF Frame, Answer, NoAnswerYet
      <4> QED BY <4>1 DEF Answered
    <3>2. CASE lib.early # NoFile
      <4>1. /\ answer'.kind = "addr" /\ answer'.key = a /\ answer'.image = image
            /\ answer'.sym = SymbolAt(Written[image].tab, a)
        BY <2>3, <3>2 DEF Frame, Answer, Found
      <4>2. Loadable(image) /\ a \in Nat
        BY <3>2, SymbolConstants DEF LookupInv, Good
      <4> QED BY <4>1, <4>2 DEF Answered, Loadable
    <3> QED BY <3>1, <3>2
  <2>4. ASSUME NEW n \in Names, Named(n) PROVE Answered'
    <3>1. CASE lib.early = NoFile
      <4>1. answer'.kind = "crash"
        BY <2>4, <3>1 DEF Named, Answer, NoAnswerYet
      <4> QED BY <4>1 DEF Answered
    <3>2. CASE lib.early # NoFile
      <4>1. /\ answer'.kind = "name" /\ answer'.key = n /\ answer'.image = image
            /\ answer'.sym = AddressOf(Written[image], n)
        BY <2>4, <3>2 DEF Named, Answer
      <4>2. Loadable(image) /\ n \in Nat
        BY <3>2, SymbolConstants DEF LookupInv, Good
      <4> QED BY <4>1, <4>2 DEF Answered, Loadable
    <3> QED BY <3>1, <3>2
  <2> QED BY <2>1, <2>2, <2>3, <2>4
<1> QED BY <1>1, <1>4, <1>6, <1>7, <1>8, <1>9 DEF LookupInv, Good, Loadable

\* Every answer comes from the tables dumpsym has made of an executable, and from
\* a file that stays as it is.
THEOREM AnswersAreLookups == Spec => []LookupInv
<1>1. Init => LookupInv
  <2> SUFFICES ASSUME Init PROVE LookupInv
    OBVIOUS
  <2>1. FilesInv
    BY FilesInit
  <2>2. lib.early = NoFile /\ lib.tables = NoFile /\ answer.kind = "none" /\ Made = 1
    BY DEF Init, NoAnswerYet, Made
  <2> QED BY <2>1, <2>2 DEF LookupInv, Answered, NoFile
<1>2. LookupInv /\ [Next]_vars => LookupInv'
  <2> SUFFICES ASSUME LookupInv, [Next]_vars PROVE LookupInv'
    OBVIOUS
  <2>1. CASE lib' = lib /\ answer' = answer
    BY <2>1, LookupKept
  <2>2. CASE \/ Ask \/ OpenSymbols \/ MapSymbols \/ CheckSymbols
             \/ \E a \in Addresses : Frame(a)
             \/ \E n \in Names : Named(n)
    BY <2>2, LibraryAnswers
  <2>3. CASE \/ UNCHANGED vars \/ \E k \in DOMAIN Images : Run(k)
             \/ Unlink \/ RefuseInput \/ OpenOutput \/ GiveUp \/ WriteSome \/ WriteRest
             \/ DiskFull \/ Kill
    <3>1. lib' = lib /\ answer' = answer
      BY <2>3 DEF vars, Run, Unlink, RefuseInput, OpenOutput, GiveUp, WriteSome, WriteRest, DiskFull, Kill
    <3> QED BY <2>1, <3>1
  <2> QED BY <2>2, <2>3 DEF Next
<1> QED BY <1>1, <1>2, PTL DEF Spec

\* An address is named after the symbol it lies in, and after none when it lies
\* between symbols (NamedByAddress): whatever symbols an executable has, in which
\* order and at which addresses, the sort of dumpsym, the ends it gives to symbols
\* without a size and the binary search of findDmgSymByAddr agree.
THEOREM AddressesAreNamed == Spec => []NamedByAddress
<1>1. LookupInv => NamedByAddress
  BY NamedIs DEF LookupInv, Answered, NamedByAddress
<1> QED BY <1>1, AnswersAreLookups, PTL

\* A name is found when some symbol has it, at an address of such a symbol
\* (FoundByName), through the order of names and findSymByName.
THEOREM NamesAreFound == Spec => []FoundByName
<1>1. LookupInv => FoundByName
  <2> DEFINE k == answer.image
             name == answer.key
             sym == answer.sym
             image == Images[k]
             places == {image.symbols[n].value : n \in {m \in SymbolsOf(image) : image.symbols[m].name = name}}
  <2> SUFFICES ASSUME LookupInv, answer.kind = "name", Cardinality(SymbolsOf(Images[k])) <= MaxSyms
               PROVE  IF places = {} THEN sym = 0 ELSE sym \in places
    BY DEF FoundByName
  <2>1. Loadable(k) /\ name \in Nat /\ sym = AddressOf(Written[k], name)
    BY DEF LookupInv, Answered
  <2>2. Loadable(k) /\ name \in Nat
    BY <2>1
  <2> HIDE DEF k, name, sym
  <2>3. IF places = {} THEN AddressOf(Written[k], name) = 0 ELSE AddressOf(Written[k], name) \in places
    BY <2>2, FoundIs
  <2> HIDE DEF places
  <2> QED BY <2>1, <2>3
<1> QED BY <1>1, AnswersAreLookups, PTL
=============================================================================
