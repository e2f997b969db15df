------------------------------- MODULE Symbols -------------------------------
(***************************************************************************)
(* Symbols and line numbers from the executable to the answer: dumpsym     *)
(* writes <application>.sym (utils/dumpsym.src/main.c), and the library in *)
(* the running application maps that file and looks things up in it        *)
(* (dbgModule/symbol/symbol.c, addr2line.c), while the tool may be run     *)
(* again, fail, be killed, or find the disk full.                          *)
(***************************************************************************)
EXTENDS DumpSym, LineRows

CONSTANTS Images,     \* the executables, a sequence
          Rebuilds,   \* those that may be dumped one after the other
          Addresses,  \* addresses the library is asked for
          Names       \* names the library is asked for

\* A symbol table has a function or an object in it, and there is room for one:
\* the search of an empty table would read what is behind it.
ASSUME SymbolConstants ==
    /\ MaxSyms \in Nat \ {0} /\ MaxBuff \in Nat /\ NameSize < MaxBuff
    /\ Addresses \subseteq Nat /\ Names \subseteq Nat
    /\ \A k \in DOMAIN Images :
          LET syms == Images[k].symbols
          IN  /\ syms \in Seq([name : Nat, value : Nat, size : Nat, type : STRING, mapping : BOOLEAN])
              /\ Sections(Images[k]).symtab => \E n \in DOMAIN syms : Wanted(syms[n])

Foreign == 0          \* a file of that name that is not a symbol file
NoFile == 0
MaxInodes == 3        \* the file found at the start, and one for every run

VARIABLES
    tool,    \* the run of dumpsym: [pc, image, runs, status]
    dir,     \* the file the name <application>.sym stands for
    inodes,  \* the files: [image, len]
    lib,     \* symbol.c: [pc, fd, map, nBytes, bSymLoad, tables, early]
    answer   \* the last answer of the library

vars == <<tool, dir, inodes, lib, answer>>

\* What the tool makes of every executable.
Written == [k \in DOMAIN Images |-> process(Images[k])]

\* The tables of line numbers have a length.
ASSUME TablesAreSequences ==
    \A k \in DOMAIN Images : Written[k].outcome = "written" =>
        Len(Written[k].index) \in Nat /\ Len(Written[k].packets) \in Nat

NoAnswerYet == [kind |-> "none", key |-> 0, image |-> 0, sym |-> 0, line |-> NotFound]

Init ==
    /\ tool = [pc |-> "idle", image |-> 0, runs |-> 0, status |-> 0]
    /\ \E there \in BOOLEAN :
          /\ dir = IF there THEN 1 ELSE NoFile
          /\ inodes = [n \in 1 .. MaxInodes |->
                          [image |-> Foreign, len |-> IF there /\ n = 1 THEN "whole" ELSE "none"]]
    /\ lib = [pc |-> "idle", fd |-> NoFile, map |-> NoFile, nBytes |-> "none",
              bSymLoad |-> FALSE, tables |-> NoFile, early |-> NoFile]
    /\ answer = NoAnswerYet

-----------------------------------------------------------------------------
(* The tool. *)

Tool(pc) == tool' = [tool EXCEPT !.pc = pc]

Run(k) ==
    /\ tool.pc \in {"idle", "ended"}
    /\ tool.runs = 0 \/ (tool.runs = 1 /\ {tool.image, k} \subseteq Rebuilds)
    /\ tool' = [pc |-> "started", image |-> k, runs |-> tool.runs + 1, status |-> 0]
    /\ UNCHANGED <<dir, inodes, lib, answer>>

\* Mutant of Unlink: the old file stays, and is written over.
UnlinkNothing ==
    /\ tool.pc = "started"
    /\ Tool("unlinked")
    /\ UNCHANGED <<dir, inodes, lib, answer>>

\* The old file goes before the executable has been looked at.
Unlink ==
    /\ tool.pc = "started"
    /\ Tool("unlinked")
    /\ dir' = NoFile
    /\ UNCHANGED <<inodes, lib, answer>>

RefuseInput ==
    /\ tool.pc = "unlinked"
    /\ Elf32_gettype(Images[tool.image]) # "ELF"
    /\ tool' = [tool EXCEPT !.pc = "ended", !.status = 1]
    /\ UNCHANGED <<dir, inodes, lib, answer>>

\* fopen(sym_name, "wb") makes a file, or empties the one of that name.
OpenOutput ==
    /\ tool.pc = "unlinked"
    /\ Elf32_gettype(Images[tool.image]) = "ELF"
    /\ LET f == IF dir # NoFile THEN dir ELSE tool.runs + 1
       IN  /\ dir' = f
           /\ inodes' = [inodes EXCEPT ![f] = [image |-> tool.image, len |-> "empty"]]
    /\ Tool("opened")
    /\ UNCHANGED <<lib, answer>>

\* process() leaves the file empty when it gives up or dies.
GiveUp ==
    /\ tool.pc = "opened"
    /\ Written[tool.image].outcome # "written"
    /\ tool' = [tool EXCEPT !.pc = "ended", !.status = 1]
    /\ UNCHANGED <<dir, inodes, lib, answer>>

\* The blocks of stdio reach the file one by one.  At the end an image without
\* contents is reported as an error.
WriteSome ==
    /\ tool.pc = "opened"
    /\ Written[tool.image].outcome = "written"
    /\ inodes' = [inodes EXCEPT ![dir].len = "part"]
    /\ Tool("writing")
    /\ UNCHANGED <<dir, lib, answer>>

WriteRest ==
    /\ tool.pc \in {"opened", "writing"}
    /\ \E w \in {Written[tool.image]} :
          /\ w.outcome = "written"
          /\ tool' = [tool EXCEPT !.pc = "ended", !.status = IF w.size = 0 THEN 1 ELSE 0]
    /\ inodes' = [inodes EXCEPT ![dir].len = "whole"]
    /\ UNCHANGED <<dir, lib, answer>>

\* Nobody looks at what fwrite returns.
DiskFull ==
    /\ tool.pc = "writing"
    /\ Tool("ended")
    /\ UNCHANGED <<dir, inodes, lib, answer>>

Kill ==
    /\ tool.pc \notin {"idle", "ended"}
    /\ tool' = [tool EXCEPT !.pc = "ended", !.status = 1]
    /\ UNCHANGED <<dir, inodes, lib, answer>>

-----------------------------------------------------------------------------
(* The library. *)

\* The table is read before init_symbol is called, so that the lookup that
\* loads the file does not see it.
Ask ==
    /\ lib.pc = "idle"
    /\ lib' = [lib EXCEPT !.early = lib.tables,
                          !.pc = IF lib.bSymLoad THEN "look" ELSE "open"]
    /\ answer' = NoAnswerYet
    /\ UNCHANGED <<tool, dir, inodes>>

NotLoaded == [lib EXCEPT !.pc = "look", !.fd = NoFile, !.map = NoFile, !.tables = NoFile]

OpenSymbols ==
    /\ lib.pc = "open"
    /\ lib' = IF dir = NoFile THEN [lib EXCEPT !.pc = "look"]
              ELSE [lib EXCEPT !.pc = "map", !.fd = dir]
    /\ UNCHANGED <<tool, dir, inodes, answer>>

MapSymbols ==
    /\ lib.pc = "map"
    /\ lib' = IF inodes[lib.fd].len = "empty" THEN NotLoaded
              ELSE [lib EXCEPT !.pc = "check", !.map = lib.fd, !.nBytes = inodes[lib.fd].len]
    /\ UNCHANGED <<tool, dir, inodes, answer>>

\* A file with another magic number is unmapped as one with a wrong size is,
\* but its size is returned, and init_symbol takes that for a success.
Checked(w) ==
    IF w.bits # 64 THEN [NotLoaded EXCEPT !.bSymLoad = TRUE]
    ELSE IF lib.nBytes # "whole" \/ ~w.mark \/ ~w.dwarf THEN [NotLoaded EXCEPT !.nBytes = "none"]
    ELSE [lib EXCEPT !.pc = "look", !.bSymLoad = TRUE, !.tables = lib.map]

CheckSymbols ==
    /\ lib.pc = "check"
    /\ LET image == inodes[lib.map].image
       IN  lib' = IF image = Foreign THEN [NotLoaded EXCEPT !.bSymLoad = TRUE]
                  ELSE Checked(Written[image])
    /\ UNCHANGED <<tool, dir, inodes, answer>>

\* findDmgSymByAddr in the table, 0 for no symbol.
SymbolAt(tab, addr) ==
    LET x == Hit(Len(tab), LAMBDA n : SideOf(addr, tab[n + 1].addr, tab[n + 1].end))
    IN  IF x = -1 THEN 0 ELSE tab[x + 1].ptr

\* findSymByName, through the order of names.
AddressOf(w, name) ==
    LET x == Hit(Len(w.hash), LAMBDA n : name - w.tab[w.hash[n + 1]].ptr)
    IN  IF x = -1 THEN 0 ELSE w.tab[w.hash[x + 1]].addr

Answer(a) == answer' = a /\ lib' = [lib EXCEPT !.pc = "idle"] /\ UNCHANGED <<tool, dir, inodes>>

\* A frame of a backtrace: the symbol, and when there is one the line.
Found(image, w, addr, sym) ==
    [kind |-> "addr", key |-> addr, image |-> image, sym |-> sym,
     line |-> IF sym = 0 THEN NotFound ELSE addr2line(w.index, w.packets, addr)]

Frame(addr) ==
    /\ lib.pc = "look"
    /\ IF lib.early = NoFile
       THEN Answer([NoAnswerYet EXCEPT !.kind = "no table"])
       ELSE LET image == inodes[lib.early].image
            IN  \E w \in {Written[image]} : Answer(Found(image, w, addr, SymbolAt(w.tab, addr)))

\* findSymByName does not ask whether there is a table.
Named(name) ==
    /\ lib.pc = "look"
    /\ IF lib.early = NoFile
       THEN Answer([NoAnswerYet EXCEPT !.kind = "crash"])
       ELSE LET image == inodes[lib.early].image
            IN  Answer([kind |-> "name", key |-> name, image |-> image,
                        sym |-> AddressOf(Written[image], name), line |-> NotFound])

-----------------------------------------------------------------------------
Next ==
    \/ \E k \in DOMAIN Images : Run(k)
    \/ Unlink \/ RefuseInput \/ OpenOutput \/ GiveUp \/ WriteSome \/ WriteRest
    \/ DiskFull \/ Kill
    \/ Ask \/ OpenSymbols \/ MapSymbols \/ CheckSymbols
    \/ \E a \in Addresses : Frame(a)
    \/ \E n \in Names : Named(n)

Spec == Init /\ [][Next]_vars

-----------------------------------------------------------------------------
(* What the answers are worth. *)

\* The symbols of an executable that the tool takes, and where they end.
SymbolsOf(image) == {n \in DOMAIN image.symbols : Wanted(image.symbols[n])}
Covers(image, n, addr) ==
    LET s == image.symbols[n]
    IN  /\ s.value <= addr
        /\ IF s.size # 0 THEN addr < s.value + s.size
           ELSE \E m \in SymbolsOf(image) :
                   /\ image.symbols[m].value > addr
                   /\ \A o \in SymbolsOf(image) \ {n} : image.symbols[o].value \notin s.value .. addr

\* No symbol inside another one, and all of them taken.
Apart(image) ==
    /\ Cardinality(SymbolsOf(image)) = Len(Imported(image))
    /\ \A m, n \in SymbolsOf(image) :
          m # n => /\ image.symbols[m].value # image.symbols[n].value
                   /\ ~Covers(image, m, image.symbols[n].value)

\* An address is named after the symbol it lies in, and after none when it lies
\* between symbols: through the tool's sort and its ends for symbols without a
\* size, the file, and the binary search of findDmgSymByAddr.
NamedByAddress ==
    answer.kind = "addr" /\ Apart(Images[answer.image]) =>
        LET image == Images[answer.image]
            owners == {image.symbols[n].name : n \in {m \in SymbolsOf(image) :
                                                         Covers(image, m, answer.key)}}
        IN  IF owners = {} THEN answer.sym = 0 ELSE answer.sym \in owners

\* A name is found when the executable has it, at an address of a symbol of that
\* name, through the tool's order of names and findSymByName.
FoundByName ==
    answer.kind = "name" /\ Cardinality(SymbolsOf(Images[answer.image])) <= MaxSyms =>
        LET image == Images[answer.image]
            places == {image.symbols[n].value : n \in {m \in SymbolsOf(image) :
                                                          image.symbols[m].name = answer.key}}
        IN  IF places = {} THEN answer.sym = 0 ELSE answer.sym \in places

\* The directory of every unit can be read: known forms, of the size the reader
\* takes them for, and one unit for each packet.
DirectoriesRead(image) ==
    /\ ListFate(image.info, image.abbrevs) = "ok"
    /\ Len(image.info) = Len(image.lines)
    /\ \A k \in DOMAIN image.info :
          LET u == image.info[k]
              attrs == lookup_abbrev(u.code, read_abbrevs(image.abbrevs, u.abbrev))[1].attrs
          IN  /\ {"stmt_list", "comp_dir"} \subseteq {attrs[n].name : n \in DOMAIN attrs}
              /\ \A n \in DOMAIN attrs :
                    Known(attrs[n].form) /\ attrs[n].form # "ref_addr"
                    /\ (attrs[n].form = "strp" => image.hasStr)

\* The executables whose lines the library gets right, and what is right; they
\* are constants, so that they are worked out once.  Readable leaves out only that
\* the files in use are the first ones of their table.
Readable ==
    {k \in DOMAIN Images : Decoded(Images[k].lines) /\ DirectoriesRead(Images[k])}
Reliable == {k \in Readable : Faithful(Images[k].lines)}
Gapless ==
    {k \in Reliable : \A n \in DOMAIN Images[k].lines : NoGaps(Images[k].lines[n])}
Rows == [k \in Readable |-> NamedRows(Images[k].lines)]

\* The line of a backtrace is a row of the line table that holds at the address,
\* with the file's full name: dumpsym trims the packets, moves them and sorts
\* their ranges, and the library runs what is left of them.
LinesAreRows ==
    answer.kind = "addr" /\ answer.sym # 0 /\ answer.image \in Reliable =>
        \A truth \in {Truth(Rows[answer.image], answer.key)} :
           /\ truth # {} => answer.line \in truth
           /\ truth = {} /\ answer.image \in Gapless => answer.line = NotFound

\* The library uses a symbol file only when dumpsym has written all of it, also
\* when it opens the file while the tool writes, after the tool was killed, or
\* when the disk was full; and what it has mapped does not change under it when
\* the tool is run again.
OnlyWholeFiles ==
    lib.tables # NoFile =>
        /\ inodes[lib.tables].len = "whole"
        /\ Images[inodes[lib.tables].image].class = 2

\* utils/dumpsym.src/addr2line.c:904 lists "File table entry not referrenced"
\* under the data which will not be used on the target: the files that are left
\* out make no difference to an answer, whatever files the program uses.
TrimmedUnused ==
    answer.kind = "addr" /\ answer.sym # 0 /\ answer.image \in Readable =>
        \A truth \in {Truth(Rows[answer.image], answer.key)} : truth # {} => answer.line \in truth
=============================================================================
