------------------------------- MODULE DumpSym -------------------------------
(***************************************************************************)
(* The symbol file dumpsym writes for an executable (utils/dumpsym.src):   *)
(* elf.c, process.c, process64.c and process32.c.                          *)
(*                                                                         *)
(* An executable is a record                                               *)
(*   [magic, class, order, phnum, sections, symbols,                       *)
(*    lines, info, abbrevs, hasStr]                                        *)
(* order says whether the file has the byte order of the host, sections    *)
(* are [type, name, addr, size], symbols are [name, value, size, type,     *)
(* mapping], and the last four are the contents of the .debug sections     *)
(* (LinePack, CompUnits).  Names of symbols are numbers in the order of    *)
(* strcmp; every name takes NameSize bytes.                                *)
(***************************************************************************)
EXTENDS LinePack, FiniteSets

CONSTANTS MaxSyms,   \* MAX_SYM_COUNT
          MaxBuff    \* MAX_SYM_BUFF, in the units of NameSize

NameSize == 1

-----------------------------------------------------------------------------
(* Byte order.  A field of the file counts as its value when it has been
   swapped exactly when the file has the other byte order. *)

\* The fields that swap_ehdr, swap_shdr and swap_stab, and their 64 bit forms,
\* turn round; the other fields of these headers are single bytes.
SwappedFields ==
    [ehdr |-> {"type", "machine", "version", "entry", "phoff", "shoff", "flags", "ehsize",
               "phentsize", "phnum", "shentsize", "shnum", "shstrndx"},
     shdr |-> {"name", "type", "flags", "addr", "offset", "size", "link", "info",
               "addralign", "entsize"},
     stab |-> {"name", "value", "size", "shndx"}]

\* need_swap is set from the header on every read of it.  A small number read
\* in the wrong order is a large one.
need_swap(image) == image.order = "other"
Mirror(val) == val * 2 ^ 24
Field(image, header, f, val) ==
    IF need_swap(image) => f \in SwappedFields[header] THEN val ELSE Mirror(val)

Elf32_gettype(image) == IF image.magic = "elf" THEN "ELF" ELSE "none"
get_bit_size(image) == CASE image.class = 1 -> 32 [] image.class = 2 -> 64 [] OTHER -> 0

-----------------------------------------------------------------------------
(* The walk over the section headers. *)

Unset == -1
GapMax == 256

Located == [base |-> Unset, va |-> Unset, bss |-> 0,
            symtab |-> FALSE, strtab |-> FALSE, line |-> FALSE]

Locate(s, sec) ==
    CASE sec.type = "symtab" -> [s EXCEPT !.symtab = TRUE]
      [] sec.type = "strtab" /\ sec.name = ".strtab" -> [s EXCEPT !.strtab = TRUE]
      [] sec.name = ".debug_line" -> [s EXCEPT !.line = TRUE]
      [] OTHER -> s

\* The image grows by every section with contents.  A section below the image
\* is moved behind it, a gap up to GapMax is kept, and a larger one is closed.
Load(s, sec) ==
    CASE sec.type = "nobits" ->
            IF s.va # Unset /\ sec.addr >= s.va THEN [s EXCEPT !.bss = sec.size] ELSE s
      [] sec.type = "progbits" ->
            IF s.base = Unset THEN [s EXCEPT !.base = sec.addr, !.va = sec.addr + sec.size]
            ELSE IF s.va < sec.addr /\ sec.size # 0 /\ sec.addr - s.va < GapMax
                 THEN [s EXCEPT !.va = sec.addr + sec.size]
                 ELSE [s EXCEPT !.va = @ + sec.size]
      [] OTHER -> s

Sections(image) ==
    LET Turn(s, sec) == Load(Locate(s, sec), sec)
    IN  FoldLeft(Turn, Located, image.sections)

-----------------------------------------------------------------------------
(* The tables. *)

\* Functions and objects, but for names that start or go on with a '$', as long
\* as there is room for one more; a name that does not fit is left out.
Wanted(sym) == sym.type \in {"func", "object"} /\ ~sym.mapping
Imported(image) ==
    LET Take(tab, sym) ==
            IF Wanted(sym) /\ Len(tab) < MaxSyms /\ Len(tab) * (NameSize + 1) + NameSize < MaxBuff
            THEN Append(tab, [addr |-> Field(image, "stab", "value", sym.value),
                              size |-> Field(image, "stab", "size", sym.size),
                              ptr |-> sym.name])
            ELSE tab
    IN  FoldLeft(Take, <<>>, image.symbols)

\* The numbers of a table's entries in an order, equal entries as they stand.
SortedBy(tab, Before(_, _)) ==
    LET Ahead(n) == {m \in DOMAIN tab : Before(tab[m], tab[n])
                                         \/ (m < n /\ ~Before(tab[n], tab[m]))}
    IN  [k \in DOMAIN tab |-> CHOOSE n \in DOMAIN tab : Cardinality(Ahead(n)) = k - 1]

\* sym_tabs in the order of addresses, and sym_hash, the numbers of its entries
\* in the order of names.
InOrder(t) ==
    LET order == SortedBy(t, LAMBDA a, b : a.addr < b.addr)
    IN  [k \in DOMAIN order |-> t[order[k]]]
sym_tabs(image) == InOrder(Imported(image))
\* Mutant of sym_hash: the order of the table.
sym_hashUnsorted(tab) == [k \in DOMAIN tab |-> k]
sym_hash(tab) == SortedBy(tab, LAMBDA a, b : a.ptr < b.ptr)

\* Mutant of Entries: an end counts as the last address.
EntriesShort(tab) ==
    [n \in DOMAIN tab |->
        [addr |-> tab[n].addr, ptr |-> tab[n].ptr,
         end |-> IF tab[n].size # 0 THEN tab[n].addr + tab[n].size - 1
                 ELSE IF n < Len(tab) THEN tab[n + 1].addr ELSE 0]]

\* What is written for a symbol ends where it ends, and without a size where
\* the next one begins; the last one then has no end.
Entries(tab) ==
    [n \in DOMAIN tab |->
        [addr |-> tab[n].addr, ptr |-> tab[n].ptr,
         end |-> CASE tab[n].size # 0 -> tab[n].addr + tab[n].size
                   [] tab[n].size = 0 /\ n < Len(tab) -> tab[n + 1].addr
                   [] OTHER -> 0]]

\* The tables of .debug_line are made when there is such a section.
LineTables(image) ==
    LET units == parse_all_comp_units(image.info, image.abbrevs, image.hasStr)
    IN  [index |-> Index(image.lines), packets |-> Packets(image.lines, units)]

NoTables == [index |-> <<>>, packets |-> <<>>]

-----------------------------------------------------------------------------
(* The file. *)

\* Words in front of the names: a mark, one word for each symbol and one more
\* to make their number even, then mark, count and size, two words for each
\* range, and the packets.
TableSize(n, dwarf) ==
    1 + n + (n % 2) + (IF dwarf = NoTables THEN 0
                     ELSE 3 + 2 * Len(dwarf.index) + Len(dwarf.packets))

\* What a run of the tool comes to.  Without program headers it gives up, and
\* without section headers it runs into a NULL pointer.
Outcome(image, s, fate, n, dwarf) ==
    IF image.phnum = 0 \/ get_bit_size(image) = 0 THEN "refused"
    ELSE IF image.sections = <<>> THEN "crash"
    ELSE IF ~(s.symtab /\ s.strtab) THEN "written"
    ELSE IF s.line /\ fate # "ok" THEN fate
    ELSE IF n * (NameSize + 1) + TableSize(n, dwarf) >= MaxBuff THEN "refused"
    ELSE "written"

\* The 64 bit file: the mark 4, and dwarfLst as it is.
File64(image, s, tab, dwarf) ==
    [bits |-> 64,
     outcome |-> Outcome(image, s, ListFate(image.info, image.abbrevs), Len(tab), dwarf),
     bss |-> s.bss, size |-> s.va - s.base, mark |-> s.symtab /\ s.strtab,
     tab |-> Entries(tab), hash |-> sym_hash(tab),
     dwarf |-> dwarf # NoTables, index |-> dwarf.index, packets |-> dwarf.packets]

Tables(image, s) ==
    LET full == s.symtab /\ s.strtab
    IN  File64(image, s, IF full THEN sym_tabs(image) ELSE <<>>,
               IF full /\ s.line THEN LineTables(image) ELSE NoTables)

process64(image) == Tables(image, Sections(image))

\* The 32 bit file has another magic number.  dwarfLst is an array of 64 bit
\* words there too, and half of it is copied.
process32(w) == [w EXCEPT !.bits = 32, !.index = SubSeq(@, 1, Len(@) \div 2)]

Process(image, w) == IF get_bit_size(image) = 32 THEN process32(w) ELSE w
process(image) == Process(image, process64(image))
=============================================================================
