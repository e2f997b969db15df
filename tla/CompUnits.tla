------------------------------ MODULE CompUnits ------------------------------
(***************************************************************************)
(* What dumpsym reads of .debug_info and .debug_abbrev: the attributes of  *)
(* every compilation unit (utils/dumpsym.src/dwarf.c), of which it uses    *)
(* the directory the unit was compiled in.                                 *)
(*                                                                         *)
(* .debug_abbrev is a sequence of declarations [number, attrs], attrs a    *)
(* sequence of [name, form]; number 0 ends the table of a unit.  A unit of *)
(* .debug_info is [version, addrSize, abbrev, code, cells]: abbrev is the  *)
(* position of its table, code the number of its declaration, and cells    *)
(* the attribute values in file order, [size, val], size in bytes.  Paths  *)
(* are the sequences of their components, <<"", "usr">> for /usr.          *)
(***************************************************************************)
EXTENDS Integers, Sequences, SequencesExt

CONSTANTS NoPath,    \* a NULL path
          Unread     \* the value of an attribute that was not decoded

\* Forms whose value says itself where it ends.
Counted == {"block1", "block2", "block4", "block", "string", "sdata", "udata",
            "ref_udata", "indirect"}

\* The bytes the reader advances for a form.  A form it does not know is
\* reported and takes no byte; ref_addr is read as an address also where the
\* format has made it an offset.
Advance(unit, form, cell) ==
    CASE form \in {"data1", "flag", "ref1"} -> 1
      [] form \in {"data2", "ref2"} -> 2
      [] form \in {"data4", "sec_offset", "ref4", "strp"} -> 4
      [] form = "data8" -> 8
      [] form \in {"addr", "ref_addr"} -> unit.addrSize
      [] form \in Counted -> cell.size
      [] OTHER -> 0

Known(form) ==
    form \in Counted \cup {"data1", "flag", "ref1", "data2", "ref2", "data4",
                           "sec_offset", "ref4", "strp", "data8", "addr", "ref_addr"}

\* DW_FORM_strp without a .debug_str is the current directory.
Value(hasStr, form, cell) ==
    IF form = "strp" /\ ~hasStr THEN <<".">> ELSE cell.val

\* The declarations a unit can use: up to the end of its table, of the section,
\* or to a number that has been read already (Irix leaves out the end mark).
read_abbrevs(abbrevs, offset) ==
    LET read[k \in offset .. Len(abbrevs) + 1, seen \in SUBSET {a.number : a \in ToSet(abbrevs)}] ==
            IF k > Len(abbrevs) THEN <<>>
            ELSE IF abbrevs[k].number = 0 \/ abbrevs[k].number \in seen THEN <<>>
            ELSE <<abbrevs[k]>> \o read[k + 1, seen \cup {abbrevs[k].number}]
    IN  read[offset, {}]

lookup_abbrev(number, table) == SelectSeq(table, LAMBDA a : a.number = number)

\* Irix writes <machine>.:/dir.
StripHost(path) ==
    IF path # NoPath /\ Len(path) > 1 /\ path[1] = "host.:" THEN <<"">> \o Tail(path)
    ELSE path

EmptyUnit == [line_offset |-> 0, comp_dir |-> NoPath]

\* The attributes are read in the order of the declaration; once the reader has
\* advanced by a wrong number of bytes everything that follows is misread.
Attributes(attrs, hasStr, unit) ==
    LET Store(u, name, val) ==
            CASE name = "stmt_list" -> [u EXCEPT !.line_offset = val]
              [] name = "comp_dir" -> [u EXCEPT !.comp_dir = IF val = Unread THEN @ ELSE StripHost(val)]
              [] OTHER -> u
        One(s, k) ==
            LET a == attrs[k]
                c == unit.cells[k]
            IN  [unit |-> Store(s.unit, a.name,
                                IF s.aligned /\ Known(a.form) THEN Value(hasStr, a.form, c)
                                ELSE Unread),
                 aligned |-> s.aligned /\ Advance(unit, a.form, c) = c.size]
    IN  FoldLeft(One, [unit |-> EmptyUnit, aligned |-> TRUE],
                 [k \in 1 .. Len(attrs) |-> k]).unit

parse_comp_unit(abbrevs, hasStr, unit) ==
    Attributes(lookup_abbrev(unit.code, read_abbrevs(abbrevs, unit.abbrev))[1].attrs, hasStr, unit)

\* How reading a unit ends: the tool leaves at a version above 4, and a unit
\* without a declaration is a NULL pointer in the list.
UnitFate(abbrevs, unit) ==
    CASE unit.version > 4 -> "exit"
      [] unit.version <= 4 /\ (unit.code = 0
            \/ lookup_abbrev(unit.code, read_abbrevs(abbrevs, unit.abbrev)) = <<>>) -> "null"
      [] OTHER -> "ok"

\* parse_all_comp_units: the list ends at a NULL unit, and going on behind one
\* dereferences it.
FateOf(fates) ==
    LET First == SelectInSeq(fates, LAMBDA f : f # "ok")
    IN  CASE First = 0 -> "ok"
          [] First # 0 /\ fates[First] = "exit" -> "exit"
          [] First # 0 /\ fates[First] = "null" /\ First < Len(fates) ->
                IF fates[First + 1] = "exit" THEN "exit" ELSE "crash"
          [] OTHER -> "ok"
ListFate(info, abbrevs) == FateOf([k \in DOMAIN info |-> UnitFate(abbrevs, info[k])])

parse_all_comp_units(info, abbrevs, hasStr) ==
    LET bad == SelectInSeq([k \in DOMAIN info |-> UnitFate(abbrevs, info[k])],
                           LAMBDA f : f # "ok")
        n == IF bad = 0 THEN Len(info) ELSE bad - 1
    IN  [k \in 1 .. n |-> parse_comp_unit(abbrevs, hasStr, info[k])]

\* The first unit with that offset.  A unit without DW_AT_stmt_list has 0 there
\* and is taken for the unit of the first packet.
find_comp_dir(units, line_offset) ==
    LET k == SelectInSeq(units, LAMBDA u : u.line_offset = line_offset)
    IN  IF k = 0 THEN NoPath ELSE units[k].comp_dir
=============================================================================
