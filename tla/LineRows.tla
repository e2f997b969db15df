------------------------------ MODULE LineRows ------------------------------
(***************************************************************************)
(* What line information means, as the DWARF standard has it: a packet is  *)
(* a table of rows, and a row holds from its address to that of the next   *)
(* row of its sequence.  The reference for LinePack and LineProgram; no    *)
(* code is behind it.                                                      *)
(***************************************************************************)
EXTENDS LinePack

RowStart == [addr |-> 0, line |-> 1, file |-> 1, row |-> <<>>, spans |-> {}]

\* A new row ends the one before; row is the open one, if any.
Close(s) ==
    IF s.row = <<>> THEN s.spans
    ELSE s.spans \cup {[from |-> s.row[1].addr, to |-> s.addr,
                        file |-> s.row[1].file, line |-> s.row[1].line]}
Emit(s) == [s EXCEPT !.spans = Close(s),
                     !.row = <<[addr |-> s.addr, file |-> s.file, line |-> s.line]>>]

RowStep(p, s, i) ==
    CASE i.op >= p.opcodeBase ->
            Emit([s EXCEPT !.addr = @ + SpecialAddr(p, i.op), !.line = @ + SpecialLine(p, i.op)])
      [] i.op = StandardOps.copy -> Emit(s)
      [] i.op = StandardOps.advance_pc -> [s EXCEPT !.addr = @ + decodeULEB128(i.arg) * p.minInsn]
      [] i.op = StandardOps.advance_line -> [s EXCEPT !.line = @ + decodeSLEB128(i.arg)]
      [] i.op = StandardOps.set_file -> [s EXCEPT !.file = decodeULEB128(i.arg)]
      [] i.op = StandardOps.const_add_pc -> [s EXCEPT !.addr = @ + ConstAddr(p)]
      [] i.op = StandardOps.fixed_advance_pc -> [s EXCEPT !.addr = @ + i.arg]
      [] i.op = StandardOps.extended /\ i.sub = ExtendedOps.set_address -> [s EXCEPT !.addr = i.arg]
      [] i.op = StandardOps.extended /\ i.sub = ExtendedOps.end_sequence ->
            [RowStart EXCEPT !.spans = Close(s)]
      [] OTHER -> s

Spans(p) == LET Turn(s, i) == RowStep(p, s, i) IN FoldLeft(Turn, RowStart, p.prog).spans

\* A full path without "." and "..".
Resolved(path) ==
    LET Add(out, c) == CASE c = "." -> out
                         [] c = ".." -> IF Len(out) > 1 THEN Front(out) ELSE out
                         [] OTHER -> Append(out, c)
    IN  FoldLeft(Add, <<>>, path)

TrueName(p, n) ==
    LET f == p.files[n]
        inDir == IF f.dir = 0 THEN f.name ELSE p.dirs[f.dir] \o f.name
    IN  CASE IsFull(f.name) -> Resolved(f.name)
          [] ~IsFull(f.name) /\ IsFull(inDir) -> Resolved(inDir)
          [] OTHER -> Resolved(p.home \o inDir)

\* The rows of all packets, with the names of their files.
NamedRows(section) ==
    UNION {{[from |-> s.from, to |-> s.to,
             answer |-> [file |-> TrueName(section[k], s.file), line |-> s.line]] :
               s \in Spans(section[k])} : k \in DOMAIN section}

\* What they say of an address.
Truth(rows, addr) == {r.answer : r \in {s \in rows : s.from <= addr /\ addr < s.to}}

-----------------------------------------------------------------------------
(* The packets for which the library keeps to that. *)

\* A set_file is followed by a row at once, through a special opcode: the
\* library takes the new file over at a special opcode or advance_pc only.
FileThenRow(p) ==
    \A k \in DOMAIN p.prog :
        p.prog[k].op = StandardOps.set_file =>
            k < Len(p.prog) /\ p.prog[k + 1].op >= p.opcodeBase

\* The library compares the address it looks for at a special opcode, advance_pc
\* and end_sequence only.  What moves the address without that:
Tests(p, i) == \/ i.op >= p.opcodeBase \/ i.op = StandardOps.advance_pc
               \/ i.op = StandardOps.extended /\ i.sub = ExtendedOps.end_sequence

Moves(i) == \/ i.op \in {StandardOps.const_add_pc, StandardOps.fixed_advance_pc}
            \/ i.op = StandardOps.extended /\ i.sub = ExtendedOps.set_address

StartsSequence(p, k) ==
    k = 1 \/ (p.prog[k - 1].op = StandardOps.extended /\ p.prog[k - 1].sub = ExtendedOps.end_sequence)

\* No copy behind such a move within a sequence, unless there is a comparison
\* between the two.
NoLateCopy(p) ==
    \A j, k \in DOMAIN p.prog :
        /\ j < k /\ Moves(p.prog[j]) /\ ~StartsSequence(p, j)
        /\ p.prog[k].op = StandardOps.copy
        => \E i \in j + 1 .. k - 1 : Tests(p, p.prog[i])

\* The files the program makes rows in are the first ones of the table.
FirstFiles(p) == \E n \in DOMAIN p.files : Scan(p).used = 1 .. n

\* The sequences of the packet follow each other in memory.
Ascending(p) ==
    LET s == Scan(p).seqs IN \A k \in 2 .. Len(s) : s[k - 1].high <= s[k].low

\* One sequence, with a row from its start on: in a gap the library answers from
\* what comes next.
NoGaps(p) ==
    LET seqs == Scan(p).seqs
    IN  /\ Len(seqs) <= 1
        /\ \A n \in DOMAIN seqs : \E s \in Spans(p) : s.from = seqs[n].low

\* The versions dumpsym gets through: 2, and 3 for the first packet.
VersionsRead(section) ==
    /\ \A k \in 2 .. Len(section) : section[k].version = 2
    /\ section # <<>> => section[1].version \in 2 .. 3

Decoded(section) ==
    /\ VersionsRead(section)
    /\ \A k \in DOMAIN section :
          /\ FileThenRow(section[k]) /\ NoLateCopy(section[k]) /\ Ascending(section[k])
          /\ Len(section[k].dirs) <= CharMax

Faithful(section) == Decoded(section) /\ \A k \in DOMAIN section : FirstFiles(section[k])
=============================================================================
