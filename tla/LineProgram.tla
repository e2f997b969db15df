---------------------------- MODULE LineProgram ----------------------------
(***************************************************************************)
(* The line number program as the library runs it: addr2line and           *)
(* searchLineInfo of dbgModule/symbol/addr2line.c, compiled without MKSYM, *)
(* on the packets dumpsym has packed into the symbol file.                 *)
(*                                                                         *)
(* A packet is a record of the header's fields, the file table and the     *)
(* program, a sequence of instructions [op, sub, arg]; bytes are left out, *)
(* except where the two sides count them differently (HeaderRead).         *)
(***************************************************************************)
EXTENDS Integers, Sequences, SequencesExt, Bisect

CONSTANTS Garbage,   \* what stands in a slot nobody has written
          NoAnswer   \* the search has not ended yet

ASSUME LineConstants == Garbage # NoAnswer

-----------------------------------------------------------------------------
(* The numbers of variable length in DWARF sections.  A number is the      *)
(* sequence of its bytes, 7 bits in each, the lowest first; 128 says that  *)
(* another byte follows.  TLC's integers hold four such bytes, LebMax.     *)

LebMax == 4

\* The bytes up to the first one without the 128, and what they add up to.
LebLength(bytes) == CHOOSE n \in DOMAIN bytes : /\ bytes[n] < 128
                                               /\ \A m \in 1 .. n - 1 : bytes[m] >= 128
decodeULEB128(bytes) ==
    LET n == LebLength(bytes)
        sum[k \in 0 .. n] == IF k = 0 THEN 0 ELSE sum[k - 1] + (bytes[k] % 128) * 2 ^ (7 * (k - 1))
    IN  sum[n]

\* The 64 of the last byte is the sign; five bytes and more are taken for
\* positive whatever it says.
decodeSLEB128(bytes) ==
    LET n == LebLength(bytes)
        u == decodeULEB128(bytes)
    IN  IF 7 * n < 32 /\ bytes[n] >= 64 THEN u - 2 ^ (7 * n) ELSE u

\* What a compiler writes for a number.
Uleb(v) == IF v < 128 THEN <<v>> ELSE <<(v % 128) + 128, v \div 128>>
Sleb(v) ==
    CASE -64 <= v /\ v < 64 -> <<v % 128>>
      [] OTHER -> <<(v % 128) + 128, (v \div 128) % 128>>

-----------------------------------------------------------------------------
\* The opcodes (dwarf.h).
StandardOps ==
    [extended |-> 0, copy |-> 1, advance_pc |-> 2, advance_line |-> 3,
     set_file |-> 4, set_column |-> 5, negate_stmt |-> 6, basic_block |-> 7,
     const_add_pc |-> 8, fixed_advance_pc |-> 9, prologue_end |-> 10,
     epilogue_begin |-> 11, set_isa |-> 12]

ExtendedOps ==
    [end_sequence |-> 1, set_address |-> 2, define_file |-> 3,
     set_discriminator |-> 4]

\* How far a special opcode, and const_add_pc, move line and address.
SpecialLine(h, op) == h.lineBase + ((op - h.opcodeBase) % h.lineRange)
SpecialAddr(h, op) == ((op - h.opcodeBase) \div h.lineRange) * h.minInsn
ConstAddr(h) == h.minInsn * ((255 - h.opcodeBase) \div h.lineRange)

-----------------------------------------------------------------------------
(* The registers of one search, and what each instruction does to them. *)

\* Every sequence starts from here; the file table lasts for the packet.
Fresh(files) ==
    [address |-> 0, lineNo |-> 1, prevNo |-> 1, fileNo |-> 1, newFno |-> 1,
     files |-> files, answer |-> NoAnswer]

\* fileList is an automatic array: an entry beyond the table is whatever the
\* stack holds.
FileAt(files, n) == IF n \in DOMAIN files THEN files[n] ELSE Garbage

\* The address register moves to a; the search ends when it passes the
\* address looked for, with the line and the file before this instruction.
MoveTo(srch, r, a) ==
    IF srch < a
    THEN [r EXCEPT !.address = a,
                   !.answer = [file |-> FileAt(r.files, r.fileNo), line |-> r.prevNo]]
    ELSE [r EXCEPT !.address = a]

\* A special opcode: the file set by set_file counts from here on.
Special(h, srch, r, op) ==
    LET line == r.lineNo + SpecialLine(h, op)
        s == MoveTo(srch, r, r.address + SpecialAddr(h, op))
    IN  IF s.answer # NoAnswer THEN s
        ELSE [s EXCEPT !.lineNo = line, !.prevNo = line, !.fileNo = r.newFno]

EndSequence(srch, r) ==
    LET s == MoveTo(srch, r, r.address)
    IN  IF s.answer # NoAnswer THEN s ELSE Fresh(r.files)

\* define_file writes one slot behind the table and does not count it, so a
\* second one replaces the first.
DefineFile(numFiles, r, name) ==
    [r EXCEPT !.files = [n \in DOMAIN @ \cup {numFiles + 1} |->
                            IF n = numFiles + 1 THEN name ELSE @[n]]]

Extended(numFiles, srch, r, i) ==
    CASE i.sub = ExtendedOps.end_sequence -> EndSequence(srch, r)
      [] i.sub = ExtendedOps.set_address -> [r EXCEPT !.address = i.arg]
      [] i.sub = ExtendedOps.define_file -> DefineFile(numFiles, r, i.arg)
      [] OTHER -> r

AdvancePc(h, srch, r, arg) ==
    LET s == MoveTo(srch, r, r.address + arg * h.minInsn)
    IN  IF s.answer # NoAnswer THEN s ELSE [s EXCEPT !.fileNo = r.newFno]

Standard(h, srch, r, i) ==
    CASE i.op = StandardOps.copy -> [r EXCEPT !.prevNo = r.lineNo]
      [] i.op = StandardOps.advance_pc -> AdvancePc(h, srch, r, decodeULEB128(i.arg))
      [] i.op = StandardOps.advance_line -> [r EXCEPT !.lineNo = @ + decodeSLEB128(i.arg)]
      [] i.op = StandardOps.set_file -> [r EXCEPT !.newFno = decodeULEB128(i.arg)]
      [] i.op = StandardOps.const_add_pc -> [r EXCEPT !.address = @ + ConstAddr(h)]
      [] i.op = StandardOps.fixed_advance_pc -> [r EXCEPT !.address = @ + i.arg]
      [] OTHER -> r

\* One turn of the loop.
RunOne(h, numFiles, srch, r, i) ==
    CASE r.answer # NoAnswer -> r
      [] r.answer = NoAnswer /\ i.op >= h.opcodeBase -> Special(h, srch, r, i.op)
      [] r.answer = NoAnswer /\ i.op < h.opcodeBase /\ i.op = StandardOps.extended ->
            Extended(numFiles, srch, r, i)
      [] OTHER -> Standard(h, srch, r, i)

-----------------------------------------------------------------------------
(* A whole packet. *)

\* Version 4 has one more byte in the header.  dumpsym copies 15 bytes whatever
\* the version (LinePack!Packed), and the library reads 16: the first byte of
\* the first file name, the '/' of a full path, is taken for opcode_base.
Slash == 47
HeaderRead(p) ==
    IF p.version < 4 THEN p
    ELSE [p EXCEPT !.opcodeBase = Slash, !.files[1] = Garbage]

\* searchLineInfo looks at one packet when an address is given.  A packet it
\* does not understand gives line 0 and leaves the file name alone.
NotFound == [file |-> Garbage, line |-> 0]
searchLineInfo(packet, srch) ==
    IF packet.version \notin 2 .. 4 THEN NotFound
    ELSE LET h == HeaderRead(packet)
             Turn(r, i) == RunOne(h, Len(h.files), srch, r, i)
             end == FoldLeft(Turn, Fresh(h.files), h.prog)
         IN  IF end.answer = NoAnswer THEN NotFound ELSE end.answer

\* addr2line finds the packet in dwarfLst, a table of [addr, off] pairs.  An
\* entry ends where the next one begins; behind the last one follow the packets
\* themselves, which read as a number are above every address.
addr2line(dwarfLst, packets, addr) ==
    LET n == Len(dwarfLst)
        Side(x) ==
            CASE addr < dwarfLst[x + 1].addr -> -1
              [] addr >= dwarfLst[x + 1].addr /\ x + 2 <= n
                     /\ addr >= dwarfLst[x + 2].addr -> 1
              [] OTHER -> 0
        x == Hit(n, Side)
    IN  IF n = 0 \/ x = -1 THEN NotFound
        ELSE IF dwarfLst[x + 1].off \notin DOMAIN packets THEN NotFound
             ELSE searchLineInfo(packets[dwarfLst[x + 1].off], addr)
=============================================================================
