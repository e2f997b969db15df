------------------------------ MODULE LinePack ------------------------------
(***************************************************************************)
(* How dumpsym packs .debug_line for the target: searchLineInfo of         *)
(* utils/dumpsym.src/addr2line.c (the file of the library, compiled with   *)
(* MKSYM), which decodes every packet, keeps the files it takes for used,  *)
(* and lists the address range of every sequence.                          *)
(*                                                                         *)
(* A packet is the record of LineProgram with the directories added, and   *)
(* its files are [name, dir]; names and directories are paths.  Packet k   *)
(* stands at offset k - 1 of the section.                                  *)
(***************************************************************************)
EXTENDS LineProgram, CompUnits, FiniteSets

-----------------------------------------------------------------------------
(* Path names. *)

\* demangle_pathname takes "." and ".." out, from the left.  "." needs a slash
\* before it and ".." a component with a slash before that; without one the
\* search for the slash leaves the string and finds its end there.  The last
\* component has no slash behind it and is left alone.
Undotted(path) ==
    LET Add(s, c) ==
            CASE ~s.stop /\ c = "." /\ Len(s.out) > 0 -> s
              [] ~s.stop /\ c = ".." /\ Len(s.out) > 1 -> [s EXCEPT !.out = Front(@)]
              [] OTHER -> [out |-> Append(s.out, c), stop |-> s.stop \/ c \in {".", ".."}]
    IN  Append(FoldLeft(Add, [out |-> <<>>, stop |-> FALSE], Front(path)).out, Last(path))

IsFull(path) == Head(path) = ""

\* dirIndex is an array of char: from 128 on the index is negative and
\* dirList[dir - 1] is not one of the directories.
CharMax == 127

concat_filename(comp_dir, dirs, f) ==
    LET inDir == IF f.dir = 0 THEN f.name
                 ELSE IF f.dir > CharMax THEN <<Garbage>> \o f.name
                 ELSE dirs[f.dir] \o f.name
    IN  Undotted(CASE IsFull(f.name) -> f.name
                   [] ~IsFull(f.name) /\ (IsFull(inDir) \/ comp_dir = NoPath) -> inDir
                   [] OTHER -> comp_dir \o inDir)

-----------------------------------------------------------------------------
(* The registers while a packet is decoded to find its ranges and files. *)

Rewound == [address |-> 0, low |-> 0, high |-> 0, newPc |-> TRUE, added |-> FALSE, newFno |-> 1]
Unpacked == [regs |-> Rewound, used |-> {}, seqs |-> <<>>]

SetLow(r) ==
    IF r.newPc \/ r.address < r.low THEN [r EXCEPT !.newPc = FALSE, !.low = r.address] ELSE r
SetHigh(r) == IF r.address > r.high THEN [r EXCEPT !.high = r.address] ELSE r

\* Only a special opcode and advance_pc mark the file as used, and only a
\* special opcode and copy make the sequence worth keeping.
PackSpecial(h, w, op) ==
    LET r == SetLow([w.regs EXCEPT !.added = TRUE])
    IN  [w EXCEPT !.regs = SetHigh([r EXCEPT !.address = @ + SpecialAddr(h, op)]),
                  !.used = @ \cup {r.newFno}]

PackEnd(w) ==
    LET r == SetHigh(SetLow(w.regs))
    IN  [w EXCEPT !.regs = Rewound,
                  !.seqs = IF r.added THEN Append(@, [low |-> r.low, high |-> r.high]) ELSE @]

PackExtended(w, i) ==
    CASE i.sub = ExtendedOps.end_sequence -> PackEnd(w)
      [] i.sub = ExtendedOps.set_address ->
            [w EXCEPT !.regs = SetHigh(SetLow([w.regs EXCEPT !.address = i.arg]))]
      [] OTHER -> w

PackStandard(h, w, i) ==
    CASE i.op = StandardOps.copy -> [w EXCEPT !.regs.added = TRUE]
      [] i.op = StandardOps.advance_pc ->
            [w EXCEPT !.regs.address = @ + decodeULEB128(i.arg) * h.minInsn, !.used = @ \cup {w.regs.newFno}]
      [] i.op = StandardOps.set_file -> [w EXCEPT !.regs.newFno = decodeULEB128(i.arg)]
      [] i.op = StandardOps.const_add_pc -> [w EXCEPT !.regs.address = @ + ConstAddr(h)]
      [] i.op = StandardOps.fixed_advance_pc -> [w EXCEPT !.regs.address = @ + i.arg]
      [] OTHER -> w

PackOne(h, w, i) ==
    CASE i.op >= h.opcodeBase -> PackSpecial(h, w, i.op)
      [] i.op < h.opcodeBase /\ i.op = StandardOps.extended -> PackExtended(w, i)
      [] OTHER -> PackStandard(h, w, i)

Scan(p) == LET Turn(w, i) == PackOne(p, w, i) IN FoldLeft(Turn, Unpacked, p.prog)

-----------------------------------------------------------------------------
(* The section. *)

\* The files that are kept stand in their old order, but not at their old
\* number; the program, with its set_file, is copied as it is.
Kept(p) ==
    LET used == Scan(p).used
    IN  SelectSeq([n \in DOMAIN p.files |-> n], LAMBDA n : n \in used)

Header(p, files) ==
    [version |-> p.version, minInsn |-> p.minInsn, lineBase |-> p.lineBase,
     lineRange |-> p.lineRange, opcodeBase |-> p.opcodeBase, prog |-> p.prog,
     files |-> files]

Packed(p, comp_dir) ==
    LET name(n) == concat_filename(comp_dir, p.dirs, p.files[n])
    IN  Header(p, FoldLeft(LAMBDA files, n : Append(files, name(n)), <<>>, Kept(p)))

\* Behind the last sequence of a packet up to 16 bytes are skipped until a
\* header of version 2 is in sight.  When the next packet has another version
\* the reader ends up inside its header, takes a version of 0 or 1 from there
\* and leaves the loop.
Reached(section) ==
    LET ok[k \in 1 .. Len(section)] ==
            /\ section[k].version \in 2 .. 4
            /\ k > 1 => /\ ok[k - 1]
                        /\ section[k - 1].prog = <<>> \/ section[k].version = 2
    IN  {k \in 1 .. Len(section) : ok[k]}

\* A packet without a line worth keeping is left out.
Worth(section) ==
    LET reached == Reached(section)
    IN  SelectSeq([k \in DOMAIN section |-> k],
                  LAMBDA k : k \in reached /\ Scan(section[k]).seqs # <<>>)

Packets(section, units) ==
    LET packet(k) == Packed(section[k], find_comp_dir(units, k - 1))
    IN  FoldLeft(LAMBDA all, k : Append(all, packet(k)), <<>>, Worth(section))

\* dwarfTbl, one entry for each sequence, in the order of the section.
RangesAt(seqs, k) == [n \in DOMAIN seqs |-> [low |-> seqs[n].low, high |-> seqs[n].high, off |-> k]]
RangesOf(section, kept) ==
    FlattenSeq([k \in DOMAIN kept |-> RangesAt(Scan(section[kept[k]]).seqs, k)])
Ranges(section) == RangesOf(section, Worth(section))

\* Mutant of Sorted: the ranges stay in the order of the section.
Unsorted(ranges) == ranges

\* dwarfLst: the ranges by their first address, then the end of the last one.
\* The sort is a merge sort, so that ranges with one address keep their order.
\* The last offset has never been written and is 0, the first packet.
Sorted(ranges) ==
    LET Ahead(n) == {m \in DOMAIN ranges : \/ ranges[m].low < ranges[n].low
                                           \/ ranges[m].low = ranges[n].low /\ m < n}
    IN  [k \in DOMAIN ranges |->
            ranges[CHOOSE n \in DOMAIN ranges : Cardinality(Ahead(n)) = k - 1]]

IndexOf(r) ==
    [k \in DOMAIN r |-> [addr |-> r[k].low, off |-> r[k].off]]
        \o <<[addr |-> IF r = <<>> THEN 0 ELSE Last(r).high, off |-> 1]>>
Index(section) == IndexOf(Sorted(Ranges(section)))
=============================================================================
