----------------------------- MODULE MCSymbols -----------------------------
(* Executables for model checking Symbols: a plain one, every small line     *)
(* program in it, and variations of one thing at a time.                    *)
EXTENDS Symbols, TLC

I(op, arg) == [op |-> op, sub |-> 0, arg |-> arg]
X(sub, arg) == [op |-> 0, sub |-> sub, arg |-> arg]
SetAddress(a) == X(ExtendedOps.set_address, a)
End == X(ExtendedOps.end_sequence, 0)
Row(dLine, dAddr) == I(13 + (dLine + 1) + 4 * dAddr, 0)
Copy == I(StandardOps.copy, 0)
SetFile(n) == I(StandardOps.set_file, Uleb(n))
AdvancePC(n) == I(StandardOps.advance_pc, Uleb(n))
AdvanceLine(n) == I(StandardOps.advance_line, Sleb(n))
Fixed(n) == I(StandardOps.fixed_advance_pc, n)
ConstAdd == I(StandardOps.const_add_pc, 0)

Sequence(a, body, len) == <<SetAddress(a)>> \o body \o <<AdvancePC(len), End>>

Home(k) == <<"", "home", IF k = 1 THEN "a" ELSE "b">>
Files == <<[name |-> <<"x.c">>, dir |-> 0], [name |-> <<"..", "y.h">>, dir |-> 1],
           [name |-> <<"", "usr", ".", "z.h">>, dir |-> 0]>>
Packet(k, version, prog) ==
    [version |-> version, minInsn |-> 1, lineBase |-> -1, lineRange |-> 4, opcodeBase |-> 13,
     dirs |-> <<<<"inc">>>>, files |-> Files, home |-> Home(k), prog |-> prog]

Attrs(form) == <<[name |-> "producer", form |-> form], [name |-> "stmt_list", form |-> "data4"],
                 [name |-> "comp_dir", form |-> "string"]>>
Abbrevs == <<[number |-> 1, attrs |-> Attrs("strp")], [number |-> 2, attrs |-> Attrs("exprloc")],
             [number |-> 0, attrs |-> <<>>]>>
Unit(k, version, code) ==
    [version |-> version, addrSize |-> 8, abbrev |-> 1, code |-> code,
     cells |-> <<[size |-> 4, val |-> <<"cc">>], [size |-> 4, val |-> k - 1],
                 [size |-> 8, val |-> Home(k)]>>]

Sec(type, name, addr, size) == [type |-> type, name |-> name, addr |-> addr, size |-> size]
Sections64 == <<Sec("progbits", ".text", 4, 8), Sec("progbits", ".rodata", 16, 2),
                Sec("nobits", ".bss", 20, 4), Sec("progbits", ".debug_line", 0, 4),
                Sec("symtab", ".symtab", 0, 4), Sec("strtab", ".strtab", 0, 4)>>

Sym(name, value, size, type) ==
    [name |-> name, value |-> value, size |-> size, type |-> type, mapping |-> FALSE]
Syms == <<Sym(3, 8, 0, "func"), Sym(1, 4, 3, "func"), Sym(2, 10, 2, "object"),
          Sym(4, 4, 2, "notype"), [Sym(5, 7, 0, "func") EXCEPT !.mapping = TRUE]>>

Base == [magic |-> "elf", class |-> 2, order |-> "same", phnum |-> 1, sections |-> Sections64,
         symbols |-> Syms, lines |-> <<>>, info |-> <<>>, abbrevs |-> Abbrevs, hasStr |-> TRUE]

\* Two units, the first with the program under test.
Program(body) ==
    [Base EXCEPT !.lines = <<Packet(1, 2, Sequence(4, body, 2)),
                             Packet(2, 2, Sequence(10, <<Row(1, 0)>>, 2))>>,
                 !.info = <<Unit(1, 2, 1), Unit(2, 2, 1)>>]

Plain == Program(<<Row(0, 0), Row(1, 1), SetFile(2), Row(2, 1)>>)

Alphabet == <<Row(1, 0), Row(2, 2), SetFile(2), Copy,
              AdvancePC(1), AdvanceLine(200), AdvanceLine(-1), Fixed(1)>>

Variations ==
    <<Plain,
      [Plain EXCEPT !.order = "other"],
      [Plain EXCEPT !.class = 1],
      [Plain EXCEPT !.class = 0],
      [Plain EXCEPT !.magic = "other"],
      [Plain EXCEPT !.phnum = 0],
      [Plain EXCEPT !.sections = <<>>],
      [Plain EXCEPT !.sections = SubSeq(@, 1, 4)],
      [Plain EXCEPT !.sections = SubSeq(@, 3, 3) \o SubSeq(@, 5, 6)],
      [Plain EXCEPT !.hasStr = FALSE],
      [Plain EXCEPT !.abbrevs = SubSeq(@, 1, 2) \o SubSeq(@, 1, 1)],
      [Plain EXCEPT !.info = <<Unit(1, 5, 1), Unit(2, 2, 1)>>],
      [Plain EXCEPT !.info = <<Unit(1, 2, 7), Unit(2, 2, 1)>>],
      [Plain EXCEPT !.info = <<Unit(1, 2, 2), Unit(2, 2, 2)>>],
      [Plain EXCEPT !.info = <<>>],
      [Plain EXCEPT !.lines = <<Packet(1, 3, @[1].prog), @[2]>>],
      [Plain EXCEPT !.lines = <<Packet(1, 3, @[1].prog), Packet(2, 3, @[2].prog)>>],
      [Plain EXCEPT !.lines = <<Packet(1, 4, @[1].prog)>>, !.info = SubSeq(@, 1, 1)],
      [Plain EXCEPT !.lines = <<Packet(1, 2, Sequence(10, <<Row(1, 0)>>, 2)),
                                Packet(2, 2, Sequence(4, <<Row(1, 0), Row(1, 3)>>, 2))>>],
      [Plain EXCEPT !.lines = <<Packet(1, 2, Sequence(4, <<Row(1, 0)>>, 2)
                                             \o Sequence(8, <<Row(5, 1)>>, 2))>>,
                    !.info = SubSeq(@, 1, 1)],
      [Plain EXCEPT !.lines = <<Packet(1, 2, Sequence(8, <<Row(1, 0)>>, 2)
                                             \o Sequence(4, <<Row(5, 1)>>, 2))>>,
                    !.info = SubSeq(@, 1, 1)],
      [Plain EXCEPT !.lines[1].files[1].dir = CharMax + 1,
                    !.lines[1].dirs = [n \in 1 .. CharMax + 1 |-> <<"inc">>]],
      [Plain EXCEPT !.lines[1].prog = <<>>],
      [Plain EXCEPT !.symbols = <<Sym(1, 4, 8, "func"), Sym(2, 6, 1, "object"), Sym(3, 7, 0, "func"),
                                  Sym(2, 9, 0, "func"), Sym(6, 10, 0, "func"), Sym(7, 11, 0, "func"),
                                  Sym(8, 11, 0, "func")>>]>>

\* Every program of two instructions, alone and behind a row, and behind a row
\* every one of three that move the address or the line.
Movers == <<Row(1, 0), Copy, AdvancePC(1), AdvanceLine(200), Fixed(1), SetAddress(7)>>

MCImages ==
    LET n == Len(Alphabet)
        m == Len(Movers)
        pair == [k \in 1 .. n * n |-> <<Alphabet[((k - 1) \div n) + 1], Alphabet[((k - 1) % n) + 1]>>]
        triple == [k \in 1 .. m * m * m |-> <<Movers[((k - 1) \div (m * m)) + 1],
                                              Movers[(((k - 1) \div m) % m) + 1],
                                              Movers[((k - 1) % m) + 1]>>]
        behind == pair \o triple
    IN  Variations \o [k \in DOMAIN pair |-> Program(pair[k])]
                   \o [k \in DOMAIN behind |-> Program(<<Row(0, 0)>> \o behind[k])]
MCRebuilds == {1, 3}
MCAddresses == 3 .. 11
MCNames == {0, 2, 3}
=============================================================================
