----------------------------- MODULE MCConsole -----------------------------
(* A user of few keys: letters, a blank, a bang and a digit, a newline and a *)
(* rubout, and a special key of every kind of sequence.                     *)
EXTENDS Console

Key(c) == <<c>>
Bytes(rest) == <<ESC, Bracket>> \o rest
Letters == {Key(97), Key(NL), Key(DEL), Key(ESC), Key(NUL), Key(35)}
Specials == {Bytes(<<65>>), Bytes(<<51, Tilde>>), Bytes(<<50, 49, Tilde>>),
             Bytes(<<Bracket, 65>>), Bytes(<<84>>), Bytes(<<49, 49, Tilde>>)}
Lines == {<<97, NL>>, <<98, Blank, 99, NL>>, <<Bang, NL>>, <<Bang, Blank, 53, NL>>, <<Bang, 49, NL>>, <<Bang, 98, NL>>,
          <<120, NL>>, <<Slash, 97, Slash, 98, NL>>, <<108, 115, NL>>, <<Dot, Dot, Blank, 97, NL>>, Bytes(<<65>>)}
F10 == Bytes(<<50, 49, Tilde>>)

Word(text, val) == [text |-> text, val |-> val, hex |-> val, suffix |-> ""]
MCTop == 4096
MCStart == 64
MCSymbols == [main |-> 72, loop |-> 109, b1 |-> 200]
MCValid == 64 .. 255
MCInstLen == [a \in 0 .. 8191 |-> IF a % 3 = 0 THEN 2 ELSE 5]
MCArgs == {[first |-> Word("main", 0), op |-> "+", off |-> Word("12", 12)],
           [first |-> Word("80", 80), op |-> "-", off |-> Word("12", 12)],
           [first |-> Word("nosuch", 0), op |-> "+", off |-> Word("200", 200)],
           [NoArg EXCEPT !.first = Word("loop", 0)], [NoArg EXCEPT !.first = Word("b1", 1)]}
MCWords == {Word("7", 7), Word("x", 0), Word("hist", 0), [Word("1k", 1) EXCEPT !.suffix = "k"], Word("ff", 0), Word("80", 80)}
Num1(text, num, sep) == [text |-> text, num |-> num, sep |-> sep]
MCOpts == {MainOpts,
           [kind |-> "list", optional |-> TRUE,
            items |-> <<Opt("7", ","), Num1("80", 3, "|"), Opt("ff", "^")>>],
           [kind |-> "range", optional |-> FALSE, base |-> 0, min |-> 1, max |-> 7],
           [kind |-> "range", optional |-> TRUE, base |-> 16, min |-> 0, max |-> 2047]}

NoUser == [presses |-> {}, most |-> 0, calls |-> 0, early |-> FALSE, cmds |-> 0, args |-> {},
           counts |-> {}, words |-> {}, opts |-> {}]
MCUsers == {[NoUser EXCEPT !.calls = 3, !.early = TRUE],
            [NoUser EXCEPT !.presses = Letters \cup Specials, !.most = 3],
            [NoUser EXCEPT !.presses = {F10, Key(97), Key(DEL), Key(NL), Key(35)}, !.most = 6],
            [NoUser EXCEPT !.presses = {Bytes(<<49, 57, Tilde>>), Bytes(<<50, 48, Tilde>>), F10, <<120, NL>>},
                           !.most = 2, !.calls = 1, !.early = TRUE],
            [NoUser EXCEPT !.presses = Lines \cup {F10}, !.most = 5],
            [NoUser EXCEPT !.presses = {F10}, !.most = 1, !.cmds = 3, !.args = MCArgs,
                           !.counts = {Word("7", 7), Word("16", 16)}],
            [NoUser EXCEPT !.presses = {F10}, !.most = 1, !.cmds = 2, !.words = MCWords, !.opts = MCOpts]}
=============================================================================
