----------------------------- MODULE DbgOutput -----------------------------
(***************************************************************************)
(* The library's own formatted output, and the hex dump.                   *)
(***************************************************************************)
EXTENDS Integers, Sequences

LvlNon == 0
LvlDbg == 1
LvlAll == 2

CrnlMask == 1
HeadMask == 2
TimeMask == 4
Has(type, mask) == (type \div mask) % 2 = 1

\* The functions, the stream they write to and what they put around the text.
Printers == [dbgprint    |-> [to |-> "stdout", type |-> TimeMask + HeadMask + CrnlMask],
             tprint0n    |-> [to |-> "stdout", type |-> TimeMask + HeadMask],
             tprint1n    |-> [to |-> "stdout", type |-> TimeMask + HeadMask + CrnlMask],
             rprint0n    |-> [to |-> "stdout", type |-> 0],
             rprint1n    |-> [to |-> "stdout", type |-> CrnlMask],
             eprint0n    |-> [to |-> "stderr", type |-> 0],
             eprint1n    |-> [to |-> "stderr", type |-> CrnlMask],
             ext_vprintf |-> [to |-> "stdout", type |-> TimeMask + HeadMask]]

Colors == <<"k", "r", "g", "y", "b", "p", "c", "a">>
Capitals == <<"K", "R", "G", "Y", "B", "P", "C", "A">>
ColorIndex(c) ==
    IF \E i \in 1..8 : Colors[i] = c THEN CHOOSE i \in 1..8 : Colors[i] = c
    ELSE IF \E i \in 1..8 : Capitals[i] = c THEN 8 + CHOOSE i \in 1..8 : Capitals[i] = c ELSE 0

\* The thread's own name when it is registered with one, its number when it
\* is registered without, and "t.noname" for a thread that is not registered.
NameOf(listed, name) ==
    IF ~listed THEN "t.noname" ELSE IF name = "" THEN "t.number" ELSE name

\* A format is "!..." (kept silent), "^c^..." or plain.  What goes out in one
\* call of the C library's fprintf, under the print lock; an unknown colour
\* is left in the text.
DbgVsprint(f, stat, fmt, listed, name) ==
    IF stat = LvlNon \/ fmt = "!" THEN <<>>
    ELSE LET p == Printers[f]
             i == IF fmt = "plain" THEN 0 ELSE ColorIndex(fmt)
         IN  <<[to |-> p.to, time |-> Has(p.type, TimeMask),
                name |-> IF Has(p.type, HeadMask) THEN NameOf(listed, name) ELSE "",
                color |-> i, reset |-> i > 0, nl |-> Has(p.type, CrnlMask)]>>

\* The rows of a hex dump of size bytes: in which order the bytes of a row
\* are printed.  Four bytes are printed as one little-endian word; which of
\* the four positions are printed depends on the size, which byte is printed
\* there does not.
HexRow(row, size) ==
    LET words == [w \in 0..3 |->
            LET i == 16 * row + 4 * w
                at == SelectSeq(<<0, 1, 2, 3>>, LAMBDA k : i + k < size)
            IN  [k \in 1..Len(at) |-> i + 3 - at[k]]]
    IN  words[0] \o words[1] \o words[2] \o words[3]
AsciiRow(row, size) ==
    LET n == IF size - 16 * row < 16 THEN size - 16 * row ELSE 16
    IN  [k \in 1..n |-> 16 * row + k - 1]

GenHexDump(size, enabled) ==
    IF ~enabled \/ size = 0 THEN <<>>
    ELSE [r \in 1..(size + 15) \div 16 |->
            [hex |-> HexRow(r - 1, size), ascii |-> AsciiRow(r - 1, size)]]
=============================================================================
