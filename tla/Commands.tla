----------------------------- MODULE Commands -----------------------------
(***************************************************************************)
(* The arguments of the shell's commands: numbers, an address with an      *)
(* offset, and the options a word is looked up in.  A word is a record of  *)
(* its text and what the C library's strtoull reads at its beginning, in   *)
(* base 0 and in base 16.  Behind them the commands that keep something    *)
(* from one use to the next: the memory dump and the disassembly, which    *)
(* continue where they ended, and how their first argument is made an      *)
(* address.                                                                *)
(***************************************************************************)
EXTENDS DbgOutput, Functions

CONSTANTS Top        \* one more than the greatest address

NoWord == [text |-> "", val |-> 0, hex |-> 0, suffix |-> ""]
Shift == [r |-> 13, k |-> 10, m |-> 20, g |-> 30]

Strtoul2(w, base) ==
    LET n == IF base = 16 THEN w.hex ELSE w.val IN
    IF w.suffix \in DOMAIN Shift THEN (n * ((2 ^ Shift[w.suffix]) % Top)) % Top ELSE n

\* An argument is a word and, behind a sign, another.  What is cut off at a
\* sign, and whether anything was.
NoArg == [first |-> NoWord, op |-> "", off |-> NoWord]
Strtok2(arg, del) == [cut |-> arg.op = del, ptr |-> IF arg.op = del THEN arg.off ELSE NoWord]

\* Options: each with its text, the number it begins with or -1, and what
\* separates it from the next; or a range.  In brackets they may be left out.
Found(rc, out) == [rc |-> rc, out |-> out]

Alternatives(word, items) ==
    LET Number[i \in DOMAIN items] ==
            IF items[i].num >= 0 THEN items[i].num
            ELSE IF i = 1 THEN 0
            ELSE IF items[i - 1].sep = "," THEN Number[i - 1] ELSE Number[i - 1] + 1
        n == Len(items)
        After(i) == i = n /\ items[i].text = ""      \* behind the last separator
        Ends(i) == items[i].text = word \/ i = n
        stop == CHOOSE i \in 1..n : Ends(i) /\ \A j \in 1 .. i - 1 : ~Ends(j)
    IN  IF items[stop].text = word \/ After(stop) THEN Found(0, Number[stop]) ELSE Found(-1, -1)

Ranged(word, opts) ==
    LET n == Strtoul2(word, opts.base) IN
    IF n < opts.min \/ n > opts.max THEN Found(-1, -1) ELSE Found(0, n)

Str2IndexInOpts(given, word, opts) ==
    CASE ~given \/ (opts.kind = "list" /\ word = NoWord) -> Found(IF opts.optional THEN 0 ELSE -1, -1)
      [] given /\ opts.kind = "range"                    -> Ranged(word, opts)
      [] OTHER                                           -> Alternatives(word.text, opts.items)

\* The commands the menu deals with itself.
Opt(text, sep) == [text |-> text, num |-> -1, sep |-> sep]
MainOpts ==
    [kind |-> "list", optional |-> FALSE,
     items |-> <<Opt("help", ","), Opt("?", ","), Opt("ls", "|"), Opt("exit", ","), Opt("x", ","),
                 Opt("", ","), Opt("ff", "|"), Opt("hist", "|"), Opt("verbose", ","),
                 Opt("verb", "")>>]
CmdType(word) == Str2IndexInOpts(TRUE, word, MainOpts).out

---------------------------------------------------------------------------
CONSTANTS Start,      \* __START, the library's first instruction
          Symbols,    \* the symbols: from names to addresses
          ValidAddr,  \* what isValidAddr and isValidPc say of an address
          InstLen     \* the length of the instruction at an address, or 0 when
                      \* the disassembler does not open

VARIABLES mdAddr, mdSize,      \* where the next memory dump starts, and its size
          dsmaddr, dsmCount,   \* where the last three listings ended
          view,                \* what the last command showed
          was                  \* History: what the one before it showed
cmdVars == <<mdAddr, mdSize, dsmaddr, dsmCount, view, was>>

Nothing == [cmd |-> "", arg |-> NoArg, from |-> 0, to |-> 0, title |-> "", off |-> 0, opts |-> <<>>,
            found |-> Found(-1, -1)]

CommandsInit ==
    /\ mdAddr = Start /\ mdSize = 128
    /\ dsmaddr = <<Start, 0, 0>> /\ dsmCount = 9
    /\ view = Nothing /\ was = Nothing

FindSymByName(text) == IF text \in DOMAIN Symbols THEN Symbols[text] ELSE 0

GetAddress(arg) ==
    LET plus  == Strtok2(arg, "+")
        minus == Strtok2(arg, "-")
        n     == Strtoul2(arg.first, 0)
        base  == IF n = 0 THEN FindSymByName(arg.first.text) ELSE n
        addr  == IF plus.cut THEN (base + Strtoul2(plus.ptr, 0)) % Top
                 ELSE (base - Strtoul2(minus.ptr, 0)) % Top
    IN  IF addr \in ValidAddr THEN addr ELSE Start

\* The title of a dump and of a listing: the symbol below the address.
GetSymbolName(addr, defName) ==
    LET below == {s \in DOMAIN Symbols : Symbols[s] <= addr}
        s == CHOOSE x \in below : \A y \in below : Symbols[y] <= Symbols[x]
    IN  IF below = {} THEN [title |-> defName, off |-> 0]
        ELSE [title |-> s, off |-> addr - Symbols[s]]

Shows(cmd, arg, from, to, title) ==
    /\ was' = view
    /\ view' = [Nothing EXCEPT !.cmd = cmd, !.arg = arg, !.from = from, !.to = to,
                               !.title = title.title, !.off = title.off]

Aligned(addr, n) == addr - (addr % n)

\* md [address [size]]
MemoryDump(arg, size) ==
    LET addr == Aligned(IF arg = NoArg THEN mdAddr ELSE GetAddress(arg), 8)
        n    == IF size = NoWord THEN mdSize ELSE Strtoul2(size, 0)
    IN  /\ arg = NoArg => size = NoWord
        /\ mdSize' = n
        /\ mdAddr' = addr + n
        /\ Shows("md", arg, addr, addr + n, GetSymbolName(addr, "MemoryDump"))
        /\ UNCHANGED <<dsmaddr, dsmCount>>

\* Mutant of PutAddr: the places are moved from the wrong end.
PutAddrTwice(addr) == dsmaddr' = <<addr, addr, addr>>
PutAddr(addr) == dsmaddr' = <<addr, dsmaddr[1], dsmaddr[2]>>

\* dsm [address|.. [count]]
Again == [NoArg EXCEPT !.first.text = ".."]
Disassemble(arg, count) ==
    LET addr == Aligned(CASE arg = NoArg -> dsmaddr[1]
                          [] arg = Again -> dsmaddr[2]
                          [] OTHER       -> GetAddress(arg), 4)
        n    == IF count = NoWord THEN dsmCount ELSE Strtoul2(count, 0)
        end  == FoldFunctionOnSet(LAMBDA i, a : a + InstLen[a % Top], addr, [i \in 1..n |-> i], 1..n)
    IN  /\ arg = NoArg => count = NoWord
        /\ dsmCount' = n
        /\ PutAddr(end)
        /\ Shows("dsm", arg, addr, end, GetSymbolName(addr, "None"))
        /\ UNCHANGED <<mdAddr, mdSize>>

\* A word looked up in the options of a command (DMT_INDX, and the menu's own).
Choose(given, word, opts) ==
    /\ was' = view
    /\ view' = [Nothing EXCEPT !.cmd = "opts", !.arg = [NoArg EXCEPT !.first = word],
                               !.found = Str2IndexInOpts(given, word, opts), !.opts = opts]
    /\ UNCHANGED <<mdAddr, mdSize, dsmaddr, dsmCount>>
=============================================================================
