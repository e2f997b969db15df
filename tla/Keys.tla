-------------------------------- MODULE Keys --------------------------------
(***************************************************************************)
(* The keys of the terminal emulations, the decoder that puts a key        *)
(* together from the bytes of its escape sequence, and the table of the    *)
(* keys that have a function.  A key is the number its bytes make, without *)
(* the escape that introduces them.                                        *)
(***************************************************************************)
EXTENDS Sequences, SequencesExt, Bisect

NUL == 0
NL == 10
ESC == 27
Blank == 32
Bang == 33
Dot == 46
Slash == 47
Bracket == 91
Tilde == 126
DEL == 127

Num(bytes) == FoldLeft(LAMBDA n, b : 256 * n + b, 0, bytes)
Csi(rest) == Num(<<Bracket>> \o rest)
Vt(a, b) == Csi(<<48 + a, 48 + b, Tilde>>)
Vt1(a) == Csi(<<48 + a, Tilde>>)

VtF == <<Vt(1, 1), Vt(1, 2), Vt(1, 3), Vt(1, 4), Vt(1, 5), Vt(1, 7), Vt(1, 8), Vt(1, 9),
         Vt(2, 0), Vt(2, 1), Vt(2, 3), Vt(2, 4)>>
SansiF == [i \in 1..12 |-> Csi(<<76 + i>>)]           \* ESC [ M ... ESC [ X
LinuxF == [i \in 1..5 |-> Csi(<<Bracket, 64 + i>>)]   \* ESC [ [ A ... ESC [ [ E
KeyINS == Vt1(1)
KeyDEL == Vt1(4)
KeyEND == Vt1(5)
KeyPGDN == Vt1(6)
SansiHOME == Csi(<<72>>)
SansiEND == Csi(<<70>>)
SansiPGUP == Csi(<<73>>)
SansiPGDN == Csi(<<71>>)
KeyUP == Csi(<<65>>)
KeyLEFT == Csi(<<68>>)
Edited(i) == Num(<<51, 117, 0, i>>)                    \* made up for ` ~ @ # $
Punctuation == <<96, 126, 64, 35, 36>>

-----------------------------------------------------------------------------
\* The decoder keeps the number of bytes since the last key, the bytes since
\* the escape, and whether they began like a function key of the Linux console.
Idle == [index |-> 0, kLinux |-> FALSE, inCode |-> <<>>]

\* Mutant of ProcessSeq: the fourth byte does not end the Linux sequence.
ProcessSeqStays(d, inChar) ==
    LET index == d.index + 1
        inCode == IF inChar = ESC THEN <<>> ELSE Append(d.inCode, inChar)
        third == index = 3 /\ inChar = Bracket
        c == IF third THEN NUL ELSE IF index = 4 /\ d.kLinux THEN Tilde ELSE inChar
        key == CASE index = 1 /\ c # ESC -> c
                 [] index = 2 /\ c # Bracket -> c
                 [] index = 3 /\ c > 64 -> Num(inCode)
                 [] index \in {4, 5} /\ c = Tilde -> Num(inCode)
                 [] OTHER -> 0
        kLinux == third \/ d.kLinux
    IN  [key |-> key,
         dec |-> IF key # 0 THEN [Idle EXCEPT !.kLinux = kLinux]
                 ELSE [index |-> index, kLinux |-> kLinux, inCode |-> inCode]]

\* One byte: the key it completes, or 0, and the decoder after it.
ProcessSeq(d, inChar) ==
    LET index == d.index + 1
        inCode == IF inChar = ESC THEN <<>> ELSE Append(d.inCode, inChar)
        third == index = 3 /\ inChar = Bracket
        fourth == index = 4 /\ d.kLinux
        c == IF third THEN NUL ELSE IF fourth THEN Tilde ELSE inChar
        kLinux == third \/ (d.kLinux /\ ~fourth)
        key == CASE index = 1 /\ c # ESC -> c
                 [] index = 2 /\ c # Bracket -> c
                 [] index = 3 /\ c > 64 -> Num(inCode)
                 [] index \in {4, 5} /\ c = Tilde -> Num(inCode)
                 [] OTHER -> 0
    IN  [key |-> key,
         dec |-> IF key # 0 THEN [Idle EXCEPT !.kLinux = kLinux]
                 ELSE IF index > 5 THEN Idle
                 ELSE [index |-> index, kLinux |-> kLinux, inCode |-> inCode]]

-----------------------------------------------------------------------------
\* The keys of the action table, in its order, and how the emulations' codes
\* for one key are brought together.
SpActionTable == VtF \o <<KeyINS, KeyDEL, KeyEND, KeyPGDN>> \o [i \in 1..5 |-> Edited(i)]

Unified(key) ==
    CASE \E i \in 1..12 : key \in {VtF[i], SansiF[i]} ->
             VtF[CHOOSE i \in 1..12 : key \in {VtF[i], SansiF[i]}]
      [] \E i \in 1..5 : key = LinuxF[i] -> VtF[CHOOSE i \in 1..5 : key = LinuxF[i]]
      [] key = SansiHOME -> KeyINS
      [] key = SansiEND  -> KeyDEL
      [] key = SansiPGUP -> KeyEND
      [] key = SansiPGDN -> KeyPGDN
      [] \E i \in 1..5 : key = Punctuation[i] -> Edited(CHOOSE i \in 1..5 : key = Punctuation[i])
      [] OTHER -> key

OrderOf(table) == SortSeq([i \in DOMAIN table |-> i], LAMBDA i, j : table[i] < table[j])
ActSort == OrderOf(SpActionTable)

ItemAt(order, x) == IF x < 0 THEN 0 ELSE order[x + 1]
ItemIn(table, order, key) ==
    ItemAt(order, Hit(Len(order), LAMBDA x : key - table[order[x + 1]]))
ActionItem(key) == ItemIn(SpActionTable, ActSort, key)

\* The keys the library gives a function when it starts; the others keep one
\* that returns nothing, so that what its caller reads is anything.
Registered == {VtF[6], VtF[8], VtF[9], VtF[10]}
RegCmdKey(acts, key) == (acts \cup {ActionItem(key)}) \ {0}
Acts == FoldSet(LAMBDA k, a : RegCmdKey(a, k), {}, Registered)

IsSpecial(key) == key >= 256 \/ \E i \in 1..5 : key = Punctuation[i]

\* What may happen to a special key: it is dealt with, or it is returned, as
\* the number it was brought to.
Acted(k, i) ==
    CASE i = 0        -> {[processed |-> FALSE, key |-> k]}
      [] i \in Acts   -> {[processed |-> TRUE, key |-> k]}
      [] OTHER        -> {[processed |-> b, key |-> k] : b \in BOOLEAN}
CheckSpecialKey(key) == UNION {Acted(k, ActionItem(k)) : k \in {Unified(key)}}
=============================================================================
