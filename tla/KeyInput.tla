------------------------------ MODULE KeyInput ------------------------------
(***************************************************************************)
(* The keyboard thread reads its terminal: xlibc_getc puts a key together  *)
(* and runs the function of a special key, xlibc_gets builds a line on top *)
(* of it.  Every read is one byte; what the terminal delivers at a time is *)
(* a choice.                                                               *)
(***************************************************************************)
EXTENDS Keys

CONSTANTS Users,      \* what a user may press (the bytes one press sends), and bounds:
                      \* how many presses, how many calls the application makes,
                      \* and whether keys are pressed during the start-up
          LineMax     \* the n of xlibc_gets

VARIABLES inbuf,   \* bytes in the buffer of stdin
          owed,    \* bytes the terminal holds and stdin has not read
          user, pressed,
          dec,     \* the decoder
          pc,      \* "key", "seq", "raw", "line", "repeat" or "left"
          enabled, \* _debugEnable
          menu,    \* whether the menu is on, or keys are only shown
          buf,     \* what xlibc_gets has built
          cmdStr,  \* the caller's buffer
          \* History: the last key, the bytes that made it, those since, the
          \* bytes of this line, and whether a NUL has left the decoder ahead.
          key, made, cur, fed, again, odd, dirty, muddled,
          acted    \* the key whose function the last step has run, or 0
inVars == <<inbuf, owed, user, pressed, dec, pc, enabled, menu, buf, cmdStr, key, made, cur, fed, again, odd,
            dirty, muddled, acted>>

InputInit ==
    /\ inbuf = <<>> /\ owed = <<>> /\ user \in Users /\ pressed = 0
    /\ dec = Idle
    /\ pc = "key" /\ enabled = TRUE /\ menu = FALSE
    /\ buf = <<>> /\ cmdStr = <<>>
    /\ key = NL /\ made = <<NL>> /\ cur = <<>> /\ fed = <<>>
    /\ again = FALSE /\ odd = FALSE /\ dirty = FALSE /\ muddled = FALSE /\ acted = 0

\* The terminal has the rest of a sequence that came in two parts, one key,
\* the first byte of one, or two keys at once.
Arrivals ==
    IF owed # <<>> THEN {[now |-> owed, later |-> <<>>, n |-> 0]}
    ELSE {[now |-> p, later |-> <<>>, n |-> 1] : p \in user.presses}
         \cup {[now |-> <<ESC>>, later |-> Tail(p), n |-> 1]
                 : p \in {q \in user.presses : q[1] = ESC /\ Len(q) > 1}}
         \cup {[now |-> p \o q, later |-> <<>>, n |-> 2] : p, q \in user.presses}

Refill ==
    /\ inbuf = <<>> /\ pc \in {"key", "seq", "raw"}
    /\ \E a \in Arrivals :
         /\ pressed + a.n <= user.most
         /\ inbuf' = a.now /\ owed' = a.later /\ pressed' = pressed + a.n
    /\ acted' = 0
    /\ UNCHANGED <<user, dec, pc, enabled, menu, buf, cmdStr, key, made, cur, fed, again, odd, dirty, muddled>>

-----------------------------------------------------------------------------
\* The line is a C string, which ends at a NUL, without its newline.
CString(s) == IF Contains(s, NUL) THEN SubSeq(s, 1, SelectInSeq(s, LAMBDA b : b = NUL) - 1) ELSE s
Line(s) == LET c == CString(s) IN IF c # <<>> /\ Last(c) = NL THEN Front(c) ELSE c

\* The idle shell shows the key it is given and asks for the next.
ShowKey(rest) ==
    /\ ~menu
    /\ inbuf' = rest /\ pc' = "key" /\ fed' = <<>>
    /\ UNCHANGED <<buf, cmdStr, again, odd>>

\* An arrow ends xlibc_gets with the caller's buffer as it was.
KeepLine(k, rest) ==
    /\ menu /\ k \in KeyUP .. KeyLEFT
    /\ inbuf' = rest /\ pc' = "line" /\ odd' = TRUE
    /\ UNCHANGED <<buf, cmdStr, fed, again>>

EmptyLine(k, rest) ==
    /\ menu /\ k = NL
    /\ inbuf' = rest /\ pc' = "line" /\ buf' = <<>> /\ cmdStr' = Line(<<>>)
    /\ fed' = made' /\ odd' = (made' # <<k>>)
    /\ UNCHANGED again

\* Any other key is put back, as one byte, to be read with the rest.
PutBack(k, rest) ==
    /\ menu /\ k # NL /\ k \notin KeyUP .. KeyLEFT
    /\ inbuf' = <<k % 256>> \o rest /\ pc' = "raw" /\ buf' = <<>>
    /\ fed' = made' /\ again' = TRUE /\ odd' = (made' # <<k>>)
    /\ UNCHANGED cmdStr

Take(k, rest) ==
    /\ \/ ShowKey(rest) \/ KeepLine(k, rest) \/ EmptyLine(k, rest) \/ PutBack(k, rest)
    /\ acted' = 0
    /\ UNCHANGED <<enabled, menu>>

\* A special key's function has dealt with it: F9 disables the menu and
\* enables it, F10 brings it up.  F10 inside the menu is not followed here.
Handled(k, rest) ==
    /\ inbuf' = rest /\ fed' = <<>>
    /\ pc' = IF menu /\ k = VtF[10] THEN "left" ELSE "key"
    /\ enabled' = (enabled # (k = VtF[9] /\ ~menu))
    /\ menu' = (menu \/ (k = VtF[10] /\ enabled))
    /\ acted' = k
    /\ UNCHANGED <<buf, cmdStr, again, odd>>

GotKey(k, rest) ==
    /\ key' = k
    /\ cur' = <<>>
    /\ muddled' = dirty
    /\ \/ ~IsSpecial(k) /\ Take(k, rest)
       \/ IsSpecial(k) /\ \E r \in CheckSpecialKey(k) :
             IF r.processed THEN Handled(r.key, rest) ELSE Take(r.key, rest)

\* An escape with nothing behind it in the buffer is a key of its own and does
\* not reach the decoder.
Alone == pc = "key" /\ inbuf = <<ESC>>
LoneEscape ==
    /\ Alone
    /\ made' = <<ESC>>
    /\ GotKey(ESC, <<>>)
    /\ UNCHANGED <<owed, user, pressed, dec, dirty>>

\* Any other byte goes through the decoder.  Inside a sequence the reader
\* goes on until there is a key; outside one, a NUL is returned as no key.
Decode ==
    /\ pc \in {"key", "seq"} /\ inbuf # <<>> /\ ~Alone
    /\ LET c == Head(inbuf)
           rest == Tail(inbuf)
           r == ProcessSeq(dec, c)
           gather == r.key = 0 /\ (pc = "seq" \/ c = ESC)
       IN  /\ dec' = r.dec
           /\ dirty' = (r.key = 0 /\ (dirty \/ c = NUL))
           /\ IF gather
                THEN /\ pc' = "seq" /\ inbuf' = rest
                     /\ acted' = 0
                     /\ cur' = Append(cur, c)
                     /\ UNCHANGED <<enabled, menu, buf, cmdStr, key, made, fed, again, odd, muddled>>
                ELSE /\ made' = Append(cur, c)
                     /\ GotKey(r.key, rest)
    /\ UNCHANGED <<owed, user, pressed>>

\* xlibc_gets reads the rest of the line itself.
Rubbed(s, c) ==
    IF c = DEL THEN (IF s = <<>> THEN <<>> ELSE Front(s)) ELSE Append(s, c)

GetRaw ==
    /\ pc = "raw" /\ inbuf # <<>>
    /\ LET c == Head(inbuf)
           b == Rubbed(buf, c)
           full == c = NL \/ Len(b) >= LineMax - 1
       IN  /\ buf' = b
           /\ fed' = IF again THEN fed ELSE Append(fed, c)
           /\ pc' = IF full THEN "line" ELSE "raw"
           /\ cmdStr' = IF full THEN Line(b) ELSE cmdStr
    /\ inbuf' = Tail(inbuf)
    /\ again' = FALSE /\ acted' = 0
    /\ UNCHANGED <<owed, user, pressed, dec, enabled, menu, key, made, cur, odd, dirty, muddled>>
=============================================================================
