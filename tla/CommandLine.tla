---------------------------- MODULE CommandLine ----------------------------
(***************************************************************************)
(* What the menu makes of a line before it looks a command up: the words,  *)
(* the slash that stands for a level, the history and its recall, and the  *)
(* repetition of a recalled command until the escape key.                  *)
(***************************************************************************)
EXTENDS KeyInput, Commands

CONSTANTS NumHistory,  \* NUM_HISTORY: entry 0 is the line being read
          MaxArgs      \* the limit given to str2argv

VARIABLES hist, currHist, lastHist,
          words,     \* argv of the command that runs
          level,     \* "root" or "here": where its lookup starts
          \* History: the raw lines recorded, and how the command was chosen.
          log, from
lineVars == <<hist, currHist, lastHist, words, level, log, from>>

Entries == 1 .. NumHistory - 1

LineInit ==
    /\ hist = [i \in 0 .. NumHistory - 1 |-> <<>>]
    /\ currHist = NumHistory - 1 /\ lastHist = NumHistory - 1
    /\ words = <<>> /\ level = "here"
    /\ log = <<>> /\ from = <<>>

IsBlank(b) == b = Blank

\* str2argv: words between blanks, one fewer than the limit.
Str2argv(s) ==
    LET starts == {i \in DOMAIN s : ~IsBlank(s[i]) /\ (i = 1 \/ IsBlank(s[i - 1]))}
        Stop(i) == CHOOSE j \in i .. Len(s) :
                     /\ \A k \in i .. j : ~IsBlank(s[k])
                     /\ j = Len(s) \/ IsBlank(s[j + 1])
        all == SetToSortSeq(starts, <)
    IN  [n \in 1 .. (IF Len(all) < MaxArgs THEN Len(all) ELSE MaxArgs - 1) |->
            SubSeq(s, all[n], Stop(all[n]))]

\* A slash before the first word sends the lookup to the root, and every
\* slash inside the word separates levels.
FirstWord(s) ==
    LET at == SelectInSeq(s, LAMBDA b : ~IsBlank(b)) IN
    IF at = 0 THEN {}
    ELSE {i \in at .. Len(s) : \A j \in at .. i : ~IsBlank(s[j])}
FromRoot(s) ==
    LET at == SelectInSeq(s, LAMBDA b : ~IsBlank(b)) IN at # 0 /\ s[at] = Slash
Levels(s) ==
    [i \in DOMAIN s |-> IF i \in FirstWord(s) /\ s[i] = Slash THEN Blank ELSE s[i]]

Digit(w) == Len(w) >= 2 /\ w[2] \in 49 .. 47 + NumHistory
Positive(w) == w[1] \in 49 .. 57

\* The search goes back from the entry recalled last, around the ring.
Back(n) == [k \in 1 .. NumHistory - 1 |-> ((n - k + NumHistory - 1) % (NumHistory - 1)) + 1]
Search(prefix) ==
    LET at == SelectInSeq(Back(lastHist), LAMBDA i : IsPrefix(prefix, hist[i])) IN
    IF at = 0 THEN lastHist ELSE Back(lastHist)[at]

\* "!3" is entry 3, "!ab" the last line that begins with ab, "!" the entry
\* recalled last, which a search that finds nothing leaves alone.
Recalled(w) ==
    IF Digit(w) THEN w[2] - 48 ELSE IF Len(w) > 1 THEN Search(Tail(w)) ELSE lastHist

\* Leading words ".." only say which menu the command is looked up in
\* (MenuShell has the menus).
Up == <<Dot, Dot>>
CommandOf(ws) ==
    LET at == SelectInSeq(ws, LAMBDA w : w # Up)
    IN  IF at = 0 THEN <<>> ELSE SubSeq(ws, at, Len(ws))

IsRecall(ws) == ws # <<>> /\ ws[1][1] = Bang

\* The caller's buffer is cut after its first word when it is made into words.
CutBuffer(s, ws) ==
    IF ws = <<>> THEN s
    ELSE LET at == SelectInSeq(s, LAMBDA b : ~IsBlank(b))
         IN  SubSeq(s, 1, at + Len(ws[1]) - 1)

-----------------------------------------------------------------------------
\* Mutant of Record: the line goes behind the one recalled last.
RecordAfterLast(raw) ==
    IF \E i \in Entries : hist[i] = raw
      THEN /\ hist' = [hist EXCEPT ![0] = raw]
           /\ UNCHANGED <<currHist, lastHist, log>>
      ELSE LET n == (lastHist % (NumHistory - 1)) + 1 IN
           /\ hist' = [hist EXCEPT ![0] = raw, ![n] = raw]
           /\ currHist' = n /\ lastHist' = n
           /\ log' = Append(log, raw)

Record(raw) ==
    IF \E i \in Entries : hist[i] = raw
      THEN /\ hist' = [hist EXCEPT ![0] = raw]
           /\ UNCHANGED <<currHist, lastHist, log>>
      ELSE LET n == (currHist % (NumHistory - 1)) + 1 IN
           /\ hist' = [hist EXCEPT ![0] = raw, ![n] = raw]
           /\ currHist' = n /\ lastHist' = n
           /\ log' = Append(log, raw)

\* What kind of command the menu takes a word for: 0 asks for help, 1 leaves the
\* menu, 2 and 3 are dealt with at once; none of them is recorded, nor is a line
\* without a command.  Any other is looked up.
Spelling == [x |-> <<120>>, ff |-> <<102, 102>>, hist |-> <<104, 105, 115, 116>>, ls |-> <<108, 115>>,
             verb |-> <<118, 101, 114, 98>>, help |-> <<104, 101, 108, 112>>, exit |-> <<101, 120, 105, 116>>]
TextOf(w) ==
    CASE w = <<63>> -> "?"
      [] \E t \in DOMAIN Spelling : Spelling[t] = w -> CHOOSE t \in DOMAIN Spelling : Spelling[t] = w
      [] OTHER -> "other"
Type(ws) == CmdType([NoWord EXCEPT !.text = TextOf(ws[1])])
Leaves(ws) == ws # <<>> /\ Type(ws) = 1
IsLookedUp(ws) == ws # <<>> /\ Type(ws) \notin 0..3

\* A line typed.  It is remembered as typed unless it begins with "!"; only a
\* command that is looked up is recorded.
TypedLine ==
    LET all == Str2argv(Levels(cmdStr))
        ws == CommandOf(all)
        raw == cmdStr
    IN  /\ pc = "line" /\ ~IsRecall(ws)
        /\ cmdStr' = CutBuffer(Levels(cmdStr), all)
        /\ words' = ws /\ level' = (IF FromRoot(raw) THEN "root" ELSE "here")
        /\ from' = <<>>
        /\ pc' = "key"
        /\ menu' = ~Leaves(ws)
        /\ IF IsLookedUp(ws) THEN Record(raw)
           ELSE /\ hist' = [hist EXCEPT ![0] = raw]
                /\ UNCHANGED <<currHist, lastHist, log>>
        /\ UNCHANGED <<inbuf, owed, user, pressed, dec, enabled, buf, key, made, cur, fed, again, odd, dirty,
                       muddled>>
        /\ acted' = 0

\* A line recalled: the entry takes the line's place, and its words are made
\* as those of a typed one.  A second word of the recall asks for repetition.
RecallLine ==
    LET ws == CommandOf(Str2argv(Levels(cmdStr)))
        n == Recalled(ws[1])
        s == hist[n]
        all == Str2argv(Levels(s))
        rs == CommandOf(all)
    IN  /\ pc = "line" /\ IsRecall(ws)
        /\ lastHist' = n
        /\ hist' = IF cmdStr[1] = Bang THEN hist ELSE [hist EXCEPT ![0] = cmdStr]
        /\ cmdStr' = CutBuffer(Levels(s), all)
        /\ words' = rs /\ level' = (IF FromRoot(cmdStr) \/ FromRoot(s) THEN "root" ELSE "here")
        /\ from' = ws[1]
        /\ pc' = IF Len(ws) > 1 /\ Positive(ws[2]) /\ IsLookedUp(rs) THEN "repeat" ELSE "key"
        /\ menu' = ~Leaves(rs)
        /\ UNCHANGED <<inbuf, owed, user, pressed, dec, enabled, buf, key, made, cur, fed, again, odd, dirty,
                       muddled, currHist, log>>
        /\ acted' = 0

\* Between two runs the keyboard is polled.  The poll looks at the terminal
\* and the read at the buffer before it, where an escape typed ahead waits.
RunAgain ==
    /\ pc = "repeat"
    /\ \E a \in {b \in Arrivals : b.n <= 1} :
         LET all == inbuf \o a.now IN
         /\ pressed + a.n <= user.most
         /\ pressed' = pressed + a.n
         /\ inbuf' = Tail(all) /\ owed' = a.later
         /\ pc' = IF Head(all) = ESC THEN "key" ELSE "repeat"
    /\ acted' = 0
    /\ UNCHANGED <<user, dec, enabled, menu, buf, cmdStr, key, made, cur, fed, again, odd, dirty, muddled, hist,
                   currHist, lastHist, words, level, log, from>>
=============================================================================
