------------------------------ MODULE Console ------------------------------
(***************************************************************************)
(* The process with the library in it: the start-up, the application that  *)
(* prints and makes threads, and the user at the keyboard.  The keyboard   *)
(* thread reads once it has been made.  Its keys change the print level:   *)
(* F8 directly, F10 for as long as the menu is on.                         *)
(***************************************************************************)
EXTENDS HookTable, CommandLine

VARIABLES prntStat,   \* the level cmdDebugMain saves
          cmds        \* a bound: commands the user has left

vars == <<hookVars, inVars, lineVars, cmdVars, prntStat, cmds>>

Init ==
    /\ HookInit /\ InputInit /\ LineInit /\ CommandsInit
    /\ prntStat = LvlAll /\ calls = user.calls /\ cmds = user.cmds

NextLevel(n) == IF n = LvlNon THEN LvlAll ELSE n - 1

Level ==
    /\ stat' = CASE menu' /\ ~menu -> LvlDbg
                 [] menu /\ ~menu' -> prntStat
                 [] acted' = VtF[8] /\ ~menu -> NextLevel(stat)
                 [] OTHER -> stat
    /\ prntStat' = IF menu' /\ ~menu THEN stat ELSE prntStat
    /\ cout' = (stat' = LvlAll)
    /\ UNCHANGED <<step, service, table, order, saved, create, found, time, threads, unlisted,
                   last, calls>>

Application == HookNext /\ UNCHANGED <<inVars, lineVars, cmdVars, prntStat, cmds>>

Reading ==
    /\ Refill \/ LoneEscape \/ Decode \/ GetRaw
    /\ UNCHANGED lineVars

Keyboard ==
    /\ "keyboard" \in threads /\ (user.early \/ step = 9)
    /\ Reading \/ TypedLine \/ RecallLine \/ RunAgain
    /\ Level
    /\ UNCHANGED <<cmdVars, cmds>>

\* A command of the menu; the line it came with is not spelt out.
Command ==
    /\ menu /\ pc = "key" /\ inbuf = <<>> /\ cmds > 0
    /\ cmds' = cmds - 1
    /\ \/ \E a \in user.args \cup {NoArg}, w \in user.counts \cup {NoWord} : MemoryDump(a, w)
       \/ \E a \in user.args \cup {NoArg, Again}, w \in user.counts \cup {NoWord} : Disassemble(a, w)
       \/ \E w \in user.words \cup {NoWord}, o \in user.opts : Choose(TRUE, w, o)
    /\ UNCHANGED <<hookVars, inVars, lineVars, prntStat>>

Next == Application \/ Keyboard \/ Command

Spec == Init /\ [][Next]_vars
-----------------------------------------------------------------------------
(* What stands before the C library's functions is what the library put     *)
(* there: from the start-up on, output goes out at level All only, but for  *)
(* fputs, which is never held back; threads made by the application are     *)
(* listed, as are the library's own; and std::cout is held back with the    *)
(* rest.  When a symbol is missing every function does nothing.             *)
HooksReach ==
    /\ service /\ last.at > 1 /\ last.fun \notin DOMAIN Printers =>
         last.effect = CASE last.fun = "pthread_create" -> "listed"
                         [] last.fun = "fputs"          -> "printed"
                         [] last.stat = LvlAll          -> "printed"
                         [] OTHER                       -> "nothing"
    /\ service /\ step > 5 => "keyboard" \in threads
    /\ service /\ step > 7 => "ipc_comm" \in threads
    /\ ~service /\ last.fun \notin DOMAIN Printers \cup {"cout"} => last.effect = "nothing"
    /\ last.fun \in DOMAIN Printers /\ last.stat = LvlNon => last.effect = "nothing"
    /\ unlisted = 0

\* The sequences the two terminal emulations send.
Sequences == {<<ESC, Bracket, 48 + a, 48 + b, Tilde>> : a \in 1..2, b \in 0..9}
             \cup {<<ESC, Bracket, 48 + a, Tilde>> : a \in 1..6}
             \cup {<<ESC, Bracket, c>> : c \in (65..90)}
             \cup {<<ESC, Bracket, Bracket, c>> : c \in 65..69}

(* A key is the sequence of bytes that made it, and nothing is swallowed: a *)
(* byte, a byte behind an escape, or one whole sequence, with its number;   *)
(* while a key is gathered its bytes are the beginning of a sequence.  A    *)
(* NUL leaves the decoder one byte ahead, and the next key is not judged.   *)
KeysAreSequences ==
    /\ ~muddled =>
         \/ Len(made) = 1 /\ key = made[1]
         \/ Len(made) = 2 /\ made[1] = ESC /\ made[2] # Bracket /\ key = made[2]
         \/ made \in Sequences /\ key = Num(Tail(made))
    /\ pc = "seq" /\ ~dirty => \E s \in Sequences : IsStrictPrefix(cur, s)

\* The bytes that a rubout further on does not take away.
Survives(s, i) ==
    /\ s[i] # DEL
    /\ \A j \in i + 1 .. Len(s) :
         2 * Cardinality({k \in i + 1 .. j : s[k] = DEL}) <= j - i
Edited2(s) == LET at == SetToSortSeq({i \in DOMAIN s : Survives(s, i)}, <)
              IN  [k \in DOMAIN at |-> s[at[k]]]

Recent == {log[i] : i \in {j \in DOMAIN log : j > Len(log) - (NumHistory - 1)}}

(* The command that runs is the one that was meant: the line the menu gets  *)
(* is what was typed, with its corrections, however the bytes arrived and   *)
(* whatever special keys came before it; the history holds the last lines   *)
(* that were new, each with a command to look up, so that a recall never    *)
(* shows help, leaves the menu or does nothing; and a recall by prefix runs *)
(* a line that begins with it when there is one.  A line begun with a key   *)
(* of several bytes that has no function, or ended by an arrow, is not      *)
(* judged.                                                                  *)
CommandIsMeant ==
    /\ pc = "line" /\ ~odd => cmdStr = Line(Edited2(fed))
    /\ {hist[i] : i \in Entries} \ {<<>>} = Recent
    /\ \A i \in Entries : hist[i] # <<>> =>
         LET ws == CommandOf(Str2argv(Levels(hist[i])))
         IN  ws # <<>> /\ TextOf(ws[1]) \notin {o.text : o \in Range(MainOpts.items)}
    /\ from # <<>> /\ Len(from) > 1 /\ ~Digit(from) =>
         \/ \E i \in Entries :
              IsPrefix(Tail(from), hist[i]) /\ words = CommandOf(Str2argv(Levels(hist[i])))
         \/ \A i \in Entries : ~IsPrefix(Tail(from), hist[i])
\* What the user means by an argument: a symbol or a number, with an offset.
Value(w) == IF w.suffix \in DOMAIN Shift THEN (w.val * (2 ^ Shift[w.suffix] % Top)) % Top ELSE w.val
Meant(arg) ==
    LET base == IF arg.first.text \in DOMAIN Symbols THEN Symbols[arg.first.text] ELSE Value(arg.first)
    IN  (IF arg.op = "-" THEN base - Value(arg.off) ELSE base + Value(arg.off)) % Top

FlatRows(part) ==
    FoldLeft(LAMBDA s, r : s \o r[part], <<>>, GenHexDump(view.to - view.from, enabled))

\* The options are counted from 0, or from the last one that begins with a
\* number; names separated by a comma are one option.
Position(items, i) ==
    LET numbered == {j \in 1..i : items[j].num >= 0}
        first == IF numbered = {} THEN 1 ELSE CHOOSE j \in numbered : \A k \in numbered : k <= j
        base == IF numbered = {} THEN 0 ELSE items[first].num
    IN  base + Cardinality({j \in first .. i - 1 : items[j].sep = "|"})

(* Commands show what they were asked for.  A dump or a listing at an        *)
(* address the user can name starts there, aligned; one without an address   *)
(* goes on where the last ended and leaves nothing out; ".." behind a        *)
(* listing without an address repeats it.  The title is the symbol below.    *)
(* A dump of whole words shows every byte once, in either column.  A word    *)
(* chooses the option it is one of the names of.  A symbol whose name begins *)
(* like a number is not judged.                                              *)
CommandsAsAsked ==
    /\ view.cmd \in {"md", "dsm"} =>
         /\ view.arg \notin {NoArg, Again} /\ Meant(view.arg) \in ValidAddr
              /\ (view.arg.first.val = 0 \/ view.arg.first.text \notin DOMAIN Symbols) =>
              LET skew == Meant(view.arg) - view.from IN
              skew >= 0 /\ skew < (IF view.cmd = "md" THEN 8 ELSE 4)
         /\ view.arg = NoArg /\ was.cmd = view.cmd => view.from \in was.to - 7 .. was.to
         /\ view.title \in DOMAIN Symbols =>
              /\ Symbols[view.title] + view.off = view.from
              /\ ~\E s \in DOMAIN Symbols : Symbols[s] > Symbols[view.title] /\ Symbols[s] <= view.from
    /\ view.cmd = "dsm" /\ was.cmd = "dsm" /\ was.arg = NoArg /\ view.arg = Again =>
         view.from = was.from
    /\ view.cmd = "md" /\ (view.to - view.from) % 4 = 0 =>
         /\ FlatRows("ascii") = [i \in 1 .. view.to - view.from |-> i - 1]
         /\ Range(FlatRows("hex")) = 0 .. view.to - view.from - 1
         /\ Len(FlatRows("hex")) = view.to - view.from
    /\ view.cmd = "opts" /\ view.opts.kind = "list" /\ view.arg.first # NoWord =>
         LET items == view.opts.items
             named == {i \in DOMAIN items : items[i].text = view.arg.first.text}
         IN  /\ view.found.rc = 0 <=> named # {}
             /\ view.found.rc = 0 => \E i \in named : view.found.out = Position(items, i)

=============================================================================
