------------------------------ MODULE MenuShell ------------------------------
(***************************************************************************)
(* The menu shell of dbgModule/debug/cmd_shell.c: _mainMenu calls itself   *)
(* for every menu, interactively or, when the command line has more words, *)
(* once for them.  The recursion is `frames'; what it shares is the static *)
(* menu stack and the global _debugLevel, which the F10 key and the        *)
(* exception handler also write.                                           *)
(***************************************************************************)
EXTENDS MenuTables, Integers

CONSTANTS
  Lines, NoLine, MaxDepth,  \* see MenuNav
  HastyLines,               \* what a user types who presses F10 inside a menu
  MaxFrames                 \* bound: the calls there are after F10

ASSUME ShellConstants ==
  /\ MaxDepth \in Nat /\ MaxDepth > 0
  /\ HastyLines \subseteq Lines /\ MaxFrames \in Nat
  /\ NoLine \notin Lines
  /\ \A l \in Lines : l.words \in Seq(STRING)

NoMenu == "no-menu"

VARIABLES
  frames,    \* the calls of _mainMenu under way
  level,     \* _debugLevel
  mstack,    \* ppMenuStack
  oob,       \* ppMenuStack was accessed outside its bounds or where it is NULL
  ctl,       \* control point
  args,      \* words the top frame has still to look at
  pop,       \* popLevel
  line,      \* the line typed at the last prompt (history)
  shown,     \* where the last prompt was (history)
  enable,    \* _debugEnable
  printLvl,  \* _print_stat
  prntStat,  \* prnt_stat of cmdDebugMain
  excMode,   \* _excMode
  hasty,     \* the user presses F10 inside menus too
  chosen     \* print level and debug mode last chosen with F8 and F9 (history)

memory == <<mstack, oob>>
modes  == <<printLvl, prntStat, enable>>
vars   == <<frames, level, mstack, oob, ctl, args, pop, line, shown, enable,
            printLvl, prntStat, excMode, hasty, chosen>>

Levels == {"non", "dbg", "all"}

Frame == [menu: Menus, loop: BOOLEAN, saved: BOOLEAN,
          via: {"root", "menu", "help"}, nlev: Int]

TypeOK ==
  /\ frames \in Seq(Frame)
  /\ level \in Int
  /\ mstack \in [0..MaxDepth-1 -> Menus \cup {NoMenu}]
  /\ oob \in BOOLEAN
  /\ ctl \in {"idle", "top", "read", "eval", "ret", "exit", "reenter", "wild", "killed"}
  /\ args \in Seq(STRING) /\ pop \in Nat
  /\ line \in Lines \cup {NoLine}
  /\ shown \in [where: Seq([menu: Menus, prompt: BOOLEAN]), exc: BOOLEAN]
  /\ enable \in BOOLEAN /\ excMode \in BOOLEAN /\ hasty \in BOOLEAN
  /\ printLvl \in Levels /\ prntStat \in Levels
  /\ chosen \in [lvl: Levels, enable: BOOLEAN]

Init ==
  /\ frames = <<>> /\ level = 0
  /\ mstack = [i \in 0..MaxDepth-1 |-> NoMenu] /\ oob = FALSE
  /\ ctl = "idle" /\ args = <<>> /\ pop = 0
  /\ line = NoLine /\ shown = [where |-> <<>>, exc |-> FALSE]
  /\ enable = TRUE /\ excMode = FALSE /\ hasty \in BOOLEAN
  /\ printLvl = "all" /\ prntStat = "non"
  /\ chosen = [lvl |-> "all", enable |-> TRUE]
-----------------------------------------------------------------------------
TopFrame == frames[Len(frames)]

(* A call of _mainMenu at _debugLevel lv, on top of the calls fs.           *)
Call(fs, lv, menu, argv, via) ==
  /\ frames' = Append(fs, [menu |-> menu, loop |-> argv = <<>>, saved |-> enable,
                           via |-> via, nlev |-> lv])
  /\ level' = lv + 1
  /\ IF lv \in DOMAIN mstack
     THEN mstack' = [mstack EXCEPT ![lv] = menu] /\ UNCHANGED oob
     ELSE oob' = TRUE /\ UNCHANGED mstack
  /\ ctl' = IF argv = <<>> THEN "top" ELSE "eval"
  /\ args' = argv
  /\ pop' = 0

(* Mutant of DebugMain: the print level is saved after it has been changed. *)
DebugMainSwapped(fs) ==
  /\ prntStat' = "dbg"
  /\ printLvl' = "dbg"
  /\ Call(fs, 0, "debugMain", <<>>, "root")
  /\ UNCHANGED enable

(* cmdDebugMain.                                                            *)
DebugMain(fs) ==
  /\ prntStat' = printLvl
  /\ printLvl' = "dbg"
  /\ Call(fs, 0, "debugMain", <<>>, "root")
  /\ UNCHANGED enable
-----------------------------------------------------------------------------
(* Function keys, while the shell thread waits for the first key of a line. *)

Waiting == ctl \in {"idle", "read"}

F08 ==
  /\ Waiting /\ level <= 0
  /\ printLvl' = CASE printLvl = "non" -> "all" [] printLvl = "dbg" -> "non" [] OTHER -> "dbg"
  /\ chosen' = [chosen EXCEPT !.lvl = printLvl']
  /\ UNCHANGED <<frames, level, memory, ctl, args, pop, line, shown, enable, prntStat, excMode, hasty>>

F09 ==
  /\ Waiting /\ level <= 0
  /\ enable' = ~enable
  /\ chosen' = [chosen EXCEPT !.enable = enable']
  /\ UNCHANGED <<frames, level, memory, ctl, args, pop, line, shown, printLvl, prntStat, excMode, hasty>>

F10 ==
  /\ Waiting /\ enable
  /\ ctl = "idle" \/ hasty
  /\ IF level = 0
     THEN DebugMain(frames)
     ELSE level' = 0 /\ UNCHANGED <<frames, memory, ctl, args, pop, modes>>
  /\ Len(frames') <= MaxFrames
  /\ UNCHANGED <<line, shown, excMode, hasty, chosen>>
-----------------------------------------------------------------------------
(* The loop of _mainMenu.                                                  *)

Path == [i \in DOMAIN frames |-> [menu |-> frames[i].menu, prompt |-> frames[i].loop]]

(* Mutant of Prompt: level 0 is not looked at.                              *)
PromptAlways ==
  /\ ctl = "top"
  /\ ctl' = "read"
  /\ frames' = [frames EXCEPT ![Len(frames)].nlev = level - 1]
  /\ shown' = [where |-> Path, exc |-> excMode]
  /\ line' = NoLine
  /\ UNCHANGED <<level, memory, args, pop, modes, excMode, hasty, chosen>>

(* Print the prompt, unless F10 has reset the level.                        *)
Prompt ==
  /\ ctl = "top"
  /\ IF level = 0
     THEN ctl' = "exit" /\ UNCHANGED <<frames, line, shown>>
     ELSE /\ ctl' = "read"
          /\ frames' = [frames EXCEPT ![Len(frames)].nlev = level - 1]
          /\ shown' = [where |-> Path, exc |-> excMode]
          /\ line' = NoLine
  /\ UNCHANGED <<level, memory, args, pop, modes, excMode, hasty, chosen>>

(* Help whose menus do not fit the menu stack writes past it: not followed. *)
Fits(l) ==
  (\E i \in DOMAIN l.words : l.words[i] = "help") => level + Len(l.words) - 1 <= MaxDepth

TypeLine ==
  /\ ctl = "read"
  /\ \E l \in IF hasty THEN HastyLines ELSE Lines :
       /\ Fits(l)
       /\ line' = l
       /\ args' = l.words
       /\ frames' = IF l.root THEN [frames EXCEPT ![Len(frames)].nlev = 0] ELSE frames
  /\ ctl' = "eval"
  /\ UNCHANGED <<level, memory, pop, shown, modes, excMode, hasty, chosen>>

(* newMenuLevel after the leading "..".                                     *)
MenuLevel ==
  LET n == TopFrame.nlev IN IF n <= 0 THEN n ELSE IF n > Ups(args) THEN n - Ups(args) ELSE 0

Words == Rest(args)

(* The loop condition: an interactive frame goes on while nothing is popped. *)
Continue(f, p) ==
  /\ pop' = p
  /\ ctl' = IF f.loop /\ p = 0 THEN "top" ELSE "ret"

Stay == UNCHANGED <<frames, level, memory, args, line, shown, modes, excMode, hasty, chosen>>

(* Only "..", "/" or nothing: leave the menus in between.                   *)
GoUp ==
  /\ ctl = "eval" /\ Words = <<>>
  /\ Continue(TopFrame, IF level > MenuLevel + 1 THEN level - (MenuLevel + 1) ELSE 0)
  /\ Stay

ExitMenu ==
  /\ ctl = "eval" /\ Words # <<>> /\ Words[1] = "x"
  /\ pop' = 1 /\ ctl' = "ret"
  /\ Stay

History ==
  /\ ctl = "eval" /\ Words # <<>> /\ Words[1] \in {"hist", "verbose"}
  /\ Continue(TopFrame, 0)
  /\ Stay

(* Any other word is looked up in the global table and in                    *)
(* ppMenuStack[newMenuLevel]; help looks up its argument.                   *)
Looks  == ctl = "eval" /\ Words # <<>> /\ Words[1] \notin {"x", "hist", "verbose"}
Helps  == Words[1] = "help"
InTable == MenuLevel \in DOMAIN mstack /\ mstack[MenuLevel] # NoMenu

Found == LET w == IF ~Helps THEN Words[1] ELSE IF Len(Words) > 1 THEN Words[2] ELSE "(void)"
         IN Resolve(mstack[MenuLevel], w)

(* Mutant of RunCommand: a call for one line evaluates it again.            *)
RunCommandAgain ==
  /\ Looks /\ InTable
  /\ Found \in {"leaf", "none"} \/ (Helps /\ Found = "crash")
  /\ ctl' = IF TopFrame.loop THEN "top" ELSE "eval"
  /\ pop' = 0
  /\ Stay

(* A command that is not found, or returns; help for one or for the menu.   *)
RunCommand ==
  /\ Looks /\ InTable
  /\ Found \in {"leaf", "none"} \/ (Helps /\ Found = "crash")
  /\ Continue(TopFrame, 0)
  /\ Stay

(* Mutant of HelpMenu: the word help itself is not passed on.               *)
HelpMenuOpens ==
  /\ Looks /\ InTable /\ Helps /\ Found \in Menus
  /\ Call(frames, level, Found, SubSeq(Words, 3, Len(Words)), "help")
  /\ UNCHANGED <<line, shown, modes, excMode, hasty, chosen>>

(* "help show ..." is passed on to the menu, at any depth.                  *)
HelpMenu ==
  /\ Looks /\ InTable /\ Helps /\ Found \in Menus
  /\ Call(frames, level, Found, <<"help">> \o SubSeq(Words, 3, Len(Words)), "help")
  /\ UNCHANGED <<line, shown, modes, excMode, hasty, chosen>>

EnterMenu ==
  /\ Looks /\ InTable /\ ~Helps /\ Found \in Menus
  /\ level < MaxDepth
  /\ Call(frames, level, Found, Tail(Words), "menu")
  /\ UNCHANGED <<line, shown, modes, excMode, hasty, chosen>>

RefuseMenu ==
  /\ Looks /\ InTable /\ ~Helps /\ Found \in Menus
  /\ level >= MaxDepth
  /\ Continue(TopFrame, 0)
  /\ Stay

(* The command faults: _exception_handler starts a shell of its own, and    *)
(* never returns to the frames it interrupted.                              *)
CrashCommand ==
  /\ Looks /\ InTable /\ ~Helps /\ Found = "crash"
  /\ ~excMode
  /\ excMode' = TRUE
  /\ DebugMain(<<>>)
  /\ UNCHANGED <<line, shown, hasty, chosen>>

(* Its own signal is blocked and set to the default action by then.         *)
SecondCrash ==
  /\ Looks /\ InTable /\ ~Helps /\ Found = "crash"
  /\ excMode
  /\ ctl' = "killed"
  /\ UNCHANGED <<frames, level, memory, args, pop, line, shown, modes, excMode, hasty, chosen>>

(* What a lookup outside the menu stack does is undefined, and not followed. *)
WildLookup ==
  /\ Looks /\ ~InTable
  /\ oob' = TRUE
  /\ ctl' = "wild"
  /\ UNCHANGED <<frames, level, mstack, args, pop, line, shown, modes, excMode, hasty, chosen>>
-----------------------------------------------------------------------------
(* The end of a call, with result v.                                        *)
Leave(v) ==
  LET below  == Front(frames)
      result == IF TopFrame.via = "help" THEN 0 ELSE v
  IN /\ frames' = below
     /\ IF TopFrame.via = "root"
        THEN /\ printLvl' = prntStat
             /\ pop' = 0
             /\ ctl' = IF below # <<>> THEN "read" ELSE IF excMode THEN "reenter" ELSE "idle"
        ELSE Continue(below[Len(below)], result) /\ UNCHANGED printLvl
     /\ IF ctl' = "idle"
        THEN line' = NoLine /\ shown' = [where |-> <<>>, exc |-> FALSE]
        ELSE UNCHANGED <<line, shown>>
     /\ UNCHANGED <<memory, args, prntStat, excMode, hasty, chosen>>

Restore(lv) == enable' = IF lv = 0 THEN TopFrame.saved ELSE enable

(* Mutant of EndLoop: the level is not given back.                          *)
EndLoopKeepsLevel ==
  /\ ctl = "ret"
  /\ UNCHANGED level
  /\ Restore(level - 1)
  /\ Leave(IF pop > 0 THEN pop - 1 ELSE 0)

EndLoop ==
  /\ ctl = "ret"
  /\ level' = level - 1
  /\ Restore(level - 1)
  /\ Leave(IF pop > 0 THEN pop - 1 ELSE 0)

(* exit_menu: the level is not decreased.                                   *)
ExitLevel0 ==
  /\ ctl = "exit"
  /\ UNCHANGED level
  /\ Restore(0)
  /\ Leave(0)

(* The loop of _exception_handler.                                          *)
Reenter ==
  /\ ctl = "reenter"
  /\ DebugMain(<<>>)
  /\ UNCHANGED <<line, shown, excMode, hasty, chosen>>
-----------------------------------------------------------------------------
Execute ==
  \/ Prompt \/ GoUp \/ ExitMenu \/ History \/ RunCommand \/ HelpMenu \/ EnterMenu
  \/ RefuseMenu \/ CrashCommand \/ SecondCrash \/ WildLookup
  \/ EndLoop \/ ExitLevel0 \/ Reenter

Next == F08 \/ F09 \/ F10 \/ TypeLine \/ Execute

Spec == Init /\ [][Next]_vars

(* The shell thread runs whenever it is not waiting for a key.              *)
FairSpec == Spec /\ WF_vars(Execute)
-----------------------------------------------------------------------------
(* The recursion is the path the shell promises, as long as F10 is pressed  *)
(* outside the menus only: every line extends, shortens or keeps the path   *)
(* as MenuNav says (cmd_shell.c:203-620).  Nothing is promised to a hasty   *)
(* user, who is taken for one that has not opened the shell.                *)
Nav == INSTANCE MenuNav WITH where <- IF hasty THEN <<>> ELSE shown.where,
                             line  <- IF hasty THEN NoLine ELSE line,
                             exc   <- shown.exc /\ ~hasty

ImplementsNav == Nav!Spec

(* F10 can make the level lag behind the calls but never run ahead of them, *)
(* to a part of the stack none of them has written (cmd_shell.c:243, 581,   *)
(* 689).                                                                    *)
LevelWithinFrames == level <= Len(frames)

(* At a prompt the level is the number of menus, and the stack lists them:  *)
(* what ".." and "/" rely on (cmd_shell.c:243-246, 611).  A user who presses*)
(* F10 inside menus is left with a level that is never ahead.               *)
StackIsPath ==
  /\ LevelWithinFrames
  /\ ctl = "read" /\ ~hasty =>
       /\ level = Len(frames)
       /\ \A i \in DOMAIN frames : mstack[i-1] = frames[i].menu

(* Leaving the shell puts back the print level and the debug mode the user  *)
(* had chosen (cmd_shell.c:614-617, 768-775).                               *)
ModesRestored ==
  ctl = "idle" /\ ~hasty => level = 0 /\ printLvl = chosen.lvl /\ enable = chosen.enable

(* Every line is answered: by a prompt, or by leaving the shell, or it ends *)
(* the process (cmd_shell.c:249-608).                                       *)
LineAnswered == ctl = "eval" /\ ~hasty ~> ctl \in {"read", "idle", "killed"}

(* F10 inside a menu takes effect with the next empty line: it leaves all   *)
(* the menus at once ("Exit debug menu", cmd_shell.c:267-268, 689).  Once   *)
(* the user has left a menu with "x" instead, the prompt is no longer one of*)
(* a valid level, and this is lost; so it is inside a menu that one line    *)
(* opened through another ("test show"): the call for that line still takes *)
(* the level down, to -1, and its caller prompts again (581, 611).          *)
Shells == Cardinality({i \in DOMAIN frames : frames[i].via = "root"})

EmptyAfterF10 ==
  /\ ctl = "eval" /\ hasty /\ args = <<>> /\ level = 0 /\ Shells = 1 /\ ~excMode /\ TopFrame.nlev >= 0
  /\ \A i \in DOMAIN frames : frames[i].loop

F10LeavesShell == EmptyAfterF10 ~> ctl = "idle"
=============================================================================
