------------------------------ MODULE MenuTables ------------------------------
(* The command tables of dbgModule/debug/cmd_shell.c: what a word means in a *)
(* menu.  A DMT_LINK entry is what it links to; one whose target does not    *)
(* exist ends on the terminating row and is not a command.                   *)
EXTENDS Naturals, FiniteSets, Sequences, SequencesExt

Menus == {"debugMain", "systemInfo", "debugSystem", "testMenu"}

Global(w) == CASE w = "show" -> "systemInfo"
               [] w \in {"sh", "md", "dsm", "pt", "exp"} -> "leaf"
               [] OTHER -> "none"

Row(m, w) ==
  CASE m = "debugMain" /\ w = "sys"   -> "debugSystem"
    [] m = "debugMain" /\ w = "test"  -> "testMenu"
    [] m = "debugMain" /\ w = "info"  -> "systemInfo"
    [] m \in {"debugMain", "systemInfo"} /\ w = "task" -> "leaf"
    [] m \in {"debugMain", "testMenu"} /\ w = "bt"     -> "leaf"
    [] m \in {"debugMain", "testMenu"} /\ w = "crash"  -> "crash"
    [] m = "testMenu" /\ w = "color"  -> "leaf"
    [] OTHER -> "none"

(* The global commands are searched before those of the menu.                *)
Resolve(m, w) == IF Global(w) # "none" THEN Global(w) ELSE Row(m, w)

(* Leading ".." of a command line, and what follows them.                    *)
Ups(words)  == Cardinality({i \in DOMAIN words : \A j \in 1..i : words[j] = ".."})
Rest(words) == SubSeq(words, Ups(words) + 1, Len(words))
=============================================================================
