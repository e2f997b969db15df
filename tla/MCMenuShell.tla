----------------------------- MODULE MCMenuShell -----------------------------
(* Command lines for model checking MenuShell.                              *)
EXTENDS MenuShell, TLC

Typed(w)  == [root |-> FALSE, words |-> w]
Slash(w)  == [root |-> TRUE, words |-> w]
MCNoLine  == Typed(<<"(none)">>)

(* Moves of every kind, over one and several levels, that find a menu, a    *)
(* command or nothing.                                                      *)
Moves == {Typed(<<>>), Typed(<<"..">>), Typed(<<"..", "..">>), Slash(<<>>),
          Typed(<<"x">>), Typed(<<"hist">>), Typed(<<"bt">>), Typed(<<"show">>),
          Typed(<<"show", "show">>), Typed(<<"test", "bt">>), Typed(<<"test", "show">>), Typed(<<"..", "test">>),
          Slash(<<"test", "show">>), Typed(<<"test", "crash">>), Typed(<<"show", "x">>),
          Typed(<<"show", "..", "..">>), Typed(<<"show", "..", "test">>)}

(* help for the menu, for commands and for other menus.                      *)
Helping == {Typed(<<"help">>), Typed(<<"help", "crash">>), Typed(<<"help", "show", "task">>),
            Typed(<<"help", "show", "show">>), Typed(<<"test", "help", "show">>)}

MovesAndHelp == Moves \cup Helping
FewMoves  == {Typed(<<>>), Typed(<<"x">>), Typed(<<"show">>), Typed(<<"test", "show">>)}
=============================================================================
