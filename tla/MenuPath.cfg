\* Every kind of move, to the limit of the menu stack, and help; a hasty user
\* types fewer lines and presses F10 anywhere.
CONSTANTS
  Lines <- MovesAndHelp
  HastyLines <- FewMoves
  NoLine <- MCNoLine
  MaxDepth = 4
  MaxFrames = 3
SPECIFICATION FairSpec
INVARIANTS
  StackIsPath
  ModesRestored
PROPERTIES
  ImplementsNav
  LineAnswered
  F10LeavesShell
\* a second crash ends the process, and behaviours end at an undefined lookup
CHECK_DEADLOCK FALSE
