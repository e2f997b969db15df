SPECIFICATION Spec
CONSTANTS
  TextEnd = 18
  StackAddrs <- MCStack
  BackLimit = 14
  Callers = {"d", "e"}
  Vmas <- MCVmas
  Base = "base"
  Null = "null"
  Cases <- MCCases
  Targets = {"x", "y"}
  Tracer = "d"
  StackEnd <- MCEnd
  TraceWords = 20
  LogDepth = 2
  MaxMoves = 2
INVARIANTS
  TraceIsChain
  TraceKeepsToStack
  AnswersAreOwn
  GivenBackInOrder
CHECK_DEADLOCK FALSE
