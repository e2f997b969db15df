SPECIFICATION Spec
CONSTANTS
  Null = Null
  NullFunction = NullFunction
  LineMax = 6
  NumHistory = 3
  MaxArgs = 3
  Top <- MCTop
  Start <- MCStart
  Symbols <- MCSymbols
  ValidAddr <- MCValid
  InstLen <- MCInstLen
  Users <- MCUsers
INVARIANTS
  HooksReach
  KeysAreSequences
  CommandIsMeant
  CommandsAsAsked
CHECK_DEADLOCK FALSE
