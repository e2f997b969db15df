SPECIFICATION FairSpec
CONSTANTS
  Servers = {s1, s2}
  Clients = {c1, c2}
  None = None
INVARIANTS ConsoleWasAsked NamedUnlessUnlinked FaultsKnown
PROPERTY RequestAnswered
CHECK_DEADLOCK FALSE
