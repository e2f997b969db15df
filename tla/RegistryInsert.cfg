\* Overlapping registrations and a listing; t2 ends in pthread_exit.
CONSTANTS
  Base = Base
  Null = Null
  Threads = {m, t1, t2}
  Returning = {}
  Cancelled = {t2}
  Walkers = {w1}
  IdWrap = 65535
  Overlap = TRUE
SPECIFICATION FairSpec
INVARIANTS
  WalksInitialised
PROPERTIES
  WalkTerminates
