\* Registrations and removals that do not overlap, with a concurrent listing;
\* t3 ends in pthread_exit, t2 in either way.
CONSTANTS
  Base = Base
  Null = Null
  Threads = {m, t1, t2, t3}
  Returning = {t1, t2}
  Cancelled = {t2, t3}
  Walkers = {w1}
  IdWrap = 4
  Overlap = FALSE
SPECIFICATION Spec
INVARIANTS
  DistinctIds
  WalkComplete
PROPERTIES
  ImplementsPool
