\* Exceptions, backtrace requests, ^C and two children, with a handler that is
\* registered and unregistered.
CONSTANTS
  Threads = {t1, t2}
  Main = t1
  Children = {c1, c2}
  ExcSig = {"SEGV"}
  MayUnregister = {"INT"}
  \* Stack garbage: a mask that blocks SIGCHLD, which decides whether a child
  \* is missed; the proofs hold for every mask.
  Garbage = {{"CHLD"}}
  MaxNest = 2
  MaxFaults = 2
  MaxRequests = 1
SPECIFICATION FairSpec
INVARIANTS
  Armed
  OneShellPerException
PROPERTIES
  KilledOnlyInWindow
  ReapedUnlessMissed
\* the process ends, or every bound is used up
CHECK_DEADLOCK FALSE
