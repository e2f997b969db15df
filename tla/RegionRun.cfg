\* Two threads look addresses up while memory is mapped and unmapped; a backtrace handler
\* interrupts one of them.
CONSTANTS
  t1 = t1
  t2 = t2
  Threads <- MCThreads
  Interrupted = {t1}
  Addrs <- MCAddrs
  HandlerAddrs = {10}
  Layouts <- Loading
  Becomes <- Loads
  Room = 6
SPECIFICATION FairSpec
INVARIANTS
  AnswerWasTrue
PROPERTIES
  Answered
