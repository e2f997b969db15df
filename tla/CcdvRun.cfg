\* Outputs longer than the pipe and than one block of the buffer.
CONSTANTS
  Jobs <- MCJobs
  MaxHeaders = 1
  MaxSources = 2
  PipeSize = 3
  ArgsLen = 1
  Block = 3
SPECIFICATION FairSpec
INVARIANTS
  RoomForNul
  ErrorReachesMake
  OutputShown
  PathsFromTop
  RemovesOutput
PROPERTIES
  Ends
\* ccdv ends
CHECK_DEADLOCK FALSE
