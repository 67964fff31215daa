\* Two IN urbs; probe may fail at every step; a live device completes urbs
\* with data or -EOVERFLOW, and a resubmission may fail.  One process writes
\* apb1_log_enable while the driver is bound; two log threads can be
\* started in turn.
CONSTANTS
  NumIn = 2
  InStatuses <- MCStatuses
  BufferCanFail = TRUE
  ProbeSubmitCanFail = TRUE
  Writers = {w1}
  MaxLogThreads = 2
  WritesRaceUnbind = FALSE
  LogBytes = 3
  FifoSize = 2
  MsgSize = 2
  Readers = {r1}
  ReadCounts = {2}

SPECIFICATION Spec

INVARIANT NoFreeInFlight
INVARIANT LogThreadSound
INVARIANT CoreUnwindSound
INVARIANT LogReadInOrder
