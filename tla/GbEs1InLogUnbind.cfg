\* One process writes apb1_log_enable at any time: its writes may overlap
\* ap_disconnect or come after it, through the file ap_probe never removes.
CONSTANTS
  NumIn = 1
  InStatuses <- MCStatuses
  BufferCanFail = FALSE
  ProbeSubmitCanFail = FALSE
  Writers = {w1}
  MaxLogThreads = 2
  WritesRaceUnbind = TRUE
  LogBytes = 0
  FifoSize = 1
  MsgSize = 1
  Readers = {}
  ReadCounts = {1}

SPECIFICATION Spec

INVARIANT LogThreadSound
