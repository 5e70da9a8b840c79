CONSTANTS
  MaxValue = 7
  MaxRecord = 9
  Tokens <- Marks
  Streams <- MCStreams
SPECIFICATION Spec
CHECK_DEADLOCK FALSE
INVARIANTS
  SendsWholeLines
  ReadsWhatGdbWrote
