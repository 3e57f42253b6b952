\* Two chunks in pieces, compressed or not, from a file that may have become
\* shorter, with timeouts, broken connections, and retries of both ends.
\* The exchange ends, and then the system rests.
SPECIFICATION FairStream
CONSTANTS
  LastChunk = 1
  ChunkLen = 3
  SendRetries = 2
  Retries = 2
  StartWrite = 2
  MaxWrite = 4
INVARIANTS StreamTypeOK InFrame StoredWhole
PROPERTIES ExchangeEnds
CHECK_DEADLOCK FALSE
