\* Runs of the client one after the other, one configuration, one file, three
\* faults of any kind: what resuming relies on, and that it gets there. That a
\* resumed file can be opened (ReopenMayFail) is a hypothesis here.
\* Sessions are finitely many: when all have ended, the system rests.
SPECIFICATION FairSpec
CONSTANTS
  s1 = s1
  s2 = s2
  s3 = s3
  Sessions = {s1, s2, s3}
  NoFile = NoFile
  MaxSize = 3
  FileSize <- SameSize
  FileCells <- SameFile
  ServerChunks = {2}
  ClientChunks = {2}
  ServerVerify = FALSE
  ClientVerify <- Agree
  Retries = 2
  ReopenMayFail = FALSE
  Overlap = "never"
  MaxFaults = 3
INVARIANTS TypeOK ClaimsBacked NeverPanics UniformInv
PROPERTIES IntactOnSuccess SavedBeforeNextRequest NoChunkTwice LastDelivers
CHECK_DEADLOCK FALSE
