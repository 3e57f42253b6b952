\* Verification on, one fault: the output is removed, the state is not.
\* Sessions are finitely many: when all have ended, the system rests.
SPECIFICATION FairSpec
CONSTANTS
  s1 = s1
  s2 = s2
  s3 = s3
  Sessions = {s1, s2}
  NoFile = NoFile
  MaxSize = 3
  FileSize <- SameSize
  FileCells <- SameFile
  ServerChunks = {2}
  ClientChunks = {2}
  ServerVerify = TRUE
  ClientVerify <- Agree
  Retries = 2
  ReopenMayFail = FALSE
  Overlap = "never"
  MaxFaults = 1
PROPERTIES RetryDelivers
CHECK_DEADLOCK FALSE
