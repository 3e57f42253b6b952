\* The client is ended and started again before the server has noticed.
\* Sessions are finitely many: when all have ended, the system rests.
SPECIFICATION Spec
CONSTANTS
  s1 = s1
  s2 = s2
  s3 = s3
  Sessions = {s1, s2}
  NoFile = NoFile
  MaxSize = 3
  FileSize <- SameSize
  FileCells <- SameFile
  ServerChunks = {2}
  ClientChunks = {2}
  ServerVerify = FALSE
  ClientVerify <- Agree
  Retries = 2
  ReopenMayFail = FALSE
  Overlap = "zombie"
  MaxFaults = 1
INVARIANTS ClaimsBacked
CHECK_DEADLOCK FALSE
