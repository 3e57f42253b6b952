\* The second client counts other chunks than the server and refuses the offer.
\* Sessions are finitely many: when all have ended, the system rests.
SPECIFICATION Spec
CONSTANTS
  s1 = s1
  s2 = s2
  s3 = s3
  Sessions = {s1, s2}
  NoFile = NoFile
  MaxSize = 3
  FileSize <- SameSize
  FileCells <- SameFile
  ServerChunks = {2}
  ClientChunks = {1, 2}
  ServerVerify = FALSE
  ClientVerify <- Agree
  Retries = 2
  ReopenMayFail = FALSE
  Overlap = "never"
  MaxFaults = 1
INVARIANTS NeverPanics
CHECK_DEADLOCK FALSE
