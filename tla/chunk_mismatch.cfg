\* A client with smaller chunks than the server's, no fault.
\* Sessions are finitely many: when all have ended, the system rests.
SPECIFICATION Spec
CONSTANTS
  s1 = s1
  s2 = s2
  s3 = s3
  Sessions = {s1}
  NoFile = NoFile
  MaxSize = 3
  FileSize <- SameSize
  FileCells <- SameFile
  ServerChunks = {2}
  ClientChunks = {1}
  ServerVerify = FALSE
  ClientVerify <- Agree
  Retries = 2
  ReopenMayFail = FALSE
  Overlap = "never"
  MaxFaults = 0
PROPERTIES IntactOnSuccess
CHECK_DEADLOCK FALSE
