\* An interrupted run, an interrupted run with a shorter file of the same name,
\* then the first file again.
\* Sessions are finitely many: when all have ended, the system rests.
SPECIFICATION Spec
CONSTANTS
  s1 = s1
  s2 = s2
  s3 = s3
  Sessions = {s1, s2, s3}
  NoFile = NoFile
  MaxSize = 3
  FileSize <- OtherBetween
  FileCells <- OtherFileBetween
  ServerChunks = {2}
  ClientChunks = {2}
  ServerVerify = FALSE
  ClientVerify <- Agree
  Retries = 2
  ReopenMayFail = FALSE
  Overlap = "never"
  MaxFaults = 2
PROPERTIES IntactOnSuccess
CHECK_DEADLOCK FALSE
