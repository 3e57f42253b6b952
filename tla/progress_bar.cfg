\* A run that ends after its last chunk was saved, and the one that resumes it.
\* Sessions are finitely many: when all have ended, the system rests.
SPECIFICATION CountedSpec
CONSTANTS
  s1 = s1
  s2 = s2
  Sessions = {s1, s2}
  NoFile = NoFile
  MaxSize = 3
  FileSize <- SameSize
  FileCells <- SameFile
  ServerChunks = {2}
  ClientChunks = {2}
  ServerVerify = TRUE
  ClientVerify <- Agree
  Retries = 2
  ReopenMayFail = FALSE
  Overlap = "never"
  MaxFaults = 1
  ShowProgress = TRUE
INVARIANTS NeverPanics
CHECK_DEADLOCK FALSE
