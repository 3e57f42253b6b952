\* Any chunk sizes on both ends, a source that is edited or emptied between
\* runs, and verification on both sides.
\* Sessions are finitely many: when all have ended, the system rests.
SPECIFICATION Spec
CONSTANTS
  s1 = s1
  s2 = s2
  s3 = s3
  Sessions = {s1, s2, s3}
  NoFile = NoFile
  MaxSize = 3
  FileSize <- EmptiedFile
  FileCells <- EditedFile
  ServerChunks = {1, 2}
  ClientChunks = {1, 2}
  ServerVerify = TRUE
  ClientVerify <- Agree
  Retries = 2
  ReopenMayFail = TRUE
  Overlap = "never"
  MaxFaults = 1
INVARIANTS VerifyInv SavedInv
PROPERTIES IntactOnSuccess KeepsPromise
CHECK_DEADLOCK FALSE
