\* Two clients at the same time, one file name, one of them asks for
\* verification, one fault, progress bars that may panic: do both ends come to
\* an end, and to the same one, and do they count the same bytes?
\* Sessions are finitely many: when all have ended, the system rests.
SPECIFICATION FairCountedSpec
CONSTANTS
  s1 = s1
  s2 = s2
  Sessions = {s1, s2}
  NoFile = NoFile
  MaxSize = 3
  FileSize <- SameSize
  FileCells <- SameFile
  ServerChunks = {2}
  ClientChunks = {2}
  ServerVerify = TRUE
  ClientVerify <- FirstOnly
  Retries = 2
  ReopenMayFail = TRUE
  Overlap = "any"
  MaxFaults = 1
  ShowProgress = TRUE
INVARIANTS NoFalseSuccess AgreeInv DialogueInv CountsAddUp CountInv
PROPERTIES SessionsEnd
CHECK_DEADLOCK FALSE
