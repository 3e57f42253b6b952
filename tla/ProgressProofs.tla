---------------------------- MODULE ProgressProofs ----------------------------
(***************************************************************************)
(* The byte counters of both ends: with one chunk size, a transfer that is *)
(* through has counted the whole file on either side, however often chunks *)
(* were asked for again or taken over from an earlier run, and also with   *)
(* progress bars that panic.                                               *)
(***************************************************************************)
EXTENDS DialogueProofs, Progress, FiniteSetTheorems

CountTypes ==
  /\ offered \in [Sessions -> Int]
  /\ got \in [Sessions -> Int]
  /\ sent \in [Sessions -> Int]

-----------------------------------------------------------------------------
(* Counting chunks. *)

(* The list of a session never names more than the chunks of its file.     *)
LEMMA ListFinite ==
  ASSUME ServerTypeOK, NEW s \in Sessions, NEW R, R \subseteq ChunksOf(FileSize[s], chunkSize)
  PROVE  /\ IsFiniteSet(R) /\ Cardinality(R) \in Nat /\ ResumeOffset(R) \in Nat
         /\ R = {} => ResumeOffset(R) = 0
         /\ \A k : k \notin R =>
              /\ ResumeOffset(R \cup {k}) = ResumeOffset(R) + chunkSize
<1>1. chunkSize \in Nat /\ NumChunks(FileSize[s], chunkSize) \in Int
  BY ServerNumbers DEF NumChunksOf
<1>2. IsFiniteSet(R)
  <2>1. NumChunks(FileSize[s], chunkSize) - 1 \in Int
    BY <1>1
  <2>2. IsFiniteSet(ChunksOf(FileSize[s], chunkSize))
    BY <2>1, FS_Interval DEF ChunksOf
  <2> QED BY <2>2, FS_Subset
<1>3. Cardinality(R) \in Nat
  BY <1>2, FS_CardinalityType
<1>4. ASSUME NEW n \in Nat PROVE n * chunkSize \in Nat /\ (n + 1) * chunkSize = n * chunkSize + chunkSize
  BY <1>1
<1>5. R = {} => ResumeOffset(R) = 0
  BY <1>1, FS_EmptySet DEF ResumeOffset
<1>6. ASSUME NEW k, k \notin R PROVE ResumeOffset(R \cup {k}) = ResumeOffset(R) + chunkSize
  <2>1. Cardinality(R \cup {k}) = Cardinality(R) + 1
    BY <1>2, <1>6, FS_AddElement
  <2> QED BY <1>3, <1>4, <2>1 DEF ResumeOffset
<1> QED BY <1>2, <1>3, <1>4, <1>5, <1>6 DEF ResumeOffset

(* What is missing of the last chunk is less than a chunk. *)
LEMMA MissingBounds ==
  ASSUME ServerTypeOK, NEW s \in Sessions
  PROVE  /\ Missing(s) \in Nat /\ Missing(s) < chunkSize
         /\ NumChunksOf(s) * chunkSize = FileSize[s] + Missing(s)
<1>1. chunkSize \in Nat /\ chunkSize > 0 /\ FileSize[s] \in Nat
  BY ServerNumbers, ConstantTypes
<1> DEFINE N == NumChunksOf(s) * chunkSize
<1>2. FileSize[s] <= N /\ N < FileSize[s] + chunkSize /\ N \in Int
  <2> DEFINE q == NumChunks(FileSize[s], chunkSize)
  <2>1. q \in Nat /\ FileSize[s] <= q * chunkSize /\ q * chunkSize < FileSize[s] + chunkSize
    BY <1>1, Ceiling
  <2>2. q * chunkSize \in Int /\ N = q * chunkSize
    BY <1>1, <2>1 DEF NumChunksOf
  <2> HIDE DEF q, N
  <2> QED BY <2>1, <2>2
<1>3. Missing(s) = N - FileSize[s]
  BY DEF Missing
<1> HIDE DEF N
<1>4. N = FileSize[s] + Missing(s)
  BY <1>1, <1>2, <1>3
<1>5. Missing(s) \in Nat /\ Missing(s) < chunkSize
  BY <1>1, <1>2, <1>3
<1> QED BY <1>4, <1>5 DEF N

(* A chunk is full, or the last one and short of what is missing. *)
LEMMA ChunkLength ==
  ASSUME OneChunkSize, ServerTypeOK, SenderTypeOK, NEW s \in Sessions,
         chunkIdx[s] < NumChunksOf(s)
  PROVE  LET n == ChunkAt(s, CurrentOffset(s)).n
         IN  n = IF chunkIdx[s] = NumChunksOf(s) - 1 THEN chunkSize - Missing(s) ELSE chunkSize
<1> DEFINE N == NumChunksOf(s)
           i == chunkIdx[s]
           cs == chunkSize
           size == FileSize[s]
           n == ChunkAt(s, CurrentOffset(s)).n
<1>1. cs \in Nat /\ cs > 0 /\ i \in Nat /\ size \in Nat /\ N \in Int
  BY ServerNumbers, ConstantTypes
<1>2. n = Least(cs, size - i * cs)
  BY AskedLength DEF CurrentOffset, ChunkOffset
<1>3. N * cs = size + Missing(s) /\ Missing(s) \in Nat /\ Missing(s) < cs
  BY MissingBounds
<1>4. N * cs = (N - 1) * cs + cs /\ i * cs \in Nat
  BY <1>1
<1>5. ASSUME i = N - 1 PROVE n = cs - Missing(s)
  <2>1. i * cs = size + Missing(s) - cs
    BY <1>1, <1>3, <1>4, <1>5
  <2>2. size - i * cs = cs - Missing(s)
    BY <1>1, <1>3, <2>1
  <2> HIDE DEF N, i, cs, size, n
  <2> QED BY <1>1, <1>2, <1>3, <1>5, <2>2 DEF Least
<1>6. ASSUME i # N - 1 PROVE n = cs
  <2>1. i + 1 <= N - 1
    BY <1>1, <1>6
  <2>2. (i + 1) * cs <= (N - 1) * cs
    BY <1>1, <2>1, Monotone
  <2>3. (i + 1) * cs = i * cs + cs /\ (N - 1) * cs \in Int
    BY <1>1
  <2>4. size - i * cs >= cs
    <3> HIDE DEF N, i, cs, size, n
    <3>1. \A a, b, c, d \in Int :
            a + cs <= b /\ c = b + cs /\ c = size + d /\ d < cs => size - a >= cs
      BY <1>1
    <3> QED BY <1>1, <1>3, <1>4, <2>2, <2>3
  <2> HIDE DEF N, i, cs, size, n
  <2> QED BY <1>1, <1>2, <1>4, <1>6, <2>4 DEF Least
<1> QED BY <1>5, <1>6

(* What Counted says, once the chunk numbers are known to be finitely many.*)
LEMMA CountedSame ==
  ASSUME NEW s \in Sessions, Counted(s),
         UNCHANGED <<got[s], received[s], chunkSize>>
  PROVE  Counted(s)'
BY DEF Counted, ResumeOffset, Missing, NumChunksOf

(* A transfer whose count is that of its whole list. *)
LEMMA CountedFresh ==
  ASSUME ServerTypeOK, NEW s \in Sessions, UNCHANGED chunkSize, UNCHANGED received[s],
         received[s] \subseteq ChunksOf(FileSize[s], chunkSize),
         got'[s] = ResumeOffset(received[s])
  PROVE  Counted(s)'
<1>1. ResumeOffset(received[s]) \in Nat /\ Missing(s) \in Nat
  BY ListFinite, MissingBounds
<1>2. UNCHANGED <<ResumeOffset(received[s]), Missing(s), NumChunksOf(s)>>
  BY DEF ResumeOffset, Missing, NumChunksOf
<1> QED BY <1>1, <1>2 DEF Counted

(* A chunk that was asked for arrives and is counted. *)
LEMMA CountedArrival ==
  ASSUME OneChunkSize, ServerTypeOK, SenderTypeOK, NEW s \in Sessions, UNCHANGED chunkSize,
         received[s] \subseteq ChunksOf(FileSize[s], chunkSize), Counted(s), got[s] \in Int,
         chunkIdx[s] \notin received[s], chunkIdx[s] < NumChunksOf(s),
         received'[s] = received[s] \cup {chunkIdx[s]},
         got'[s] = got[s] + ChunkAt(s, CurrentOffset(s)).n
  PROVE  Counted(s)' /\ received'[s] \subseteq ChunksOf(FileSize[s], chunkSize)
<1> DEFINE n == ChunkAt(s, CurrentOffset(s)).n
           R == ResumeOffset(received[s])
           last == NumChunksOf(s) - 1
<1>1. /\ R \in Nat /\ ResumeOffset(received'[s]) = R + chunkSize
      /\ Missing(s) \in Nat /\ Missing(s) < chunkSize /\ chunkSize \in Nat
  BY ListFinite, MissingBounds, ServerNumbers
<1>2. n = IF chunkIdx[s] = last THEN chunkSize - Missing(s) ELSE chunkSize
  BY ChunkLength
<1>3. UNCHANGED <<Missing(s), NumChunksOf(s)>> /\ ResumeOffset(received[s])' = ResumeOffset(received'[s])
  BY DEF ResumeOffset, Missing, NumChunksOf
<1>4. /\ got[s] <= R
      /\ R <= got[s] + (IF last \in received[s] THEN Missing(s) ELSE 0)
  BY DEF Counted
<1>5. last \in received'[s] <=> last \in received[s] \/ chunkIdx[s] = last
  OBVIOUS
<1>6. received'[s] \subseteq ChunksOf(FileSize[s], chunkSize)
  <2>1. chunkIdx[s] \in Nat /\ NumChunksOf(s) \in Int
    BY ServerNumbers
  <2> QED BY <2>1 DEF ChunksOf, NumChunksOf
<1>7. Counted(s)' <=>
        /\ got'[s] <= R + chunkSize
        /\ R + chunkSize <= got'[s] + (IF last \in received'[s] THEN Missing(s) ELSE 0)
  BY <1>1, <1>3 DEF Counted
<1> HIDE DEF n, R, last
<1>8. got'[s] = got[s] + n
  BY DEF n
<1> QED BY <1>1, <1>2, <1>4, <1>5, <1>6, <1>7, <1>8

-----------------------------------------------------------------------------
LEMMA CountsStart == Init /\ CountInit => CountTypes /\ CountInv
<1> SUFFICES ASSUME Init, CountInit PROVE CountTypes /\ CountInv
  OBVIOUS
<1>1. CountTypes
  BY DEF CountInit, CountTypes
<1>2. stateFile.kind # "saved"
  BY DEF Init, StoreInit, NoState, StateRecord
<1>3. ASSUME NEW s \in Sessions PROVE CountSession(s)
  BY DEF Init, ServerInit, WireInit, CountInit, CountSession, BeforeDecision, InTurns, WithChunks,
         AfterChunks
<1> QED BY <1>1, <1>2, <1>3 DEF CountInv

(* A session nothing of which has changed, ... *)
LEMMA CountSame ==
  ASSUME NEW t \in Sessions, CountSession(t),
         UNCHANGED <<sPc[t], mode[t], received[t], chunkIdx[t], toServer[t], chunkSize,
                     offered[t], got[t], sent[t]>>
  PROVE  CountSession(t)'
<1>1. Counted(t) => Counted(t)'
  BY CountedSame
<1>2. UNCHANGED <<NumChunksOf(t), ResumeOffset(received[t])>>
  BY DEF NumChunksOf, ResumeOffset
<1> QED BY <1>1, <1>2 DEF CountSession

(* ... and one that has ended. *)
LEMMA CountEnds ==
  ASSUME NEW t \in Sessions, CountSession(t), sPc'[t] \in {"aborted", "dead"},
         UNCHANGED <<received[t], chunkSize>>
  PROVE  CountSession(t)'
BY DEF CountSession, BeforeDecision, InTurns, WithChunks, AfterChunks

(* A step from one place with a list to another that counts nothing.       *)
LEMMA CountMoves ==
  ASSUME NEW s \in Sessions, CountSession(s), sPc[s] \in WithChunks, sPc'[s] \in WithChunks,
         UNCHANGED <<received[s], chunkSize, got[s], sent[s]>>,
         0 .. (chunkIdx'[s] - 1) \subseteq received[s],
         sPc'[s] = "reply" => chunkIdx'[s] \notin received[s] /\ toServer'[s] = <<>>,
         sPc'[s] \in {"save", "saving"} => chunkIdx'[s] \in received[s]
  PROVE  CountSession(s)'
<1>1. Counted(s)'
  BY CountedSame DEF CountSession
<1> QED BY <1>1 DEF CountSession, BeforeDecision, InTurns, WithChunks, AfterChunks

(* The same after the last chunk. *)
LEMMA CountThrough ==
  ASSUME NEW s \in Sessions, CountSession(s), sPc[s] \in WithChunks \cup AfterChunks,
         sPc'[s] \in AfterChunks, chunkIdx[s] >= NumChunksOf(s),
         UNCHANGED <<received[s], chunkSize, got[s], sent[s], chunkIdx[s]>>
  PROVE  CountSession(s)'
<1>1. Counted(s)' /\ UNCHANGED NumChunksOf(s)
  BY CountedSame DEF CountSession, NumChunksOf
<1> QED BY <1>1 DEF CountSession, BeforeDecision, InTurns, WithChunks, AfterChunks

-----------------------------------------------------------------------------
(* A step of one goroutine. *)

(* The state on disk claims chunks of the file it was saved for. *)
ClaimsInFile ==
  stateFile.kind = "saved" => stateFile.recv \subseteq ChunksOf(stateFile.size, stateFile.chunk)

LEMMA CountsStay ==
  ASSUME NEW s \in Sessions, ServerCounts(s), sPc[s] # "load",
         ~(sPc[s] = "open" /\ mode[s] = "resumed"), ~(sPc[s] = "reply" /\ sPc'[s] = "save")
  PROVE  UNCHANGED countVars
BY DEF ServerCounts, countVars

(* Saving the list of a session. *)
LEMMA SavedInFile ==
  ASSUME NEW s \in Sessions, CountSession(s), stateFile' = SavedState(s)
  PROVE  ClaimsInFile'
BY DEF CountSession, ClaimsInFile, SavedState, StateRecord

LEMMA OneFurther ==
  ASSUME NEW R, NEW k \in Nat, 0 .. (k - 1) \subseteq R, k \in R
  PROVE  0 .. ((k + 1) - 1) \subseteq R
OBVIOUS

(* From alloc or open into the loop, with nothing done yet. *)
LEMMA CountBegins ==
  ASSUME ServerTypeOK, NEW s \in Sessions, CountSession(s), sPc'[s] = "loop", chunkIdx'[s] = 0,
         UNCHANGED <<chunkSize, received[s]>>, got'[s] = ResumeOffset(received[s]),
         got'[s] <= sent'[s]
  PROVE  CountSession(s)'
<1>1. Counted(s)' /\ received'[s] \subseteq ChunksOf(FileSize[s], chunkSize)'
  BY CountedFresh DEF CountSession
<1>2. 0 .. (chunkIdx'[s] - 1) \subseteq received'[s]
  OBVIOUS
<1> QED BY <1>1, <1>2 DEF CountSession, BeforeDecision, InTurns, WithChunks, AfterChunks

(* Among the faults only ReopenFails counts. *)
LEMMA FaultCountsStay ==
  ASSUME CountTypes, FaultCounts,
         \A t \in Sessions : ~(sPc[t] = "open" /\ sPc'[t] = "loop")
  PROVE  UNCHANGED countVars
BY DEF FaultCounts, CountTypes, countVars

LEMMA FaultCounted ==
  ASSUME SrvTypes, CountTypes, NEW s \in Sessions, ServerFault(s), ~Panics(s), FaultCounts
  PROVE  IF ReopenFails(s)
           THEN got' = [got EXCEPT ![s] = ResumeOffset(received[s])] /\ UNCHANGED <<offered, sent>>
           ELSE UNCHANGED countVars
<1>1. \A t \in Sessions \ {s} : sPc'[t] = sPc[t]
  BY ServerFrame DEF Framed, Untouched
<1>2. CASE ReopenFails(s)
  <2>1. sPc[s] = "open" /\ sPc'[s] = "loop"
    BY <1>2 DEF ReopenFails, Goto, SrvTypes, ServerTypeOK
  <2> QED BY <1>1, <1>2, <2>1 DEF FaultCounts, CountTypes
<1>3. CASE ~ReopenFails(s)
  <2>1. ~(sPc[s] = "open" /\ sPc'[s] = "loop")
    BY <1>3 DEF ServerFault, InitTimeout, OpenOutputFails, PreallocateFails, WriteChunkFails,
       SaveStateFails, LastSaveFails, HashFails, DiscardFails, RemovalFails, ChunkArrived, Abort,
       Goto, SrvTypes, ServerTypeOK
  <2> QED BY <1>1, <1>3, <2>1, FaultCountsStay
<1> QED BY <1>2, <1>3

(* A step that reads nothing of what is counted, a fault among them. *)
LEMMA CountStill ==
  ASSUME OneChunkSize, SrvTypes, CliTypes, CountTypes, NEW s \in Sessions, DialogueSession(s),
         DialogueSession(s)',
         CountSession(s), ClaimsInFile, ServerStep(s) \/ ServerFault(s), UNCHANGED countVars,
         ~TryResumeTransfer(s), ~OpenOutput(s), ~ReopenFails(s), ~ReceiveChunk(s)
  PROVE  CountSession(s)' /\ ClaimsInFile'
<1> USE DEF SrvTypes, ServerTypeOK, Goto
<1>0. /\ mode[s] # "rejected" /\ inSync[s] /\ sPc[s] \notin {"dropFile", "dropState"}
      /\ ~Panics(s)
  BY DEF DialogueSession, Panics, NilStatePanic, MisreadPanics
<1>a. UNCHANGED <<chunkSize, got[s], sent[s], offered[s]>>
  BY <1>0, ServerOthers DEF countVars
<1>b. ASSUME UNCHANGED stateFile PROVE ClaimsInFile'
  BY <1>b DEF ClaimsInFile
<1>1. CASE \/ InitLost(s) \/ OpenOutputFails(s) \/ LastSaveFails(s) \/ InitTimeout(s)
           \/ DiscardFails(s) \/ DiscardOutput(s)
  <2>1. sPc'[s] = "aborted" /\ UNCHANGED <<received, stateFile>>
    BY <1>1 DEF InitLost, OpenOutputFails, LastSaveFails, InitTimeout, DiscardFails, DiscardOutput,
                Abort, diskVars
  <2> QED BY <1>a, <1>b, <2>1, CountEnds
<1>2. CASE SaveStateAndFail(s)
  <2>1. sPc'[s] = "aborted" /\ stateFile' = SavedState(s) /\ UNCHANGED received
    BY <1>2 DEF SaveStateAndFail, Abort
  <2> QED BY <1>a, <2>1, CountEnds, SavedInFile
<1>3. CASE ReadInit(s)
  <2>1. /\ sPc[s] = "accept" /\ sPc'[s] \in {"aborted", "load"}
        /\ UNCHANGED <<received, stateFile, chunkIdx, mode>>
    BY <1>3 DEF ReadInit, Abort, diskVars
  <2>2. CASE sPc'[s] = "aborted"
    BY <1>a, <1>b, <2>1, <2>2, CountEnds
  <2>3. CASE sPc'[s] = "load"
    BY <1>a, <1>b, <2>1, <2>3 DEF CountSession, BeforeDecision, InTurns, WithChunks, AfterChunks
  <2> QED BY <2>1, <2>2, <2>3
<1>4. CASE ResumeDecision(s)
  <2>1. sPc[s] = "ack" /\ toServer[s] # <<>> /\ UNCHANGED <<received, stateFile, chunkIdx>>
    BY <1>4 DEF ResumeDecision, HasCommand, diskVars
  <2>2. sPc'[s] = "open" /\ mode' = mode
    BY <1>4, <1>0 DEF ResumeDecision, DialogueSession
  <2>3. ResumeOffset(received[s])' = ResumeOffset(received[s])
    BY <1>a, <2>1 DEF ResumeOffset
  <2> QED BY <1>a, <1>b, <2>1, <2>2, <2>3 DEF CountSession, BeforeDecision, InTurns, WithChunks, AfterChunks
<1>5. CASE DropPartialFile(s) \/ DropPartialState(s) \/ MisreadChunk(s) \/ ReceiveOversizedChunk(s)
  BY <1>0, <1>5, ArrivedTurns
  DEF DropPartialFile, DropPartialState, MisreadChunk, ReceiveOversizedChunk, ChunkArrived
<1>6. CASE PreallocateFile(s) \/ PreallocateFails(s)
  <2>1. /\ sPc[s] = "alloc" /\ sPc'[s] = "loop" /\ UNCHANGED <<received, stateFile, chunkIdx>>
    BY <1>6 DEF PreallocateFile, PreallocateFails, diskVars
  <2>2. received[s] = {} /\ got[s] = 0 /\ chunkIdx[s] = 0 /\ got[s] <= sent[s]
    BY <2>1 DEF CountSession, InTurns
  <2>3. ResumeOffset(received[s]) = 0
    BY <2>2, ListFinite DEF CountSession
  <2> QED BY <1>a, <1>b, <2>1, <2>2, <2>3, CountBegins
<1>7. CASE SkipReceivedChunk(s) \/ SaveState(s) \/ SaveStateFails(s)
  <2>1. /\ sPc[s] \in {"loop", "saving"} /\ sPc'[s] = "loop" /\ UNCHANGED received
        /\ chunkIdx'[s] = chunkIdx[s] + 1 /\ stateFile' \in {stateFile, SavedState(s)}
        /\ chunkIdx[s] \in Nat
    BY <1>7 DEF SkipReceivedChunk, SaveState, SaveStateFails, AtLoop, diskVars
  <2>2. 0 .. (chunkIdx[s] - 1) \subseteq received[s] /\ chunkIdx[s] \in received[s]
    BY <1>7, <2>1 DEF CountSession, WithChunks, SkipReceivedChunk, SaveState, SaveStateFails
  <2>3. 0 .. (chunkIdx'[s] - 1) \subseteq received[s]
    BY <2>1, <2>2, OneFurther
  <2> QED BY <1>a, <1>b, <2>1, <2>3, CountMoves, SavedInFile DEF WithChunks
<1>8. CASE RequestChunk(s)
  <2>1. /\ sPc[s] = "loop" /\ sPc'[s] \in {"reply", "failSave"} /\ chunkIdx[s] \notin received[s]
        /\ UNCHANGED <<received, stateFile, chunkIdx, toServer>>
    BY <1>8 DEF RequestChunk, AtLoop, diskVars
  <2>2. toServer[s] = <<>> /\ 0 .. (chunkIdx[s] - 1) \subseteq received[s]
    BY <2>1, QuietTurns DEF CountSession, Quiet, InTurns, WithChunks
  <2> QED BY <1>a, <1>b, <2>1, <2>2, CountMoves DEF WithChunks
<1>9. CASE WriteChunkFails(s) \/ ChunkLost(s)
  <2>1. sPc[s] = "reply" /\ RetryChunk(s) /\ UNCHANGED <<received, stateFile, chunkIdx>>
    BY <1>9 DEF WriteChunkFails, ChunkLost, ChunkArrived, diskVars
  <2>2. toServer'[s] = <<>>
    BY <1>9, ArrivedTurns DEF WriteChunkFails, ChunkArrived, ChunkLost, AtEof
  <2>3. sPc'[s] \in {"reply", "failSave"}
    BY <2>1, RetryFrame
  <2>4. chunkIdx[s] \notin received[s] /\ 0 .. (chunkIdx[s] - 1) \subseteq received[s]
    BY <2>1 DEF CountSession, WithChunks
  <2> QED BY <1>a, <1>b, <2>1, <2>2, <2>3, <2>4, CountMoves DEF WithChunks
<1>10. CASE TruncateState(s)
  <2>1. /\ sPc[s] \in {"save", "failSave"} /\ sPc'[s] \in {"saving", "failSaving"}
        /\ sPc'[s] = "saving" => sPc[s] = "save"
        /\ stateFile'.kind # "saved" /\ UNCHANGED <<received, chunkIdx>>
    BY <1>10 DEF TruncateState, TornState, StateRecord
  <2>2. /\ 0 .. (chunkIdx[s] - 1) \subseteq received[s]
        /\ sPc[s] = "save" => chunkIdx[s] \in received[s]
    BY <2>1 DEF CountSession, WithChunks
  <2> QED BY <1>a, <2>1, <2>2, CountMoves DEF WithChunks, ClaimsInFile
<1>11. CASE \/ AllChunksDone(s) \/ RequestHash(s) \/ CompareHash(s) \/ HashLost(s) \/ HashFails(s)
            \/ Cleanup(s) \/ RemovalFails(s) \/ SendComplete(s)
  <2>1. /\ sPc[s] \in {"loop"} \cup AfterChunks /\ sPc'[s] \in AfterChunks
        /\ UNCHANGED <<received, chunkIdx>>
        /\ sPc[s] = "loop" => chunkIdx[s] >= NumChunksOf(s)
    BY <1>0, <1>11 DEF AllChunksDone, RequestHash, CompareHash, HashLost, HashFails, Cleanup,
                       RemovalFails, SendComplete, AfterChunks, AtLoop
  <2>2. stateFile' \in {stateFile, NoState}
    BY <1>11 DEF AllChunksDone, RequestHash, CompareHash, HashLost, HashFails, Cleanup,
                 RemovalFails, SendComplete, RemoveTransferState, diskVars
  <2>3. ClaimsInFile'
    BY <2>2 DEF ClaimsInFile, NoState, StateRecord
  <2>4. chunkIdx[s] >= NumChunksOf(s)
    BY <2>1 DEF CountSession
  <2> QED BY <1>a, <2>1, <2>3, <2>4, CountThrough DEF WithChunks
<1> QED
  BY <1>0, <1>1, <1>2, <1>3, <1>4, <1>5, <1>6, <1>7, <1>8, <1>9, <1>10, <1>11
  DEF ServerStep, ServerFault, Panics

(* The offer: its offset is the count of the list that is taken over. *)
LEMMA CountOffer ==
  ASSUME OneChunkSize, SrvTypes, CliTypes, CountTypes, NEW s \in Sessions, DialogueSession(s),
         CountSession(s), ClaimsInFile, TryResumeTransfer(s), ServerCounts(s)
  PROVE  /\ CountSession(s)' /\ ClaimsInFile' /\ CountTypes'
         /\ \A t \in Sessions \ {s} : UNCHANGED <<offered[t], got[t], sent[t]>>
<1> USE DEF SrvTypes, ServerTypeOK, Goto
<1> DEFINE fits == /\ stateFile.kind = "saved"
                   /\ stateFile.size = FileSize[s]
                   /\ stateFile.chunk = chunkSize
<1>1. /\ sPc[s] = "load" /\ sPc'[s] = "ack" /\ UNCHANGED <<stateFile, chunkSize, chunkIdx, toServer>>
      /\ mode'[s] = IF fits THEN "resumed" ELSE "fresh"
      /\ received'[s] = IF fits THEN stateFile.recv ELSE {}
  BY DEF TryResumeTransfer, diskVars, StoreTypeOK
<1>2. toServer[s] = <<>>
  BY <1>1, QuietTurns DEF Quiet, InTurns, BeforeDecision
<1>3. received'[s] \subseteq ChunksOf(FileSize[s], chunkSize)
  BY <1>1 DEF ClaimsInFile
<1> HIDE DEF fits
<1>4. ResumeOffset(received'[s]) \in Nat
  BY <1>3, ListFinite
<1>5. /\ offered' = [offered EXCEPT ![s] = ResumeOffset(received'[s])]
      /\ UNCHANGED <<got, sent>>
  BY <1>1 DEF ServerCounts
<1>6. CountTypes' /\ offered'[s] = ResumeOffset(received'[s])
      /\ \A t \in Sessions \ {s} : UNCHANGED <<offered[t], got[t], sent[t]>>
  BY <1>4, <1>5 DEF CountTypes
<1>7. got[s] = 0 /\ chunkIdx[s] = 0 /\ got[s] <= sent[s]
  BY <1>1 DEF CountSession, BeforeDecision, InTurns
<1>8. ResumeOffset(received'[s]) = ResumeOffset(received[s])'
  BY <1>1 DEF ResumeOffset
<1>9. CountSession(s)'
  BY <1>1, <1>2, <1>3, <1>5, <1>6, <1>7, <1>8
  DEF CountSession, BeforeDecision, InTurns, WithChunks, AfterChunks
<1> QED BY <1>1, <1>6, <1>9 DEF ClaimsInFile

(* A resumed transfer starts from the count of its list. *)
LEMMA CountOpen ==
  ASSUME SrvTypes, CliTypes, CountTypes, NEW s \in Sessions, mode[s] # "rejected",
         DialogueSession(s), CountSession(s), ClaimsInFile, ~Panics(s),
         \/ OpenOutput(s) /\ ServerCounts(s)
         \/ ReopenFails(s) /\ ServerFault(s) /\ FaultCounts
  PROVE  /\ CountSession(s)' /\ ClaimsInFile' /\ CountTypes'
         /\ \A t \in Sessions \ {s} : UNCHANGED <<offered[t], got[t], sent[t]>>
<1> USE DEF SrvTypes, ServerTypeOK, Goto
<1>1. /\ sPc[s] = "open" /\ UNCHANGED <<stateFile, chunkSize, mode, received, chunkIdx, toServer>>
      /\ sPc'[s] = IF mode[s] = "resumed" THEN "loop" ELSE "alloc"
  BY DEF OpenOutput, ReopenFails, wireVars
<1>2. ClaimsInFile'
  BY <1>1 DEF ClaimsInFile
<1>3. got[s] = 0 /\ chunkIdx[s] = 0 /\ got[s] <= sent[s]
  BY <1>1 DEF CountSession, InTurns
<1>4. CASE mode[s] = "resumed"
  <2>1. got' = [got EXCEPT ![s] = ResumeOffset(received[s])] /\ UNCHANGED <<offered, sent>>
    BY <1>1, <1>4, FaultCounted DEF ServerCounts
  <2>2. ResumeOffset(received[s]) \in Nat
    BY ListFinite DEF CountSession
  <2>3. CountTypes' /\ got'[s] = ResumeOffset(received[s])
        /\ \A t \in Sessions \ {s} : UNCHANGED <<offered[t], got[t], sent[t]>>
    BY <2>1, <2>2 DEF CountTypes
  <2>4. ResumeOffset(received[s]) <= sent[s]
    BY <1>1, <1>4 DEF CountSession
  <2> QED BY <1>1, <1>2, <1>3, <1>4, <2>1, <2>3, <2>4, CountBegins
<1>5. CASE mode[s] = "fresh"
  <2>1. UNCHANGED countVars
    BY <1>1, <1>5, CountsStay DEF ReopenFails
  <2>2. received[s] = {}
    BY <1>1, <1>5 DEF CountSession
  <2> QED BY <1>1, <1>2, <1>3, <1>5, <2>1, <2>2
          DEF CountSession, countVars, CountTypes, BeforeDecision, InTurns, WithChunks, AfterChunks
<1> QED BY <1>4, <1>5

(* A chunk arrives: the server was behind the client by at least as much.  *)
LEMMA CountArrival ==
  ASSUME OneChunkSize, SrvTypes, CliTypes, CountTypes, NEW s \in Sessions, DialogueSession(s),
         CountSession(s), ClaimsInFile, ReceiveChunk(s), ServerCounts(s)
  PROVE  /\ CountSession(s)' /\ ClaimsInFile' /\ CountTypes'
         /\ \A t \in Sessions \ {s} : UNCHANGED <<offered[t], got[t], sent[t]>>
<1> USE DEF SrvTypes, ServerTypeOK, Goto
<1> DEFINE m == ChunkAt(s, CurrentOffset(s))
<1>1. /\ sPc[s] = "reply" /\ sPc'[s] = "save" /\ HasCommand(s, toServer, "Data") /\ inSync[s]
      /\ received'[s] = received[s] \cup {chunkIdx[s]}
      /\ UNCHANGED <<stateFile, chunkSize, chunkIdx>>
  BY DEF ReceiveChunk, ChunkArrived
<1>2. toServer[s] # <<>> /\ Head(toServer[s]) = m /\ chunkIdx[s] < NumChunksOf(s)
  BY <1>1, ArrivedTurns DEF HasCommand
<1>3. m.n \in Nat
  BY <1>2, AskedLength DEF CliTypes
<1>4. chunkIdx[s] \notin received[s] /\ got[s] + m.n <= sent[s] /\ Counted(s)
      /\ 0 .. (chunkIdx[s] - 1) \subseteq received[s]
  BY <1>1, <1>2 DEF CountSession, WithChunks
<1> HIDE DEF m
<1>5. got' = [got EXCEPT ![s] = @ + m.n] /\ UNCHANGED <<offered, sent>>
  BY <1>1, <1>2 DEF ServerCounts, ChunkLengths
<1>6. /\ CountTypes' /\ got'[s] = got[s] + m.n /\ sent'[s] = sent[s]
      /\ \A t \in Sessions \ {s} : UNCHANGED <<offered[t], got[t], sent[t]>>
  BY <1>3, <1>5 DEF CountTypes
<1>7. Counted(s)' /\ received'[s] \subseteq ChunksOf(FileSize[s], chunkSize)
  BY <1>1, <1>2, <1>4, <1>6, CountedArrival DEF CountSession, CountTypes, CliTypes, m
<1>8. CountSession(s)'
  BY <1>1, <1>4, <1>6, <1>7 DEF CountSession, BeforeDecision, InTurns, WithChunks, AfterChunks
<1> QED BY <1>1, <1>6, <1>8 DEF ClaimsInFile

LEMMA CountServer ==
  ASSUME OneChunkSize, SrvTypes, CliTypes, CountTypes, NEW s \in Sessions, DialogueSession(s),
         DialogueSession(s)', CountSession(s), ClaimsInFile,
         \/ ServerStep(s) /\ ServerCounts(s)
         \/ ServerFault(s) /\ FaultCounts
  PROVE  /\ CountSession(s)' /\ ClaimsInFile' /\ CountTypes'
         /\ \A t \in Sessions \ {s} : UNCHANGED <<offered[t], got[t], sent[t]>>
<1>1. ASSUME UNCHANGED countVars
      PROVE  CountTypes' /\ \A t \in Sessions \ {s} : UNCHANGED <<offered[t], got[t], sent[t]>>
  BY <1>1 DEF CountTypes, countVars
<1>2. mode[s] # "rejected" /\ ~Panics(s)
  BY DEF DialogueSession, Panics, NilStatePanic, MisreadPanics
<1>3. CASE ServerFault(s) /\ FaultCounts
  <2>1. CASE ReopenFails(s)
    BY <1>2, <1>3, <2>1, CountOpen
  <2>2. CASE ~ReopenFails(s)
    <3>1. ~TryResumeTransfer(s) /\ ~OpenOutput(s) /\ ~ReceiveChunk(s)
      BY <1>3, <2>2 DEF ServerFault, InitTimeout, OpenOutputFails, PreallocateFails, WriteChunkFails,
         SaveStateFails, LastSaveFails, HashFails, DiscardFails, RemovalFails, TryResumeTransfer,
         OpenOutput, ReceiveChunk, ChunkArrived, RetryChunk, Abort, Goto, SrvTypes, ServerTypeOK
    <3>2. UNCHANGED countVars
      BY <1>2, <1>3, <2>2, FaultCounted
    <3> QED BY <1>1, <1>3, <2>2, <3>1, <3>2, CountStill
  <2> QED BY <2>1, <2>2
<1>4. CASE ServerStep(s) /\ ServerCounts(s)
  <2>1. ASSUME ~TryResumeTransfer(s), ~OpenOutput(s), ~ReceiveChunk(s)
        PROVE  UNCHANGED countVars /\ ~ReopenFails(s)
    <3>1. inSync[s]
      BY DEF DialogueSession
    <3>2. sPc[s] \notin {"load", "open"} /\ ~(sPc[s] = "reply" /\ sPc'[s] = "save")
      BY <1>4, <2>1, <3>1 DEF ServerStep, ReadInit, InitLost, ResumeDecision, DropPartialFile,
         DropPartialState, PreallocateFile, SkipReceivedChunk, RequestChunk,
         ReceiveOversizedChunk, MisreadChunk, ChunkLost, ChunkArrived, RetryChunk, TruncateState,
         SaveState, SaveStateAndFail, AllChunksDone, RequestHash, CompareHash, HashLost,
         DiscardOutput, Cleanup, SendComplete, NilStatePanic, MisreadPanics, AtLoop, Goto,
         SrvTypes, ServerTypeOK
    <3> QED BY <1>4, <3>2, CountsStay DEF ReopenFails
  <2>2. CASE TryResumeTransfer(s)
    BY <1>4, <2>2, CountOffer
  <2>3. CASE OpenOutput(s)
    BY <1>2, <1>4, <2>3, CountOpen
  <2>4. CASE ReceiveChunk(s)
    BY <1>4, <2>4, CountArrival
  <2> QED BY <1>1, <1>4, <2>1, <2>2, <2>3, <2>4, CountStill
<1> QED BY <1>3, <1>4

-----------------------------------------------------------------------------
(* A step of one client. *)

(* What a session says when only its queues and the client's count change. *)
LEMMA CountGrows ==
  ASSUME NEW s \in Sessions, CountSession(s),
         UNCHANGED <<sPc, mode, received, chunkIdx, chunkSize, offered, got>>,
         sPc[s] \in InTurns \cup AfterChunks => got[s] <= sent'[s],
         sPc[s] \in {"ack", "open"} /\ mode[s] = "resumed" /\ (sPc[s] = "ack" => toServer'[s] # <<>>)
           => offered[s] <= sent'[s],
         sPc[s] = "reply" /\ toServer'[s] # <<>> => got[s] + Head(toServer'[s]).n <= sent'[s]
  PROVE  CountSession(s)'
<1>1. Counted(s) => Counted(s)'
  BY CountedSame
<1>2. UNCHANGED <<NumChunksOf(s), ResumeOffset(received[s])>>
  BY DEF NumChunksOf, ResumeOffset
<1> QED BY <1>1, <1>2 DEF CountSession, BeforeDecision, InTurns, WithChunks, AfterChunks

(* Negotiation: whoever accepts to resume starts from the offset that was  *)
(* offered.                                                                *)
LEMMA CountNegotiates ==
  ASSUME OneChunkSize, SrvTypes, CliTypes, CountTypes, NEW s \in Sessions, DialogueSession(s),
         CountSession(s), NegotiateResume(s), ClientCounts(s), UNCHANGED srvVars
  PROVE  /\ CountSession(s)' /\ CountTypes' /\ UNCHANGED <<offered, got>>
         /\ \A t \in Sessions \ {s} : UNCHANGED sent[t]
<1> USE DEF CliTypes
<1> DEFINE m == Head(toClient[s])
           agreed == m.can /\ m.total = NumChunks(FileSize[s], clientChunk[s])
<1>1. /\ cPc[s] = "nego" /\ HasCommand(s, toClient, "Resume")
      /\ toServer' = Sent(s, toServer, AckMsg(agreed)) /\ toClient[s] # <<>> /\ m.cmd = "Resume"
  BY DEF NegotiateResume, HasCommand
<1>2. /\ sent' = IF agreed THEN [sent EXCEPT ![s] = offered[s]] ELSE sent
      /\ UNCHANGED <<offered, got>>
  BY <1>1 DEF ClientCounts
<1>3. UNCHANGED <<sPc, mode, received, chunkIdx, chunkSize>>
  BY DEF srvVars
<1>4. ASSUME sPc[s] \in InTurns
      PROVE  sPc[s] = "ack" /\ agreed = (mode[s] = "resumed")
  <2> DEFINE r == ResumeMsg(mode[s] = "resumed", NumChunksOf(s))
  <2>1. toClient[s] = Asked(s)
    BY <1>1, <1>4, TurnsAt
  <2>2. sPc[s] = "ack" /\ toClient[s] = <<r>>
    BY <1>1, <2>1 DEF Asked, RequestMsg
  <2>3. m = r
    <3> HIDE DEF r
    <3> QED BY <2>2
  <2>4. m.can = (mode[s] = "resumed") /\ m.total = NumChunksOf(s)
    BY <2>3 DEF ResumeMsg
  <2>5. clientChunk[s] = chunkSize
    BY SameChunk DEF SrvTypes
  <2> QED BY <2>2, <2>4, <2>5 DEF NumChunksOf
<1>5. sPc[s] \notin AfterChunks
  <2>1. ASSUME sPc[s] \in AfterChunks PROVE FALSE
    <3>1. m \in AfterChunksMessages
      BY <1>1, <2>1, TakenWithin DEF DialogueSession, WireTypeOK
    <3> QED BY <1>1, <3>1 DEF AfterChunksMessages
  <2> QED BY <2>1
<1>6. CountTypes' /\ \A t \in Sessions \ {s} : UNCHANGED sent[t]
  BY <1>2 DEF CountTypes
<1> HIDE DEF agreed
<1>7. ASSUME sPc[s] \in InTurns
      PROVE  /\ got[s] <= sent'[s]
             /\ mode[s] = "resumed" => offered[s] <= sent'[s]
  <2>1. sPc[s] = "ack" /\ agreed = (mode[s] = "resumed")
    BY <1>4, <1>7
  <2>2. got[s] = 0 /\ got[s] <= sent[s]
    BY <2>1 DEF CountSession, BeforeDecision, InTurns
  <2>3. CASE mode[s] = "resumed"
    <3>1. offered[s] = ResumeOffset(received[s]) /\ ResumeOffset(received[s]) \in Nat
      BY <2>1, <2>3, ListFinite DEF CountSession, SrvTypes
    <3>2. sent'[s] = offered[s]
      BY <1>2, <2>1, <2>3 DEF CountTypes
    <3> QED BY <2>2, <3>1, <3>2
  <2>4. CASE mode[s] # "resumed"
    BY <1>2, <2>1, <2>2, <2>4
  <2> QED BY <2>3, <2>4
<1>8. CountSession(s)'
  <2>1. sPc[s] # "reply" /\ (sPc[s] \in {"ack", "open"} => sPc[s] \in InTurns)
    BY <1>4 DEF InTurns, BeforeDecision, WithChunks
  <2> QED BY <1>2, <1>3, <1>5, <1>7, <2>1, CountGrows
<1> QED BY <1>2, <1>6, <1>8

(* A chunk goes out and is counted. *)
LEMMA CountSends ==
  ASSUME OneChunkSize, SrvTypes, CliTypes, CountTypes, NEW s \in Sessions, DialogueSession(s),
         CountSession(s), HandleChunkRequest(s), ClientCounts(s), UNCHANGED srvVars
  PROVE  /\ CountSession(s)' /\ CountTypes' /\ UNCHANGED <<offered, got>>
         /\ \A t \in Sessions \ {s} : UNCHANGED sent[t]
<1> USE DEF CliTypes
<1> DEFINE m == Head(toClient[s])
           n == ReadLength(FileSize[s], m.off, clientChunk[s])
<1>1. /\ cPc[s] = "serve" /\ HasCommand(s, toClient, "Request")
      /\ toServer' = Sent(s, toServer, ChunkAt(s, m.off)) /\ toClient[s] # <<>> /\ m.cmd = "Request"
  BY DEF HandleChunkRequest, HasCommand
<1>2. sent' = [sent EXCEPT ![s] = @ + n] /\ UNCHANGED <<offered, got>>
  BY <1>1 DEF ClientCounts
<1>3. UNCHANGED <<sPc, mode, received, chunkIdx, chunkSize>>
  BY DEF srvVars
<1>4. m.off \in Int /\ n \in Int
  <2>1. m \in ServerMessages
    BY <1>1, TakenWithin DEF WireTypeOK
  <2>2. m.off \in Int
    BY <1>1, <2>1, ServerMessageFields
  <2>3. clientChunk[s] \in Int /\ FileSize[s] \in Int
    BY ConstantTypes DEF SenderTypeOK
  <2> QED BY <2>2, <2>3 DEF ReadLength, Least
<1>5. CountTypes' /\ sent'[s] = sent[s] + n /\ \A t \in Sessions \ {s} : UNCHANGED sent[t]
  BY <1>2, <1>4 DEF CountTypes
<1>6. sPc[s] \notin AfterChunks
  <2>1. ASSUME sPc[s] \in AfterChunks PROVE FALSE
    <3>1. m \in AfterChunksMessages
      BY <1>1, <2>1, TakenWithin DEF DialogueSession, WireTypeOK
    <3> QED BY <1>1, <3>1 DEF AfterChunksMessages
  <2> QED BY <2>1
<1>7. ASSUME sPc[s] \in InTurns
      PROVE  /\ sPc[s] = "reply" /\ got[s] <= sent[s] /\ n > 0
             /\ toServer'[s] # <<>> => Head(toServer'[s]).n = n
  <2>1. toClient[s] = Asked(s) /\ toServer[s] = <<>>
    BY <1>1, <1>7, TurnsAt
  <2>2. sPc[s] = "reply" /\ m = RequestMsg(CurrentOffset(s))
    BY <1>1, <2>1 DEF Asked, ResumeMsg
  <2>3. m.off = CurrentOffset(s)
    BY <2>2 DEF RequestMsg
  <2>4. n = ChunkAt(s, m.off).n
    BY DEF ChunkAt, DataMsg
  <2>5. chunkIdx[s] < NumChunksOf(s)
    BY <1>7, <2>2 DEF DialogueSession, Turns
  <2>6. n > 0
    BY <2>3, <2>4, <2>5, AskedLength DEF SrvTypes
  <2>7. toServer'[s] \in {<<>>, <<ChunkAt(s, m.off)>>}
    BY <1>1, <2>1, SentOne DEF WireTypeOK
  <2> HIDE DEF n
  <2> QED BY <1>7, <2>2, <2>4, <2>6, <2>7 DEF CountSession
<1> HIDE DEF n, m
<1>8. CountSession(s)'
  <2>1. sPc[s] \in {"ack", "open", "reply"} => sPc[s] \in InTurns
    BY DEF InTurns, BeforeDecision, WithChunks
  <2>2. got[s] \in Int /\ sent[s] \in Int
    BY DEF CountTypes
  <2> QED BY <1>2, <1>3, <1>4, <1>5, <1>6, <1>7, <2>1, <2>2, CountGrows
<1> QED BY <1>2, <1>5, <1>8

(* Where the client neither negotiates nor sends a chunk, it counts none.  *)
LEMMA ClientCountsStay ==
  ASSUME NEW s \in Sessions, ClientStep(s), ClientCounts(s), ~NegotiateResume(s),
         ~HandleChunkRequest(s)
  PROVE  UNCHANGED countVars
<1>1. /\ ~(cPc[s] = "nego" /\ HasCommand(s, toClient, "Resume"))
      /\ ~(cPc[s] = "serve" /\ HasCommand(s, toClient, "Request"))
  BY DEF ClientStep, InitializeTransfer, HandleHashRequest, ReadVerdict, HandleComplete,
         HandleError, ServerLost, HasCommand
<1> QED BY <1>1 DEF ClientCounts, countVars

LEMMA CountClient ==
  ASSUME OneChunkSize, SrvTypes, CliTypes, CountTypes, NEW s \in Sessions, DialogueSession(s),
         CountSession(s), UNCHANGED srvVars,
         \/ ClientStep(s) /\ ClientCounts(s)
         \/ ClientEnded(s) /\ UNCHANGED countVars
  PROVE  /\ CountSession(s)' /\ CountTypes' /\ UNCHANGED <<offered, got>>
         /\ \A t \in Sessions \ {s} : UNCHANGED sent[t]
<1>1. CASE NegotiateResume(s) /\ ClientCounts(s)
  BY <1>1, CountNegotiates
<1>2. CASE HandleChunkRequest(s) /\ ClientCounts(s)
  BY <1>2, CountSends
<1>3. CASE /\ ClientStep(s) \/ ClientEnded(s)
           /\ ~NegotiateResume(s) /\ ~HandleChunkRequest(s) /\ UNCHANGED countVars
  <2>1. CountTypes' /\ UNCHANGED <<offered, got, sent>>
    BY <1>3 DEF CountTypes, countVars
  <2>2. UNCHANGED <<sPc, mode, received, chunkIdx, chunkSize>>
    BY DEF srvVars
  <2>3. sPc[s] \in InTurns \cup AfterChunks => got[s] <= sent[s]
    BY DEF CountSession
  <2>4. CASE InitializeTransfer(s)
    <3>1. sPc[s] \in InTurns => sPc[s] = "accept"
      BY <2>4, TurnsAt DEF InitializeTransfer
    <3>2. sPc[s] \notin {"ack", "open", "reply"}
      BY <3>1 DEF InTurns, BeforeDecision, WithChunks
    <3> QED BY <2>1, <2>2, <2>3, <3>2, CountGrows
  <2>5. CASE HandleHashRequest(s)
    <3>1. toClient[s] # <<>> /\ Head(toClient[s]).cmd \notin {"Resume", "Request"}
      BY <2>5 DEF HandleHashRequest, HasCommand
    <3>2. sPc[s] \notin InTurns
      BY <3>1, TurnsAt DEF Asked, ResumeMsg, RequestMsg
    <3>3. sPc[s] \notin {"ack", "open", "reply"}
      BY <3>2 DEF InTurns, BeforeDecision, WithChunks
    <3> QED BY <2>1, <2>2, <2>3, <3>3, CountGrows
  <2>6. CASE \/ ReadVerdict(s) \/ HandleComplete(s) \/ HandleError(s) \/ ServerLost(s)
             \/ ClientEnded(s)
    <3>1. UNCHANGED toServer
      BY <2>6 DEF ReadVerdict, HandleComplete, HandleError, ServerLost, ClientEnded, ClientCloses
    <3> QED BY <2>1, <2>2, <3>1, CountSame
  <2> QED BY <1>3, <2>4, <2>5, <2>6 DEF ClientStep
<1>4. ASSUME ClientEnded(s) PROVE ~NegotiateResume(s) /\ ~HandleChunkRequest(s)
  BY <1>4 DEF ClientEnded, NegotiateResume, HandleChunkRequest, Become, Running, ClientEnds,
              CliTypes, SenderTypeOK, cliVars
<1> QED BY <1>1, <1>2, <1>3, <1>4, ClientCountsStay

-----------------------------------------------------------------------------
(* A bar that panics: the end of the process, or of a client's run. *)
LEMMA ClientBarEnds ==
  ASSUME NEW s \in Sessions, ClientBarPanics(s)
  PROVE  ClientEnded(s) /\ UNCHANGED <<srvVars, diskVars, faults, countVars>>
BY DEF ClientBarPanics, ClientEnded, Running, ClientEnds

(* Every step with counters is one without, or a panic of a bar.           *)
BarPanics ==
  \/ ProcessEnds("panicked") /\ UNCHANGED <<cliVars, faults, countVars>>
  \/ \E s \in Sessions : ClientEnded(s) /\ UNCHANGED <<srvVars, diskVars, faults, countVars>>

LEMMA CountedSteps ==
  ASSUME [CountedNext]_<<vars, countVars>>
  PROVE  [Next]_vars \/ BarPanics
<1>1. ASSUME NEW s \in Sessions, ServerBarPanics(s) PROVE BarPanics
  BY <1>1 DEF ServerBarPanics, BarPanics
<1>2. ASSUME NEW s \in Sessions, ClientBarPanics(s) PROVE BarPanics
  BY <1>2, ClientBarEnds DEF BarPanics
<1> QED BY <1>1, <1>2 DEF CountedNext, Next

LEMMA CountedTypes == TypeOK /\ [CountedNext]_<<vars, countVars>> => TypeOK'
<1> SUFFICES ASSUME TypeOK, BarPanics PROVE TypeOK'
  BY CountedSteps, NextTypes
<1> USE DEF TypeOK
<1>1. CASE ProcessEnds("panicked") /\ UNCHANGED <<cliVars, faults, countVars>>
  BY <1>1, ProcessEndsTypes DEF SrvTypes, SenderTypeOK, cliVars
<1>2. ASSUME NEW s \in Sessions, ClientEnded(s), UNCHANGED <<srvVars, diskVars, faults, countVars>>
      PROVE  TypeOK'
  BY <1>2, ClientClosesTypes
  DEF ClientEnded, Become, ClientEnds, ServerTypeOK, SenderTypeOK, StoreTypeOK, srvVars, diskVars
<1> QED BY <1>1, <1>2 DEF BarPanics

LEMMA CountedAgree == TypeOK /\ AgreeInv /\ [CountedNext]_<<vars, countVars>> => AgreeInv'
<1> SUFFICES ASSUME TypeOK, AgreeInv, BarPanics PROVE AgreeInv'
  BY CountedSteps, AgreeNext
<1>1. CASE ProcessEnds("panicked") /\ UNCHANGED <<cliVars, faults, countVars>>
  BY <1>1, ProcessEndsAgree DEF cliVars
<1>2. ASSUME NEW s \in Sessions, ClientEnded(s), UNCHANGED <<srvVars, diskVars, faults, countVars>>
      PROVE  AgreeInv'
  BY <1>2, AgreeClient DEF srvVars
<1> QED BY <1>1, <1>2 DEF BarPanics

LEMMA CountedDialogue ==
  ASSUME OneChunkSize, TypeOK, TypeOK', AgreeInv, DialogueInv, [CountedNext]_<<vars, countVars>>
  PROVE  DialogueInv'
<1> SUFFICES ASSUME BarPanics PROVE DialogueInv'
  BY CountedSteps, DialogueNext
<1>1. CASE ProcessEnds("panicked") /\ UNCHANGED <<cliVars, faults, countVars>>
  BY <1>1, ProcessEndsTurns DEF cliVars, TypeOK, SrvTypes
<1>2. ASSUME NEW s \in Sessions, ClientEnded(s), UNCHANGED <<srvVars, diskVars, faults, countVars>>
      PROVE  DialogueInv'
  BY <1>2, DialogueClient
<1> QED BY <1>1, <1>2 DEF BarPanics

-----------------------------------------------------------------------------
(* A step of the whole program. *)

(* The end of the process. *)
LEMMA ProcessEndsCounts ==
  ASSUME CountTypes, CountInv, NEW how, ProcessEnds(how), UNCHANGED countVars
  PROVE  CountTypes' /\ CountInv'
<1>1. CountTypes' /\ UNCHANGED <<received, chunkSize, stateFile, mode, chunkIdx, offered, got, sent>>
  BY DEF CountTypes, countVars, ProcessEnds, diskVars
<1>2. ASSUME NEW t \in Sessions PROVE CountSession(t)'
  <2>0. CountSession(t)
    BY DEF CountInv
  <2>1. CASE sPc[t] \in ServerEnds \cup {"idle"}
    <3>1. UNCHANGED <<sPc[t], toServer[t]>>
      BY <2>1 DEF ProcessEnds
    <3> QED BY <1>1, <2>0, <3>1, CountSame
  <2>2. CASE sPc[t] \notin ServerEnds \cup {"idle"}
    <3>1. sPc'[t] = "dead"
      BY <2>2 DEF ProcessEnds
    <3> QED BY <1>1, <2>0, <3>1, CountEnds
  <2> QED BY <2>1, <2>2
<1> QED BY <1>1, <1>2 DEF CountInv

LEMMA CountDial ==
  ASSUME TypeOK, AgreeInv, CountInv, NEW s \in Sessions, Dial(s), UNCHANGED countVars
  PROVE  CountInv'
<1>1. /\ sPc[s] = "idle" /\ UNCHANGED <<mode, received, chunkIdx, toServer, chunkSize, stateFile>>
      /\ UNCHANGED <<offered, got, sent>>
  BY DEF Dial, AgreeInv, diskVars, countVars
<1>2. sPc'[s] = "accept" /\ \A t \in Sessions \ {s} : sPc'[t] = sPc[t]
  BY DEF Dial, Goto, TypeOK, ServerTypeOK
<1>3. ASSUME NEW t \in Sessions \ {s} PROVE CountSession(t)'
  BY <1>1, <1>2, <1>3, CountSame DEF CountInv
<1>4. CountSession(s)'
  BY <1>1, <1>2 DEF CountInv, CountSession, BeforeDecision, InTurns, WithChunks, AfterChunks
<1> QED BY <1>1, <1>3, <1>4 DEF CountInv

LEMMA CountLost ==
  ASSUME TypeOK, CountInv, NEW s \in Sessions, DialogueSession(s), ConnectionLost(s),
         UNCHANGED <<srvVars, diskVars, countVars>>
  PROVE  CountInv'
<1>1. UNCHANGED <<sPc, mode, received, chunkIdx, chunkSize, stateFile, offered, got, sent>>
  BY DEF srvVars, diskVars, countVars
<1>2. toServer'[s] = <<>> /\ \A t \in Sessions \ {s} : toServer'[t] = toServer[t]
  BY DEF ConnectionLost, TypeOK, WireTypeOK
<1>3. ASSUME NEW t \in Sessions \ {s} PROVE CountSession(t)'
  BY <1>1, <1>2, <1>3, CountSame DEF CountInv
<1>4. CountSession(s)'
  <2>1. CountSession(s)
    BY DEF CountInv
  <2>2. /\ sPc[s] \in InTurns \cup AfterChunks => got[s] <= sent[s]
        /\ sPc[s] = "open" /\ mode[s] = "resumed" => offered[s] <= sent[s]
    BY <2>1 DEF CountSession
  <2> QED BY <1>1, <1>2, <2>1, <2>2, CountGrows
<1> QED BY <1>1, <1>3, <1>4 DEF CountInv

LEMMA CountsServer ==
  ASSUME OneChunkSize, TypeOK, DialogueInv, DialogueInv', CountTypes, CountInv,
         NEW s \in Sessions, UNCHANGED <<cPc, clientChunk>>,
         \/ ServerStep(s) /\ ServerCounts(s)
         \/ ServerFault(s) /\ FaultCounts
  PROVE  CountTypes' /\ CountInv'
<1> USE DEF TypeOK, SrvTypes, CliTypes
<1>1. DialogueSession(s) /\ DialogueSession(s)' /\ CountSession(s) /\ ClaimsInFile
  BY DEF DialogueInv, CountInv, ClaimsInFile
<1>2. /\ CountSession(s)' /\ ClaimsInFile' /\ CountTypes'
      /\ \A t \in Sessions \ {s} : UNCHANGED <<offered[t], got[t], sent[t]>>
  BY <1>1, CountServer
<1>3. ASSUME NEW t \in Sessions \ {s} PROVE CountSession(t)'
  <2>1. ~Panics(s)
    BY DialogueServer
  <2>2. Untouched(t) /\ OthersKept(s) /\ UNCHANGED chunkSize
    BY <2>1, ServerFrame, ServerOthers DEF Framed
  <2>3. UNCHANGED <<offered[t], got[t], sent[t]>>
    BY <1>2
  <2>4. CountSession(t)
    BY DEF CountInv
  <2> QED BY <2>2, <2>3, <2>4, CountSame DEF Untouched, OthersKept
<1> QED BY <1>2, <1>3 DEF CountInv, ClaimsInFile

LEMMA CountsClient ==
  ASSUME OneChunkSize, TypeOK, DialogueInv, CountTypes, CountInv, NEW s \in Sessions,
         UNCHANGED <<srvVars, diskVars>>,
         \/ ClientStep(s) /\ ClientCounts(s)
         \/ ClientEnded(s) /\ UNCHANGED countVars
  PROVE  CountTypes' /\ CountInv'
<1> USE DEF TypeOK, SrvTypes, CliTypes
<1>1. /\ CountSession(s)' /\ CountTypes' /\ UNCHANGED <<offered, got>>
      /\ \A t \in Sessions \ {s} : UNCHANGED sent[t]
  BY CountClient DEF DialogueInv, CountInv
<1>2. ASSUME NEW t \in Sessions \ {s} PROVE CountSession(t)'
  <2>1. toServer'[t] = toServer[t] /\ CountSession(t)
    BY ClientFrame DEF ClientFramed, CountInv
  <2> QED BY <1>1, <2>1, CountSame DEF srvVars
<1>3. UNCHANGED stateFile
  BY DEF diskVars
<1>4. ClaimsInFile'
  BY <1>3 DEF CountInv, ClaimsInFile
<1> QED BY <1>1, <1>2, <1>4 DEF CountInv, ClaimsInFile

LEMMA CountsNext ==
  ASSUME OneChunkSize, TypeOK, TypeOK', AgreeInv, DialogueInv, DialogueInv', CountTypes, CountInv,
         [CountedNext]_<<vars, countVars>>
  PROVE  CountTypes' /\ CountInv'
<1>1. CASE (RestartServer \/ UNCHANGED vars) /\ UNCHANGED countVars
  <2>1. UNCHANGED <<sPc, mode, received, chunkIdx, toServer, stateFile, offered, got, sent>>
    BY <1>1 DEF RestartServer, Restart, vars, srvVars, diskVars, wireVars, countVars
  <2>2. UNCHANGED chunkSize
    BY SameChunk DEF TypeOK
  <2> QED BY <2>1, <2>2, CountSame DEF CountInv, CountTypes
<1>2. ASSUME NEW s \in Sessions, Dial(s), UNCHANGED countVars PROVE CountTypes' /\ CountInv'
  BY <1>2, CountDial DEF CountTypes, countVars
<1>3. ASSUME NEW s \in Sessions, UNCHANGED cliVars,
             \/ ServerStep(s) /\ ServerCounts(s)
             \/ ServerFault(s) /\ FaultCounts
      PROVE  CountTypes' /\ CountInv'
  BY <1>3, CountsServer DEF cliVars
<1>4. ASSUME NEW s \in Sessions, UNCHANGED <<srvVars, diskVars>>,
             \/ ClientStep(s) /\ ClientCounts(s)
             \/ ClientEnded(s) /\ UNCHANGED countVars
      PROVE  CountTypes' /\ CountInv'
  BY <1>4, CountsClient
<1>5. ASSUME NEW how, ProcessEnds(how), UNCHANGED countVars PROVE CountTypes' /\ CountInv'
  BY <1>5, ProcessEndsCounts
<1>6. ASSUME NEW s \in Sessions, ConnectionLost(s), UNCHANGED <<srvVars, diskVars, countVars>>
      PROVE  CountTypes' /\ CountInv'
  BY <1>6, CountLost DEF DialogueInv, CountTypes, countVars
<1>7. CASE Fault /\ FaultCounts
  <2>1. ASSUME \A t \in Sessions : sPc'[t] \in {sPc[t], "dead"} PROVE UNCHANGED countVars
    BY <1>7, <2>1, FaultCountsStay
  <2>2. CASE \E s \in Sessions : ServerFault(s) /\ UNCHANGED cliVars
    BY <1>3, <1>7, <2>2
  <2>3. CASE Crash /\ UNCHANGED cliVars
    <3>1. ProcessEnds("crashed")
      BY <2>3 DEF Crash
    <3>2. UNCHANGED countVars
      BY <2>1, <3>1 DEF ProcessEnds
    <3> QED BY <1>5, <3>1, <3>2
  <2>4. CASE \E s \in Sessions : ConnectionLost(s) /\ UNCHANGED <<srvVars, cliVars, diskVars>>
    BY <1>6, <2>1, <2>4 DEF srvVars
  <2>5. CASE \E s \in Sessions : ClientEnded(s) /\ UNCHANGED <<srvVars, diskVars>>
    BY <1>4, <2>1, <2>5 DEF srvVars
  <2> QED BY <1>7, <2>2, <2>3, <2>4, <2>5 DEF Fault
<1>8. ASSUME NEW s \in Sessions, ServerBarPanics(s) \/ ClientBarPanics(s)
      PROVE  CountTypes' /\ CountInv'
  BY <1>4, <1>5, <1>8, ClientBarEnds DEF ServerBarPanics
<1> QED
  BY <1>1, <1>2, <1>3, <1>4, <1>7, <1>8 DEF CountedNext, ServerMoves, ClientMoves

-----------------------------------------------------------------------------
(* With counters and bars that panic, whatever the chunk sizes: a client   *)
(* still reports success only for a session that was completed             *)
(* (client.go:232, server.go:266-270, progress.go:136).                    *)
THEOREM CountedAgreement == CountedSpec => []NoFalseSuccess
<1>1. Init /\ CountInit => TypeOK /\ AgreeInv
  BY InitTypes, AgreeInit
<1>2. TypeOK /\ AgreeInv /\ [CountedNext]_<<vars, countVars>> => TypeOK' /\ AgreeInv'
  BY CountedTypes, CountedAgree
<1>3. AgreeInv => NoFalseSuccess
  BY DEF AgreeInv
<1> QED
  BY <1>1, <1>2, <1>3, PTL DEF CountedSpec

(* What the theorems below are proved from. *)
CountedInv == TypeOK /\ AgreeInv /\ DialogueInv /\ CountTypes /\ CountInv

LEMMA CountedKept ==
  ASSUME OneChunkSize
  PROVE  CountedSpec => []CountedInv
<1>1. Init /\ CountInit => CountedInv
  BY InitTypes, AgreeInit, DialogueInit, CountsStart DEF CountedInv
<1>2. CountedInv /\ [CountedNext]_<<vars, countVars>> => CountedInv'
  BY CountedTypes, CountedAgree, CountedDialogue, CountsNext DEF CountedInv
<1> QED
  BY <1>1, <1>2, PTL DEF CountedSpec

(* Both counts follow the list of received chunks, the client's at least   *)
(* as far as the server's (server.go:228, 478; client.go:101, 440).        *)
THEOREM CountsKept ==
  ASSUME OneChunkSize
  PROVE  CountedSpec => []CountInv
<1>1. CountedInv => CountInv
  BY DEF CountedInv
<1> QED
  BY <1>1, CountedKept, PTL

(* Client and server take turns (server.go:120-187, 430-490) also where a  *)
(* bar may end either of them (progress.go:136).                           *)
THEOREM CountedTurns ==
  ASSUME OneChunkSize
  PROVE  CountedSpec => []DialogueInv
<1>1. CountedInv => DialogueInv
  BY DEF CountedInv
<1> QED
  BY <1>1, CountedKept, PTL

(* A list that holds every chunk counts as the file and what is missing of *)
(* its last chunk.                                                         *)
LEMMA CountsAtTheEnd ==
  ASSUME CountedInv, NEW s \in Sessions, sPc[s] \in AfterChunks
  PROVE  FileSize[s] <= got[s] /\ got[s] < FileSize[s] + chunkSize /\ got[s] <= sent[s]
<1> DEFINE N == NumChunksOf(s)
<1>1. ServerTypeOK /\ CountSession(s) /\ got[s] \in Int /\ sent[s] \in Int
  BY DEF CountedInv, TypeOK, CountInv, CountTypes
<1>2. N \in Nat /\ chunkSize \in Nat /\ chunkSize > 0 /\ FileSize[s] \in Nat
  <2>1. chunkSize \in Nat /\ chunkSize > 0 /\ FileSize[s] \in Nat
    BY <1>1, ServerNumbers, ConstantTypes
  <2> QED BY <2>1, Ceiling DEF NumChunksOf
<1>3. Missing(s) \in Nat /\ Missing(s) < chunkSize /\ N * chunkSize = FileSize[s] + Missing(s)
  BY <1>1, MissingBounds
<1>4. /\ received[s] \subseteq 0 .. (N - 1)
      /\ 0 .. (chunkIdx[s] - 1) \subseteq received[s] /\ chunkIdx[s] >= N
      /\ Counted(s) /\ got[s] <= sent[s]
  BY <1>1 DEF CountSession, ChunksOf, NumChunksOf
<1>5. received[s] = 0 .. (N - 1)
  <2>1. chunkIdx[s] \in Nat
    BY <1>1, ServerNumbers
  <2> HIDE DEF N
  <2>2. 0 .. (N - 1) \subseteq 0 .. (chunkIdx[s] - 1)
    BY <1>2, <1>4, <2>1
  <2> QED BY <1>4, <2>2
<1>6. Cardinality(0 .. (N - 1)) = N
  <2>1. N - 1 \in Int /\ (N = 0 <=> 0 > N - 1) /\ (N - 1) - 0 + 1 = N
    <3> HIDE DEF N
    <3> QED BY <1>2
  <2> HIDE DEF N
  <2> QED BY <1>2, <2>1, FS_Interval
<1>7. ResumeOffset(received[s]) = N * chunkSize
  BY <1>5, <1>6 DEF ResumeOffset
<1>8. /\ got[s] <= FileSize[s] + Missing(s)
      /\ FileSize[s] + Missing(s) <= got[s] + Missing(s)
  <2>1. /\ got[s] <= ResumeOffset(received[s])
        /\ ResumeOffset(received[s]) <= got[s] + (IF N - 1 \in received[s] THEN Missing(s) ELSE 0)
    BY <1>4 DEF Counted
  <2>2. ResumeOffset(received[s]) = FileSize[s] + Missing(s)
    BY <1>3, <1>7
  <2> HIDE DEF N
  <2> QED BY <1>1, <1>2, <1>3, <2>1, <2>2
<1> QED BY <1>1, <1>2, <1>3, <1>4, <1>8

(* When a transfer is through, the server has counted every byte of the    *)
(* file and less than a chunk more, and a client that reports success at   *)
(* least every byte (server.go:228, 478; client.go:101, 440), whatever was *)
(* asked for twice or taken over from an earlier run.                      *)
THEOREM CountsWhole ==
  ASSUME OneChunkSize
  PROVE  CountedSpec => []CountsAddUp
<1>1. CountedInv => CountsAddUp
  <2> SUFFICES ASSUME CountedInv, NEW s \in Sessions
               PROVE  /\ sPc[s] = "completed" =>
                            FileSize[s] <= got[s] /\ got[s] < FileSize[s] + chunkSize
                      /\ cPc[s] = "ok" => FileSize[s] <= sent[s]
    BY DEF CountsAddUp
  <2>1. cPc[s] = "ok" => sPc[s] = "completed"
    BY DEF CountedInv, AgreeInv, NoFalseSuccess
  <2>2. FileSize[s] \in Int /\ got[s] \in Int /\ sent[s] \in Int
    BY ConstantTypes DEF CountedInv, CountTypes
  <2> QED BY <2>1, <2>2, CountsAtTheEnd DEF AfterChunks
<1> QED
  BY <1>1, CountedKept, PTL
=============================================================================
