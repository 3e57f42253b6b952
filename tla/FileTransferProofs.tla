------------------------- MODULE FileTransferProofs -------------------------
(***************************************************************************)
(* Theorems about FileTransfer, for every number of sessions, every file,  *)
(* every chunk size and any number of faults.                              *)
(***************************************************************************)
EXTENDS FileTransfer, TLAPS

(* The steps in which a goroutine takes the process with it. *)
Panics(s) == NilStatePanic(s) \/ MisreadPanics(s)

-----------------------------------------------------------------------------
(* Facts about the operators. *)

(* What the assumptions on the constants say of one session or chunk size. *)
LEMMA ConstantTypes ==
  /\ MaxSize \in Nat /\ Retries \in Nat /\ MaxFaults \in Nat
  /\ NoFile \notin Sessions
  /\ \A s \in Sessions : FileSize[s] \in Nat /\ FileSize[s] <= MaxSize
  /\ \A cs \in ServerChunks \cup ClientChunks : cs \in Nat /\ cs > 0
<1>1. MaxSize \in Nat /\ Retries \in Nat /\ MaxFaults \in Nat /\ NoFile \notin Sessions
  BY SizeAssumption, ReceiverAssumption, OverlapAssumption, NoFileAssumption
<1>2. \A s \in Sessions : FileSize[s] \in Nat /\ FileSize[s] <= MaxSize
  BY SizeAssumption, FilesAssumption
<1>3. \A cs \in ServerChunks \cup ClientChunks : cs \in Nat /\ cs > 0
  BY ReceiverAssumption, SenderAssumption
<1> QED BY <1>1, <1>2, <1>3

(* A queue keeps its type when a message is flushed into it. *)
LEMMA SentType ==
  ASSUME NEW M, NEW q \in [Sessions -> Seq(M)], NEW m \in M, NEW s \in Sessions
  PROVE  Sent(s, q, m) \in [Sessions -> Seq(M)]
BY DEF Sent

(* A queue keeps its type when its first message is read. *)
LEMMA TakenType ==
  ASSUME NEW M, NEW q \in [Sessions -> Seq(M)], NEW s \in Sessions, q[s] # <<>>
  PROVE  Taken(s, q) \in [Sessions -> Seq(M)]
BY DEF Taken

(* Whatever is written where, a file's content stays a content. *)
LEMMA WriteAtType ==
  ASSUME NEW c \in Content, NEW off \in Int, NEW n \in Int, NEW src \in Content,
         NEW from \in Int
  PROVE  WriteAt(c, off, n, src, from) \in Content
BY DEF WriteAt, Content, Pos, Garbage, Hole, Eof

LEMMA TruncateToType ==
  ASSUME NEW c \in Content, NEW size \in Int
  PROVE  TruncateTo(c, size) \in Content
BY DEF TruncateTo, Content, Pos, Hole, Eof

LEMMA SourceType ==
  ASSUME NEW s \in Sessions
  PROVE  Source(s) \in Content
<1> SUFFICES ASSUME NEW p \in Pos, p < FileSize[s] PROVE FileCells[s][p] \in Int
  BY DEF Source, Content, Eof
<1> QED BY FilesAssumption

LEMMA EmptyType == Empty \in Content
BY DEF Empty, Content, Pos, Eof

(* The numbers the server computes with. *)
LEMMA ServerNumbers ==
  ASSUME ServerTypeOK, NEW s \in Sessions
  PROVE  /\ chunkSize \in Nat /\ chunkSize > 0
         /\ chunkIdx[s] \in Nat
         /\ CurrentOffset(s) \in Int
         /\ NumChunksOf(s) \in Int
<1>1. chunkSize \in Nat /\ chunkSize > 0
  BY ConstantTypes DEF ServerTypeOK
<1>2. FileSize[s] \in Nat
  BY ConstantTypes
<1>3. chunkIdx[s] \in Nat
  BY DEF ServerTypeOK
<1>4. CurrentOffset(s) \in Int
  BY <1>1, <1>3 DEF CurrentOffset, ChunkOffset
<1>5. NumChunksOf(s) \in Int
  BY <1>1, <1>2 DEF NumChunksOf, NumChunks
<1> QED BY <1>1, <1>3, <1>4, <1>5

(* The messages the two sides construct. *)
LEMMA ServerMessageType ==
  /\ \A b \in BOOLEAN, t \in Int : ResumeMsg(b, t) \in ServerMessages
  /\ \A off \in Int : RequestMsg(off) \in ServerMessages
  /\ \A c \in {"HashAlgo", "HashRequest", "Verdict", "Complete", "Error"} :
       Plain(c) \in ServerMessages
BY DEF ResumeMsg, RequestMsg, Plain, ServerMessages

LEMMA ClientMessageType ==
  /\ InitMsg \in ClientMessages
  /\ \A b \in BOOLEAN : AckMsg(b) \in ClientMessages
  /\ \A off, n \in Int : DataMsg(off, n) \in ClientMessages
  /\ \A c \in Content : HashMsg(c) \in ClientMessages
BY DEF InitMsg, AckMsg, DataMsg, HashMsg, ClientMessages

(* What the fields of a received message are. *)
LEMMA ClientMessageFields ==
  ASSUME NEW m \in ClientMessages
  PROVE  /\ m.cmd = "Data" => m.off \in Int /\ m.n \in Int
         /\ m.cmd = "Ack" => m.accept \in BOOLEAN
         /\ m.cmd = "Hash" => m.sum \in Content
BY DEF ClientMessages

LEMMA ServerMessageFields ==
  ASSUME NEW m \in ServerMessages
  PROVE  /\ m.cmd = "Request" => m.off \in Int
         /\ m.cmd = "Resume" => m.can \in BOOLEAN /\ m.total \in Int
         /\ m.cmd \in {"Resume", "Request", "HashAlgo", "HashRequest", "Verdict",
                       "Complete", "Error"}
BY DEF ServerMessages

-----------------------------------------------------------------------------
(* Type correctness. *)

SrvTypes == ServerTypeOK /\ WireTypeOK /\ StoreTypeOK

LEMMA ConnectionTypes ==
  ASSUME SrvTypes, NEW s \in Sessions, Abort(s)
  PROVE  WireTypeOK'
<1>1. Sent(s, toClient, Plain("Error")) \in [Sessions -> Seq(ServerMessages)]
  BY SentType, ServerMessageType DEF SrvTypes, WireTypeOK
<1> QED
  BY <1>1 DEF SrvTypes, WireTypeOK, Abort, ServerCloses

LEMMA RetryTypes ==
  ASSUME SrvTypes, NEW s \in Sessions, RetryChunk(s)
  PROVE  /\ toClient' \in [Sessions -> Seq(ServerMessages)]
         /\ attempt' \in [Sessions -> Attempts]
         /\ \/ sPc' = sPc
            \/ sPc' = [sPc EXCEPT ![s] = "failSave"]
<1>1. CurrentOffset(s) \in Int
  BY ServerNumbers DEF SrvTypes
<1>2. Sent(s, toClient, RequestMsg(CurrentOffset(s))) \in [Sessions -> Seq(ServerMessages)]
  BY <1>1, SentType, ServerMessageType DEF SrvTypes, WireTypeOK
<1>3. CASE attempt[s] + 1 < Retries
  <2>1. attempt' = [attempt EXCEPT ![s] = attempt[s] + 1] /\ sPc' = sPc
    BY <1>3 DEF RetryChunk
  <2>2. toClient' \in [Sessions -> Seq(ServerMessages)]
    BY <1>2, <1>3 DEF RetryChunk
  <2>3. attempt[s] + 1 \in Attempts
    BY <1>3, ConstantTypes DEF SrvTypes, ServerTypeOK, Attempts
  <2>4. attempt' \in [Sessions -> Attempts]
    BY <2>1, <2>3 DEF SrvTypes, ServerTypeOK
  <2> QED BY <2>1, <2>2, <2>4
<1>4. CASE ~(attempt[s] + 1 < Retries)
  BY <1>4 DEF SrvTypes, WireTypeOK, ServerTypeOK, RetryChunk, Goto
<1> QED
  BY <1>3, <1>4

LEMMA SavedType ==
  ASSUME ServerTypeOK, NEW s \in Sessions
  PROVE  SavedState(s) \in [kind : {"absent", "torn", "saved"},
                            size : Nat, chunk : Nat, recv : SUBSET Int]
BY ServerNumbers, ConstantTypes DEF SavedState, StateRecord, ServerTypeOK

LEMMA ProcessEndsTypes ==
  ASSUME SrvTypes, NEW how \in {"crashed", "panicked"}, ProcessEnds(how)
  PROVE  SrvTypes'
<1>1. StoreTypeOK'
  BY DEF ProcessEnds, SrvTypes, StoreTypeOK, diskVars
<1>2. WireTypeOK'
  BY DEF ProcessEnds, SrvTypes, WireTypeOK
<1>3. ServerTypeOK'
  BY DEF ProcessEnds, SrvTypes, ServerTypeOK, ServerEnds
<1> QED
  BY <1>1, <1>2, <1>3 DEF SrvTypes

LEMMA ServerStepTypes ==
  ASSUME SrvTypes, NEW s \in Sessions, ServerStep(s)
  PROVE  SrvTypes'
<1> USE DEF SrvTypes, Goto, ServerEnds
<1>1. CASE ReadInit(s)
  <2>1. WireTypeOK'
    <3>1. CASE FileSize[s] = 0
      BY <1>1, <3>1, ConnectionTypes DEF ReadInit
    <3>2. CASE FileSize[s] # 0
      <4>1. Taken(s, toServer) \in [Sessions -> Seq(ClientMessages)]
        BY <1>1, TakenType DEF ReadInit, WireTypeOK, HasCommand
      <4> QED BY <1>1, <3>2, <4>1 DEF ReadInit, WireTypeOK
    <3> QED BY <3>1, <3>2
  <2>2. ServerTypeOK' /\ StoreTypeOK'
    BY <1>1 DEF ReadInit, Abort, ServerTypeOK, StoreTypeOK, diskVars
  <2> QED BY <2>1, <2>2
<1>2. CASE InitLost(s)
  <2>1. WireTypeOK'
    BY <1>2, ConnectionTypes DEF InitLost
  <2>2. ServerTypeOK' /\ StoreTypeOK'
    BY <1>2 DEF InitLost, Abort, ServerTypeOK, StoreTypeOK, diskVars
  <2> QED BY <2>1, <2>2
<1>3. CASE TryResumeTransfer(s)
  <2> DEFINE fits == /\ stateFile.kind = "saved"
                     /\ stateFile.size = FileSize[s]
                     /\ stateFile.chunk = chunkSize
  <2>1. NumChunksOf(s) \in Int
    BY ServerNumbers
  <2>2. Sent(s, toClient, ResumeMsg(fits, NumChunksOf(s))) \in [Sessions -> Seq(ServerMessages)]
    BY <2>1, SentType, ServerMessageType DEF WireTypeOK
  <2>3. WireTypeOK'
    BY <1>3, <2>2 DEF TryResumeTransfer, WireTypeOK
  <2>4. ServerTypeOK' /\ StoreTypeOK'
    BY <1>3 DEF TryResumeTransfer, ServerTypeOK, StoreTypeOK, diskVars
  <2> QED BY <2>3, <2>4
<1>4. CASE ResumeDecision(s)
  BY <1>4, TakenType DEF ResumeDecision, ServerTypeOK, WireTypeOK, StoreTypeOK, HasCommand, diskVars
<1>5. CASE DropPartialFile(s)
  BY <1>5 DEF DropPartialFile, RemoveOutput, ServerTypeOK, WireTypeOK, StoreTypeOK, wireVars
<1>6. CASE DropPartialState(s)
  BY <1>6 DEF DropPartialState, RemoveTransferState, NoState, StateRecord, ServerTypeOK,
              WireTypeOK, StoreTypeOK, wireVars
<1>7. CASE OpenOutput(s)
  <2>0. sPc' \in [Sessions -> {"idle", "accept", "load", "ack", "dropFile", "dropState",
                              "open", "alloc", "loop", "reply", "save", "saving",
                              "failSave", "failSaving", "verify", "hash", "discard",
                              "cleanup", "complete"} \cup ServerEnds]
    BY <1>7 DEF OpenOutput, ServerTypeOK
  <2>1. CASE mode[s] = "resumed" /\ outFile # NoFile
    <3>1. StoreTypeOK'
      BY <1>7, <2>1 DEF OpenOutput, StoreTypeOK
    <3>2. fd' \in [Sessions -> Sessions]
      BY <1>7, <2>1 DEF OpenOutput, ServerTypeOK, StoreTypeOK
    <3>3. ServerTypeOK'
      BY <1>7, <2>0, <3>2 DEF OpenOutput, ServerTypeOK
    <3>4. WireTypeOK'
      BY <1>7 DEF OpenOutput, WireTypeOK, wireVars
    <3> QED BY <3>1, <3>3, <3>4
  <2>2. CASE ~(mode[s] = "resumed" /\ outFile # NoFile)
    <3>1. CreatedFile(s) \in Sessions
      BY DEF CreatedFile, StoreTypeOK
    <3>2. StoreTypeOK'
      BY <1>7, <2>2, <3>1, EmptyType DEF OpenOutput, CreateOutput, StoreTypeOK
    <3>3. fd' \in [Sessions -> Sessions]
      BY <1>7, <2>2, <3>1 DEF OpenOutput, ServerTypeOK
    <3>4. ServerTypeOK'
      BY <1>7, <2>0, <3>3 DEF OpenOutput, ServerTypeOK
    <3>5. WireTypeOK'
      BY <1>7 DEF OpenOutput, WireTypeOK, wireVars
    <3> QED BY <3>2, <3>4, <3>5
  <2> QED BY <2>1, <2>2
<1>8. CASE PreallocateFile(s)
  <2>1. TruncateTo(data[fd[s]], FileSize[s]) \in Content
    BY TruncateToType, ConstantTypes DEF ServerTypeOK, StoreTypeOK
  <2> QED
    BY <1>8, <2>1 DEF PreallocateFile, ServerTypeOK, WireTypeOK, StoreTypeOK, wireVars
<1>9. CASE SkipReceivedChunk(s)
  BY <1>9 DEF SkipReceivedChunk, ServerTypeOK, WireTypeOK, StoreTypeOK, wireVars, diskVars
<1>10. CASE RequestChunk(s)
  <2>1. CurrentOffset(s) \in Int
    BY ServerNumbers
  <2>2. Sent(s, toClient, RequestMsg(CurrentOffset(s))) \in [Sessions -> Seq(ServerMessages)]
    BY <2>1, SentType, ServerMessageType DEF WireTypeOK
  <2> QED
    BY <1>10, <2>2 DEF RequestChunk, Attempts, ServerTypeOK, WireTypeOK, StoreTypeOK, diskVars
<1>11. CASE ReceiveChunk(s)
  <2> DEFINE m == Head(toServer[s])
  <2>1. toServer[s] # <<>> /\ m.cmd = "Data" /\ m \in ClientMessages
    BY <1>11 DEF ReceiveChunk, ChunkArrived, HasCommand, WireTypeOK
  <2>2. m.off \in Int /\ m.n \in Int
    BY <2>1, ClientMessageFields
  <2>3. CurrentOffset(s) \in Int
    BY ServerNumbers
  <2>4. WriteAt(data[fd[s]], CurrentOffset(s), m.n, Source(s), m.off) \in Content
    BY <2>2, <2>3, WriteAtType, SourceType DEF ServerTypeOK, StoreTypeOK
  <2>5. StoreTypeOK'
    BY <1>11, <2>4 DEF ReceiveChunk, StoreTypeOK
  <2>6. WireTypeOK'
    BY <1>11, <2>1, TakenType DEF ReceiveChunk, WireTypeOK
  <2>7. received' \in [Sessions -> SUBSET Int]
    BY <1>11 DEF ReceiveChunk, ServerTypeOK
  <2>8. ServerTypeOK'
    BY <1>11, <2>7 DEF ReceiveChunk, ServerTypeOK
  <2> QED BY <2>5, <2>6, <2>8
<1>12. CASE ReceiveOversizedChunk(s)
  <2>1. toServer[s] # <<>>
    BY <1>12 DEF ReceiveOversizedChunk, ChunkArrived, HasCommand
  <2>2. RetryChunk(s)
    BY <1>12 DEF ReceiveOversizedChunk
  <2> QED
    BY <1>12, <2>1, <2>2, RetryTypes, TakenType
    DEF ReceiveOversizedChunk, ServerTypeOK, WireTypeOK, StoreTypeOK, diskVars
<1>13. CASE MisreadChunk(s)
  <2>1. toServer' \in [Sessions -> Seq(ClientMessages)]
    BY <1>13 DEF MisreadChunk, WireTypeOK
  <2>2. CASE RetryChunk(s) /\ UNCHANGED <<data, received>>
    <3>1. ServerTypeOK'
      BY <1>13, <2>2, RetryTypes DEF MisreadChunk, ServerTypeOK
    <3>2. WireTypeOK'
      BY <1>13, <2>1, <2>2, RetryTypes DEF MisreadChunk, WireTypeOK
    <3>3. StoreTypeOK'
      BY <1>13, <2>2 DEF MisreadChunk, StoreTypeOK
    <3> QED BY <3>1, <3>2, <3>3
  <2>3. CASE /\ \E n \in 1 .. chunkSize :
                  data' = [data EXCEPT ![fd[s]] =
                             WriteAt(@, CurrentOffset(s), n, Source(s), MaxSize)]
             /\ received' = [received EXCEPT ![s] = @ \cup {chunkIdx[s]}]
             /\ Goto(s, "save")
             /\ UNCHANGED <<attempt, toClient>>
    <3>1. CurrentOffset(s) \in Int
      BY ServerNumbers
    <3>2. \A n \in Int : WriteAt(data[fd[s]], CurrentOffset(s), n, Source(s), MaxSize) \in Content
      <4>1. data[fd[s]] \in Content /\ MaxSize \in Int /\ Source(s) \in Content
        BY SourceType, ConstantTypes DEF ServerTypeOK, StoreTypeOK
      <4> QED BY <3>1, <4>1, WriteAtType
    <3>3. PICK n \in 1 .. chunkSize :
            data' = [data EXCEPT ![fd[s]] = WriteAt(@, CurrentOffset(s), n, Source(s), MaxSize)]
      BY <2>3
    <3>4. n \in Int
      BY DEF ServerTypeOK
    <3>5. data' \in [Sessions -> Content]
      BY <3>2, <3>3, <3>4 DEF StoreTypeOK
    <3>6. received' \in [Sessions -> SUBSET Int]
      BY <2>3 DEF ServerTypeOK
    <3> QED
      BY <1>13, <2>1, <2>3, <3>5, <3>6 DEF MisreadChunk, ServerTypeOK, WireTypeOK, StoreTypeOK
  <2> QED BY <1>13, <2>2, <2>3 DEF MisreadChunk
<1>14. CASE ChunkLost(s)
  <2>1. RetryChunk(s)
    BY <1>14 DEF ChunkLost
  <2> QED
    BY <1>14, <2>1, RetryTypes DEF ChunkLost, ServerTypeOK, WireTypeOK, StoreTypeOK, diskVars
<1>15. CASE TruncateState(s)
  BY <1>15 DEF TruncateState, TornState, StateRecord, ServerTypeOK, WireTypeOK, StoreTypeOK, wireVars
<1>16. CASE SaveState(s)
  BY <1>16, SavedType DEF SaveState, ServerTypeOK, WireTypeOK, StoreTypeOK, wireVars
<1>17. CASE SaveStateAndFail(s)
  <2>1. WireTypeOK'
    BY <1>17, ConnectionTypes DEF SaveStateAndFail
  <2>2. ServerTypeOK' /\ StoreTypeOK'
    BY <1>17, SavedType DEF SaveStateAndFail, Abort, ServerTypeOK, StoreTypeOK
  <2> QED BY <2>1, <2>2
<1>18. CASE AllChunksDone(s)
  BY <1>18 DEF AllChunksDone, ServerTypeOK, WireTypeOK, StoreTypeOK, wireVars, diskVars
<1>19. CASE RequestHash(s)
  <2>1. Sent(s, toClient, Plain("HashAlgo")) \in [Sessions -> Seq(ServerMessages)]
    BY SentType, ServerMessageType DEF WireTypeOK
  <2>2. toClient' \in [Sessions -> Seq(ServerMessages)]
    BY <1>19, <2>1, SentType, ServerMessageType DEF RequestHash
  <2> QED
    BY <1>19, <2>2 DEF RequestHash, ServerTypeOK, WireTypeOK, StoreTypeOK, diskVars
<1>20. CASE CompareHash(s)
  <2>1. \A c \in {"Verdict", "Error"} :
          Sent(s, toClient, Plain(c)) \in [Sessions -> Seq(ServerMessages)]
    BY SentType, ServerMessageType DEF WireTypeOK
  <2>2. WireTypeOK'
    BY <1>20, <2>1, TakenType DEF CompareHash, HasCommand, WireTypeOK
  <2>3. ServerTypeOK' /\ StoreTypeOK'
    BY <1>20 DEF CompareHash, ServerTypeOK, StoreTypeOK, diskVars
  <2> QED BY <2>2, <2>3
<1>21. CASE HashLost(s)
  BY <1>21 DEF HashLost, ServerTypeOK, WireTypeOK, StoreTypeOK, wireVars, diskVars
<1>22. CASE DiscardOutput(s)
  <2>1. WireTypeOK'
    BY <1>22, ConnectionTypes DEF DiscardOutput
  <2>2. ServerTypeOK' /\ StoreTypeOK'
    BY <1>22 DEF DiscardOutput, RemoveOutput, Abort, ServerTypeOK, StoreTypeOK
  <2> QED BY <2>1, <2>2
<1>23. CASE Cleanup(s)
  BY <1>23 DEF Cleanup, RemoveTransferState, NoState, StateRecord, ServerTypeOK, WireTypeOK,
               StoreTypeOK, wireVars
<1>24. CASE SendComplete(s)
  <2>1. Sent(s, toClient, Plain("Complete")) \in [Sessions -> Seq(ServerMessages)]
    BY SentType, ServerMessageType DEF WireTypeOK
  <2> QED
    BY <1>24, <2>1 DEF SendComplete, ServerCloses, ServerTypeOK, WireTypeOK, StoreTypeOK, diskVars
<1>25. CASE Panics(s)
  BY <1>25, ProcessEndsTypes DEF Panics, NilStatePanic, MisreadPanics
<1> QED
  BY <1>1, <1>2, <1>3, <1>4, <1>5, <1>6, <1>7, <1>8, <1>9, <1>10, <1>11, <1>12, <1>13, <1>14,
     <1>15, <1>16, <1>17, <1>18, <1>19, <1>20, <1>21, <1>22, <1>23, <1>24, <1>25 DEF ServerStep, Panics

LEMMA ServerFaultTypes ==
  ASSUME SrvTypes, NEW s \in Sessions, ServerFault(s)
  PROVE  SrvTypes'
<1> USE DEF SrvTypes, Goto, ServerEnds
<1>1. CASE InitTimeout(s)
  BY <1>1 DEF InitTimeout, ServerCloses, ServerTypeOK, WireTypeOK, StoreTypeOK, diskVars
<1>2. CASE PreallocateFails(s)
  BY <1>2 DEF PreallocateFails, ServerTypeOK, WireTypeOK, StoreTypeOK, diskVars, wireVars
<1>3. CASE WriteChunkFails(s)
  <2> DEFINE m == Head(toServer[s])
  <2>1. toServer[s] # <<>> /\ m.cmd = "Data" /\ m \in ClientMessages
    BY <1>3 DEF WriteChunkFails, ChunkArrived, HasCommand, WireTypeOK
  <2>2. m.off \in Int /\ m.n \in Int
    BY <2>1, ClientMessageFields
  <2>3. CurrentOffset(s) \in Int
    BY ServerNumbers
  <2>4. PICK n \in 0 .. (m.n - 1) :
          data' = [data EXCEPT ![fd[s]] = WriteAt(@, CurrentOffset(s), n, Source(s), m.off)]
    BY <1>3 DEF WriteChunkFails
  <2>5. n \in Int
    BY <2>2, <2>4
  <2>6. WriteAt(data[fd[s]], CurrentOffset(s), n, Source(s), m.off) \in Content
    BY <2>2, <2>3, <2>5, WriteAtType, SourceType DEF ServerTypeOK, StoreTypeOK
  <2>7. StoreTypeOK'
    BY <1>3, <2>4, <2>6 DEF WriteChunkFails, StoreTypeOK
  <2>8. RetryChunk(s)
    BY <1>3 DEF WriteChunkFails
  <2>9. ServerTypeOK'
    BY <1>3, <2>8, RetryTypes DEF WriteChunkFails, ServerTypeOK
  <2>10. WireTypeOK'
    BY <1>3, <2>1, <2>8, RetryTypes, TakenType DEF WriteChunkFails, WireTypeOK
  <2> QED BY <2>7, <2>9, <2>10
<1>4. CASE SaveStateFails(s)
  BY <1>4 DEF SaveStateFails, ServerTypeOK, WireTypeOK, StoreTypeOK, diskVars, wireVars
<1>5. CASE OpenOutputFails(s)
  <2>1. WireTypeOK'
    BY <1>5, ConnectionTypes DEF OpenOutputFails
  <2>2. ServerTypeOK' /\ StoreTypeOK'
    BY <1>5 DEF OpenOutputFails, Abort, ServerTypeOK, StoreTypeOK, diskVars
  <2> QED BY <2>1, <2>2
<1>6. CASE HashFails(s)
  <2>1. WireTypeOK'
    BY <1>6, TakenType DEF HashFails, HasCommand, WireTypeOK
  <2>2. ServerTypeOK' /\ StoreTypeOK'
    BY <1>6 DEF HashFails, ServerTypeOK, StoreTypeOK, diskVars
  <2> QED BY <2>1, <2>2
<1>7. CASE DiscardFails(s)
  <2>1. WireTypeOK'
    BY <1>7, ConnectionTypes DEF DiscardFails
  <2>2. ServerTypeOK' /\ StoreTypeOK'
    BY <1>7 DEF DiscardFails, Abort, ServerTypeOK, StoreTypeOK, diskVars
  <2> QED BY <2>1, <2>2
<1>8. CASE RemovalFails(s)
  BY <1>8 DEF RemovalFails, ServerTypeOK, WireTypeOK, StoreTypeOK, diskVars, wireVars
<1>9. CASE LastSaveFails(s)
  <2>1. WireTypeOK'
    BY <1>9, ConnectionTypes DEF LastSaveFails
  <2>2. ServerTypeOK' /\ StoreTypeOK'
    BY <1>9 DEF LastSaveFails, Abort, ServerTypeOK, StoreTypeOK, diskVars
  <2> QED BY <2>1, <2>2
<1>10. CASE ReopenFails(s)
  <2>1. CreatedFile(s) \in Sessions
    BY DEF CreatedFile, StoreTypeOK
  <2>2. ServerTypeOK' /\ WireTypeOK'
    BY <1>10, <2>1 DEF ReopenFails, ServerTypeOK, WireTypeOK, wireVars
  <2>3. StoreTypeOK'
    BY <1>10, <2>1, EmptyType DEF ReopenFails, CreateOutput, StoreTypeOK
  <2> QED BY <2>2, <2>3
<1> QED
  BY <1>1, <1>2, <1>3, <1>4, <1>5, <1>6, <1>7, <1>8, <1>9, <1>10 DEF ServerFault

CliTypes == SenderTypeOK /\ WireTypeOK

LEMMA ClientClosesTypes ==
  ASSUME WireTypeOK, NEW s \in Sessions, ClientCloses(s)
  PROVE  WireTypeOK'
BY DEF WireTypeOK, ClientCloses

(* What is left of a queue after a verdict was read. *)
LEMMA RestWithin ==
  ASSUME NEW N, NEW q \in Seq(N), q # <<>>, GluedVerdict(q) => Len(q) > 1
  PROVE  (IF GluedVerdict(q) THEN Tail(Tail(q)) ELSE Tail(q)) \in Seq(N)
<1>1. Tail(q) \in Seq(N) /\ Len(Tail(q)) = Len(q) - 1
  OBVIOUS
<1>2. ASSUME GluedVerdict(q) PROVE Tail(Tail(q)) \in Seq(N)
  <2>1. Len(Tail(q)) > 0
    BY <1>1, <1>2
  <2>2. \A z \in Seq(N) : Len(z) > 0 => z # <<>>
    OBVIOUS
  <2>3. Tail(q) # <<>>
    BY <1>1, <2>1, <2>2
  <2> QED BY <1>1, <2>3
<1> QED BY <1>1, <1>2

LEMMA ClientStepTypes ==
  ASSUME CliTypes, NEW s \in Sessions, ClientStep(s)
  PROVE  CliTypes'
<1> USE DEF CliTypes, Become, ClientEnds
<1>1. CASE InitializeTransfer(s)
  <2>1. Sent(s, toServer, InitMsg) \in [Sessions -> Seq(ClientMessages)]
    BY SentType, ClientMessageType DEF WireTypeOK
  <2> QED
    BY <1>1, <2>1 DEF InitializeTransfer, SenderTypeOK, WireTypeOK
<1>2. CASE NegotiateResume(s)
  <2> DEFINE m == Head(toClient[s])
             agreed == m.can /\ m.total = NumChunks(FileSize[s], clientChunk[s])
  <2>1. toClient[s] # <<>> /\ m.cmd = "Resume" /\ m \in ServerMessages
    BY <1>2 DEF NegotiateResume, HasCommand, WireTypeOK
  <2>2. m.can \in BOOLEAN
    BY <2>1, ServerMessageFields
  <2>3. agreed \in BOOLEAN
    BY <2>2
  <2>4. Sent(s, toServer, AckMsg(agreed)) \in [Sessions -> Seq(ClientMessages)]
    BY <2>3, SentType, ClientMessageType DEF WireTypeOK
  <2> QED
    BY <1>2, <2>1, <2>4, TakenType DEF NegotiateResume, SenderTypeOK, WireTypeOK
<1>3. CASE HandleChunkRequest(s)
  <2> DEFINE m == Head(toClient[s])
  <2>1. toClient[s] # <<>> /\ m.cmd = "Request" /\ m \in ServerMessages
    BY <1>3 DEF HandleChunkRequest, HasCommand, WireTypeOK
  <2>2. m.off \in Int
    BY <2>1, ServerMessageFields
  <2>3. ReadLength(FileSize[s], m.off, clientChunk[s]) \in Int
    <3>1. FileSize[s] \in Int
      BY ConstantTypes
    <3>2. clientChunk[s] \in Int
      <4>1. clientChunk[s] \in ClientChunks
        BY DEF SenderTypeOK
      <4> QED BY <4>1, ConstantTypes
    <3> QED BY <2>2, <3>1, <3>2 DEF ReadLength, Least
  <2>4. ChunkAt(s, m.off) \in ClientMessages
    BY <2>2, <2>3, ClientMessageType DEF ChunkAt
  <2>5. Sent(s, toServer, ChunkAt(s, m.off)) \in [Sessions -> Seq(ClientMessages)]
    BY <2>4, SentType DEF WireTypeOK
  <2>6. WireTypeOK'
    BY <1>3, <2>1, <2>5, TakenType DEF HandleChunkRequest, WireTypeOK
  <2> QED
    BY <1>3, <2>6 DEF HandleChunkRequest, SenderTypeOK, cliVars
<1>4. CASE HandleHashRequest(s)
  <2>1. toClient[s] # <<>>
    BY <1>4 DEF HandleHashRequest, HasCommand
  <2>2. Sent(s, toServer, HashMsg(Source(s))) \in [Sessions -> Seq(ClientMessages)]
    BY SourceType, SentType, ClientMessageType DEF WireTypeOK
  <2> QED
    BY <1>4, <2>1, <2>2, TakenType DEF HandleHashRequest, SenderTypeOK, WireTypeOK
<1>5. CASE ReadVerdict(s)
  <2> DEFINE q == toClient[s]
  <2>1. VerdictFrom(q) \in {"verified", "unexpected", "refused"}
    BY DEF VerdictFrom
  <2>2. CASE VerdictFrom(q) = "refused"
    BY <1>5, <2>1, <2>2, ClientClosesTypes DEF ReadVerdict, SenderTypeOK
  <2>3. CASE VerdictFrom(q) # "refused"
    <3> DEFINE rest == IF GluedVerdict(q) THEN Tail(Tail(q)) ELSE Tail(q)
    <3>1. q \in Seq(ServerMessages) /\ q # <<>> /\ (GluedVerdict(q) => Len(q) > 1)
      BY <1>5 DEF ReadVerdict, WireTypeOK, GluedVerdict
    <3>2. rest \in Seq(ServerMessages)
      BY <3>1, RestWithin
    <3>3. toClient' = [toClient EXCEPT ![s] = rest]
      BY <1>5, <2>3 DEF ReadVerdict
    <3>5. UNCHANGED <<conn, toServer>>
      BY <1>5, <2>3 DEF ReadVerdict
    <3>6. WireTypeOK'
      <4> HIDE DEF rest
      <4> QED BY <3>2, <3>3, <3>5 DEF WireTypeOK
    <3>4. SenderTypeOK'
      BY <1>5, <2>1, <2>3 DEF ReadVerdict, SenderTypeOK
    <3> QED BY <3>4, <3>6
  <2> QED BY <2>2, <2>3
<1>6. CASE HandleComplete(s)
  BY <1>6, ClientClosesTypes DEF HandleComplete, SenderTypeOK
<1>7. CASE HandleError(s)
  BY <1>7, ClientClosesTypes DEF HandleError, SenderTypeOK
<1>8. CASE ServerLost(s)
  BY <1>8, ClientClosesTypes DEF ServerLost, SenderTypeOK
<1> QED
  BY <1>1, <1>2, <1>3, <1>4, <1>5, <1>6, <1>7, <1>8 DEF ClientStep

LEMMA InitTypes == Init => TypeOK
<1> SUFFICES ASSUME Init PROVE TypeOK
  OBVIOUS
<1>1. ServerTypeOK
  BY DEF Init, ServerInit, ServerTypeOK, ServerEnds, Attempts
<1>2. SenderTypeOK
  BY DEF Init, SenderInit, SenderTypeOK
<1>3. WireTypeOK
  BY DEF Init, WireInit, WireTypeOK
<1>4. StoreTypeOK
  BY EmptyType DEF Init, StoreInit, StoreTypeOK, NoState, StateRecord
<1>5. faults \in 0 .. MaxFaults
  BY ConstantTypes DEF Init
<1> QED BY <1>1, <1>2, <1>3, <1>4, <1>5 DEF TypeOK

LEMMA NextTypes == TypeOK /\ [Next]_vars => TypeOK'
<1> SUFFICES ASSUME TypeOK, [Next]_vars PROVE TypeOK'
  OBVIOUS
<1> USE DEF TypeOK, SrvTypes, CliTypes
<1>1. ASSUME NEW s \in Sessions, Dial(s) PROVE TypeOK'
  BY <1>1 DEF Dial, Goto, Become, ServerEnds, ServerTypeOK, SenderTypeOK, WireTypeOK, StoreTypeOK,
              diskVars
<1>2. ASSUME NEW s \in Sessions, ServerMoves(s) PROVE TypeOK'
  BY <1>2, ServerStepTypes DEF ServerMoves, SenderTypeOK, cliVars
<1>3. ASSUME NEW s \in Sessions, ClientMoves(s) PROVE TypeOK'
  BY <1>3, ClientStepTypes DEF ClientMoves, ServerTypeOK, StoreTypeOK, srvVars, diskVars
<1>4. CASE RestartServer
  BY <1>4 DEF RestartServer, Restart, ServerTypeOK, SenderTypeOK, WireTypeOK, StoreTypeOK,
              cliVars, diskVars, wireVars
<1>5. CASE Fault
  <2>1. faults' \in 0 .. MaxFaults
    BY <1>5, ConstantTypes DEF Fault
  <2>2. ASSUME NEW s \in Sessions, ServerFault(s), UNCHANGED cliVars PROVE TypeOK'
    BY <2>1, <2>2, ServerFaultTypes DEF SenderTypeOK, cliVars
  <2>3. CASE Crash /\ UNCHANGED cliVars
    BY <2>1, <2>3, ProcessEndsTypes DEF Crash, SenderTypeOK, cliVars
  <2>4. ASSUME NEW s \in Sessions, ConnectionLost(s), UNCHANGED <<srvVars, cliVars, diskVars>>
        PROVE TypeOK'
    BY <2>1, <2>4 DEF ConnectionLost, ServerTypeOK, SenderTypeOK, WireTypeOK, StoreTypeOK,
                      srvVars, cliVars, diskVars
  <2>5. ASSUME NEW s \in Sessions, ClientEnded(s), UNCHANGED <<srvVars, diskVars>>
        PROVE TypeOK'
    BY <2>1, <2>5, ClientClosesTypes
    DEF ClientEnded, Become, ClientEnds, ServerTypeOK, SenderTypeOK, StoreTypeOK, srvVars, diskVars
  <2> QED
    BY <1>5, <2>2, <2>3, <2>4, <2>5 DEF Fault
<1>6. CASE UNCHANGED vars
  BY <1>6 DEF ServerTypeOK, SenderTypeOK, WireTypeOK, StoreTypeOK, vars, srvVars, cliVars,
              diskVars, wireVars
<1> QED
  BY <1>1, <1>2, <1>3, <1>4, <1>5, <1>6 DEF Next

(* Every variable keeps its type, however the sessions overlap and         *)
(* whatever fails.                                                         *)
THEOREM TypeCorrect == Spec => []TypeOK
<1>1. Init => TypeOK
  BY InitTypes
<1>2. TypeOK /\ [Next]_vars => TypeOK'
  BY NextTypes
<1> QED
  BY <1>1, <1>2, PTL DEF Spec
=============================================================================
