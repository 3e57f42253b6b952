--------------------------- MODULE DialogueProofs ---------------------------
(***************************************************************************)
(* With one chunk size on both ends, client and server take turns: at most *)
(* one message of a session is under way until its chunks are done.  So a  *)
(* chunk that arrives is the one that was requested, a resume that was     *)
(* offered is never refused, and no goroutine of a session panics.         *)
(***************************************************************************)
EXTENDS DeliveryProofs

(* Every run of the server and of the client uses the same chunk size. *)
OneChunkSize ==
  /\ ClientChunks = ServerChunks
  /\ \A c, d \in ServerChunks : c = d

LEMMA SameChunk ==
  ASSUME OneChunkSize
  PROVE  /\ ServerTypeOK /\ ServerTypeOK' => chunkSize' = chunkSize
         /\ ServerTypeOK /\ SenderTypeOK => \A s \in Sessions : clientChunk[s] = chunkSize
BY DEF OneChunkSize, ServerTypeOK, SenderTypeOK

-----------------------------------------------------------------------------
(* The number of chunks is a ceiling: the chunks before it begin within    *)
(* the file, and together they reach its end.                              *)
LEMMA Ceiling ==
  ASSUME NEW size \in Nat, NEW cs \in Nat, cs > 0
  PROVE  /\ NumChunks(size, cs) \in Nat
         /\ size <= NumChunks(size, cs) * cs
         /\ NumChunks(size, cs) * cs < size + cs
<1> DEFINE n == size + cs - 1
           q == n \div cs
<1>1. n \in Nat
  OBVIOUS
<1>2. q \in Nat /\ q * cs <= n /\ n < q * cs + cs
  BY <1>1
<1> QED BY <1>2 DEF NumChunks

LEMMA Monotone ==
  ASSUME NEW a \in Int, NEW b \in Int, NEW cs \in Nat, a <= b
  PROVE  a * cs <= b * cs
<1>1. PICK d \in Nat : b = a + d
  <2>1. b - a \in Nat /\ b = a + (b - a)
    OBVIOUS
  <2> QED BY <2>1
<1>2. d * cs \in Nat
  OBVIOUS
<1>3. b * cs = a * cs + d * cs
  BY <1>1
<1> QED BY <1>2, <1>3

LEMMA ChunkBegins ==
  ASSUME NEW size \in Nat, NEW cs \in Nat, cs > 0, NEW k \in Nat
  PROVE  /\ k < NumChunks(size, cs) => k * cs < size
         /\ k >= NumChunks(size, cs) => k * cs >= size
<1> DEFINE N == NumChunks(size, cs)
<1>1. N \in Nat /\ size <= N * cs /\ N * cs < size + cs
  BY Ceiling
<1>2. ASSUME k < N PROVE k * cs < size
  <2>1. (k + 1) * cs <= N * cs
    BY <1>1, <1>2, Monotone
  <2>2. (k + 1) * cs = k * cs + cs
    OBVIOUS
  <2> HIDE DEF N
  <2> QED BY <1>1, <2>1, <2>2
<1>3. ASSUME k >= N PROVE k * cs >= size
  <2>1. N * cs <= k * cs
    BY <1>1, <1>3, Monotone
  <2> HIDE DEF N
  <2> QED BY <1>1, <2>1
<1> QED BY <1>2, <1>3

(* A chunk that was requested comes with a length the server accepts.      *)
LEMMA AskedLength ==
  ASSUME OneChunkSize, ServerTypeOK, SenderTypeOK, NEW s \in Sessions,
         chunkIdx[s] < NumChunksOf(s)
  PROVE  LET m == ChunkAt(s, CurrentOffset(s))
         IN  /\ m.cmd = "Data" /\ m.off = CurrentOffset(s)
             /\ m.n = Least(chunkSize, FileSize[s] - CurrentOffset(s))
             /\ m.n \in Nat /\ m.n > 0 /\ m.n <= chunkSize
             /\ CurrentOffset(s) \in Nat
             /\ CurrentOffset(s) + m.n <= FileSize[s]
<1>1. chunkSize \in Nat /\ chunkSize > 0 /\ chunkIdx[s] \in Nat
  BY ServerNumbers
<1>2. FileSize[s] \in Nat /\ clientChunk[s] = chunkSize
  BY ConstantTypes, SameChunk
<1>3. CurrentOffset(s) \in Nat /\ CurrentOffset(s) < FileSize[s]
  BY <1>1, <1>2, ChunkBegins DEF NumChunksOf, CurrentOffset, ChunkOffset
<1> QED
  BY <1>1, <1>2, <1>3 DEF ChunkAt, DataMsg, ReadLength, Least

-----------------------------------------------------------------------------
(* Queues of at most one message. *)

LEMMA SentOne ==
  ASSUME NEW M, NEW q \in [Sessions -> Seq(M)], NEW s \in Sessions, NEW m, q[s] = <<>>
  PROVE  Sent(s, q, m)[s] \in {<<>>, <<m>>} /\ (conn[s] = "closed" => Sent(s, q, m)[s] = <<>>)
BY DEF Sent

LEMMA TakenOne ==
  ASSUME NEW M, NEW q \in [Sessions -> Seq(M)], NEW s \in Sessions, NEW m, q[s] = <<m>>
  PROVE  Taken(s, q)[s] = <<>> /\ Head(q[s]) = m
BY DEF Taken

(* What InTurns says of one session, in one place of its goroutine.        *)
LEMMA TurnsAt ==
  ASSUME NEW s \in Sessions, DialogueSession(s), sPc[s] \in InTurns
  PROVE  /\ toClient[s] \in {<<>>, Asked(s)} /\ toServer[s] \in {<<>>, Answered(s)}
         /\ toClient[s] = <<>> \/ (toServer[s] = <<>> /\ conn[s] # "closed")
         /\ cPc[s] = "profiling" => sPc[s] = "accept" /\ toServer[s] = <<>>
         /\ mode[s] # "rejected" /\ inSync[s]
BY DEF DialogueSession, Turns

(* A goroutine that neither sends nor waits leaves both queues empty.      *)
Quiet == InTurns \ {"accept", "ack", "reply"}

LEMMA QuietTurns ==
  ASSUME NEW s \in Sessions, DialogueSession(s), sPc[s] \in Quiet
  PROVE  cPc[s] # "profiling" /\ toClient[s] = <<>> /\ toServer[s] = <<>>
BY DEF DialogueSession, Turns, Quiet, InTurns, Asked, Answered, BeforeDecision, WithChunks

(* From one quiet place to another. *)
LEMMA QuietStep ==
  ASSUME NEW s \in Sessions, DialogueSession(s), sPc[s] \in Quiet, sPc'[s] \in Quiet,
         UNCHANGED <<cPc, toClient, toServer>>,
         mode'[s] # "rejected", inSync'[s], sPc'[s] \notin {"dropFile", "dropState"},
         sPc'[s] \in {"save", "saving"} => (chunkIdx[s] < NumChunksOf(s))'
  PROVE  DialogueSession(s)'
<1>1. cPc'[s] # "profiling" /\ toClient'[s] = <<>> /\ toServer'[s] = <<>>
  BY QuietTurns
<1>2. sPc'[s] \notin AfterChunks /\ sPc'[s] # "reply"
  BY DEF Quiet, InTurns, BeforeDecision, WithChunks, AfterChunks
<1>3. Turns(s)'
  BY <1>1, <1>2 DEF Turns
<1> QED BY <1>2, <1>3 DEF DialogueSession

-----------------------------------------------------------------------------
(* A step of one goroutine, seen from its own session. *)

LEMMA AbortTurns ==
  ASSUME SrvTypes, NEW s \in Sessions, DialogueSession(s), UNCHANGED <<mode, inSync>>,
         Goto(s, "aborted")
  PROVE  DialogueSession(s)'
BY DEF Goto, SrvTypes, ServerTypeOK, DialogueSession, InTurns, BeforeDecision, WithChunks,
       AfterChunks

(* The offer to resume is what the goroutine decided, and is acknowledged  *)
(* as it was made.                                                         *)
LEMMA OfferTurns ==
  ASSUME SrvTypes, CliTypes, NEW s \in Sessions, DialogueSession(s), TryResumeTransfer(s),
         UNCHANGED cPc
  PROVE  DialogueSession(s)'
<1> DEFINE fits == /\ stateFile.kind = "saved"
                   /\ stateFile.size = FileSize[s]
                   /\ stateFile.chunk = chunkSize
           m == ResumeMsg(fits, NumChunksOf(s))
<1>1. sPc[s] = "load" /\ cPc[s] # "profiling" /\ toClient[s] = <<>> /\ toServer[s] = <<>>
  BY QuietTurns DEF TryResumeTransfer, Quiet, InTurns, BeforeDecision
<1>2. sPc'[s] = "ack" /\ UNCHANGED <<conn, toServer, inSync, chunkSize>>
  BY DEF TryResumeTransfer, Goto, SrvTypes, ServerTypeOK
<1>3. toClient'[s] \in {<<>>, <<m>>} /\ (conn[s] = "closed" => toClient'[s] = <<>>)
  <2>1. toClient' = Sent(s, toClient, m)
    BY DEF TryResumeTransfer
  <2> HIDE DEF m
  <2> QED BY <1>1, <2>1, SentOne DEF SrvTypes, WireTypeOK
<1>4. mode'[s] = IF fits THEN "resumed" ELSE "fresh"
  BY DEF TryResumeTransfer, SrvTypes, ServerTypeOK
<1>5. m = ResumeMsg(mode'[s] = "resumed", NumChunksOf(s)')
  <2>1. NumChunksOf(s)' = NumChunksOf(s)
    BY <1>2 DEF NumChunksOf
  <2>2. fits = (mode'[s] = "resumed")
    BY <1>4
  <2> HIDE DEF fits
  <2> QED BY <2>1, <2>2
<1>6. <<m>> = Asked(s)'
  BY <1>2, <1>5 DEF Asked
<1>7. mode'[s] # "rejected" /\ inSync'[s]
  BY <1>2, <1>4 DEF DialogueSession
<1> HIDE DEF m, fits
<1>8. Turns(s)'
  BY <1>1, <1>2, <1>3, <1>6 DEF Turns
<1> QED BY <1>2, <1>7, <1>8 DEF DialogueSession, AfterChunks

LEMMA DecisionTurns ==
  ASSUME SrvTypes, CliTypes, NEW s \in Sessions, DialogueSession(s), ResumeDecision(s),
         UNCHANGED cPc
  PROVE  DialogueSession(s)' /\ sPc'[s] = "open"
<1>1. sPc[s] = "ack" /\ toServer[s] # <<>>
  BY DEF ResumeDecision, HasCommand
<1>2. toServer[s] = Answered(s) /\ toClient[s] = <<>> /\ cPc[s] # "profiling"
  BY <1>1, TurnsAt DEF InTurns, BeforeDecision
<1> DEFINE m == AckMsg(mode[s] = "resumed")
<1>3. Answered(s) = <<m>>
  BY <1>1 DEF Answered
<1>4. Head(toServer[s]) = m /\ Taken(s, toServer)[s] = <<>>
  <2> HIDE DEF m
  <2> QED BY <1>2, <1>3, TakenOne DEF SrvTypes, WireTypeOK
<1>5. Head(toServer[s]).accept = (mode[s] = "resumed")
  BY <1>4 DEF AckMsg
<1>6. mode' = mode /\ Goto(s, "open")
  BY <1>5 DEF ResumeDecision
<1>7. sPc'[s] = "open" /\ toServer'[s] = <<>> /\ UNCHANGED <<toClient, inSync>>
  BY <1>4, <1>6 DEF ResumeDecision, Goto, SrvTypes, ServerTypeOK
<1> QED
  BY <1>2, <1>6, <1>7 DEF DialogueSession, Turns, AfterChunks

(* Asking again, when nothing of the last attempt is under way. *)
LEMMA RetryTurns ==
  ASSUME SrvTypes, CliTypes, NEW s \in Sessions, DialogueSession(s), sPc[s] = "reply",
         RetryChunk(s), toServer'[s] = <<>>, toServer[s] # <<>> \/ conn[s] = "closed",
         UNCHANGED <<conn, cPc, mode, inSync, chunkIdx, chunkSize>>
  PROVE  DialogueSession(s)'
<1> DEFINE m == RequestMsg(CurrentOffset(s))
<1>1. toClient[s] = <<>> /\ cPc[s] # "profiling"
  BY TurnsAt DEF InTurns, WithChunks
<1>2. Sent(s, toClient, m)[s] \in {<<>>, <<m>>} /\ (conn[s] = "closed" => Sent(s, toClient, m)[s] = <<>>)
  <2> HIDE DEF m
  <2> QED BY <1>1, SentOne DEF SrvTypes, WireTypeOK
<1>3. CASE attempt[s] + 1 < Retries
  <2>1. sPc' = sPc /\ toClient' = Sent(s, toClient, m)
    BY <1>3 DEF RetryChunk
  <2>2. CurrentOffset(s)' = CurrentOffset(s) /\ NumChunksOf(s)' = NumChunksOf(s)
    BY DEF CurrentOffset, ChunkOffset, NumChunksOf
  <2>3. Asked(s)' = <<m>>
    BY <2>1, <2>2 DEF Asked
  <2>4. chunkIdx[s] < NumChunksOf(s)
    BY DEF DialogueSession, Turns, InTurns, WithChunks
  <2> HIDE DEF m
  <2>5. Turns(s)'
    BY <1>1, <1>2, <2>1, <2>2, <2>3, <2>4 DEF Turns
  <2> QED BY <2>1, <2>5 DEF DialogueSession, AfterChunks
<1>4. CASE ~(attempt[s] + 1 < Retries)
  <2>1. sPc'[s] = "failSave" /\ UNCHANGED toClient
    BY <1>4 DEF RetryChunk, Goto, SrvTypes, ServerTypeOK
  <2>2. Turns(s)'
    BY <1>1, <2>1 DEF Turns
  <2> QED BY <2>1, <2>2 DEF DialogueSession, AfterChunks
<1> QED BY <1>3, <1>4

(* What the client flushed while the goroutine waits for a chunk is that   *)
(* chunk.                                                                  *)
LEMMA ArrivedTurns ==
  ASSUME SrvTypes, CliTypes, OneChunkSize, NEW s \in Sessions, DialogueSession(s),
         sPc[s] = "reply", HasCommand(s, toServer, "Data")
  PROVE  /\ toServer[s] = <<ChunkAt(s, CurrentOffset(s))>> /\ toClient[s] = <<>>
         /\ Head(toServer[s]) = ChunkAt(s, CurrentOffset(s)) /\ Taken(s, toServer)[s] = <<>>
         /\ ValidLength(Head(toServer[s]).n)
         /\ chunkIdx[s] < NumChunksOf(s) /\ cPc[s] # "profiling"
<1> DEFINE m == ChunkAt(s, CurrentOffset(s))
<1>1. toServer[s] = <<m>> /\ toClient[s] = <<>>
  BY TurnsAt DEF InTurns, WithChunks, HasCommand, Answered
<1>2. Head(toServer[s]) = m /\ Taken(s, toServer)[s] = <<>>
  <2> HIDE DEF m
  <2> QED BY <1>1, TakenOne DEF SrvTypes, WireTypeOK
<1>3. chunkIdx[s] < NumChunksOf(s) /\ cPc[s] # "profiling"
  BY DEF DialogueSession, Turns, InTurns, WithChunks
<1>4. ValidLength(m.n)
  BY <1>3, AskedLength DEF ValidLength, SrvTypes, CliTypes
<1> QED BY <1>1, <1>2, <1>3, <1>4

LEMMA ServerTurns ==
  ASSUME OneChunkSize, SrvTypes, CliTypes, NEW s \in Sessions, DialogueSession(s),
         ServerStep(s) \/ ServerFault(s), UNCHANGED <<cPc, clientChunk>>
  PROVE  DialogueSession(s)' /\ ~Panics(s)
<1>0. ~Panics(s) /\ mode[s] # "rejected" /\ inSync[s]
  BY DEF Panics, NilStatePanic, MisreadPanics, DialogueSession
<1>1. CASE \/ InitLost(s) \/ SaveStateAndFail(s) \/ DiscardOutput(s) \/ OpenOutputFails(s)
           \/ DiscardFails(s) \/ LastSaveFails(s) \/ InitTimeout(s)
  <2>1. Goto(s, "aborted") /\ UNCHANGED <<mode, inSync>>
    BY <1>1 DEF InitLost, SaveStateAndFail, DiscardOutput, OpenOutputFails, DiscardFails,
               LastSaveFails, InitTimeout, Abort
  <2> QED BY <1>0, <2>1, AbortTurns
<1>2. CASE ReadInit(s)
  <2>1. CASE FileSize[s] = 0
    BY <1>0, <1>2, <2>1, AbortTurns DEF ReadInit, Abort
  <2>2. CASE FileSize[s] # 0
    <3>1. sPc[s] = "accept" /\ toServer[s] # <<>> /\ toServer' = Taken(s, toServer)
      BY <1>2, <2>2 DEF ReadInit, HasCommand
    <3>2. toServer[s] = <<InitMsg>> /\ toClient[s] = <<>> /\ cPc[s] # "profiling"
      BY <3>1, TurnsAt DEF InTurns, BeforeDecision, Answered
    <3>3. toServer'[s] = <<>>
      BY <3>1, <3>2, TakenOne DEF SrvTypes, WireTypeOK
    <3>4. sPc'[s] = "load" /\ UNCHANGED <<mode, inSync, toClient>>
      BY <1>2, <2>2 DEF ReadInit, Goto, SrvTypes, ServerTypeOK
    <3> QED BY <1>0, <3>2, <3>3, <3>4 DEF DialogueSession, Turns, AfterChunks
  <2> QED BY <1>0, <2>1, <2>2
<1>3. CASE TryResumeTransfer(s)
  BY <1>0, <1>3, OfferTurns
<1>4. CASE ResumeDecision(s)
  BY <1>0, <1>4, DecisionTurns
<1>5. CASE DropPartialFile(s) \/ DropPartialState(s)
  BY <1>5 DEF DropPartialFile, DropPartialState, DialogueSession
<1>6. CASE \/ OpenOutput(s) \/ ReopenFails(s) \/ PreallocateFile(s) \/ PreallocateFails(s)
           \/ SkipReceivedChunk(s) \/ SaveState(s) \/ SaveStateFails(s)
  <2>1. sPc[s] \in {"open", "alloc", "loop", "saving"} /\ sPc'[s] \in {"alloc", "loop"}
    BY <1>6 DEF OpenOutput, ReopenFails, PreallocateFile, PreallocateFails, SkipReceivedChunk,
                SaveState, SaveStateFails, AtLoop, Goto, SrvTypes, ServerTypeOK
  <2>2. UNCHANGED <<toClient, toServer, mode, inSync>>
    BY <1>6 DEF OpenOutput, ReopenFails, PreallocateFile, PreallocateFails, SkipReceivedChunk,
                SaveState, SaveStateFails, wireVars
  <2> QED BY <1>0, <2>1, <2>2, QuietStep DEF Quiet, InTurns, WithChunks
<1>7. CASE TruncateState(s)
  <2>1. /\ sPc[s] \in {"save", "failSave"} /\ sPc'[s] \in {"saving", "failSaving"}
        /\ sPc'[s] = "saving" => sPc[s] = "save"
    BY <1>7 DEF TruncateState, Goto, SrvTypes, ServerTypeOK
  <2>2. UNCHANGED <<toClient, toServer, mode, inSync, chunkIdx, chunkSize>>
    BY <1>7 DEF TruncateState, wireVars
  <2>3. sPc[s] = "save" => (chunkIdx[s] < NumChunksOf(s))'
    BY <2>2 DEF DialogueSession, Turns, InTurns, WithChunks, NumChunksOf
  <2> QED BY <1>0, <2>1, <2>2, <2>3, QuietStep DEF Quiet, InTurns, WithChunks
<1>8. CASE RequestChunk(s)
  <2> DEFINE m == RequestMsg(CurrentOffset(s))
  <2>1. sPc[s] = "loop" /\ toClient[s] = <<>> /\ toServer[s] = <<>> /\ cPc[s] # "profiling"
    BY <1>8, QuietTurns DEF RequestChunk, AtLoop, Quiet, InTurns, WithChunks
  <2>2. UNCHANGED <<conn, toServer, mode, inSync, chunkIdx, chunkSize>>
    BY <1>8 DEF RequestChunk
  <2>3. CASE Retries = 0
    <3>1. sPc'[s] = "failSave" /\ UNCHANGED toClient
      BY <1>8, <2>3 DEF RequestChunk, Goto, SrvTypes, ServerTypeOK
    <3> QED BY <1>0, <2>1, <2>2, <3>1, QuietStep DEF Quiet, InTurns, WithChunks
  <2>4. CASE Retries # 0
    <3>1. sPc'[s] = "reply" /\ toClient' = Sent(s, toClient, m)
      BY <1>8, <2>4 DEF RequestChunk, Goto, SrvTypes, ServerTypeOK
    <3>2. toClient'[s] \in {<<>>, <<m>>} /\ (conn[s] = "closed" => toClient'[s] = <<>>)
      <4> HIDE DEF m
      <4> QED BY <2>1, <3>1, SentOne DEF SrvTypes, WireTypeOK
    <3>3. CurrentOffset(s)' = CurrentOffset(s) /\ NumChunksOf(s)' = NumChunksOf(s)
      BY <2>2 DEF CurrentOffset, ChunkOffset, NumChunksOf
    <3>4. Asked(s)' = <<m>>
      BY <3>1, <3>3 DEF Asked
    <3>5. chunkIdx[s] < NumChunksOf(s)
      BY <1>8 DEF RequestChunk
    <3> HIDE DEF m
    <3>6. Turns(s)'
      BY <2>1, <2>2, <3>1, <3>2, <3>3, <3>4, <3>5 DEF Turns
    <3> QED BY <1>0, <2>2, <3>1, <3>6 DEF DialogueSession, AfterChunks
  <2> QED BY <1>0, <2>3, <2>4
<1>9. CASE ReceiveChunk(s)
  <2>1. sPc[s] = "reply" /\ HasCommand(s, toServer, "Data")
    BY <1>9 DEF ReceiveChunk, ChunkArrived
  <2>2. /\ sPc'[s] = "save" /\ toServer' = Taken(s, toServer)
        /\ UNCHANGED <<toClient, mode, inSync, chunkIdx, chunkSize>>
    BY <1>9 DEF ReceiveChunk, Goto, SrvTypes, ServerTypeOK
  <2>3. toServer'[s] = <<>> /\ toClient'[s] = <<>> /\ cPc'[s] # "profiling"
    BY <2>1, <2>2, ArrivedTurns
  <2>4. (chunkIdx[s] < NumChunksOf(s))'
    BY <2>1, <2>2, ArrivedTurns DEF NumChunksOf
  <2>5. Turns(s)'
    BY <2>2, <2>3, <2>4 DEF Turns
  <2> QED BY <1>0, <2>2, <2>5 DEF DialogueSession, AfterChunks
<1>10. CASE ReceiveOversizedChunk(s)
  BY <1>10, ArrivedTurns DEF ReceiveOversizedChunk, ChunkArrived
<1>11. CASE WriteChunkFails(s)
  <2>1. sPc[s] = "reply" /\ HasCommand(s, toServer, "Data")
    BY <1>11 DEF WriteChunkFails, ChunkArrived
  <2>2. toServer'[s] = <<>> /\ toServer[s] # <<>>
    BY <1>11, <2>1, ArrivedTurns DEF WriteChunkFails, HasCommand
  <2>3. RetryChunk(s) /\ UNCHANGED <<conn, mode, inSync, chunkIdx, chunkSize>>
    BY <1>11 DEF WriteChunkFails
  <2> QED BY <1>0, <2>1, <2>2, <2>3, RetryTurns
<1>12. CASE MisreadChunk(s)
  BY <1>0, <1>12 DEF MisreadChunk
<1>13. CASE ChunkLost(s)
  <2>1. /\ sPc[s] = "reply" /\ conn[s] = "closed" /\ toServer'[s] = <<>> /\ RetryChunk(s)
        /\ UNCHANGED <<conn, mode, inSync, chunkIdx, chunkSize>>
    BY <1>13 DEF ChunkLost, AtEof
  <2> QED BY <1>0, <2>1, RetryTurns
<1>14. CASE AllChunksDone(s)
  <2>1. sPc[s] = "loop" /\ sPc'[s] \in {"verify", "cleanup"} /\ UNCHANGED <<mode, inSync, toClient>>
    BY <1>14 DEF AllChunksDone, AtLoop, Goto, SrvTypes, ServerTypeOK, wireVars
  <2>2. toClient'[s] = <<>>
    BY <2>1, QuietTurns DEF Quiet, InTurns, WithChunks
  <2>3. <<>> \in Seq(AfterChunksMessages)
    OBVIOUS
  <2> QED BY <1>0, <2>1, <2>2, <2>3 DEF DialogueSession, InTurns, BeforeDecision, WithChunks
<1>15. CASE \/ RequestHash(s) \/ CompareHash(s) \/ HashLost(s) \/ HashFails(s) \/ Cleanup(s)
            \/ RemovalFails(s) \/ SendComplete(s)
  <2> DEFINE N == AfterChunksMessages
  <2>1. \A c \in {"HashAlgo", "HashRequest", "Verdict", "Error", "Complete"} : Plain(c) \in N
    BY ServerMessageType DEF AfterChunksMessages, Plain
  <2>2. sPc[s] \in AfterChunks /\ toClient[s] \in Seq(N)
    BY <1>15 DEF RequestHash, CompareHash, HashLost, HashFails, Cleanup, RemovalFails,
                 SendComplete, DialogueSession, AfterChunks
  <2>3. sPc'[s] \in AfterChunks /\ UNCHANGED <<mode, inSync>>
    BY <1>15 DEF RequestHash, CompareHash, HashLost, HashFails, Cleanup, RemovalFails,
                 SendComplete, DialogueSession, AfterChunks, Goto, SrvTypes, ServerTypeOK
  <2>4. ASSUME NEW c \in {"HashAlgo", "HashRequest", "Verdict", "Error", "Complete"}
        PROVE  Sent(s, toClient, Plain(c))[s] \in Seq(N)
    BY <2>1, <2>2, SentWithin DEF SrvTypes, WireTypeOK
  <2>5. ASSUME RequestHash(s) PROVE toClient'[s] \in Seq(N)
    <3> DEFINE q == Sent(s, toClient, Plain("HashAlgo"))
    <3>1. q \in [Sessions -> Seq(ServerMessages)]
      BY SentType, ServerMessageType DEF SrvTypes, WireTypeOK
    <3>2. q[s] \in Seq(N)
      BY <2>4
    <3>3. toClient' = Sent(s, q, Plain("HashRequest"))
      BY <2>5 DEF RequestHash
    <3> HIDE DEF q
    <3> QED BY <2>1, <3>1, <3>2, <3>3, SentWithin
  <2>6. ASSUME CompareHash(s) PROVE toClient'[s] \in Seq(N)
    BY <2>4, <2>6 DEF CompareHash
  <2>7. ASSUME HashLost(s) \/ HashFails(s) \/ Cleanup(s) \/ RemovalFails(s) PROVE toClient'[s] \in Seq(N)
    BY <2>2, <2>7 DEF HashLost, HashFails, Cleanup, RemovalFails, wireVars
  <2>8. ASSUME SendComplete(s) PROVE toClient'[s] \in Seq(N)
    BY <2>4, <2>8 DEF SendComplete, ServerCloses
  <2>9. toClient'[s] \in Seq(N)
    BY <1>15, <2>5, <2>6, <2>7, <2>8
  <2> QED BY <1>0, <2>3, <2>9 DEF DialogueSession, InTurns, BeforeDecision, WithChunks, AfterChunks,
                                  AfterChunksMessages
<1> QED
  BY <1>0, <1>1, <1>2, <1>3, <1>4, <1>5, <1>6, <1>7, <1>8, <1>9, <1>10, <1>11, <1>12, <1>13,
     <1>14, <1>15
  DEF ServerStep, ServerFault, Panics

-----------------------------------------------------------------------------
(* A step of one client, seen from its own session. *)

(* The client closes: nothing of the server is left to read. *)
LEMMA ClosedTurns ==
  ASSUME CliTypes, NEW s \in Sessions, DialogueSession(s), ClientCloses(s), UNCHANGED srvVars,
         NEW pc \in ClientEnds, Become(s, pc), UNCHANGED clientChunk
  PROVE  DialogueSession(s)'
<1>1. toClient'[s] = <<>> /\ cPc'[s] = pc /\ UNCHANGED <<sPc, mode, inSync, chunkIdx, chunkSize, toServer>>
  BY DEF ClientCloses, Become, CliTypes, SenderTypeOK, WireTypeOK, srvVars
<1>2. Answered(s)' = Answered(s) /\ NumChunksOf(s)' = NumChunksOf(s)
  BY <1>1 DEF Answered, CurrentOffset, ChunkOffset, NumChunksOf, ChunkAt
<1>3. sPc[s] \in InTurns => Turns(s)'
  BY <1>1, <1>2 DEF DialogueSession, Turns, ClientEnds
<1>4. <<>> \in Seq(AfterChunksMessages)
  OBVIOUS
<1> QED BY <1>1, <1>3, <1>4 DEF DialogueSession, AfterChunksMessages

(* The client reads the one message under way and flushes its answer.      *)
LEMMA AnswerTurns ==
  ASSUME CliTypes, NEW s \in Sessions, DialogueSession(s), UNCHANGED <<srvVars, conn, clientChunk>>,
         toClient[s] # <<>>, toClient' = Taken(s, toClient),
         NEW m, toServer' = Sent(s, toServer, m), sPc[s] \in InTurns => Answered(s) = <<m>>,
         cPc'[s] # "profiling"
  PROVE  DialogueSession(s)'
<1>1. UNCHANGED <<sPc, mode, inSync, chunkIdx, chunkSize>>
  BY DEF srvVars
<1>2. Answered(s)' = Answered(s) /\ NumChunksOf(s)' = NumChunksOf(s)
  BY <1>1 DEF Answered, CurrentOffset, ChunkOffset, NumChunksOf, ChunkAt
<1>3. ASSUME sPc[s] \in InTurns PROVE Turns(s)'
  <2>1. toClient[s] = Asked(s) /\ toServer[s] = <<>>
    BY <1>3, TurnsAt
  <2>2. PICK a : toClient[s] = <<a>>
    BY <2>1 DEF Asked
  <2>3. toClient'[s] = <<>>
    BY <2>2, TakenOne DEF CliTypes, WireTypeOK
  <2>4. toServer'[s] \in {<<>>, <<m>>}
    BY <2>1, SentOne DEF CliTypes, WireTypeOK
  <2>5. sPc[s] \in {"reply", "save", "saving"} => chunkIdx[s] < NumChunksOf(s)
    BY <1>3 DEF DialogueSession, Turns
  <2> QED BY <1>1, <1>2, <1>3, <2>3, <2>4, <2>5 DEF Turns
<1>4. sPc[s] \in AfterChunks => toClient'[s] \in Seq(AfterChunksMessages)
  BY TakenWithin DEF DialogueSession, CliTypes, WireTypeOK
<1> QED BY <1>1, <1>3, <1>4 DEF DialogueSession, AfterChunksMessages

LEMMA ClientTurns ==
  ASSUME OneChunkSize, SrvTypes, CliTypes, NEW s \in Sessions, DialogueSession(s),
         ClientStep(s) \/ ClientEnded(s), UNCHANGED srvVars
  PROVE  DialogueSession(s)' /\ UNCHANGED clientChunk
<1> USE DEF SrvTypes, CliTypes
<1>0. UNCHANGED <<sPc, mode, inSync, chunkIdx, chunkSize>>
  BY DEF srvVars
<1>1. CASE InitializeTransfer(s)
  <2>1. /\ cPc[s] = "profiling" /\ cPc'[s] = "nego" /\ UNCHANGED <<conn, toClient, clientChunk>>
        /\ toServer' = Sent(s, toServer, InitMsg)
    BY <1>1 DEF InitializeTransfer, Become, SenderTypeOK
  <2>2. ASSUME sPc[s] \in InTurns PROVE Turns(s)'
    <3>1. sPc[s] = "accept" /\ toServer[s] = <<>> /\ toClient[s] = <<>>
      BY <2>1, <2>2 DEF DialogueSession, Turns, Asked
    <3>2. toServer'[s] \in {<<>>, <<InitMsg>>}
      BY <2>1, <3>1, SentOne DEF WireTypeOK
    <3>3. Answered(s)' = <<InitMsg>>
      BY <1>0, <3>1 DEF Answered
    <3> QED BY <1>0, <2>1, <3>1, <3>2, <3>3 DEF Turns
  <2> QED BY <1>0, <2>1, <2>2 DEF DialogueSession, AfterChunksMessages
<1>2. CASE NegotiateResume(s)
  <2> DEFINE m == Head(toClient[s])
             agreed == m.can /\ m.total = NumChunks(FileSize[s], clientChunk[s])
  <2>1. /\ toClient[s] # <<>> /\ m.cmd = "Resume" /\ cPc'[s] = "serve"
        /\ toClient' = Taken(s, toClient) /\ toServer' = Sent(s, toServer, AckMsg(agreed))
        /\ UNCHANGED <<conn, clientChunk>>
    BY <1>2 DEF NegotiateResume, HasCommand, Become, SenderTypeOK
  <2>2. ASSUME sPc[s] \in InTurns PROVE Answered(s) = <<AckMsg(agreed)>>
    <3> DEFINE r == ResumeMsg(mode[s] = "resumed", NumChunksOf(s))
    <3>1. toClient[s] = Asked(s)
      BY <2>1, <2>2, TurnsAt
    <3>2. sPc[s] = "ack" /\ toClient[s] = <<r>>
      BY <2>1, <3>1 DEF Asked, RequestMsg
    <3>3. m = r
      <4> HIDE DEF r
      <4> QED BY <3>2
    <3>4. m.can = (mode[s] = "resumed") /\ m.total = NumChunksOf(s)
      BY <3>3 DEF ResumeMsg
    <3>5. clientChunk[s] = chunkSize
      BY SameChunk
    <3>6. agreed = (mode[s] = "resumed")
      BY <3>4, <3>5 DEF NumChunksOf
    <3> HIDE DEF agreed
    <3> QED BY <3>2, <3>6 DEF Answered
  <2> HIDE DEF agreed
  <2> QED BY <2>1, <2>2, AnswerTurns
<1>3. CASE HandleChunkRequest(s)
  <2> DEFINE m == Head(toClient[s])
  <2>1. /\ toClient[s] # <<>> /\ m.cmd = "Request" /\ cPc'[s] # "profiling"
        /\ toClient' = Taken(s, toClient) /\ toServer' = Sent(s, toServer, ChunkAt(s, m.off))
        /\ UNCHANGED <<conn, clientChunk>>
    BY <1>3 DEF HandleChunkRequest, HasCommand, cliVars
  <2>2. ASSUME sPc[s] \in InTurns PROVE Answered(s) = <<ChunkAt(s, m.off)>>
    <3>1. toClient[s] = Asked(s)
      BY <2>1, <2>2, TurnsAt
    <3>2. sPc[s] = "reply" /\ m = RequestMsg(CurrentOffset(s))
      BY <2>1, <3>1 DEF Asked, ResumeMsg
    <3>3. m.off = CurrentOffset(s)
      BY <3>2 DEF RequestMsg
    <3> QED BY <3>2, <3>3 DEF Answered
  <2> QED BY <2>1, <2>2, AnswerTurns
<1>4. CASE HandleHashRequest(s)
  <2>1. /\ toClient[s] # <<>> /\ Head(toClient[s]).cmd \notin {"Resume", "Request"}
        /\ toClient' = Taken(s, toClient) /\ toServer' = Sent(s, toServer, HashMsg(Source(s)))
        /\ cPc'[s] # "profiling" /\ UNCHANGED <<conn, clientChunk>>
    BY <1>4 DEF HandleHashRequest, HasCommand, Become, SenderTypeOK
  <2>2. sPc[s] \notin InTurns
    BY <2>1, TurnsAt DEF Asked, ResumeMsg, RequestMsg
  <2> QED BY <2>1, <2>2, AnswerTurns
<1>5. CASE ReadVerdict(s)
  <2> DEFINE q == toClient[s]
             rest == IF GluedVerdict(q) THEN Tail(Tail(q)) ELSE Tail(q)
  <2>1. UNCHANGED clientChunk
    BY <1>5 DEF ReadVerdict
  <2>2. CASE VerdictFrom(q) = "refused"
    <3>1. Become(s, "failed") /\ ClientCloses(s)
      BY <1>5, <2>2 DEF ReadVerdict
    <3> QED BY <2>1, <3>1, ClosedTurns DEF ClientEnds
  <2>3. CASE VerdictFrom(q) # "refused"
    <3>1. /\ cPc'[s] = "serve" /\ UNCHANGED <<conn, toServer>>
          /\ toClient' = [toClient EXCEPT ![s] = rest]
      BY <1>5, <2>3 DEF ReadVerdict, Become, SenderTypeOK
    <3>2. q # <<>> /\ (GluedVerdict(q) => Len(q) > 1)
      BY <1>5 DEF ReadVerdict, WireTypeOK, GluedVerdict
    <3>3. Head(q).cmd \notin {"Resume", "Request"}
      BY <2>3 DEF VerdictFrom
    <3>4. sPc[s] \notin InTurns
      BY <3>2, <3>3, TurnsAt DEF Asked, ResumeMsg, RequestMsg
    <3>5. sPc[s] \in AfterChunks => rest \in Seq(AfterChunksMessages)
      BY <3>2, RestWithin DEF DialogueSession
    <3>6. toClient'[s] = rest
      BY <3>1 DEF WireTypeOK
    <3> HIDE DEF rest
    <3> QED BY <1>0, <2>1, <3>4, <3>5, <3>6 DEF DialogueSession, AfterChunksMessages
  <2> QED BY <2>2, <2>3
<1>6. CASE HandleComplete(s) \/ HandleError(s) \/ ServerLost(s) \/ ClientEnded(s)
  <2>1. PICK pc \in ClientEnds : Become(s, pc)
    BY <1>6 DEF HandleComplete, HandleError, ServerLost, ClientEnded, ClientEnds
  <2>2. ClientCloses(s) /\ UNCHANGED clientChunk
    BY <1>6 DEF HandleComplete, HandleError, ServerLost, ClientEnded
  <2> QED BY <2>1, <2>2, ClosedTurns
<1> QED
  BY <1>1, <1>2, <1>3, <1>4, <1>5, <1>6 DEF ClientStep

-----------------------------------------------------------------------------
(* What a step of one session leaves alone in the others. *)
OthersKept(s) ==
  \A t \in Sessions \ {s} : /\ UNCHANGED <<mode[t], received[t], chunkIdx[t], inSync[t]>>
                            /\ conn'[t] = conn[t]

LEMMA ServerOthers ==
  ASSUME SrvTypes, NEW s \in Sessions, ServerStep(s) \/ ServerFault(s), ~Panics(s)
  PROVE  OthersKept(s) /\ UNCHANGED chunkSize
<1> USE DEF SrvTypes, ServerTypeOK, WireTypeOK, OthersKept
<1>1. CASE \/ InitLost(s) \/ SaveStateAndFail(s) \/ DiscardOutput(s) \/ OpenOutputFails(s)
           \/ DiscardFails(s) \/ LastSaveFails(s) \/ InitTimeout(s) \/ SendComplete(s)
           \/ ReadInit(s)
  BY <1>1 DEF InitLost, SaveStateAndFail, DiscardOutput, OpenOutputFails, DiscardFails,
              LastSaveFails, InitTimeout, SendComplete, ReadInit, Abort, ServerCloses
<1>2. CASE TryResumeTransfer(s) \/ ResumeDecision(s)
  BY <1>2 DEF TryResumeTransfer, ResumeDecision
<1>3. CASE \/ DropPartialFile(s) \/ DropPartialState(s) \/ OpenOutput(s) \/ ReopenFails(s)
           \/ PreallocateFile(s) \/ PreallocateFails(s) \/ SkipReceivedChunk(s) \/ RequestChunk(s)
  BY <1>3 DEF DropPartialFile, DropPartialState, OpenOutput, ReopenFails, PreallocateFile,
              PreallocateFails, SkipReceivedChunk, RequestChunk, wireVars
<1>4. CASE \/ ReceiveChunk(s) \/ ReceiveOversizedChunk(s) \/ WriteChunkFails(s) \/ ChunkLost(s)
           \/ MisreadChunk(s)
  BY <1>4 DEF ReceiveChunk, ReceiveOversizedChunk, WriteChunkFails, ChunkLost, MisreadChunk
<1>5. CASE \/ TruncateState(s) \/ SaveState(s) \/ SaveStateFails(s) \/ AllChunksDone(s)
  BY <1>5 DEF TruncateState, SaveState, SaveStateFails, AllChunksDone, wireVars
<1>6. CASE \/ RequestHash(s) \/ CompareHash(s) \/ HashLost(s) \/ HashFails(s) \/ Cleanup(s)
           \/ RemovalFails(s)
  BY <1>6 DEF RequestHash, CompareHash, HashLost, HashFails, Cleanup, RemovalFails, wireVars
<1> QED
  BY <1>1, <1>2, <1>3, <1>4, <1>5, <1>6 DEF ServerStep, ServerFault, Panics

LEMMA ClientOthers ==
  ASSUME CliTypes, NEW s \in Sessions, ClientStep(s) \/ ClientEnded(s)
  PROVE  \A t \in Sessions \ {s} : conn'[t] = conn[t]
BY DEF ClientStep, ClientEnded, InitializeTransfer, NegotiateResume, HandleChunkRequest,
       HandleHashRequest, ReadVerdict, HandleComplete, HandleError, ServerLost, ClientCloses,
       CliTypes, WireTypeOK

(* A session nothing of which has changed. *)
LEMMA TurnsSame ==
  ASSUME NEW t \in Sessions, DialogueSession(t),
         UNCHANGED <<sPc[t], mode[t], inSync[t], chunkIdx[t], toServer[t], toClient[t], conn[t],
                     cPc[t], clientChunk[t], chunkSize>>
  PROVE  DialogueSession(t)'
<1>1. /\ Asked(t)' = Asked(t) /\ Answered(t)' = Answered(t)
      /\ NumChunksOf(t)' = NumChunksOf(t)
  BY DEF Asked, Answered, CurrentOffset, ChunkOffset, NumChunksOf, ChunkAt
<1>2. sPc[t] \in InTurns => Turns(t)'
  BY <1>1 DEF DialogueSession, Turns
<1> QED BY <1>2 DEF DialogueSession, AfterChunksMessages

(* The end of the process. *)
LEMMA ProcessEndsTurns ==
  ASSUME SrvTypes, DialogueInv, NEW how, ProcessEnds(how), UNCHANGED <<cPc, clientChunk>>
  PROVE  DialogueInv'
<1>1. ASSUME NEW t \in Sessions PROVE DialogueSession(t)'
  <2>0. DialogueSession(t)
    BY DEF DialogueInv
  <2>1. CASE sPc[t] \in ServerEnds \cup {"idle"}
    <3>1. UNCHANGED <<sPc[t], mode[t], inSync[t], chunkIdx[t], toServer[t], toClient[t], conn[t],
                      cPc[t], clientChunk[t], chunkSize>>
      BY <2>1 DEF ProcessEnds
    <3> QED BY <2>0, <3>1, TurnsSame
  <2>2. CASE sPc[t] \notin ServerEnds \cup {"idle"}
    <3>1. sPc'[t] = "dead" /\ UNCHANGED <<mode, inSync>>
      BY <2>2 DEF ProcessEnds
    <3> QED BY <2>0, <3>1 DEF DialogueSession, InTurns, BeforeDecision, WithChunks, AfterChunks
  <2> QED BY <2>1, <2>2
<1> QED BY <1>1 DEF DialogueInv

LEMMA DialogueInit == Init => DialogueInv
<1> SUFFICES ASSUME Init, NEW s \in Sessions PROVE DialogueSession(s)
  BY DEF DialogueInv
<1>1. /\ sPc[s] = "idle" /\ mode[s] = "fresh" /\ inSync[s] /\ cPc[s] = "idle"
      /\ toServer[s] = <<>> /\ toClient[s] = <<>>
  BY DEF Init, ServerInit, SenderInit, WireInit
<1> QED BY <1>1 DEF DialogueSession, Turns, AfterChunks

LEMMA DialogueDial ==
  ASSUME TypeOK, AgreeInv, DialogueInv, NEW s \in Sessions, Dial(s)
  PROVE  DialogueInv'
<1> USE DEF TypeOK
<1>1. /\ cPc[s] = "idle" /\ sPc[s] = "idle"
      /\ UNCHANGED <<mode, inSync, chunkIdx, toServer, toClient, clientChunk, chunkSize>>
  BY DEF Dial, AgreeInv
<1>2. sPc' = [sPc EXCEPT ![s] = "accept"] /\ cPc' = [cPc EXCEPT ![s] = "profiling"]
  BY DEF Dial, Goto, Become
<1>3. ASSUME NEW t \in Sessions \ {s} PROVE DialogueSession(t)'
  BY <1>1, <1>2, TurnsSame DEF Dial, DialogueInv, ServerTypeOK, SenderTypeOK, WireTypeOK
<1>4. DialogueSession(s)'
  <2>1. DialogueSession(s)
    BY DEF DialogueInv
  <2>2. toServer[s] = <<>> /\ toClient[s] = <<>>
    BY <1>1, <2>1, TurnsAt DEF InTurns, BeforeDecision, Asked, Answered
  <2>3. sPc'[s] = "accept" /\ cPc'[s] = "profiling"
    BY <1>2 DEF ServerTypeOK, SenderTypeOK
  <2> QED BY <1>1, <2>1, <2>2, <2>3 DEF DialogueSession, Turns, AfterChunks
<1> QED BY <1>3, <1>4 DEF DialogueInv

(* The connection is lost, with what was under way. *)
LEMMA LostTurns ==
  ASSUME TypeOK, DialogueInv, NEW s \in Sessions, ConnectionLost(s),
         UNCHANGED <<srvVars, cliVars>>
  PROVE  DialogueInv'
<1> USE DEF TypeOK
<1>1. UNCHANGED <<sPc, mode, inSync, chunkIdx, cPc, clientChunk, chunkSize>>
  BY DEF srvVars, cliVars
<1>2. ASSUME NEW t \in Sessions \ {s} PROVE DialogueSession(t)'
  BY <1>1, TurnsSame DEF ConnectionLost, DialogueInv, WireTypeOK
<1>3. DialogueSession(s)'
  <2>1. DialogueSession(s)
    BY DEF DialogueInv
  <2>2. toServer'[s] = <<>> /\ toClient'[s] = <<>>
    BY DEF ConnectionLost, WireTypeOK
  <2>3. NumChunksOf(s)' = NumChunksOf(s)
    BY <1>1 DEF NumChunksOf
  <2>4. <<>> \in Seq(AfterChunksMessages)
    OBVIOUS
  <2>5. sPc[s] \in InTurns => Turns(s)'
    BY <1>1, <2>1, <2>2, <2>3 DEF DialogueSession, Turns
  <2> QED BY <1>1, <2>1, <2>2, <2>4, <2>5 DEF DialogueSession, AfterChunksMessages
<1> QED BY <1>2, <1>3 DEF DialogueInv

LEMMA DialogueServer ==
  ASSUME OneChunkSize, TypeOK, DialogueInv, NEW s \in Sessions, ServerStep(s) \/ ServerFault(s),
         UNCHANGED <<cPc, clientChunk>>
  PROVE  DialogueInv' /\ ~Panics(s)
<1> USE DEF TypeOK, SrvTypes, CliTypes
<1>1. DialogueSession(s)' /\ ~Panics(s)
  BY ServerTurns DEF DialogueInv
<1>2. ASSUME NEW t \in Sessions \ {s} PROVE DialogueSession(t)'
  <2>1. Untouched(t)
    BY <1>1, ServerFrame DEF Framed
  <2>2. OthersKept(s) /\ UNCHANGED chunkSize
    BY <1>1, ServerOthers
  <2> QED BY <2>1, <2>2, TurnsSame DEF Untouched, OthersKept, DialogueInv
<1> QED BY <1>1, <1>2 DEF DialogueInv

LEMMA DialogueClient ==
  ASSUME OneChunkSize, TypeOK, DialogueInv, NEW s \in Sessions, ClientStep(s) \/ ClientEnded(s),
         UNCHANGED srvVars
  PROVE  DialogueInv'
<1> USE DEF TypeOK, SrvTypes, CliTypes
<1>1. DialogueSession(s)' /\ UNCHANGED clientChunk
  BY ClientTurns DEF DialogueInv
<1>2. ClientFramed(s)
  BY ClientFrame
<1>3. ASSUME NEW t \in Sessions \ {s} PROVE DialogueSession(t)'
  BY <1>1, <1>2, ClientOthers, TurnsSame DEF ClientFramed, srvVars, DialogueInv
<1> QED BY <1>1, <1>3 DEF DialogueInv

(* Only a panic of a goroutine ends the process from within. *)
LEMMA ServerStays ==
  ASSUME NEW s \in Sessions, ServerStep(s) \/ ServerFault(s), ~Panics(s)
  PROVE  UNCHANGED server
BY DEF ServerStep, ServerFault, Panics, ReadInit, InitLost, TryResumeTransfer, ResumeDecision,
   DropPartialFile, DropPartialState, OpenOutput, PreallocateFile, SkipReceivedChunk,
   RequestChunk, ReceiveChunk, ReceiveOversizedChunk, MisreadChunk, ChunkLost, TruncateState,
   SaveState, SaveStateAndFail, AllChunksDone, RequestHash, CompareHash, HashLost, DiscardOutput,
   Cleanup, SendComplete, InitTimeout, OpenOutputFails, PreallocateFails, WriteChunkFails,
   SaveStateFails, LastSaveFails, HashFails, DiscardFails, RemovalFails, ReopenFails

LEMMA DialogueNext ==
  ASSUME OneChunkSize, TypeOK, TypeOK', AgreeInv, DialogueInv, [Next]_vars
  PROVE  DialogueInv' /\ (NeverPanics => NeverPanics')
<1>1. CASE RestartServer \/ UNCHANGED vars
  <2>1. /\ UNCHANGED <<sPc, mode, inSync, chunkIdx, toServer, toClient, conn, cPc, clientChunk>>
        /\ server' \in {server, "up"}
    BY <1>1 DEF RestartServer, Restart, vars, srvVars, cliVars, wireVars
  <2>2. UNCHANGED chunkSize
    BY SameChunk DEF TypeOK
  <2> QED BY <2>1, <2>2, TurnsSame DEF DialogueInv, NeverPanics
<1>2. ASSUME NEW s \in Sessions, Dial(s) PROVE DialogueInv' /\ UNCHANGED server
  BY <1>2, DialogueDial DEF Dial
<1>3. ASSUME NEW s \in Sessions, ServerStep(s) \/ ServerFault(s), UNCHANGED cliVars
      PROVE  DialogueInv' /\ UNCHANGED server
  <2>1. DialogueInv' /\ ~Panics(s)
    BY <1>3, DialogueServer DEF cliVars
  <2>2. UNCHANGED server
    BY <1>3, <2>1, ServerStays
  <2> QED BY <2>1, <2>2
<1>4. ASSUME NEW s \in Sessions, ClientStep(s) \/ ClientEnded(s), UNCHANGED srvVars
      PROVE  DialogueInv' /\ UNCHANGED server
  BY <1>4, DialogueClient DEF srvVars
<1>5. ASSUME Crash, UNCHANGED cliVars PROVE DialogueInv' /\ server' = "crashed"
  BY <1>5, ProcessEndsTurns DEF Crash, ProcessEnds, cliVars, TypeOK, SrvTypes
<1>6. ASSUME NEW s \in Sessions, ConnectionLost(s), UNCHANGED <<srvVars, cliVars>>
      PROVE  DialogueInv' /\ UNCHANGED server
  BY <1>6, LostTurns DEF srvVars
<1> QED
  BY <1>1, <1>2, <1>3, <1>4, <1>5, <1>6 DEF Next, ServerMoves, ClientMoves, Fault, NeverPanics

-----------------------------------------------------------------------------
(* Client and server take turns (server.go:120-187, 430-490;               *)
(* client.go:151-236): for any overlap of the sessions, with verification  *)
(* or without, through any faults, if both use one chunk size.             *)
THEOREM TurnsTaken ==
  ASSUME OneChunkSize
  PROVE  Spec => []DialogueInv
<1>1. Init => TypeOK /\ AgreeInv /\ DialogueInv
  BY InitTypes, AgreeInit, DialogueInit
<1>2. TypeOK /\ AgreeInv /\ DialogueInv /\ [Next]_vars => TypeOK' /\ AgreeInv' /\ DialogueInv'
  BY NextTypes, AgreeNext, DialogueNext
<1> QED
  BY <1>1, <1>2, PTL DEF Spec

(* No goroutine of a session ends the server process: with one chunk size  *)
(* an offer to resume is never refused, which is what leaves processChunks *)
(* with a nil state (server.go:189, 341), and no stream is read out of     *)
(* frame (server.go:491).  The goroutines that draw a bar are another      *)
(* matter: see Progress.                                                   *)
THEOREM NoPanic ==
  ASSUME OneChunkSize
  PROVE  Spec => []NeverPanics
<1>1. Init => NeverPanics
  BY DEF Init, ServerInit, NeverPanics
<1>2. TypeOK /\ TypeOK' /\ AgreeInv /\ DialogueInv /\ NeverPanics /\ [Next]_vars => NeverPanics'
  BY DialogueNext
<1> QED
  BY <1>1, <1>2, TypeCorrect, AgreementKept, TurnsTaken, PTL DEF Spec
=============================================================================
