--------------------------- MODULE DeliveryProofs ---------------------------
(***************************************************************************)
(* What a successful client may rely on: both ends agree on the outcome.   *)
(***************************************************************************)
EXTENDS FileTransferProofs

-----------------------------------------------------------------------------
(* Queues whose messages are all in a set N. *)

(* Flushing a message of N, or reading one, keeps a queue within N. *)
LEMMA SentWithin ==
  ASSUME NEW M, NEW N, NEW q \in [Sessions -> Seq(M)], NEW s \in Sessions, NEW t \in Sessions,
         NEW m, q[t] \in Seq(N), t = s => m \in N
  PROVE  Sent(s, q, m)[t] \in Seq(N)
BY DEF Sent

LEMMA SentElsewhere ==
  ASSUME NEW M, NEW q \in [Sessions -> Seq(M)], NEW s \in Sessions, NEW t \in Sessions \ {s},
         NEW m
  PROVE  Sent(s, q, m)[t] = q[t]
BY DEF Sent

LEMMA TakenWithin ==
  ASSUME NEW M, NEW N, NEW q \in [Sessions -> Seq(M)], NEW s \in Sessions, q[s] # <<>>,
         q[s] \in Seq(N)
  PROVE  /\ Taken(s, q)[s] \in Seq(N)
         /\ Head(q[s]) \in N
         /\ \A t \in Sessions \ {s} : Taken(s, q)[t] = q[t]
BY DEF Taken

LEMMA ToClientElsewhere ==
  ASSUME WireTypeOK, NEW s \in Sessions
  PROVE  \A m : \A t \in Sessions \ {s} : Sent(s, toClient, m)[t] = toClient[t]
BY SentElsewhere DEF WireTypeOK

LEMMA PlainNotComplete ==
  /\ \A c \in {"HashAlgo", "HashRequest", "Verdict", "Error"} : Plain(c) \in NotComplete
  /\ \A b \in BOOLEAN, t \in Int : ResumeMsg(b, t) \in NotComplete
  /\ \A off \in Int : RequestMsg(off) \in NotComplete
BY ServerMessageType DEF Plain, ResumeMsg, RequestMsg, NotComplete

-----------------------------------------------------------------------------
(* What a step of one goroutine leaves alone. *)

Untouched(t) ==
  /\ sPc'[t] = sPc[t]
  /\ fd'[t] = fd[t]
  /\ toServer'[t] = toServer[t]
  /\ toClient'[t] = toClient[t]

(* A goroutine sends CmdComplete only as it becomes "completed", and what  *)
(* it leaves unread was in its queue before.                               *)
Disciplined(s) ==
  /\ toClient[s] \in Seq(NotComplete) /\ sPc'[s] # "completed" => toClient'[s] \in Seq(NotComplete)
  /\ toServer[s] \in Seq(HonestHash(s)) => toServer'[s] \in Seq(HonestHash(s))

Framed(s) ==
  /\ ServerBusy(s)
  /\ \A t \in Sessions \ {s} : Untouched(t)
  /\ Disciplined(s)

LEMMA AbortFrame ==
  ASSUME SrvTypes, NEW s \in Sessions, Abort(s)
  PROVE  /\ \A t \in Sessions \ {s} : sPc'[t] = sPc[t] /\ toServer'[t] = toServer[t]
                                      /\ toClient'[t] = toClient[t]
         /\ toClient[s] \in Seq(NotComplete) => toClient'[s] \in Seq(NotComplete)
         /\ toServer'[s] = <<>>
         /\ sPc'[s] = "aborted"
<1>1. \A t \in Sessions \ {s} : Sent(s, toClient, Plain("Error"))[t] = toClient[t]
  BY SentElsewhere DEF SrvTypes, WireTypeOK
<1>2. toClient[s] \in Seq(NotComplete) => Sent(s, toClient, Plain("Error"))[s] \in Seq(NotComplete)
  BY SentWithin, PlainNotComplete DEF SrvTypes, WireTypeOK
<1> QED
  BY <1>1, <1>2 DEF Abort, ServerCloses, Goto, SrvTypes, WireTypeOK, ServerTypeOK

LEMMA AbortFramed ==
  ASSUME SrvTypes, NEW s \in Sessions, Abort(s), UNCHANGED fd, ServerBusy(s)
  PROVE  Framed(s)
<1>1. \A t \in Sessions \ {s} : Untouched(t)
  BY AbortFrame DEF Untouched
<1>2. toServer'[s] \in Seq(HonestHash(s))
  <2>1. <<>> \in Seq(HonestHash(s))
    OBVIOUS
  <2> QED BY <2>1, AbortFrame
<1> QED BY <1>1, <1>2, AbortFrame DEF Framed, Disciplined

LEMMA RetryFrame ==
  ASSUME SrvTypes, NEW s \in Sessions, RetryChunk(s), sPc[s] = "reply"
  PROVE  /\ \A t \in Sessions \ {s} : sPc'[t] = sPc[t] /\ toClient'[t] = toClient[t]
         /\ toClient[s] \in Seq(NotComplete) => toClient'[s] \in Seq(NotComplete)
         /\ sPc'[s] \in {"reply", "failSave"}
<1> DEFINE q == Sent(s, toClient, RequestMsg(CurrentOffset(s)))
<1>0. CurrentOffset(s) \in Int
  BY ServerNumbers DEF SrvTypes
<1>1. \A t \in Sessions \ {s} : q[t] = toClient[t]
  BY ToClientElsewhere DEF SrvTypes
<1>2. toClient[s] \in Seq(NotComplete) => q[s] \in Seq(NotComplete)
  BY <1>0, SentWithin, PlainNotComplete DEF SrvTypes, WireTypeOK
<1>3. CASE attempt[s] + 1 < Retries
  <2>1. toClient' = q /\ sPc' = sPc
    BY <1>3 DEF RetryChunk
  <2> HIDE DEF q
  <2> QED BY <1>1, <1>2, <2>1
<1>4. CASE ~(attempt[s] + 1 < Retries)
  BY <1>4 DEF RetryChunk, Goto, SrvTypes, ServerTypeOK
<1> QED BY <1>3, <1>4

LEMMA ServerFrame ==
  ASSUME SrvTypes, NEW s \in Sessions, ServerStep(s) \/ ServerFault(s), ~Panics(s)
  PROVE  Framed(s)
<1> USE DEF SrvTypes, Goto, ServerEnds, ServerBusy, Untouched, Disciplined, Framed
<1>1. CASE InitLost(s)
  <2>1. Abort(s) /\ UNCHANGED fd /\ ServerBusy(s)
    BY <1>1 DEF InitLost, ServerBusy, ServerEnds
  <2> QED BY <2>1, AbortFramed
<1>2. CASE SaveStateAndFail(s)
  <2>1. Abort(s) /\ UNCHANGED fd /\ ServerBusy(s)
    BY <1>2 DEF SaveStateAndFail, ServerBusy, ServerEnds
  <2> QED BY <2>1, AbortFramed
<1>3. CASE DiscardOutput(s)
  <2>1. Abort(s) /\ UNCHANGED fd /\ ServerBusy(s)
    BY <1>3 DEF DiscardOutput, ServerBusy, ServerEnds
  <2> QED BY <2>1, AbortFramed
<1>4. CASE OpenOutputFails(s)
  <2>1. Abort(s) /\ UNCHANGED fd /\ ServerBusy(s)
    BY <1>4 DEF OpenOutputFails, ServerBusy, ServerEnds
  <2> QED BY <2>1, AbortFramed
<1>5. CASE DiscardFails(s)
  <2>1. Abort(s) /\ UNCHANGED fd /\ ServerBusy(s)
    BY <1>5 DEF DiscardFails, ServerBusy, ServerEnds
  <2> QED BY <2>1, AbortFramed
<1>6. CASE DropPartialFile(s)
  BY <1>6 DEF DropPartialFile, ServerTypeOK, wireVars
<1>7. CASE DropPartialState(s)
  BY <1>7 DEF DropPartialState, ServerTypeOK, wireVars
<1>8. CASE OpenOutput(s) \/ ReopenFails(s)
  BY <1>8 DEF OpenOutput, ReopenFails, ServerTypeOK, wireVars
<1>9. CASE PreallocateFile(s)
  BY <1>9 DEF PreallocateFile, ServerTypeOK, wireVars
<1>10. CASE PreallocateFails(s)
  BY <1>10 DEF PreallocateFails, ServerTypeOK, wireVars
<1>11. CASE SkipReceivedChunk(s)
  BY <1>11 DEF SkipReceivedChunk, ServerTypeOK, wireVars, AtLoop
<1>12. CASE TruncateState(s)
  BY <1>12 DEF TruncateState, ServerTypeOK, wireVars
<1>13. CASE SaveState(s)
  BY <1>13 DEF SaveState, ServerTypeOK, wireVars
<1>14. CASE SaveStateFails(s)
  BY <1>14 DEF SaveStateFails, ServerTypeOK, wireVars
<1>15. CASE AllChunksDone(s)
  BY <1>15 DEF AllChunksDone, ServerTypeOK, wireVars, AtLoop
<1>16. CASE HashLost(s)
  BY <1>16 DEF HashLost, ServerTypeOK, wireVars
<1>17. CASE Cleanup(s)
  BY <1>17 DEF Cleanup, ServerTypeOK, wireVars
<1>18. CASE RemovalFails(s)
  BY <1>18 DEF RemovalFails, ServerTypeOK, wireVars
<1>19. CASE ResumeDecision(s)
  <2>1. toServer[s] # <<>> /\ toServer' = Taken(s, toServer)
    BY <1>19 DEF ResumeDecision, HasCommand
  <2>2. toServer[s] \in Seq(HonestHash(s)) => toServer'[s] \in Seq(HonestHash(s))
    BY <2>1, TakenWithin DEF WireTypeOK
  <2>3. \A t \in Sessions \ {s} : toServer'[t] = toServer[t]
    BY <2>1 DEF Taken, WireTypeOK
  <2> QED BY <1>19, <2>2, <2>3 DEF ResumeDecision, ServerTypeOK
<1>20. CASE ReceiveChunk(s)
  <2>1. toServer[s] # <<>> /\ toServer' = Taken(s, toServer)
    BY <1>20 DEF ReceiveChunk, HasCommand, ChunkArrived
  <2>2. toServer[s] \in Seq(HonestHash(s)) => toServer'[s] \in Seq(HonestHash(s))
    BY <2>1, TakenWithin DEF WireTypeOK
  <2>3. \A t \in Sessions \ {s} : toServer'[t] = toServer[t]
    BY <2>1 DEF Taken, WireTypeOK
  <2> QED BY <1>20, <2>2, <2>3 DEF ReceiveChunk, ServerTypeOK, ChunkArrived
<1>21. CASE HashFails(s)
  <2>1. toServer[s] # <<>> /\ toServer' = Taken(s, toServer)
    BY <1>21 DEF HashFails, HasCommand
  <2>2. toServer[s] \in Seq(HonestHash(s)) => toServer'[s] \in Seq(HonestHash(s))
    BY <2>1, TakenWithin DEF WireTypeOK
  <2>3. \A t \in Sessions \ {s} : toServer'[t] = toServer[t]
    BY <2>1 DEF Taken, WireTypeOK
  <2> QED BY <1>21, <2>2, <2>3 DEF HashFails, ServerTypeOK
<1>22. CASE ReceiveOversizedChunk(s)
  <2>1. toServer[s] # <<>> /\ toServer' = Taken(s, toServer) /\ RetryChunk(s) /\ sPc[s] = "reply"
    BY <1>22 DEF ReceiveOversizedChunk, HasCommand, ChunkArrived
  <2>2. toServer[s] \in Seq(HonestHash(s)) => toServer'[s] \in Seq(HonestHash(s))
    BY <2>1, TakenWithin DEF WireTypeOK
  <2>3. \A t \in Sessions \ {s} : toServer'[t] = toServer[t]
    BY <2>1 DEF Taken, WireTypeOK
  <2> QED BY <1>22, <2>1, <2>2, <2>3, RetryFrame DEF ReceiveOversizedChunk
<1>23. CASE WriteChunkFails(s)
  <2>1. toServer[s] # <<>> /\ toServer' = Taken(s, toServer) /\ RetryChunk(s) /\ sPc[s] = "reply"
    BY <1>23 DEF WriteChunkFails, HasCommand, ChunkArrived
  <2>2. toServer[s] \in Seq(HonestHash(s)) => toServer'[s] \in Seq(HonestHash(s))
    BY <2>1, TakenWithin DEF WireTypeOK
  <2>3. \A t \in Sessions \ {s} : toServer'[t] = toServer[t]
    BY <2>1 DEF Taken, WireTypeOK
  <2> QED BY <1>23, <2>1, <2>2, <2>3, RetryFrame DEF WriteChunkFails
<1>24. CASE ChunkLost(s)
  BY <1>24, RetryFrame DEF ChunkLost
<1>25. CASE InitTimeout(s)
  BY <1>25 DEF InitTimeout, ServerCloses, ServerTypeOK, WireTypeOK
<1>26. CASE ReadInit(s)
  <2>1. CASE FileSize[s] = 0
    <3>1. Abort(s) /\ UNCHANGED fd /\ ServerBusy(s)
      BY <1>26, <2>1 DEF ReadInit
    <3> QED BY <3>1, AbortFramed
  <2>2. CASE FileSize[s] # 0
    <3>1. toServer[s] # <<>> /\ toServer' = Taken(s, toServer)
      BY <1>26, <2>2 DEF ReadInit, HasCommand
    <3>2. toServer[s] \in Seq(HonestHash(s)) => toServer'[s] \in Seq(HonestHash(s))
      BY <3>1, TakenWithin DEF WireTypeOK
    <3>3. \A t \in Sessions \ {s} : toServer'[t] = toServer[t]
      BY <3>1 DEF Taken, WireTypeOK
    <3> QED BY <1>26, <2>2, <3>2, <3>3 DEF ReadInit, ServerTypeOK
  <2> QED BY <2>1, <2>2
<1>27. CASE MisreadChunk(s)
  <2>1. toServer'[s] = <<>> /\ \A t \in Sessions \ {s} : toServer'[t] = toServer[t]
    BY <1>27 DEF MisreadChunk, WireTypeOK
  <2>2. CASE RetryChunk(s)
    BY <1>27, <2>1, <2>2, RetryFrame DEF MisreadChunk
  <2>3. CASE Goto(s, "save") /\ UNCHANGED toClient
    BY <1>27, <2>1, <2>3 DEF MisreadChunk, ServerTypeOK
  <2> QED BY <1>27, <2>2, <2>3 DEF MisreadChunk
<1>28. CASE TryResumeTransfer(s)
  <2>1. NumChunksOf(s) \in Int
    BY ServerNumbers
  <2>2. \A t \in Sessions \ {s} : toClient'[t] = toClient[t]
    BY <1>28, ToClientElsewhere DEF TryResumeTransfer
  <2>3. toClient[s] \in Seq(NotComplete) => toClient'[s] \in Seq(NotComplete)
    BY <1>28, <2>1, SentWithin, PlainNotComplete DEF TryResumeTransfer, WireTypeOK
  <2> QED BY <1>28, <2>2, <2>3 DEF TryResumeTransfer, ServerTypeOK
<1>29. CASE RequestChunk(s)
  <2>1. CurrentOffset(s) \in Int
    BY ServerNumbers
  <2>2. \A t \in Sessions \ {s} : toClient'[t] = toClient[t]
    BY <1>29, ToClientElsewhere DEF RequestChunk
  <2>3. toClient[s] \in Seq(NotComplete) => toClient'[s] \in Seq(NotComplete)
    BY <1>29, <2>1, SentWithin, PlainNotComplete DEF RequestChunk, WireTypeOK
  <2> QED BY <1>29, <2>2, <2>3 DEF RequestChunk, ServerTypeOK, AtLoop
<1>30. CASE RequestHash(s)
  <2> DEFINE q == Sent(s, toClient, Plain("HashAlgo"))
  <2>1. q \in [Sessions -> Seq(ServerMessages)]
    BY SentType, ServerMessageType DEF WireTypeOK
  <2>2. \A t \in Sessions \ {s} : q[t] = toClient[t]
    BY SentElsewhere DEF WireTypeOK
  <2>3. toClient[s] \in Seq(NotComplete) => q[s] \in Seq(NotComplete)
    BY SentWithin, PlainNotComplete DEF WireTypeOK
  <2>4. toClient' = Sent(s, q, Plain("HashRequest"))
    BY <1>30 DEF RequestHash
  <2> HIDE DEF q
  <2>5. \A t \in Sessions \ {s} : toClient'[t] = toClient[t]
    BY <2>1, <2>2, <2>4, SentElsewhere
  <2>6. toClient[s] \in Seq(NotComplete) => toClient'[s] \in Seq(NotComplete)
    BY <2>1, <2>3, <2>4, SentWithin, PlainNotComplete
  <2> QED BY <1>30, <2>5, <2>6 DEF RequestHash, ServerTypeOK
<1>31. CASE CompareHash(s)
  <2>1. PICK c \in {"Verdict", "Error"} : toClient' = Sent(s, toClient, Plain(c))
    BY <1>31 DEF CompareHash
  <2>2. \A t \in Sessions \ {s} : toClient'[t] = toClient[t]
    BY <2>1, SentElsewhere DEF WireTypeOK
  <2>3. toClient[s] \in Seq(NotComplete) => toClient'[s] \in Seq(NotComplete)
    BY <2>1, SentWithin, PlainNotComplete DEF WireTypeOK
  <2>4. toServer[s] # <<>> /\ toServer' = Taken(s, toServer)
    BY <1>31 DEF CompareHash, HasCommand
  <2>5. toServer[s] \in Seq(HonestHash(s)) => toServer'[s] \in Seq(HonestHash(s))
    BY <2>4, TakenWithin DEF WireTypeOK
  <2>6. \A t \in Sessions \ {s} : toServer'[t] = toServer[t]
    BY <2>4 DEF Taken, WireTypeOK
  <2> QED BY <1>31, <2>2, <2>3, <2>5, <2>6 DEF CompareHash, ServerTypeOK
<1>32. CASE SendComplete(s)
  <2>1. \A t \in Sessions \ {s} : toClient'[t] = toClient[t]
    BY <1>32, SentElsewhere DEF SendComplete, ServerCloses, WireTypeOK
  <2> QED BY <1>32, <2>1 DEF SendComplete, ServerCloses, ServerTypeOK, WireTypeOK
<1>33. CASE LastSaveFails(s)
  <2>1. Abort(s) /\ UNCHANGED fd /\ ServerBusy(s)
    BY <1>33 DEF LastSaveFails, ServerBusy, ServerEnds
  <2> QED BY <2>1, AbortFramed
<1> QED
  BY <1>1, <1>2, <1>3, <1>4, <1>5, <1>6, <1>7, <1>8, <1>9, <1>10, <1>11, <1>12, <1>13, <1>14,
     <1>15, <1>16, <1>17, <1>18, <1>19, <1>20, <1>21, <1>22, <1>23, <1>24, <1>25, <1>26,
     <1>27, <1>28, <1>29, <1>30, <1>31, <1>32, <1>33
  DEF ServerStep, ServerFault, Panics

-----------------------------------------------------------------------------
(* What a step of one client leaves alone. *)

ClientFramed(s) ==
  /\ Running(s)
  /\ cPc'[s] # "idle"
  /\ cPc'[s] = "ok" => HandleComplete(s)
  /\ \A t \in Sessions \ {s} : /\ cPc'[t] = cPc[t]
                               /\ toServer'[t] = toServer[t]
                               /\ toClient'[t] = toClient[t]
  /\ toClient[s] \in Seq(NotComplete) => toClient'[s] \in Seq(NotComplete)
  /\ toServer[s] \in Seq(HonestHash(s)) => toServer'[s] \in Seq(HonestHash(s))

LEMMA ToServerElsewhere ==
  ASSUME WireTypeOK, NEW s \in Sessions
  PROVE  \A m : \A t \in Sessions \ {s} : Sent(s, toServer, m)[t] = toServer[t]
BY SentElsewhere DEF WireTypeOK

(* Only a hash of its own file goes out as a hash. *)
LEMMA HonestMessages ==
  ASSUME SenderTypeOK, NEW s \in Sessions
  PROVE  /\ InitMsg \in HonestHash(s)
         /\ \A b \in BOOLEAN : AckMsg(b) \in HonestHash(s)
         /\ \A off \in Int : ChunkAt(s, off) \in HonestHash(s)
         /\ HashMsg(Source(s)) \in HonestHash(s)
<1>1. clientChunk[s] \in Int /\ FileSize[s] \in Int
  BY ConstantTypes DEF SenderTypeOK
<1>2. ASSUME NEW off \in Int PROVE ChunkAt(s, off) \in HonestHash(s)
  <2>1. ReadLength(FileSize[s], off, clientChunk[s]) \in Int
    BY <1>1 DEF ReadLength, Least
  <2> QED BY <2>1, ClientMessageType DEF ChunkAt, DataMsg, HonestHash
<1>3. InitMsg \in HonestHash(s)
  BY ClientMessageType DEF InitMsg, HonestHash
<1>4. \A b \in BOOLEAN : AckMsg(b) \in HonestHash(s)
  BY ClientMessageType DEF AckMsg, HonestHash
<1>5. HashMsg(Source(s)) \in HonestHash(s)
  BY SourceType, ClientMessageType DEF HashMsg, HonestHash
<1> QED BY <1>2, <1>3, <1>4, <1>5

LEMMA ClosedFrame ==
  ASSUME CliTypes, NEW s \in Sessions, ClientCloses(s), Running(s), NEW pc \in ClientEnds,
         Become(s, pc), pc = "ok" => HandleComplete(s)
  PROVE  ClientFramed(s)
<1>1. <<>> \in Seq(NotComplete)
  OBVIOUS
<1> QED
  BY <1>1 DEF ClientCloses, Become, ClientFramed, ClientEnds, CliTypes, SenderTypeOK, WireTypeOK

(* A step that reads one message of the server and answers with one. *)
LEMMA AnswerFrame ==
  ASSUME CliTypes, NEW s \in Sessions, NEW m \in HonestHash(s), toClient[s] # <<>>,
         toClient' = Taken(s, toClient), toServer' = Sent(s, toServer, m), Running(s),
         NEW pc \in {"nego", "serve", "hashwait"}, cPc' = [cPc EXCEPT ![s] = pc]
  PROVE  ClientFramed(s)
<1>1. \A t \in Sessions \ {s} : toServer'[t] = toServer[t]
  BY ToServerElsewhere DEF CliTypes
<1>2. toServer[s] \in Seq(HonestHash(s)) => toServer'[s] \in Seq(HonestHash(s))
  BY SentWithin DEF CliTypes, WireTypeOK
<1>3. \A t \in Sessions \ {s} : toClient'[t] = toClient[t]
  BY DEF Taken, CliTypes, WireTypeOK
<1>4. toClient[s] \in Seq(NotComplete) => toClient'[s] \in Seq(NotComplete)
  BY TakenWithin DEF CliTypes, WireTypeOK
<1>5. cPc'[s] = pc /\ \A t \in Sessions \ {s} : cPc'[t] = cPc[t]
  BY DEF CliTypes, SenderTypeOK
<1> QED BY <1>1, <1>2, <1>3, <1>4, <1>5 DEF ClientFramed

LEMMA ClientFrame ==
  ASSUME CliTypes, NEW s \in Sessions, ClientStep(s) \/ ClientEnded(s)
  PROVE  ClientFramed(s)
<1>1. CASE InitializeTransfer(s)
  <2>1. \A t \in Sessions \ {s} : toServer'[t] = toServer[t]
    BY <1>1, ToServerElsewhere DEF InitializeTransfer, CliTypes
  <2>2. toServer[s] \in Seq(HonestHash(s)) => toServer'[s] \in Seq(HonestHash(s))
    BY <1>1, SentWithin, HonestMessages DEF InitializeTransfer, CliTypes, WireTypeOK
  <2> QED BY <1>1, <2>1, <2>2 DEF InitializeTransfer, Become, ClientFramed, Running, ClientEnds,
                                  CliTypes, SenderTypeOK
<1>2. CASE NegotiateResume(s)
  <2> DEFINE m == Head(toClient[s])
             agreed == m.can /\ m.total = NumChunks(FileSize[s], clientChunk[s])
  <2>1. toClient[s] # <<>> /\ m.cmd = "Resume" /\ m \in ServerMessages /\ Running(s)
    BY <1>2 DEF NegotiateResume, HasCommand, CliTypes, WireTypeOK, Running, ClientEnds
  <2>2. agreed \in BOOLEAN
    BY <2>1, ServerMessageFields
  <2>3. AckMsg(agreed) \in HonestHash(s)
    BY <2>2, HonestMessages DEF CliTypes
  <2>4. /\ toServer' = Sent(s, toServer, AckMsg(agreed))
        /\ toClient' = Taken(s, toClient)
        /\ cPc' = [cPc EXCEPT ![s] = "serve"]
    BY <1>2 DEF NegotiateResume, Become
  <2> HIDE DEF agreed
  <2> QED BY <2>1, <2>3, <2>4, AnswerFrame
<1>3. CASE HandleChunkRequest(s)
  <2> DEFINE m == Head(toClient[s])
  <2>1. toClient[s] # <<>> /\ m.cmd = "Request" /\ m \in ServerMessages /\ Running(s)
    BY <1>3 DEF HandleChunkRequest, HasCommand, CliTypes, WireTypeOK, Running, ClientEnds
  <2>2. ChunkAt(s, m.off) \in HonestHash(s)
    BY <2>1, ServerMessageFields, HonestMessages DEF CliTypes
  <2>3. /\ toServer' = Sent(s, toServer, ChunkAt(s, m.off))
        /\ toClient' = Taken(s, toClient)
        /\ cPc' = [cPc EXCEPT ![s] = "serve"]
    BY <1>3 DEF HandleChunkRequest, cliVars, CliTypes, SenderTypeOK
  <2> QED BY <2>1, <2>2, <2>3, AnswerFrame
<1>4. CASE HandleHashRequest(s)
  <2>1. toClient[s] # <<>> /\ Running(s)
    BY <1>4 DEF HandleHashRequest, HasCommand, Running, ClientEnds
  <2>2. HashMsg(Source(s)) \in HonestHash(s)
    BY HonestMessages DEF CliTypes
  <2>3. /\ toServer' = Sent(s, toServer, HashMsg(Source(s)))
        /\ toClient' = Taken(s, toClient)
        /\ cPc' = [cPc EXCEPT ![s] = "hashwait"]
    BY <1>4 DEF HandleHashRequest, Become
  <2> QED BY <2>1, <2>2, <2>3, AnswerFrame
<1>5. CASE ReadVerdict(s)
  <2> DEFINE q == toClient[s]
             rest == IF GluedVerdict(q) THEN Tail(Tail(q)) ELSE Tail(q)
  <2>1. CASE VerdictFrom(q) = "refused"
    <3>1. Become(s, "failed") /\ ClientCloses(s) /\ Running(s)
      BY <1>5, <2>1 DEF ReadVerdict, Running, ClientEnds
    <3> QED BY <3>1, ClosedFrame DEF ClientEnds
  <2>2. CASE VerdictFrom(q) # "refused"
    <3>1. /\ Running(s) /\ Become(s, "serve") /\ UNCHANGED toServer
          /\ toClient' = [toClient EXCEPT ![s] = rest]
      BY <1>5, <2>2 DEF ReadVerdict, Running, ClientEnds
    <3>2. q \in Seq(ServerMessages) /\ q # <<>> /\ (GluedVerdict(q) => Len(q) > 1)
      BY <1>5 DEF ReadVerdict, CliTypes, WireTypeOK, GluedVerdict
    <3>3. q \in Seq(NotComplete) => rest \in Seq(NotComplete)
      BY <3>2, RestWithin
    <3> HIDE DEF rest
    <3> QED BY <3>1, <3>3 DEF Become, ClientFramed, CliTypes, SenderTypeOK, WireTypeOK
  <2> QED BY <2>1, <2>2
<1>6. CASE HandleComplete(s)
  <2>1. Become(s, "ok") /\ ClientCloses(s) /\ Running(s)
    BY <1>6 DEF HandleComplete, Running, ClientEnds
  <2> QED BY <1>6, <2>1, ClosedFrame DEF ClientEnds
<1>7. CASE HandleError(s) \/ ServerLost(s) \/ ClientEnded(s)
  <2>1. Become(s, "failed") /\ ClientCloses(s) /\ Running(s)
    BY <1>7 DEF HandleError, ServerLost, ClientEnded, Running, ClientEnds
  <2> QED BY <2>1, ClosedFrame DEF ClientEnds
<1> QED
  BY <1>1, <1>2, <1>3, <1>4, <1>5, <1>6, <1>7 DEF ClientStep

-----------------------------------------------------------------------------
(* Both ends agree on the outcome. *)

LEMMA AgreeInit == Init => AgreeInv
BY DEF Init, SenderInit, ServerInit, WireInit, AgreeInv, NoFalseSuccess

(* The end of the process reaches every live goroutine, none of which was  *)
(* through.                                                                *)
LEMMA ProcessEndsAgree ==
  ASSUME AgreeInv, NEW how, ProcessEnds(how), UNCHANGED cPc
  PROVE  AgreeInv'
<1>1. \A t \in Sessions :
        /\ sPc'[t] = "completed" <=> sPc[t] = "completed"
        /\ sPc[t] = "idle" => sPc'[t] = "idle"
  BY DEF ProcessEnds, ServerEnds
<1>2. toClient' = toClient
  BY DEF ProcessEnds
<1> QED BY <1>1, <1>2 DEF AgreeInv, NoFalseSuccess

LEMMA AgreeClient ==
  ASSUME TypeOK, AgreeInv, NEW s \in Sessions, ClientStep(s) \/ ClientEnded(s), UNCHANGED sPc
  PROVE  AgreeInv'
<1> USE DEF TypeOK, CliTypes
<1>1. ClientFramed(s)
  BY ClientFrame
<1>2. ASSUME cPc'[s] = "ok" PROVE sPc[s] = "completed"
  <2>1. toClient[s] # <<>> /\ Head(toClient[s]).cmd = "Complete"
    BY <1>1, <1>2 DEF ClientFramed, HandleComplete, HasCommand
  <2>2. toClient[s] \notin Seq(NotComplete)
    BY <2>1, TakenWithin DEF NotComplete, WireTypeOK
  <2> QED BY <2>2 DEF AgreeInv
<1> QED BY <1>1, <1>2 DEF ClientFramed, AgreeInv, NoFalseSuccess

LEMMA AgreeNext == TypeOK /\ AgreeInv /\ [Next]_vars => AgreeInv'
<1> SUFFICES ASSUME TypeOK, AgreeInv, [Next]_vars PROVE AgreeInv'
  OBVIOUS
<1> USE DEF TypeOK, SrvTypes, CliTypes
<1>1. ASSUME NEW s \in Sessions, Dial(s) PROVE AgreeInv'
  BY <1>1 DEF Dial, Become, Goto, AgreeInv, NoFalseSuccess, SenderTypeOK, ServerTypeOK
<1>2. ASSUME NEW s \in Sessions, ServerStep(s) \/ ServerFault(s), UNCHANGED cPc PROVE AgreeInv'
  <2>1. CASE Panics(s)
    BY <1>2, <2>1, ProcessEndsAgree DEF Panics, NilStatePanic, MisreadPanics
  <2>2. CASE ~Panics(s)
    <3>1. Framed(s)
      BY <1>2, <2>2, ServerFrame
    <3>2. sPc[s] # "completed"
      BY <3>1 DEF Framed, ServerBusy, ServerEnds
    <3>5. cPc[s] # "idle"
      BY <3>1 DEF Framed, ServerBusy, AgreeInv
    <3>3. \A t \in Sessions \ {s} : sPc'[t] = sPc[t] /\ toClient'[t] = toClient[t]
      BY <3>1 DEF Framed, Untouched
    <3>4. sPc'[s] # "completed" => toClient'[s] \in Seq(NotComplete)
      BY <3>1, <3>2 DEF Framed, Disciplined, AgreeInv
    <3> QED BY <1>2, <3>2, <3>3, <3>4, <3>5 DEF AgreeInv, NoFalseSuccess
  <2> QED BY <2>1, <2>2
<1>3. ASSUME NEW s \in Sessions, ClientStep(s) \/ ClientEnded(s), UNCHANGED sPc PROVE AgreeInv'
  BY <1>3, AgreeClient
<1>4. CASE RestartServer
  BY <1>4 DEF RestartServer, Restart, AgreeInv, NoFalseSuccess, cliVars, wireVars
<1>5. CASE Fault
  <2>1. CASE Crash /\ UNCHANGED cliVars
    BY <2>1, ProcessEndsAgree DEF Crash, cliVars
  <2>2. ASSUME NEW s \in Sessions, ConnectionLost(s), UNCHANGED <<srvVars, cliVars, diskVars>>
        PROVE AgreeInv'
    <3>1. <<>> \in Seq(NotComplete)
      OBVIOUS
    <3> QED BY <2>2, <3>1 DEF ConnectionLost, AgreeInv, NoFalseSuccess, srvVars, cliVars,
                              WireTypeOK
  <2> QED BY <1>2, <1>3, <1>5, <2>1, <2>2 DEF Fault, cliVars, srvVars
<1>6. CASE UNCHANGED vars
  BY <1>6 DEF vars, srvVars, cliVars, wireVars, AgreeInv, NoFalseSuccess
<1> QED
  BY <1>1, <1>2, <1>3, <1>4, <1>5, <1>6 DEF Next, ServerMoves, ClientMoves, cliVars, srvVars

(* The invariant that ties the outcomes of both ends to what is on its way *)
(* between them, kept by every step (server.go:244-270, client.go:213-236).*)
THEOREM AgreementKept == Spec => []AgreeInv
<1>1. Init => TypeOK /\ AgreeInv
  BY InitTypes, AgreeInit
<1>2. TypeOK /\ AgreeInv /\ [Next]_vars => TypeOK' /\ AgreeInv'
  BY NextTypes, AgreeNext
<1> QED
  BY <1>1, <1>2, PTL DEF Spec

(* A client reports success only for a session the server completed, for   *)
(* every chunk size, any overlap of the sessions, any faults.              *)
THEOREM Agreement == Spec => []NoFalseSuccess
<1>1. AgreeInv => NoFalseSuccess
  BY DEF AgreeInv
<1> QED
  BY <1>1, AgreementKept, PTL
=============================================================================
