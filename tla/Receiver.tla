------------------------------ MODULE Receiver ------------------------------
(***************************************************************************)
(* server.go: the server process and, for each session, the goroutine that *)
(* runs handleConnection and handleFileTransfer.  One action per step      *)
(* between two points where another goroutine, a crash or the network can  *)
(* come in: a blocking read, a change of the disk, a flush.                *)
(***************************************************************************)
EXTENDS Wire, Store

CONSTANTS
  ServerChunks,  \* chunk sizes the server may be configured with
  ServerVerify,  \* cfg.VerifyHash of the server
  ClientVerify,  \* ClientVerify[s]: the preference session s sends
  Retries,       \* cfg.Retries of the server
  ReopenMayFail  \* whether a file that is there may fail to open (see ReopenFails)

ASSUME ReceiverAssumption ==
  /\ ServerChunks \subseteq Nat \ {0} /\ ServerChunks # {}
  /\ ServerVerify \in BOOLEAN
  /\ ClientVerify \in [Sessions -> BOOLEAN]
  /\ Retries \in Nat
  /\ ReopenMayFail \in BOOLEAN

VARIABLES
  server,     \* the process: "up", "crashed" or "panicked"
  chunkSize,  \* cfg.ChunkSize of the running server
  sPc,        \* where the goroutine of session s stands
  mode,       \* "fresh", "resumed", or "rejected": transferState = nil
  received,   \* transferState.ChunksReceived, as the set of true indices
  chunkIdx,   \* loop variable of processChunks
  attempt,    \* retry counter of receiveChunkWithRetries
  fd,         \* the file outFile refers to
  inSync      \* whether the goroutine reads on message boundaries

srvVars == <<server, chunkSize, sPc, mode, received, chunkIdx, attempt, fd, inSync>>

(* Ends of a goroutine: CmdComplete flushed, a return before it, or the    *)
(* end of the process.                                                     *)
ServerEnds == {"completed", "aborted", "dead"}

Attempts == {0} \cup {n \in Nat : n < Retries}

ServerTypeOK ==
  /\ server \in {"up", "crashed", "panicked"}
  /\ chunkSize \in ServerChunks
  /\ sPc \in [Sessions -> {"idle", "accept", "load", "ack", "dropFile", "dropState",
                           "open", "alloc", "loop", "reply", "save", "saving",
                           "failSave", "failSaving", "verify", "hash", "discard",
                           "cleanup", "complete"} \cup ServerEnds]
  /\ mode \in [Sessions -> {"fresh", "resumed", "rejected"}]
  /\ received \in [Sessions -> SUBSET Int]
  /\ chunkIdx \in [Sessions -> Nat]
  /\ attempt \in [Sessions -> Attempts]
  /\ fd \in [Sessions -> Sessions]
  /\ inSync \in [Sessions -> BOOLEAN]

ServerInit ==
  /\ server = "up"
  /\ chunkSize \in ServerChunks
  /\ sPc = [s \in Sessions |-> "idle"]
  /\ mode = [s \in Sessions |-> "fresh"]
  /\ received = [s \in Sessions |-> {}]
  /\ chunkIdx = [s \in Sessions |-> 0]
  /\ attempt = [s \in Sessions |-> 0]
  /\ fd = [s \in Sessions |-> s]
  /\ inSync = [s \in Sessions |-> TRUE]

Goto(s, pc) == sPc' = [sPc EXCEPT ![s] = pc]

(* Return with SendError and the deferred Close. *)
Abort(s) ==
  /\ Goto(s, "aborted")
  /\ ServerCloses(s, Sent(s, toClient, Plain("Error")))

NumChunksOf(s) == NumChunks(FileSize[s], chunkSize)

-----------------------------------------------------------------------------
(* Connection and initialization. *)

(* CmdInit, name, size and preference are in: an empty file is refused. *)
ReadInit(s) ==
  /\ sPc[s] = "accept"
  /\ HasCommand(s, toServer, "Init")
  /\ IF FileSize[s] = 0
       THEN Abort(s)
       ELSE /\ Goto(s, "load")
            /\ toServer' = Taken(s, toServer)
            /\ UNCHANGED <<conn, toClient>>
  /\ UNCHANGED <<server, chunkSize, mode, received, chunkIdx, attempt, fd, inSync, diskVars>>

(* The client left before or during its initialization. *)
InitLost(s) ==
  /\ sPc[s] \in {"accept", "ack"}
  /\ AtEof(s, toServer)
  /\ Abort(s)
  /\ UNCHANGED <<server, chunkSize, mode, received, chunkIdx, attempt, fd, inSync, diskVars>>

(* cfg.Timeout expires before the first command: the goroutine returns     *)
(* without a word.                                                         *)
InitTimeout(s) ==
  /\ sPc[s] = "accept"
  /\ conn[s] = "open" /\ toServer[s] = <<>>
  /\ Goto(s, "aborted")
  /\ ServerCloses(s, toClient)
  /\ UNCHANGED <<server, chunkSize, mode, received, chunkIdx, attempt, fd, inSync, diskVars>>

(* Mutant: resuming is offered, the list of received chunks is not taken.  *)
TryResumeWithoutList(s) ==
  LET fits == stateFile.kind = "saved" /\ stateFile.size = FileSize[s] /\ stateFile.chunk = chunkSize
  IN  /\ sPc[s] = "load"
      /\ mode' = [mode EXCEPT ![s] = IF fits THEN "resumed" ELSE "fresh"]
      /\ received' = [received EXCEPT ![s] = {}]
      /\ toClient' = Sent(s, toClient, ResumeMsg(fits, NumChunksOf(s)))
      /\ Goto(s, "ack")
      /\ UNCHANGED <<conn, toServer, server, chunkSize, chunkIdx, attempt, fd, inSync, diskVars>>

(* Mutant: a state file that does not parse ends the transfer. *)
TryResumeStrictly(s) ==
  LET fits == stateFile.kind = "saved" /\ stateFile.size = FileSize[s] /\ stateFile.chunk = chunkSize
  IN  /\ sPc[s] = "load"
      /\ mode' = [mode EXCEPT ![s] = IF fits THEN "resumed" ELSE "fresh"]
      /\ received' = [received EXCEPT ![s] = IF fits THEN stateFile.recv ELSE {}]
      /\ IF stateFile.kind = "torn"
           THEN Abort(s)
           ELSE /\ toClient' = Sent(s, toClient, ResumeMsg(fits, NumChunksOf(s)))
                /\ Goto(s, "ack")
                /\ UNCHANGED <<conn, toServer>>
      /\ UNCHANGED <<server, chunkSize, chunkIdx, attempt, fd, inSync, diskVars>>

(* tryResumeTransfer: the state on disk is taken over if it was made for   *)
(* the same size and chunk size; either way the client is told.            *)
TryResumeTransfer(s) ==
  LET fits == /\ stateFile.kind = "saved"
              /\ stateFile.size = FileSize[s]
              /\ stateFile.chunk = chunkSize
  IN  /\ sPc[s] = "load"
      /\ mode' = [mode EXCEPT ![s] = IF fits THEN "resumed" ELSE "fresh"]
      /\ received' = [received EXCEPT ![s] = IF fits THEN stateFile.recv ELSE {}]
      /\ toClient' = Sent(s, toClient, ResumeMsg(fits, NumChunksOf(s)))
      /\ Goto(s, "ack")
      /\ UNCHANGED <<conn, toServer, server, chunkSize, chunkIdx, attempt, fd, inSync, diskVars>>

(* waitForResumeDecision: a rejected resume sets transferState to nil. *)
ResumeDecision(s) ==
  /\ sPc[s] = "ack"
  /\ HasCommand(s, toServer, "Ack")
  /\ IF mode[s] = "resumed" /\ ~Head(toServer[s]).accept
       THEN mode' = [mode EXCEPT ![s] = "rejected"] /\ Goto(s, "dropFile")
       ELSE mode' = mode /\ Goto(s, "open")
  /\ toServer' = Taken(s, toServer)
  /\ UNCHANGED <<conn, toClient, server, chunkSize, received, chunkIdx, attempt, fd, inSync, diskVars>>

(* os.Remove(outputPath), then RemoveTransferState, of a rejected resume. *)
DropPartialFile(s) ==
  /\ sPc[s] = "dropFile"
  /\ RemoveOutput
  /\ Goto(s, "dropState")
  /\ UNCHANGED <<data, stateFile, server, chunkSize, mode, received, chunkIdx, attempt,
                 fd, inSync, wireVars>>

DropPartialState(s) ==
  /\ sPc[s] = "dropState"
  /\ RemoveTransferState
  /\ Goto(s, "open")
  /\ UNCHANGED <<outFile, data, server, chunkSize, mode, received, chunkIdx, attempt,
                 fd, inSync, wireVars>>

(* Mutant: os.Create also when resuming. *)
OpenOutputTruncates(s) ==
  /\ sPc[s] = "open"
  /\ fd' = [fd EXCEPT ![s] = CreatedFile(s)]
  /\ CreateOutput(s)
  /\ Goto(s, IF mode[s] = "resumed" THEN "loop" ELSE "alloc")
  /\ UNCHANGED <<stateFile, server, chunkSize, mode, received, chunkIdx, attempt, inSync, wireVars>>

(* createOrOpenOutputFile: a resumed transfer opens the file if there is   *)
(* one and creates an empty one if not; preallocation only when fresh.     *)
OpenOutput(s) ==
  /\ sPc[s] = "open"
  /\ IF mode[s] = "resumed" /\ outFile # NoFile
       THEN /\ fd' = [fd EXCEPT ![s] = outFile]
            /\ UNCHANGED <<outFile, data>>
       ELSE /\ fd' = [fd EXCEPT ![s] = CreatedFile(s)]
            /\ CreateOutput(s)
  /\ Goto(s, IF mode[s] = "resumed" THEN "loop" ELSE "alloc")
  /\ UNCHANGED <<stateFile, server, chunkSize, mode, received, chunkIdx, attempt, inSync, wireVars>>

(* os.OpenFile of a resumed transfer fails on the file that is there, and  *)
(* os.Create, tried after any such error, does not: the file is truncated, *)
(* the list of received chunks is kept.                                    *)
ReopenFails(s) ==
  /\ ReopenMayFail
  /\ sPc[s] = "open" /\ mode[s] = "resumed" /\ outFile # NoFile
  /\ fd' = [fd EXCEPT ![s] = CreatedFile(s)]
  /\ CreateOutput(s)
  /\ Goto(s, "loop")
  /\ UNCHANGED <<stateFile, server, chunkSize, mode, received, chunkIdx, attempt, inSync, wireVars>>

(* os.Create fails, when resuming after os.OpenFile did: an error reply    *)
(* and the end.                                                            *)
OpenOutputFails(s) ==
  /\ sPc[s] = "open"
  /\ Abort(s)
  /\ UNCHANGED <<server, chunkSize, mode, received, chunkIdx, attempt, fd, inSync, diskVars>>

PreallocateFile(s) ==
  /\ sPc[s] = "alloc"
  /\ data' = [data EXCEPT ![fd[s]] = TruncateTo(@, FileSize[s])]
  /\ Goto(s, "loop")
  /\ UNCHANGED <<outFile, stateFile, server, chunkSize, mode, received, chunkIdx, attempt,
                 fd, inSync, wireVars>>

(* Preallocation that fails is only logged. *)
PreallocateFails(s) ==
  /\ sPc[s] = "alloc"
  /\ Goto(s, "loop")
  /\ UNCHANGED <<server, chunkSize, mode, received, chunkIdx, attempt, fd, inSync,
                 diskVars, wireVars>>

-----------------------------------------------------------------------------
(* processChunks, receiveChunkWithRetries, receiveChunk, SaveTransferState.*)

AtLoop(s) == sPc[s] = "loop" /\ mode[s] # "rejected"
CurrentOffset(s) == ChunkOffset(chunkIdx[s], chunkSize)

SkipReceivedChunk(s) ==
  /\ AtLoop(s)
  /\ chunkIdx[s] < NumChunksOf(s) /\ chunkIdx[s] \in received[s]
  /\ chunkIdx' = [chunkIdx EXCEPT ![s] = @ + 1]
  /\ UNCHANGED <<server, chunkSize, sPc, mode, received, attempt, fd, inSync, diskVars, wireVars>>

(* The first attempt for a chunk; with Retries = 0 the loop body of        *)
(* receiveChunkWithRetries never runs and the transfer fails.              *)
RequestChunk(s) ==
  /\ AtLoop(s)
  /\ chunkIdx[s] < NumChunksOf(s) /\ chunkIdx[s] \notin received[s]
  /\ attempt' = [attempt EXCEPT ![s] = 0]
  /\ IF Retries = 0
       THEN Goto(s, "failSave") /\ UNCHANGED toClient
       ELSE /\ Goto(s, "reply")
            /\ toClient' = Sent(s, toClient, RequestMsg(CurrentOffset(s)))
  /\ UNCHANGED <<conn, toServer, server, chunkSize, mode, received, chunkIdx, fd, inSync, diskVars>>

(* Mutant: one attempt too many. *)
RetryOnceMore(s) ==
  IF attempt[s] < Retries
    THEN /\ attempt' = [attempt EXCEPT ![s] = @ + 1]
         /\ toClient' = Sent(s, toClient, RequestMsg(CurrentOffset(s)))
         /\ UNCHANGED sPc
    ELSE Goto(s, "failSave") /\ UNCHANGED <<attempt, toClient>>

(* The end of a failed attempt: ask again, or give up. *)
RetryChunk(s) ==
  IF attempt[s] + 1 < Retries
    THEN /\ attempt' = [attempt EXCEPT ![s] = @ + 1]
         /\ toClient' = Sent(s, toClient, RequestMsg(CurrentOffset(s)))
         /\ UNCHANGED sPc
    ELSE Goto(s, "failSave") /\ UNCHANGED <<attempt, toClient>>

ChunkArrived(s) ==
  /\ sPc[s] = "reply" /\ inSync[s]
  /\ HasCommand(s, toServer, "Data")

ValidLength(n) == n > 0 /\ n <= chunkSize

(* The chunk is read, written at the offset that was requested, and marked *)
(* as received.                                                            *)
ReceiveChunk(s) ==
  LET m == Head(toServer[s])
  IN  /\ ChunkArrived(s)
      /\ ValidLength(m.n)
      /\ data' = [data EXCEPT ![fd[s]] = WriteAt(@, CurrentOffset(s), m.n, Source(s), m.off)]
      /\ received' = [received EXCEPT ![s] = @ \cup {chunkIdx[s]}]
      /\ toServer' = Taken(s, toServer)
      /\ Goto(s, "save")
      /\ UNCHANGED <<conn, toClient, server, chunkSize, mode, chunkIdx, attempt, fd, inSync,
                     outFile, stateFile>>

(* A chunk longer than the server's own chunk size: the attempt fails with *)
(* the chunk's bytes still unread, and from here on the goroutine reads    *)
(* them as if they were commands.                                          *)
ReceiveOversizedChunk(s) ==
  /\ ChunkArrived(s)
  /\ ~ValidLength(Head(toServer[s]).n)
  /\ inSync' = [inSync EXCEPT ![s] = FALSE]
  /\ toServer' = Taken(s, toServer)
  /\ RetryChunk(s)
  /\ UNCHANGED <<conn, server, chunkSize, mode, received, chunkIdx, fd, diskVars>>

(* Mutant: the chunk is marked before it is written. *)
WriteMarkedChunkFails(s) ==
  LET m == Head(toServer[s])
  IN  /\ ChunkArrived(s)
      /\ ValidLength(m.n)
      /\ \E n \in 0 .. (m.n - 1) :
           data' = [data EXCEPT ![fd[s]] = WriteAt(@, CurrentOffset(s), n, Source(s), m.off)]
      /\ received' = [received EXCEPT ![s] = @ \cup {chunkIdx[s]}]
      /\ toServer' = Taken(s, toServer)
      /\ RetryChunk(s)
      /\ UNCHANGED <<conn, server, chunkSize, mode, chunkIdx, fd, inSync, outFile, stateFile>>

(* WriteAt fails after a part of the chunk. *)
WriteChunkFails(s) ==
  LET m == Head(toServer[s])
  IN  /\ ChunkArrived(s)
      /\ ValidLength(m.n)
      /\ \E n \in 0 .. (m.n - 1) :
           data' = [data EXCEPT ![fd[s]] = WriteAt(@, CurrentOffset(s), n, Source(s), m.off)]
      /\ toServer' = Taken(s, toServer)
      /\ RetryChunk(s)
      /\ UNCHANGED <<conn, server, chunkSize, mode, received, chunkIdx, fd, inSync,
                     outFile, stateFile>>

(* Reading file bytes as commands.  Almost always the first byte is not    *)
(* CmdData and the attempt fails; what the bytes are decides, and they may *)
(* also read as a chunk, or end the process (MisreadPanics).  Finding back *)
(* to a message boundary by chance is left out.                            *)
MisreadChunk(s) ==
  /\ sPc[s] = "reply" /\ ~inSync[s]
  /\ toServer' = [toServer EXCEPT ![s] = <<>>]
  /\ \/ /\ RetryChunk(s)
        /\ UNCHANGED <<data, received>>
     \/ /\ \E n \in 1 .. chunkSize :
             data' = [data EXCEPT ![fd[s]] = WriteAt(@, CurrentOffset(s), n, Source(s), MaxSize)]
        /\ received' = [received EXCEPT ![s] = @ \cup {chunkIdx[s]}]
        /\ Goto(s, "save")
        /\ UNCHANGED <<attempt, toClient>>
  /\ UNCHANGED <<conn, server, chunkSize, mode, chunkIdx, fd, inSync, outFile, stateFile>>

(* The connection is gone: every further attempt fails the same way. *)
ChunkLost(s) ==
  /\ sPc[s] = "reply" /\ inSync[s]
  /\ AtEof(s, toServer)
  /\ RetryChunk(s)
  /\ UNCHANGED <<conn, toServer, server, chunkSize, mode, received, chunkIdx, fd, inSync, diskVars>>

(* os.WriteFile: the state file is truncated, then written.  "save" comes  *)
(* after a chunk, "failSave" before giving up.                             *)
TruncateState(s) ==
  /\ sPc[s] \in {"save", "failSave"}
  /\ stateFile' = TornState
  /\ Goto(s, IF sPc[s] = "save" THEN "saving" ELSE "failSaving")
  /\ UNCHANGED <<outFile, data, server, chunkSize, mode, received, chunkIdx, attempt,
                 fd, inSync, wireVars>>

SavedState(s) == StateRecord("saved", FileSize[s], chunkSize, received[s])

(* Mutant: the state is saved before the chunk is marked in it. *)
SaveStateTooEarly(s) ==
  /\ sPc[s] = "saving"
  /\ stateFile' = [SavedState(s) EXCEPT !.recv = @ \ {chunkIdx[s]}]
  /\ chunkIdx' = [chunkIdx EXCEPT ![s] = @ + 1]
  /\ Goto(s, "loop")
  /\ UNCHANGED <<outFile, data, server, chunkSize, mode, received, attempt, fd, inSync, wireVars>>

(* The state is written and the loop goes on to the next chunk. *)
SaveState(s) ==
  /\ sPc[s] = "saving"
  /\ stateFile' = SavedState(s)
  /\ chunkIdx' = [chunkIdx EXCEPT ![s] = @ + 1]
  /\ Goto(s, "loop")
  /\ UNCHANGED <<outFile, data, server, chunkSize, mode, received, attempt, fd, inSync, wireVars>>

(* The last save of a transfer that failed, then "Transfer failed". *)
SaveStateAndFail(s) ==
  /\ sPc[s] = "failSaving"
  /\ stateFile' = SavedState(s)
  /\ Abort(s)
  /\ UNCHANGED <<outFile, data, server, chunkSize, mode, received, chunkIdx, attempt, fd, inSync>>

(* Writing the state fails (the disk is full): logged, and the loop goes   *)
(* on with a truncated state file.                                         *)
SaveStateFails(s) ==
  /\ sPc[s] = "saving"
  /\ chunkIdx' = [chunkIdx EXCEPT ![s] = @ + 1]
  /\ Goto(s, "loop")
  /\ UNCHANGED <<server, chunkSize, mode, received, attempt, fd, inSync, diskVars, wireVars>>

(* The same on the way out, where nobody looks at the error. *)
LastSaveFails(s) ==
  /\ sPc[s] = "failSaving"
  /\ Abort(s)
  /\ UNCHANGED <<server, chunkSize, mode, received, chunkIdx, attempt, fd, inSync, diskVars>>

-----------------------------------------------------------------------------
(* verifyFileHash and the end of handleFileTransfer. *)

(* Mutant: a resumed transfer is not verified. *)
AllChunksDoneResumed(s) ==
  /\ AtLoop(s)
  /\ chunkIdx[s] >= NumChunksOf(s)
  /\ Goto(s, IF ServerVerify /\ ClientVerify[s] /\ mode[s] # "resumed" THEN "verify" ELSE "cleanup")
  /\ UNCHANGED <<server, chunkSize, mode, received, chunkIdx, attempt, fd, inSync,
                 diskVars, wireVars>>

AllChunksDone(s) ==
  /\ AtLoop(s)
  /\ chunkIdx[s] >= NumChunksOf(s)
  /\ Goto(s, IF ServerVerify /\ ClientVerify[s] THEN "verify" ELSE "cleanup")
  /\ UNCHANGED <<server, chunkSize, mode, received, chunkIdx, attempt, fd, inSync,
                 diskVars, wireVars>>

(* The algorithm and the request for the hash go out in one flush. *)
RequestHash(s) ==
  /\ sPc[s] = "verify"
  /\ toClient' = Sent(s, Sent(s, toClient, Plain("HashAlgo")), Plain("HashRequest"))
  /\ Goto(s, "hash")
  /\ UNCHANGED <<conn, toServer, server, chunkSize, mode, received, chunkIdx, attempt,
                 fd, inSync, diskVars>>

(* Mutant: the error is sent, but not returned. *)
CompareHashAndGoOn(s) ==
  LET same == Head(toServer[s]).sum = data[fd[s]]
  IN  /\ sPc[s] = "hash" /\ inSync[s]
      /\ HasCommand(s, toServer, "Hash")
      /\ toServer' = Taken(s, toServer)
      /\ toClient' = Sent(s, toClient, Plain(IF same THEN "Verdict" ELSE "Error"))
      /\ Goto(s, "cleanup")
      /\ UNCHANGED <<conn, server, chunkSize, mode, received, chunkIdx, attempt, fd, inSync, diskVars>>

(* Mutant: only the lengths are compared. *)
CompareLength(s) ==
  LET same == \A p \in Pos : (Head(toServer[s]).sum[p] = Eof) = (data[fd[s]][p] = Eof)
  IN  /\ sPc[s] = "hash" /\ inSync[s]
      /\ HasCommand(s, toServer, "Hash")
      /\ toServer' = Taken(s, toServer)
      /\ toClient' = Sent(s, toClient, Plain(IF same THEN "Verdict" ELSE "Error"))
      /\ \/ same /\ Goto(s, "cleanup")
         \/ (same => conn[s] # "open") /\ Goto(s, "discard")
      /\ UNCHANGED <<conn, server, chunkSize, mode, received, chunkIdx, attempt, fd, inSync, diskVars>>

(* A hash is taken to be as good as the content it is the hash of.  On a   *)
(* connection that is gone the flush of the verdict may fail or not, and   *)
(* its failure is a failure of the verification.                           *)
CompareHash(s) ==
  LET same == Head(toServer[s]).sum = data[fd[s]]
  IN  /\ sPc[s] = "hash" /\ inSync[s]
      /\ HasCommand(s, toServer, "Hash")
      /\ toServer' = Taken(s, toServer)
      /\ toClient' = Sent(s, toClient, Plain(IF same THEN "Verdict" ELSE "Error"))
      /\ \/ same /\ Goto(s, "cleanup")
         \/ (same => conn[s] # "open") /\ Goto(s, "discard")
      /\ UNCHANGED <<conn, server, chunkSize, mode, received, chunkIdx, attempt, fd, inSync, diskVars>>

(* No usable answer: the connection is gone or the stream is mis-framed. *)
HashLost(s) ==
  /\ sPc[s] = "hash"
  /\ AtEof(s, toServer) \/ ~inSync[s]
  /\ Goto(s, "discard")
  /\ UNCHANGED <<server, chunkSize, mode, received, chunkIdx, attempt, fd, inSync,
                 diskVars, wireVars>>

(* Reading the received file back fails. *)
HashFails(s) ==
  /\ sPc[s] = "hash" /\ inSync[s]
  /\ HasCommand(s, toServer, "Hash")
  /\ toServer' = Taken(s, toServer)
  /\ Goto(s, "discard")
  /\ UNCHANGED <<conn, toClient, server, chunkSize, mode, received, chunkIdx, attempt, fd,
                 inSync, diskVars>>

(* Any failure of the verification removes the output file; the resume     *)
(* state stays.                                                            *)
DiscardOutput(s) ==
  /\ sPc[s] = "discard"
  /\ RemoveOutput
  /\ Abort(s)
  /\ UNCHANGED <<data, stateFile, server, chunkSize, mode, received, chunkIdx, attempt, fd, inSync>>

Cleanup(s) ==
  /\ sPc[s] = "cleanup"
  /\ RemoveTransferState
  /\ Goto(s, "complete")
  /\ UNCHANGED <<outFile, data, server, chunkSize, mode, received, chunkIdx, attempt,
                 fd, inSync, wireVars>>

(* os.Remove of the output or of the state fails (the file is still open,  *)
(* which is enough on Windows): nobody looks at the error.                 *)
DiscardFails(s) ==
  /\ sPc[s] = "discard"
  /\ Abort(s)
  /\ UNCHANGED <<server, chunkSize, mode, received, chunkIdx, attempt, fd, inSync, diskVars>>

RemovalFails(s) ==
  /\ \/ sPc[s] = "dropFile"  /\ Goto(s, "dropState")
     \/ sPc[s] = "dropState" /\ Goto(s, "open")
     \/ sPc[s] = "cleanup"   /\ Goto(s, "complete")
  /\ UNCHANGED <<server, chunkSize, mode, received, chunkIdx, attempt, fd, inSync,
                 diskVars, wireVars>>

(* Mutant: the connection is kept for a next command. *)
SendCompleteAndStay(s) ==
  /\ sPc[s] = "complete"
  /\ Goto(s, "accept")
  /\ toClient' = Sent(s, toClient, Plain("Complete"))
  /\ UNCHANGED <<conn, toServer, server, chunkSize, mode, received, chunkIdx, attempt, fd,
                 inSync, diskVars>>

SendComplete(s) ==
  /\ sPc[s] = "complete"
  /\ Goto(s, "completed")
  /\ ServerCloses(s, Sent(s, toClient, Plain("Complete")))
  /\ UNCHANGED <<server, chunkSize, mode, received, chunkIdx, attempt, fd, inSync, diskVars>>

-----------------------------------------------------------------------------
(* The process. *)

(* The process ends: every goroutine with it, and the kernel closes the    *)
(* connections.                                                            *)
ProcessEnds(how) ==
  LET live == {s \in Sessions : sPc[s] \notin ServerEnds \cup {"idle"}}
  IN  /\ server' = how
      /\ sPc' = [s \in Sessions |-> IF s \in live THEN "dead" ELSE sPc[s]]
      /\ conn' = [s \in Sessions |-> IF s \in live THEN "closed" ELSE conn[s]]
      /\ toServer' = [s \in Sessions |-> IF s \in live THEN <<>> ELSE toServer[s]]
      /\ UNCHANGED <<toClient, chunkSize, mode, received, chunkIdx, attempt, fd, inSync, diskVars>>

(* processChunks reads state.NumChunks of a nil state. *)
NilStatePanic(s) ==
  /\ sPc[s] = "loop" /\ mode[s] = "rejected"
  /\ ProcessEnds("panicked")

(* File bytes read as the length of a compressed chunk: make([]byte, n)    *)
(* panics when n is negative or too large.                                 *)
MisreadPanics(s) ==
  /\ sPc[s] = "reply" /\ ~inSync[s]
  /\ ProcessEnds("panicked")

(* A kill, a signal or a power-off of the process; the page cache survives.*)
Crash ==
  /\ server = "up"
  /\ ProcessEnds("crashed")

(* The operator starts the server again, perhaps with another chunk size.  *)
Restart ==
  /\ server # "up"
  /\ server' = "up"
  /\ chunkSize' \in ServerChunks
  /\ UNCHANGED <<sPc, mode, received, chunkIdx, attempt, fd, inSync, diskVars, wireVars>>

ServerStep(s) ==
  \/ ReadInit(s) \/ InitLost(s) \/ TryResumeTransfer(s) \/ ResumeDecision(s)
  \/ DropPartialFile(s) \/ DropPartialState(s) \/ OpenOutput(s) \/ PreallocateFile(s)
  \/ SkipReceivedChunk(s) \/ RequestChunk(s) \/ ReceiveChunk(s) \/ ReceiveOversizedChunk(s)
  \/ MisreadChunk(s) \/ ChunkLost(s) \/ TruncateState(s) \/ SaveState(s) \/ SaveStateAndFail(s)
  \/ AllChunksDone(s) \/ RequestHash(s) \/ CompareHash(s) \/ HashLost(s) \/ DiscardOutput(s)
  \/ Cleanup(s) \/ SendComplete(s) \/ NilStatePanic(s)
  \/ MisreadPanics(s)

ServerFault(s) ==
  \/ InitTimeout(s) \/ ReopenFails(s) \/ OpenOutputFails(s) \/ PreallocateFails(s)
  \/ WriteChunkFails(s) \/ SaveStateFails(s) \/ LastSaveFails(s) \/ HashFails(s) \/ DiscardFails(s) \/ RemovalFails(s)
=============================================================================
