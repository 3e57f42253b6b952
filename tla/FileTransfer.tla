---------------------------- MODULE FileTransfer ----------------------------
(***************************************************************************)
(* The whole program: clients that send a file of one name to a server,    *)
(* one after the other or at the same time, over connections that fail, to *)
(* a server process that can be stopped and started again.                 *)
(***************************************************************************)
EXTENDS Receiver, Sender

CONSTANTS
  Overlap,   \* how sessions may overlap, see MayDial
  MaxFaults  \* bound: number of faults in a behaviour

ASSUME OverlapAssumption ==
  /\ Overlap \in {"never", "zombie", "any"}
  /\ MaxFaults \in Nat

VARIABLE faults

vars == <<srvVars, cliVars, diskVars, wireVars, faults>>

TypeOK ==
  /\ ServerTypeOK
  /\ SenderTypeOK
  /\ WireTypeOK
  /\ StoreTypeOK
  /\ faults \in 0 .. MaxFaults

Init ==
  /\ ServerInit /\ SenderInit /\ WireInit /\ StoreInit
  /\ faults = 0

(* "never": the operator starts a client when the previous one has ended   *)
(* and the server is done with it.  "zombie": when the previous client has *)
(* ended, though the server may not be done with it.  "any": at any time.  *)
ServerBusy(s) == sPc[s] \notin ServerEnds \cup {"idle"}

MayDial(s) ==
  \A t \in Sessions \ {s} :
    /\ Overlap \in {"never", "zombie"} => ~Running(t)
    /\ Overlap = "never" => ~ServerBusy(t)

(* net.Dial meets listener.Accept, and the server starts a goroutine. *)
Dial(s) ==
  /\ cPc[s] = "idle" /\ server = "up" /\ MayDial(s)
  /\ Become(s, "profiling")
  /\ Goto(s, "accept")
  /\ conn' = [conn EXCEPT ![s] = "open"]
  /\ UNCHANGED <<server, chunkSize, mode, received, chunkIdx, attempt, fd, inSync,
                 clientChunk, verdict, diskVars, toServer, toClient, faults>>

ServerMoves(s) == ServerStep(s) /\ UNCHANGED <<cliVars, faults>>
ClientMoves(s) == ClientStep(s) /\ UNCHANGED <<srvVars, diskVars, faults>>

RestartServer == Restart /\ UNCHANGED <<cliVars, faults>>

Fault ==
  /\ faults < MaxFaults
  /\ faults' = faults + 1
  /\ \/ \E s \in Sessions : ServerFault(s) /\ UNCHANGED cliVars
     \/ Crash /\ UNCHANGED cliVars
     \/ \E s \in Sessions : ConnectionLost(s) /\ UNCHANGED <<srvVars, cliVars, diskVars>>
     \/ \E s \in Sessions : ClientEnded(s) /\ UNCHANGED <<srvVars, diskVars>>

Next ==
  \/ \E s \in Sessions : Dial(s) \/ ServerMoves(s) \/ ClientMoves(s)
  \/ RestartServer
  \/ Fault

Spec == Init /\ [][Next]_vars

(* Goroutines and clients are scheduled, and somebody restarts the server. *)
Fairness ==
  /\ \A s \in Sessions : WF_vars(ServerMoves(s)) /\ WF_vars(ClientMoves(s))
  /\ WF_vars(RestartServer)

FairSpec == Spec /\ Fairness

-----------------------------------------------------------------------------
(* Safety. *)

(* A client that reports success has its file, cell for cell, at the       *)
(* output path: CmdComplete (server.go:266-270) is only sent once every    *)
(* chunk that was requested is in the file the path names.                 *)
IntactOnSuccess ==
  [][\A s \in Sessions : cPc[s] # "ok" /\ cPc'[s] = "ok" => OutputIs(s)']_vars

(* Every chunk the resume state on disk claims is in the output file: what *)
(* SaveTransferState writes (server.go:374-378) is never ahead of          *)
(* WriteAt, whatever was lost, crashed or was truncated before.            *)
ChunkCells(k, cs) == {p \in Pos : k * cs <= p /\ p < (k + 1) * cs}

ClaimsBacked ==
  stateFile.kind = "saved" =>
    /\ outFile # NoFile
    /\ \A s \in Sessions : \A k \in stateFile.recv : \A p \in ChunkCells(k, stateFile.chunk) :
         data[outFile][p] = Source(s)[p]

(* Both ends agree on the outcome: a client only reports success for a     *)
(* session the server went through with to the end (client.go:232,         *)
(* server.go:244-270), however the sessions overlap and whatever fails.    *)
NoFalseSuccess ==
  \A s \in Sessions : cPc[s] = "ok" => sPc[s] = "completed"

(* When a chunk is requested, everything received so far is in the state   *)
(* on disk (server.go:377), unless writing that state failed.              *)
SavedBeforeNextRequest ==
  [][\A s \in Sessions :
       sPc[s] = "loop" /\ sPc'[s] = "reply" /\ received[s] # {}
         => stateFile = SavedState(s) \/ stateFile = TornState]_vars

(* A chunk the disk already holds is not asked for again (server.go:348),  *)
(* also not by a later session or after a restart of the server.           *)
NoChunkTwice ==
  [][\A s \in Sessions :
       sPc[s] = "loop" /\ sPc'[s] = "reply" /\ stateFile.kind = "saved"
         => chunkIdx[s] \notin stateFile.recv]_vars

(* The server process does not end by a panic of its sessions' goroutines: *)
(* an offer to resume that the client refuses is followed by a fresh       *)
(* transfer (server.go:189).                                               *)
NeverPanics == server # "panicked"

(* The client reads the verdict on its hash for what it is                 *)
(* (client.go:221, 323-343).                                               *)
VerdictUnderstood == \A s \in Sessions : verdict[s] # "unexpected"

-----------------------------------------------------------------------------
(* Inductive invariants. *)

(* CmdComplete is on its way only from a goroutine that is through, and    *)
(* there is no goroutine before the dial.                                  *)
NotComplete == {m \in ServerMessages : m.cmd # "Complete"}

AgreeInv ==
  /\ NoFalseSuccess
  /\ \A s \in Sessions : cPc[s] = "idle" => sPc[s] = "idle"
  /\ \A s \in Sessions : sPc[s] # "completed" => toClient[s] \in Seq(NotComplete)

(* With verification on both sides and one session after the other: a      *)
(* goroutine that got past the comparison of the hashes has the client's   *)
(* file behind the output path, and keeps it there until the client knows. *)
HonestHash(s) == {m \in ClientMessages : m.cmd = "Hash" => m.sum = Source(s)}

WithOpenFile == {"alloc", "loop", "reply", "save", "saving", "verify", "hash"}

Active(s) == Running(s) \/ ServerBusy(s)

OneAtATime == \A s, t \in Sessions : Active(s) /\ Active(t) => s = t

VerifiedSession(s) ==
  /\ toServer[s] \in Seq(HonestHash(s))
  /\ sPc[s] \in WithOpenFile => outFile = fd[s]
  /\ sPc[s] \in {"cleanup", "complete"} => outFile = fd[s] /\ OutputIs(s)
  /\ sPc[s] = "completed" /\ Running(s) => OutputIs(s)

VerifyInv == OneAtATime /\ \A s \in Sessions : VerifiedSession(s)

(* With one chunk size on both ends at most one message of a session is    *)
(* under way until its chunks are done, and it is the one the goroutine    *)
(* waits for or the client has to answer.                                  *)
Asked(s) ==
  CASE sPc[s] = "ack"   -> <<ResumeMsg(mode[s] = "resumed", NumChunksOf(s))>>
    [] sPc[s] = "reply" -> <<RequestMsg(CurrentOffset(s))>>
    [] OTHER            -> <<>>

Answered(s) ==
  CASE sPc[s] = "accept" -> <<InitMsg>>
    [] sPc[s] = "ack"    -> <<AckMsg(mode[s] = "resumed")>>
    [] sPc[s] = "reply"  -> <<ChunkAt(s, CurrentOffset(s))>>
    [] OTHER             -> <<>>

BeforeDecision == {"idle", "accept", "load", "ack"}
WithChunks     == {"loop", "reply", "save", "saving", "failSave", "failSaving"}
AfterChunks    == {"verify", "hash", "discard", "cleanup", "complete", "completed"}
InTurns        == BeforeDecision \cup {"open", "alloc"} \cup WithChunks

AfterChunksMessages == {m \in ServerMessages : m.cmd \notin {"Resume", "Request"}}

Turns(s) ==
  /\ toClient[s] \in {<<>>, Asked(s)} /\ toServer[s] \in {<<>>, Answered(s)}
  /\ toClient[s] = <<>> \/ (toServer[s] = <<>> /\ conn[s] # "closed")
  /\ cPc[s] = "profiling" => sPc[s] = "accept" /\ toServer[s] = <<>>
  /\ sPc[s] \in {"reply", "save", "saving"} => chunkIdx[s] < NumChunksOf(s)

DialogueSession(s) ==
  /\ mode[s] # "rejected" /\ inSync[s] /\ sPc[s] \notin {"dropFile", "dropState"}
  /\ sPc[s] \in InTurns => Turns(s)
  /\ sPc[s] \in AfterChunks => toClient[s] \in Seq(AfterChunksMessages)

DialogueInv == \A s \in Sessions : DialogueSession(s)

(* One session after the other, nothing else saves a state: what a         *)
(* goroutine has in memory is on disk, or nothing is.                      *)
SavedSession(s) ==
  /\ sPc[s] \in {"dropFile", "dropState"} => mode[s] = "rejected"
  /\ sPc[s] \in {"ack", "open"} /\ mode[s] = "resumed" => stateFile = SavedState(s)
  /\ sPc[s] \in {"ack", "open", "alloc"} /\ mode[s] = "fresh" => received[s] = {}
  /\ sPc[s] = "alloc" => mode[s] # "resumed"
  /\ sPc[s] = "saving" => stateFile = TornState
  /\ sPc[s] \in {"loop", "reply"} /\ mode[s] # "rejected" /\ received[s] # {}
       => stateFile \in {SavedState(s), TornState}

SavedInv ==
  /\ OneAtATime
  /\ server # "up" => \A s \in Sessions : ~ServerBusy(s)
  /\ \A s \in Sessions : SavedSession(s)

(* One chunk size, one file, one session after the other, no verification: *)
(* the list in memory is backed by the open file, the list on disk by the  *)
(* output, and everything before the current chunk is in place.            *)
InPlace(s, p) == data[outFile][p] = Source(s)[p]
Holds(s, k)   == \A p \in ChunkCells(k, chunkSize) : InPlace(s, p)
StateFits(s)  == stateFile.size = FileSize[s] /\ stateFile.chunk = chunkSize

ListBacked(s) ==
  /\ outFile = fd[s]
  /\ stateFile.kind = "saved" => stateFile.recv \subseteq received[s]
  /\ \A k \in received[s] : Holds(s, k)
  /\ \A p \in Pos : p < CurrentOffset(s) => InPlace(s, p)

UniformSession(s) ==
  /\ sPc[s] \notin {"verify", "hash", "discard"}
  /\ sPc[s] \in BeforeDecision \cup {"open", "alloc"} => chunkIdx[s] = 0
  /\ sPc[s] \in {"ack", "open", "alloc"} /\ mode[s] = "fresh" => stateFile.kind # "saved"
  /\ sPc[s] \in WithChunks \cup {"alloc"} => ListBacked(s)
  /\ sPc[s] \in {"save", "saving"} => chunkIdx[s] \in received[s]
  /\ sPc[s] = "reply" => chunkIdx[s] \notin received[s]
  /\ sPc[s] \in {"cleanup", "complete"} => OutputIs(s)
  /\ sPc[s] = "completed" /\ Running(s) => OutputIs(s)

UniformDisk ==
  /\ ClaimsBacked
  /\ \A s \in Sessions : stateFile.kind = "saved" => StateFits(s)
  /\ \A s, i \in Sessions : \A p \in Pos : p >= FileSize[s] => data[i][p] = Eof

UniformInv == UniformDisk /\ \A s \in Sessions : UniformSession(s)

-----------------------------------------------------------------------------
(* Liveness. *)

(* Every session that was started comes to an end on both sides: neither   *)
(* end waits for the other for ever (no read of either has a deadline,     *)
(* server.go:120, client.go:197).                                          *)
SessionsEnd ==
  \A s \in Sessions : cPc[s] = "profiling" ~> cPc[s] \in ClientEnds /\ sPc[s] \in ServerEnds

(* Once faults are over, a client that connects delivers its file,         *)
(* whatever earlier runs left in the output directory.                     *)
DeliversWhenQuiet(s) ==
  /\ cPc[s] = "profiling" /\ sPc[s] = "accept" /\ conn[s] = "open"
  /\ faults = MaxFaults
  ~> cPc[s] = "ok"

RetryDelivers == \A s \in Sessions : DeliversWhenQuiet(s)

-----------------------------------------------------------------------------
(* What Delivery promises, in terms of this module: the output is what the *)
(* path names, the outcome is how the client ended, and the receiving end  *)
(* of a session works as long as its goroutine does.                       *)
Output  == IF outFile = NoFile THEN NoFile ELSE data[outFile]
Outcome ==
  [s \in Sessions |-> IF cPc[s] = "idle" THEN "new"
                      ELSE IF Running(s) THEN "running" ELSE cPc[s]]
Working == {s \in Sessions : ServerBusy(s)}

Promise == INSTANCE Delivery WITH
  Contents <- Content, File <- [s \in Sessions |-> Source(s)], Absent <- NoFile,
  output <- Output, outcome <- Outcome, working <- Working

(* The program keeps the promise: every behaviour of server and clients,   *)
(* seen through the output path and the clients' outcomes, is one of       *)
(* Delivery (server.go:118-274, client.go:213-236).                        *)
KeepsPromise == Promise!Spec
=============================================================================
