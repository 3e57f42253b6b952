------------------------------- MODULE Sender -------------------------------
(***************************************************************************)
(* client.go: one run of the client per session.  The client sends its     *)
(* file with its own chunk size, to whatever offset the server asks for.   *)
(***************************************************************************)
EXTENDS Wire

CONSTANT ClientChunks  \* chunk sizes a client may come to use

ASSUME SenderAssumption == ClientChunks \subseteq Nat \ {0} /\ ClientChunks # {}

VARIABLES
  cPc,          \* where the client of session s stands
  clientChunk,  \* cfg.ChunkSize, after adjustConfigForNetwork
  verdict       \* what the client made of the answer to its hash

cliVars == <<cPc, clientChunk, verdict>>

(* Run returned nil, or returned an error or was ended. *)
ClientEnds == {"ok", "failed"}

SenderTypeOK ==
  /\ cPc \in [Sessions -> {"idle", "profiling", "nego", "serve", "hashwait"} \cup ClientEnds]
  /\ clientChunk \in [Sessions -> ClientChunks]
  /\ verdict \in [Sessions -> {"none", "verified", "unexpected", "refused"}]

SenderInit ==
  /\ cPc = [s \in Sessions |-> "idle"]
  /\ clientChunk \in [Sessions -> ClientChunks]
  /\ verdict = [s \in Sessions |-> "none"]

Running(s)  == cPc[s] \notin ClientEnds \cup {"idle"}
Become(s, pc) == cPc' = [cPc EXCEPT ![s] = pc]

(* The chunk of the file at an offset, as handleChunkRequest sends it.     *)
ChunkAt(s, off) == DataMsg(off, ReadLength(FileSize[s], off, clientChunk[s]))

(* initializeTransfer, after the profiling. *)
InitializeTransfer(s) ==
  /\ cPc[s] = "profiling"
  /\ Become(s, "nego")
  /\ toServer' = Sent(s, toServer, InitMsg)
  /\ UNCHANGED <<conn, toClient, clientChunk, verdict>>

(* Mutant: the client does not count the last, shorter chunk. *)
NegotiateWholeChunks(s) ==
  LET m == Head(toClient[s])
      agreed == m.can /\ m.total = FileSize[s] \div clientChunk[s]
  IN  /\ cPc[s] = "nego"
      /\ HasCommand(s, toClient, "Resume")
      /\ toClient' = Taken(s, toClient)
      /\ toServer' = Sent(s, toServer, AckMsg(agreed))
      /\ Become(s, "serve")
      /\ UNCHANGED <<conn, clientChunk, verdict>>

(* negotiateResume: resuming is accepted if the number of chunks agrees.   *)
NegotiateResume(s) ==
  LET m == Head(toClient[s])
      agreed == m.can /\ m.total = NumChunks(FileSize[s], clientChunk[s])
  IN  /\ cPc[s] = "nego"
      /\ HasCommand(s, toClient, "Resume")
      /\ toClient' = Taken(s, toClient)
      /\ toServer' = Sent(s, toServer, AckMsg(agreed))
      /\ Become(s, "serve")
      /\ UNCHANGED <<conn, clientChunk, verdict>>

HandleChunkRequest(s) ==
  /\ cPc[s] = "serve"
  /\ HasCommand(s, toClient, "Request")
  /\ toClient' = Taken(s, toClient)
  /\ toServer' = Sent(s, toServer, ChunkAt(s, Head(toClient[s]).off))
  /\ UNCHANGED <<conn, cliVars>>

(* CmdHashAlgo, or CmdHash alone (handleLegacyHashRequest): the hash goes  *)
(* out and the client waits for the verdict.                               *)
HandleHashRequest(s) ==
  /\ cPc[s] = "serve"
  /\ HasCommand(s, toClient, "HashAlgo") \/ HasCommand(s, toClient, "HashRequest")
  /\ toClient' = Taken(s, toClient)
  /\ toServer' = Sent(s, toServer, HashMsg(Source(s)))
  /\ Become(s, "hashwait")
  /\ UNCHANGED <<conn, clientChunk, verdict>>

(* The byte of HashRequest is CmdHash too: read as the verdict, it takes   *)
(* the line that follows it, the whole next message, for the verdict's     *)
(* text.                                                                   *)
GluedVerdict(q) == q # <<>> /\ Head(q).cmd = "HashRequest"

VerdictFrom(q) ==
  CASE Head(q).cmd = "Verdict"     -> "verified"
    [] Head(q).cmd = "HashRequest" -> "unexpected"
    [] OTHER                       -> "refused"

ReadVerdict(s) ==
  LET q == toClient[s]
  IN  /\ cPc[s] = "hashwait"
      /\ Len(q) > (IF GluedVerdict(q) THEN 1 ELSE 0)
      /\ verdict' = [verdict EXCEPT ![s] = VerdictFrom(q)]
      /\ IF VerdictFrom(q) = "refused"
           THEN Become(s, "failed") /\ ClientCloses(s)
           ELSE /\ Become(s, "serve")
                /\ toClient' = [toClient EXCEPT ![s] = IF GluedVerdict(q) THEN Tail(Tail(q))
                                                                          ELSE Tail(q)]
                /\ UNCHANGED <<conn, toServer>>
      /\ UNCHANGED clientChunk

HandleComplete(s) ==
  /\ cPc[s] = "serve"
  /\ HasCommand(s, toClient, "Complete")
  /\ Become(s, "ok")
  /\ ClientCloses(s)
  /\ UNCHANGED <<clientChunk, verdict>>

(* CmdError, also when it answers the initialization. *)
HandleError(s) ==
  /\ cPc[s] \in {"nego", "serve"}
  /\ HasCommand(s, toClient, "Error")
  /\ Become(s, "failed")
  /\ ClientCloses(s)
  /\ UNCHANGED <<clientChunk, verdict>>

(* Mutant: the end of the stream is taken for the end of the transfer. *)
EndOfStreamIsSuccess(s) ==
  /\ cPc[s] \in {"nego", "serve", "hashwait"}
  /\ conn[s] = "closed" /\ toClient[s] = <<>>
  /\ Become(s, "ok")
  /\ ClientCloses(s)
  /\ UNCHANGED <<clientChunk, verdict>>

(* A read of the connection fails. *)
ServerLost(s) ==
  /\ cPc[s] \in {"nego", "serve", "hashwait"}
  /\ conn[s] = "closed"
  /\ \/ toClient[s] = <<>>
     \/ cPc[s] = "hashwait" /\ GluedVerdict(toClient[s]) /\ Len(toClient[s]) = 1
  /\ Become(s, "failed")
  /\ ClientCloses(s)
  /\ UNCHANGED <<clientChunk, verdict>>

ClientStep(s) ==
  \/ InitializeTransfer(s) \/ NegotiateResume(s) \/ HandleChunkRequest(s)
  \/ HandleHashRequest(s) \/ ReadVerdict(s) \/ HandleComplete(s) \/ HandleError(s)
  \/ ServerLost(s)

(* An interrupt, a read error of the source file, a chunk that times out:  *)
(* the run ends and with it the connection.                                *)
ClientEnded(s) ==
  /\ Running(s)
  /\ Become(s, "failed")
  /\ ClientCloses(s)
  /\ UNCHANGED <<clientChunk, verdict>>
=============================================================================
