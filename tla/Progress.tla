------------------------------ MODULE Progress ------------------------------
(***************************************************************************)
(* progress.go on top of FileTransfer: the counters of bytes both ends     *)
(* keep, and the goroutines that draw a bar from them once a second.       *)
(*                                                                         *)
(* A bar is there from the first turn of the loop until the end returns,   *)
(* and a tick can come at every step between.                              *)
(***************************************************************************)
EXTENDS FileTransfer, FiniteSets

CONSTANT ShowProgress  \* cfg.ShowProgress, of either end

ASSUME ShowAssumption == ShowProgress \in BOOLEAN

VARIABLES
  offered,  \* offered[s]: the resume offset the server announces
  got,      \* got[s]: stats.TransferredBytes of the server's goroutine
  sent      \* sent[s]: the same of the client

countVars == <<offered, got, sent>>

BarWidth == 30

CountInit ==
  /\ offered = [s \in Sessions |-> 0]
  /\ got = [s \in Sessions |-> 0]
  /\ sent = [s \in Sessions |-> 0]

(* calculateResumeOffset: every chunk that was received counts in full. *)
ResumeOffset(chunks) == Cardinality(chunks) * chunkSize

(* Bytes of the chunk that is being received; a misread one can be any.    *)
ChunkLengths(s) == IF inSync[s] THEN {Head(toServer[s]).n} ELSE 1 .. chunkSize

(* Mutant: a resumed transfer counts from zero. *)
ServerCountsFromZero(s) ==
  /\ offered' = IF sPc[s] = "load" THEN [offered EXCEPT ![s] = ResumeOffset(received'[s])]
                                   ELSE offered
  /\ IF sPc[s] = "reply" /\ sPc'[s] = "save"
       THEN \E n \in ChunkLengths(s) : got' = [got EXCEPT ![s] = @ + n]
       ELSE got' = got
  /\ UNCHANGED sent

(* The offset goes out with the offer to resume, is the count a resumed    *)
(* transfer starts from, and every chunk written adds its length.          *)
ServerCounts(s) ==
  /\ offered' = IF sPc[s] = "load" THEN [offered EXCEPT ![s] = ResumeOffset(received'[s])]
                                   ELSE offered
  /\ CASE sPc[s] = "open" /\ mode[s] = "resumed" ->
            got' = [got EXCEPT ![s] = ResumeOffset(received[s])]
       [] sPc[s] = "reply" /\ sPc'[s] = "save" ->
            \E n \in ChunkLengths(s) : got' = [got EXCEPT ![s] = @ + n]
       [] OTHER -> got' = got
  /\ UNCHANGED sent

(* Mutant: the client counts a resumed transfer from zero. *)
ClientCountsFromZero(s) ==
  LET m == Head(toClient[s])
  IN  /\ IF cPc[s] = "serve" /\ HasCommand(s, toClient, "Request")
           THEN sent' = [sent EXCEPT ![s] = @ + ReadLength(FileSize[s], m.off, clientChunk[s])]
           ELSE sent' = sent
      /\ UNCHANGED <<offered, got>>

(* The client takes the offset over if it accepts to resume, and adds      *)
(* every chunk it sends, also one it is asked for again.                   *)
ClientCounts(s) ==
  LET m == Head(toClient[s])
  IN  /\ CASE cPc[s] = "nego" /\ HasCommand(s, toClient, "Resume") ->
                sent' = IF m.can /\ m.total = NumChunks(FileSize[s], clientChunk[s])
                          THEN [sent EXCEPT ![s] = offered[s]] ELSE sent
           [] cPc[s] = "serve" /\ HasCommand(s, toClient, "Request") ->
                sent' = [sent EXCEPT ![s] = @ + ReadLength(FileSize[s], m.off, clientChunk[s])]
           [] OTHER -> sent' = sent
      /\ UNCHANGED <<offered, got>>

(* The bar has BarWidth places: strings.Repeat panics on a negative count  *)
(* of empty ones, and the panic of any goroutine ends the process.         *)
Overflows(n, s) == (BarWidth * n) \div FileSize[s] > BarWidth

ServerBarPanics(s) ==
  /\ ShowProgress
  /\ sPc[s] \in WithChunks \cup (AfterChunks \ {"completed"})
  /\ Overflows(got[s], s)
  /\ ProcessEnds("panicked")
  /\ UNCHANGED <<cliVars, faults, countVars>>

ClientBarPanics(s) ==
  /\ ShowProgress
  /\ cPc[s] \in {"serve", "hashwait"} /\ Overflows(sent[s], s)
  /\ Become(s, "failed")
  /\ ClientCloses(s)
  /\ UNCHANGED <<clientChunk, verdict, srvVars, diskVars, faults, countVars>>

(* Among the faults, a resumed file that is created anew starts the count  *)
(* of its session as one that was opened does.                             *)
FaultCounts ==
  /\ got' = [s \in Sessions |-> IF sPc[s] = "open" /\ sPc'[s] = "loop"
                                  THEN ResumeOffset(received[s]) ELSE got[s]]
  /\ UNCHANGED <<offered, sent>>

CountedNext ==
  \/ \E s \in Sessions : \/ Dial(s) /\ UNCHANGED countVars
                         \/ ServerMoves(s) /\ ServerCounts(s)
                         \/ ClientMoves(s) /\ ClientCounts(s)
                         \/ ServerBarPanics(s)
                         \/ ClientBarPanics(s)
  \/ RestartServer /\ UNCHANGED countVars
  \/ Fault /\ FaultCounts

CountedSpec     == Init /\ CountInit /\ [][CountedNext]_<<vars, countVars>>
FairCountedSpec == CountedSpec /\ Fairness

(* When a transfer is through, each end has counted every byte of the file *)
(* (server.go:228, 478; client.go:101, 440), and the server not more than  *)
(* the rest of the last chunk too much, whatever was asked for twice.      *)
CountsAddUp ==
  \A s \in Sessions :
    /\ sPc[s] = "completed" => FileSize[s] <= got[s] /\ got[s] < FileSize[s] + chunkSize
    /\ cPc[s] = "ok" => FileSize[s] <= sent[s]

(* The invariant behind it, with one chunk size on both ends: the server's *)
(* count is that of the chunks it has, the last one in full or not, and    *)
(* the client is never behind it.                                          *)
ChunksOf(size, cs) == 0 .. (NumChunks(size, cs) - 1)
Missing(s)         == NumChunksOf(s) * chunkSize - FileSize[s]

Counted(s) ==
  /\ got[s] <= ResumeOffset(received[s])
  /\ ResumeOffset(received[s])
       <= got[s] + (IF NumChunksOf(s) - 1 \in received[s] THEN Missing(s) ELSE 0)

CountSession(s) ==
  /\ received[s] \subseteq ChunksOf(FileSize[s], chunkSize)
  /\ sPc[s] \in InTurns \cup AfterChunks => got[s] <= sent[s]
  /\ sPc[s] \in BeforeDecision \cup {"open", "alloc"} => got[s] = 0 /\ chunkIdx[s] = 0
  /\ sPc[s] \in {"ack", "open"} /\ mode[s] = "resumed" => offered[s] = ResumeOffset(received[s])
  /\ sPc[s] \in {"ack", "open", "alloc"} /\ mode[s] = "fresh" => received[s] = {}
  /\ mode[s] = "resumed" /\ (sPc[s] = "open" \/ (sPc[s] = "ack" /\ toServer[s] # <<>>))
       => offered[s] <= sent[s]
  /\ sPc[s] = "alloc" => mode[s] = "fresh"
  /\ sPc[s] \in WithChunks \cup AfterChunks =>
       /\ Counted(s)
       /\ 0 .. (chunkIdx[s] - 1) \subseteq received[s]
  /\ sPc[s] = "reply" =>
       /\ chunkIdx[s] \notin received[s]
       /\ toServer[s] # <<>> => got[s] + Head(toServer[s]).n <= sent[s]
  /\ sPc[s] \in {"save", "saving"} => chunkIdx[s] \in received[s]
  /\ sPc[s] \in AfterChunks => chunkIdx[s] >= NumChunksOf(s)

CountInv ==
  /\ stateFile.kind = "saved" => stateFile.recv \subseteq ChunksOf(stateFile.size, stateFile.chunk)
  /\ \A s \in Sessions : CountSession(s)
=============================================================================
