---------------------------- MODULE UniformProofs ----------------------------
(***************************************************************************)
(* Resuming without verification: if sessions do not overlap and all of    *)
(* them use one chunk size and send one file, the resume state on disk is  *)
(* right through any faults, and a client that reports success has         *)
(* delivered its file.                                                     *)
(***************************************************************************)
EXTENDS DialogueProofs, VerifiedProofs

-----------------------------------------------------------------------------
(* One session after the other. *)

LEMMA AloneInit == Init => OneAtATime
BY DEF Init, ServerInit, SenderInit, OneAtATime, Active, Running, ServerBusy, ServerEnds,
       ClientEnds

(* A dial is the only step after which a session is active that was not.   *)
LEMMA AloneNext ==
  ASSUME Overlap = "never", TypeOK, OneAtATime, [Next]_vars
  PROVE  OneAtATime'
<1> USE DEF TypeOK, SrvTypes, CliTypes
<1>1. ASSUME NEW s \in Sessions, Dial(s) PROVE OneAtATime'
  <2>1. \A t \in Sessions \ {s} : ~Active(t)'
    BY <1>1 DEF Dial, MayDial, Become, Goto, Active, Running, ServerBusy, SenderTypeOK,
                ServerTypeOK
  <2> QED BY <2>1 DEF OneAtATime
<1>2. ASSUME \A t \in Sessions : Active(t)' => Active(t) PROVE OneAtATime'
  BY <1>2 DEF OneAtATime
<1>3. ASSUME NEW how, ProcessEnds(how), UNCHANGED cPc PROVE OneAtATime'
  BY <1>2, <1>3 DEF ProcessEnds, Active, Running, ServerBusy, ServerEnds
<1>4. ASSUME NEW s \in Sessions, ServerStep(s) \/ ServerFault(s), UNCHANGED cPc PROVE OneAtATime'
  <2>1. CASE Panics(s)
    BY <1>3, <1>4, <2>1 DEF Panics, NilStatePanic, MisreadPanics
  <2>2. CASE ~Panics(s)
    BY <1>2, <1>4, <2>2, ServerFrame DEF Framed, Untouched, Active, Running, ServerBusy
  <2> QED BY <2>1, <2>2
<1>5. ASSUME NEW s \in Sessions, ClientStep(s) \/ ClientEnded(s), UNCHANGED sPc PROVE OneAtATime'
  BY <1>2, <1>5, ClientFrame DEF ClientFramed, Active, Running, ServerBusy
<1>6. CASE UNCHANGED <<sPc, cPc>>
  BY <1>2, <1>6 DEF Active, Running, ServerBusy
<1> QED
  BY <1>1, <1>3, <1>4, <1>5, <1>6 DEF Next, ServerMoves, ClientMoves, RestartServer, Restart,
     Fault, Crash, vars, cliVars, srvVars

(* What a session at rest in "idle" or at its end says of SavedSession.    *)
LEMMA SavedAtRest ==
  ASSUME NEW s \in Sessions, ~ServerBusy(s)'
  PROVE  SavedSession(s)'
BY DEF ServerBusy, ServerEnds, SavedSession

LEMMA SavedSame ==
  ASSUME NEW s \in Sessions, SavedSession(s),
         UNCHANGED <<sPc[s], mode[s], received[s], stateFile, chunkSize>>
  PROVE  SavedSession(s)'
BY DEF SavedSession, SavedState

(* A step of one goroutine. *)
LEMMA SavedKeeps ==
  ASSUME SrvTypes, NEW s \in Sessions, SavedSession(s), ServerStep(s) \/ ServerFault(s),
         ~Panics(s)
  PROVE  SavedSession(s)'
<1> USE DEF SrvTypes, ServerTypeOK, Goto
<1>0. UNCHANGED chunkSize
  BY ServerOthers
<1>1. ASSUME UNCHANGED <<mode, received, stateFile>> PROVE UNCHANGED SavedState(s)
  BY <1>0, <1>1 DEF SavedState
<1>2. CASE \/ InitLost(s) \/ SaveStateAndFail(s) \/ DiscardOutput(s) \/ OpenOutputFails(s)
           \/ DiscardFails(s) \/ LastSaveFails(s) \/ InitTimeout(s)
  <2>1. Goto(s, "aborted")
    BY <1>2 DEF InitLost, SaveStateAndFail, DiscardOutput, OpenOutputFails, DiscardFails,
               LastSaveFails, InitTimeout, Abort
  <2> QED BY <2>1, SavedAtRest DEF ServerBusy, ServerEnds
<1>3. CASE ReadInit(s)
  <2>1. sPc'[s] \in {"aborted", "load"}
    BY <1>3 DEF ReadInit, Abort
  <2> QED BY <2>1 DEF SavedSession
<1>4. CASE TryResumeTransfer(s)
  <2> DEFINE fits == /\ stateFile.kind = "saved"
                     /\ stateFile.size = FileSize[s]
                     /\ stateFile.chunk = chunkSize
  <2>1. /\ sPc'[s] = "ack" /\ UNCHANGED stateFile
        /\ mode'[s] = IF fits THEN "resumed" ELSE "fresh"
        /\ received'[s] = IF fits THEN stateFile.recv ELSE {}
    BY <1>4 DEF TryResumeTransfer, diskVars
  <2>2. ASSUME fits PROVE stateFile = SavedState(s)'
    BY <1>0, <2>1, <2>2 DEF SavedState, StateRecord, StoreTypeOK
  <2> HIDE DEF fits
  <2> QED BY <2>1, <2>2 DEF SavedSession
<1>5. CASE ResumeDecision(s)
  <2>1. \/ sPc'[s] = "dropFile" /\ mode'[s] = "rejected"
        \/ sPc[s] = "ack" /\ sPc'[s] = "open" /\ mode' = mode
    BY <1>5 DEF ResumeDecision
  <2>2. UNCHANGED <<received, stateFile>>
    BY <1>5 DEF ResumeDecision, diskVars
  <2> QED BY <1>0, <2>1, <2>2 DEF SavedSession, SavedState
<1>6. CASE DropPartialFile(s) \/ DropPartialState(s) \/ RemovalFails(s)
  <2>1. /\ UNCHANGED <<mode, received>>
        /\ \/ sPc[s] \in {"dropFile", "dropState"} /\ sPc'[s] \in {"dropState", "open"}
           \/ sPc'[s] = "complete"
    BY <1>6 DEF DropPartialFile, DropPartialState, RemovalFails
  <2> QED BY <2>1 DEF SavedSession
<1>7. CASE OpenOutput(s) \/ ReopenFails(s)
  <2>1. /\ sPc[s] = "open" /\ sPc'[s] = IF mode[s] = "resumed" THEN "loop" ELSE "alloc"
        /\ UNCHANGED <<mode, received, stateFile>>
    BY <1>7 DEF OpenOutput, ReopenFails
  <2> QED BY <1>1, <2>1 DEF SavedSession
<1>8. CASE PreallocateFile(s) \/ PreallocateFails(s)
  <2>1. sPc[s] = "alloc" /\ sPc'[s] = "loop" /\ UNCHANGED <<mode, received, stateFile>>
    BY <1>8 DEF PreallocateFile, PreallocateFails, diskVars
  <2> QED BY <1>1, <2>1 DEF SavedSession
<1>9. CASE SkipReceivedChunk(s) \/ RequestChunk(s)
  <2>1. /\ sPc[s] = "loop" /\ sPc'[s] \in {"loop", "reply", "failSave"}
        /\ UNCHANGED <<mode, received, stateFile>>
    BY <1>9 DEF SkipReceivedChunk, RequestChunk, AtLoop, diskVars
  <2> QED BY <1>1, <2>1 DEF SavedSession
<1>10. CASE ReceiveChunk(s)
  BY <1>10 DEF ReceiveChunk, SavedSession
<1>11. CASE ReceiveOversizedChunk(s) \/ WriteChunkFails(s) \/ ChunkLost(s)
  <2>1. /\ sPc[s] = "reply" /\ sPc'[s] \in {"reply", "failSave"}
        /\ UNCHANGED <<mode, received, stateFile>>
    BY <1>11 DEF ReceiveOversizedChunk, WriteChunkFails, ChunkLost, ChunkArrived, RetryChunk,
                 diskVars
  <2> QED BY <1>1, <2>1 DEF SavedSession
<1>12. CASE MisreadChunk(s)
  <2>1. /\ sPc[s] = "reply" /\ UNCHANGED <<mode, stateFile>>
        /\ sPc'[s] = "save" \/ (sPc'[s] \in {"reply", "failSave"} /\ UNCHANGED received)
    BY <1>12 DEF MisreadChunk, RetryChunk
  <2> QED BY <1>1, <2>1 DEF SavedSession
<1>13. CASE TruncateState(s)
  BY <1>13 DEF TruncateState, SavedSession
<1>14. CASE SaveState(s)
  <2>1. sPc'[s] = "loop" /\ stateFile' = SavedState(s) /\ UNCHANGED received
    BY <1>14 DEF SaveState
  <2>2. SavedState(s)' = SavedState(s)
    BY <1>0, <2>1 DEF SavedState
  <2> QED BY <2>1, <2>2 DEF SavedSession
<1>15. CASE SaveStateFails(s)
  <2>1. sPc[s] = "saving" /\ sPc'[s] = "loop" /\ UNCHANGED stateFile
    BY <1>15 DEF SaveStateFails, diskVars
  <2> QED BY <2>1 DEF SavedSession, TornState, StateRecord
<1>16. CASE \/ AllChunksDone(s) \/ RequestHash(s) \/ CompareHash(s) \/ HashLost(s) \/ HashFails(s)
            \/ Cleanup(s) \/ SendComplete(s)
  <2>1. sPc'[s] \in AfterChunks
    BY <1>16 DEF AllChunksDone, RequestHash, CompareHash, HashLost, HashFails, Cleanup,
                 SendComplete, AfterChunks
  <2> QED BY <2>1 DEF SavedSession, AfterChunks
<1> QED
  BY <1>2, <1>3, <1>4, <1>5, <1>6, <1>7, <1>8, <1>9, <1>10, <1>11, <1>12, <1>13, <1>14, <1>15,
     <1>16
  DEF ServerStep, ServerFault, Panics

LEMMA SavedInit == Init => SavedInv
BY AloneInit DEF Init, ServerInit, SavedInv, SavedSession

(* The end of the process ends every goroutine that had work to do. *)
LEMMA ProcessEndsSaved ==
  ASSUME SavedInv, NEW how, ProcessEnds(how)
  PROVE  (\A t \in Sessions : ~ServerBusy(t)' /\ SavedSession(t)')
<1>1. \A t \in Sessions : ~ServerBusy(t)'
  BY DEF ProcessEnds, ServerBusy, ServerEnds
<1> QED BY <1>1, SavedAtRest

LEMMA SavedNext ==
  ASSUME Overlap = "never", TypeOK, SavedInv, [Next]_vars
  PROVE  SavedInv'
<1> USE DEF TypeOK, SrvTypes, CliTypes
<1>0. OneAtATime'
  BY AloneNext DEF SavedInv
<1>1. ASSUME NEW s \in Sessions, Dial(s) PROVE SavedInv'
  <2>1. /\ server' = "up" /\ UNCHANGED <<mode, received, stateFile, chunkSize>>
        /\ sPc' = [sPc EXCEPT ![s] = "accept"]
    BY <1>1 DEF Dial, Goto, diskVars
  <2>2. ASSUME NEW t \in Sessions \ {s} PROVE SavedSession(t)'
    BY <2>1, SavedSame DEF SavedInv, ServerTypeOK
  <2>3. SavedSession(s)'
    BY <2>1 DEF SavedSession, ServerTypeOK
  <2> QED BY <1>0, <2>1, <2>2, <2>3 DEF SavedInv
<1>2. ASSUME NEW how \in {"crashed", "panicked"}, ProcessEnds(how) PROVE SavedInv'
  BY <1>0, <1>2, ProcessEndsSaved DEF SavedInv
<1>3. ASSUME NEW s \in Sessions, ServerStep(s) \/ ServerFault(s) PROVE SavedInv'
  <2>1. CASE Panics(s)
    BY <1>2, <2>1 DEF Panics, NilStatePanic, MisreadPanics
  <2>2. CASE ~Panics(s)
    <3>1. ServerBusy(s) /\ \A t \in Sessions \ {s} : sPc'[t] = sPc[t]
      BY <1>3, <2>2, ServerFrame DEF Framed, Untouched
    <3>2. server' = "up"
      BY <1>3, <2>2, <3>1, ServerStays DEF SavedInv
    <3>3. ASSUME NEW t \in Sessions \ {s} PROVE SavedSession(t)'
      <4>1. ~ServerBusy(t)'
        BY <3>1 DEF SavedInv, OneAtATime, Active, ServerBusy
      <4> QED BY <4>1, SavedAtRest
    <3>4. SavedSession(s)'
      BY <1>3, <2>2, SavedKeeps DEF SavedInv
    <3> QED BY <1>0, <3>2, <3>3, <3>4 DEF SavedInv
  <2> QED BY <2>1, <2>2
<1>4. CASE UNCHANGED <<server, sPc, mode, received, stateFile, chunkSize>>
  BY <1>0, <1>4, SavedSame DEF SavedInv, ServerBusy
<1>5. CASE RestartServer
  <2>1. \A t \in Sessions : ~ServerBusy(t)'
    BY <1>5 DEF RestartServer, Restart, SavedInv, ServerBusy
  <2>2. server' = "up"
    BY <1>5 DEF RestartServer, Restart
  <2> QED BY <1>0, <2>1, <2>2, SavedAtRest DEF SavedInv
<1> QED
  BY <1>1, <1>2, <1>3, <1>4, <1>5
  DEF Next, ServerMoves, ClientMoves, Fault, Crash, vars, srvVars, diskVars

(* What a goroutine has in memory is in the state on disk, or nothing is   *)
(* (server.go:371-386), whatever the chunk sizes, verification and faults, *)
(* if sessions do not overlap.                                             *)
THEOREM SavedAlways ==
  ASSUME Overlap = "never"
  PROVE  Spec => []SavedInv
<1>1. Init => TypeOK /\ SavedInv
  BY InitTypes, SavedInit
<1>2. TypeOK /\ SavedInv /\ [Next]_vars => TypeOK' /\ SavedInv'
  BY NextTypes, SavedNext
<1> QED
  BY <1>1, <1>2, PTL DEF Spec

(* Only a request for a chunk leads from the loop to the wait for it. *)
LEMMA OnlyRequests ==
  ASSUME TypeOK, [Next]_vars, NEW s \in Sessions, sPc[s] = "loop", sPc'[s] = "reply"
  PROVE  RequestChunk(s)
<1> USE DEF TypeOK, SrvTypes, CliTypes
<1>1. ASSUME NEW t \in Sessions, ServerStep(t) \/ ServerFault(t) PROVE RequestChunk(s)
  <2>1. ~Panics(t)
    BY DEF Panics, NilStatePanic, MisreadPanics, ProcessEnds
  <2>2. t = s
    BY <1>1, <2>1, ServerFrame DEF Framed, Untouched
  <2> QED
    BY <1>1, <2>1, <2>2 DEF ServerStep, ServerFault, Panics, ReadInit, InitLost, TryResumeTransfer,
       ResumeDecision, DropPartialFile, DropPartialState, OpenOutput, PreallocateFile,
       SkipReceivedChunk, ReceiveChunk, ReceiveOversizedChunk, MisreadChunk, ChunkLost,
       ChunkArrived, TruncateState, SaveState, SaveStateAndFail, AllChunksDone, RequestHash,
       CompareHash, HashLost, DiscardOutput, Cleanup, SendComplete, InitTimeout,
       OpenOutputFails, PreallocateFails, WriteChunkFails, SaveStateFails, LastSaveFails,
       HashFails, DiscardFails, RemovalFails, ReopenFails, Goto, ServerTypeOK
<1>2. ASSUME NEW t \in Sessions, Dial(t) PROVE FALSE
  BY <1>2 DEF Dial, Goto, ServerTypeOK
<1>3. ASSUME NEW how, ProcessEnds(how) PROVE FALSE
  BY <1>3 DEF ProcessEnds
<1>4. ASSUME UNCHANGED sPc PROVE FALSE
  BY <1>4
<1> QED
  BY <1>1, <1>2, <1>3, <1>4
  DEF Next, ServerMoves, ClientMoves, RestartServer, Restart, Fault, Crash, vars, srvVars

(* When a chunk is requested, everything received so far is in the state   *)
(* on disk, unless writing it failed (server.go:377), if sessions do not   *)
(* overlap.                                                                *)
THEOREM SavedBeforeNext ==
  ASSUME Overlap = "never"
  PROVE  Spec => SavedBeforeNextRequest
<1>1. TypeOK /\ SavedInv /\ [Next]_vars =>
        [\A s \in Sessions :
           sPc[s] = "loop" /\ sPc'[s] = "reply" /\ received[s] # {}
             => stateFile = SavedState(s) \/ stateFile = TornState]_vars
  <2> SUFFICES ASSUME TypeOK, SavedInv, [Next]_vars, NEW s \in Sessions,
                      sPc[s] = "loop", sPc'[s] = "reply", received[s] # {}
               PROVE  stateFile = SavedState(s) \/ stateFile = TornState
    OBVIOUS
  <2>1. mode[s] # "rejected"
    BY OnlyRequests DEF RequestChunk, AtLoop
  <2> QED BY <2>1 DEF SavedInv, SavedSession
<1> QED
  BY <1>1, TypeCorrect, SavedAlways, PTL DEF Spec, SavedBeforeNextRequest

-----------------------------------------------------------------------------
(* What is on disk is not asked for again.  All files have one size and all*)
(* sessions one chunk size; verification, the contents and a resumed file  *)
(* that is truncated on the way do not matter.                             *)
SameLayout ==
  /\ OneChunkSize
  /\ Overlap = "never"
  /\ \A s, t \in Sessions : FileSize[s] = FileSize[t]

(* A state on disk fits every session, and a goroutine that asks for chunks*)
(* has all it claims in its list.                                          *)
ListedSession(s) ==
  /\ sPc[s] \in {"ack", "open", "alloc"} /\ mode[s] = "fresh" => stateFile.kind # "saved"
  /\ sPc[s] \in WithChunks \cup {"alloc"} /\ stateFile.kind = "saved"
       => stateFile.recv \subseteq received[s]

AllFit == \A s \in Sessions : stateFile.kind = "saved" => StateFits(s)

ListedInv == AllFit /\ \A s \in Sessions : ListedSession(s)

LEMMA AllFitSame ==
  ASSUME AllFit, UNCHANGED chunkSize, stateFile' = stateFile \/ stateFile'.kind # "saved"
  PROVE  AllFit'
BY DEF AllFit, StateFits

LEMMA AllFitSaved ==
  ASSUME SameLayout, UNCHANGED chunkSize, NEW s \in Sessions, stateFile' = SavedState(s)
  PROVE  AllFit'
BY DEF AllFit, StateFits, SavedState, StateRecord, SameLayout

(* A step of one goroutine. *)
LEMMA ListedServer ==
  ASSUME SameLayout, SrvTypes, NEW s \in Sessions, DialogueSession(s), SavedSession(s),
         AllFit, ListedSession(s), ServerStep(s) \/ ServerFault(s), ~Panics(s)
  PROVE  AllFit' /\ ListedSession(s)'
<1> USE DEF SrvTypes, ServerTypeOK, Goto
<1>0. UNCHANGED chunkSize /\ mode[s] # "rejected" /\ inSync[s]
  BY ServerOthers DEF DialogueSession
<1>1. ASSUME sPc'[s] \notin WithChunks \cup {"ack", "open", "alloc"},
             stateFile' = stateFile \/ stateFile'.kind # "saved"
      PROVE  AllFit' /\ ListedSession(s)'
  BY <1>0, <1>1, AllFitSame DEF ListedSession
<1>2. ASSUME UNCHANGED <<mode, received, stateFile>>,
             \/ sPc[s] \in {"ack", "open"} /\ sPc'[s] = "open"
             \/ sPc[s] = "open" /\ mode[s] = "fresh" /\ sPc'[s] = "alloc"
             \/ sPc[s] \in WithChunks \cup {"alloc"} /\ sPc'[s] \in WithChunks
      PROVE  AllFit' /\ ListedSession(s)'
  BY <1>0, <1>2, AllFitSame DEF ListedSession, WithChunks
<1>3. CASE \/ InitLost(s) \/ DiscardOutput(s) \/ OpenOutputFails(s) \/ DiscardFails(s)
           \/ LastSaveFails(s) \/ InitTimeout(s) \/ ReadInit(s)
  <2>1. sPc'[s] \in {"aborted", "load"} /\ UNCHANGED stateFile
    BY <1>3 DEF InitLost, DiscardOutput, OpenOutputFails, DiscardFails, LastSaveFails,
                InitTimeout, ReadInit, Abort, diskVars
  <2> QED BY <1>1, <2>1 DEF WithChunks
<1>4. CASE SaveStateAndFail(s)
  <2>1. sPc'[s] = "aborted" /\ stateFile' = SavedState(s)
    BY <1>4 DEF SaveStateAndFail, Abort
  <2> QED BY <1>0, <2>1, AllFitSaved DEF ListedSession, WithChunks
<1>5. CASE TryResumeTransfer(s)
  <2>1. /\ sPc'[s] = "ack" /\ UNCHANGED stateFile
        /\ mode'[s] = "fresh" => ~(stateFile.kind = "saved" /\ StateFits(s))
    BY <1>5 DEF TryResumeTransfer, StateFits, diskVars
  <2> QED BY <1>0, <2>1, AllFitSame DEF AllFit, ListedSession, WithChunks
<1>6. CASE ResumeDecision(s)
  <2>1. sPc'[s] \in {"open", "dropFile"} /\ sPc[s] = "ack" /\ UNCHANGED <<received, stateFile>>
    BY <1>6 DEF ResumeDecision, diskVars
  <2>2. sPc'[s] = "open" => mode' = mode
    BY <1>6 DEF ResumeDecision
  <2> QED BY <1>0, <2>1, <2>2, AllFitSame DEF ListedSession, WithChunks
<1>7. CASE DropPartialFile(s) \/ DropPartialState(s)
  BY <1>7 DEF DropPartialFile, DropPartialState, DialogueSession
<1>8. CASE OpenOutput(s) \/ ReopenFails(s)
  <2>1. /\ sPc[s] = "open" /\ sPc'[s] = IF mode[s] = "resumed" THEN "loop" ELSE "alloc"
        /\ UNCHANGED <<mode, received, stateFile>>
    BY <1>8 DEF OpenOutput, ReopenFails
  <2>2. CASE mode[s] = "resumed"
    <3>1. stateFile.recv = received[s]
      BY <2>1, <2>2 DEF SavedSession, SavedState, StateRecord
    <3> QED BY <1>0, <2>1, <2>2, <3>1, AllFitSame DEF ListedSession
  <2>3. CASE mode[s] # "resumed"
    BY <1>0, <1>2, <2>1, <2>3
  <2> QED BY <2>2, <2>3
<1>9. CASE \/ PreallocateFile(s) \/ PreallocateFails(s) \/ SkipReceivedChunk(s) \/ RequestChunk(s)
  <2>1. /\ sPc[s] \in {"alloc", "loop"} /\ sPc'[s] \in {"loop", "reply", "failSave"}
        /\ UNCHANGED <<mode, received, stateFile>>
    BY <1>9 DEF PreallocateFile, PreallocateFails, SkipReceivedChunk, RequestChunk, AtLoop, diskVars
  <2> QED BY <1>2, <2>1 DEF WithChunks
<1>10. CASE ReceiveChunk(s)
  <2>1. /\ sPc[s] = "reply" /\ sPc'[s] = "save" /\ UNCHANGED stateFile
        /\ received[s] \subseteq received'[s]
    BY <1>10 DEF ReceiveChunk, ChunkArrived
  <2> QED BY <1>0, <2>1, AllFitSame DEF ListedSession, WithChunks
<1>11. CASE ReceiveOversizedChunk(s) \/ WriteChunkFails(s) \/ ChunkLost(s)
  <2>1. /\ sPc[s] = "reply" /\ sPc'[s] \in {"reply", "failSave"}
        /\ UNCHANGED <<mode, received, stateFile>>
    BY <1>11 DEF ReceiveOversizedChunk, WriteChunkFails, ChunkLost, ChunkArrived, RetryChunk,
                 diskVars
  <2> QED BY <1>2, <2>1 DEF WithChunks
<1>12. CASE MisreadChunk(s)
  BY <1>0, <1>12 DEF MisreadChunk
<1>13. CASE TruncateState(s)
  <2>1. sPc'[s] \in {"saving", "failSaving"} /\ stateFile'.kind # "saved"
    BY <1>13 DEF TruncateState, TornState, StateRecord
  <2> QED BY <1>0, <2>1, AllFitSame DEF ListedSession
<1>14. CASE SaveState(s)
  <2>1. sPc'[s] = "loop" /\ stateFile' = SavedState(s) /\ UNCHANGED received
    BY <1>14 DEF SaveState
  <2> QED BY <1>0, <2>1, AllFitSaved DEF ListedSession, SavedState, StateRecord
<1>15. CASE SaveStateFails(s)
  <2>1. sPc[s] = "saving" /\ sPc'[s] = "loop" /\ UNCHANGED <<mode, received, stateFile>>
    BY <1>15 DEF SaveStateFails, diskVars
  <2> QED BY <1>2, <2>1 DEF WithChunks
<1>16. CASE \/ AllChunksDone(s) \/ RequestHash(s) \/ CompareHash(s) \/ HashLost(s) \/ HashFails(s)
            \/ Cleanup(s) \/ SendComplete(s) \/ RemovalFails(s)
  <2>1. sPc'[s] \in AfterChunks
    BY <1>16 DEF AllChunksDone, RequestHash, CompareHash, HashLost, HashFails, Cleanup,
                 SendComplete, RemovalFails, AfterChunks, DialogueSession
  <2>2. stateFile' = stateFile \/ stateFile'.kind # "saved"
    BY <1>16 DEF AllChunksDone, RequestHash, CompareHash, HashLost, HashFails, Cleanup,
                 SendComplete, RemovalFails, RemoveTransferState, NoState, StateRecord, diskVars
  <2> QED BY <1>1, <2>1, <2>2 DEF AfterChunks, WithChunks
<1> QED
  BY <1>3, <1>4, <1>5, <1>6, <1>7, <1>8, <1>9, <1>10, <1>11, <1>12, <1>13, <1>14, <1>15, <1>16
  DEF ServerStep, ServerFault, Panics

LEMMA ListedSame ==
  ASSUME NEW t \in Sessions, ListedSession(t), UNCHANGED <<mode[t], received[t], stateFile>>,
         sPc'[t] \in {sPc[t], "accept", "dead"}
  PROVE  ListedSession(t)'
BY DEF ListedSession, WithChunks

LEMMA ListedAtRest ==
  ASSUME NEW t \in Sessions, ~ServerBusy(t)'
  PROVE  ListedSession(t)'
BY DEF ServerBusy, ServerEnds, ListedSession, WithChunks

LEMMA ListedInit == Init => ListedInv
BY DEF Init, ServerInit, StoreInit, NoState, StateRecord, ListedInv, AllFit, ListedSession, WithChunks

LEMMA ListedNext ==
  ASSUME SameLayout, TypeOK, DialogueInv, SavedInv, ListedInv, [Next]_vars
  PROVE  ListedInv'
<1> USE DEF TypeOK, SrvTypes, CliTypes
<1>1. ASSUME UNCHANGED <<mode, received, stateFile, chunkSize>>,
             \A t \in Sessions : sPc'[t] \in {sPc[t], "accept", "dead"}
      PROVE  ListedInv'
  BY <1>1, AllFitSame, ListedSame DEF ListedInv
<1>2. ASSUME NEW s \in Sessions, Dial(s) PROVE ListedInv'
  BY <1>1, <1>2 DEF Dial, Goto, diskVars, ServerTypeOK
<1>3. ASSUME NEW s \in Sessions, ServerStep(s) \/ ServerFault(s) PROVE ListedInv'
  <2>1. ~Panics(s)
    BY DEF Panics, NilStatePanic, MisreadPanics, DialogueInv, DialogueSession
  <2>2. Framed(s)
    BY <1>3, <2>1, ServerFrame
  <2>3. ASSUME NEW t \in Sessions \ {s} PROVE ListedSession(t)'
    <3>1. ~ServerBusy(t)'
      BY <2>2 DEF Framed, Untouched, SavedInv, OneAtATime, Active, ServerBusy
    <3> QED BY <3>1, ListedAtRest
  <2>4. AllFit' /\ ListedSession(s)'
    BY <1>3, <2>1, ListedServer DEF DialogueInv, SavedInv, ListedInv
  <2> QED BY <2>3, <2>4 DEF ListedInv
<1>4. ASSUME NEW how, ProcessEnds(how) PROVE ListedInv'
  BY <1>1, <1>4 DEF ProcessEnds, diskVars
<1>5. CASE RestartServer
  <2>1. chunkSize' = chunkSize
    BY <1>5 DEF RestartServer, Restart, SameLayout, OneChunkSize, ServerTypeOK
  <2> QED BY <1>1, <1>5, <2>1 DEF RestartServer, Restart, diskVars
<1>6. CASE UNCHANGED <<srvVars, diskVars>>
  BY <1>1, <1>6 DEF srvVars, diskVars
<1> QED
  BY <1>2, <1>3, <1>4, <1>5, <1>6 DEF Next, ServerMoves, ClientMoves, Fault, Crash, vars

(* A chunk the state on disk claims is not asked for again (server.go:348),*)
(* also by a later session or after a restart, with verification or        *)
(* without, whatever the contents of the files.                            *)
THEOREM NeverTwice ==
  ASSUME SameLayout
  PROVE  Spec => NoChunkTwice
<1>0. OneChunkSize /\ Overlap = "never"
  BY DEF SameLayout
<1>1. TypeOK /\ DialogueInv /\ SavedInv /\ ListedInv /\ [Next]_vars => ListedInv'
  BY ListedNext
<1>2. TypeOK /\ ListedInv /\ [Next]_vars =>
        [\A s \in Sessions :
           sPc[s] = "loop" /\ sPc'[s] = "reply" /\ stateFile.kind = "saved"
             => chunkIdx[s] \notin stateFile.recv]_vars
  <2> SUFFICES ASSUME TypeOK, ListedInv, [Next]_vars, NEW s \in Sessions,
                      sPc[s] = "loop", sPc'[s] = "reply", stateFile.kind = "saved"
               PROVE  chunkIdx[s] \notin stateFile.recv
    OBVIOUS
  <2>1. chunkIdx[s] \notin received[s]
    BY OnlyRequests DEF RequestChunk
  <2>2. stateFile.recv \subseteq received[s]
    BY DEF ListedInv, ListedSession, WithChunks
  <2> QED BY <2>1, <2>2
<1> QED
  BY <1>0, <1>1, <1>2, ListedInit, TypeCorrect, TurnsTaken, SavedAlways, PTL
  DEF Spec, NoChunkTwice

-----------------------------------------------------------------------------
(* One file and one chunk size for all sessions, one session after the     *)
(* other, a server or clients that do not ask for verification, and a      *)
(* resumed file that can be opened: if it cannot and a new one can be      *)
(* created, the list outlives the content (ReopenFails), and without       *)
(* verification nobody notices.                                            *)
Uniform ==
  /\ OneChunkSize
  /\ Overlap = "never"
  /\ ~ReopenMayFail
  /\ \A s \in Sessions : ~(ServerVerify /\ ClientVerify[s])
  /\ \A s, t \in Sessions : FileSize[s] = FileSize[t] /\ Source(s) = Source(t)

LEMMA SameFile ==
  ASSUME Uniform, NEW s \in Sessions, NEW t \in Sessions
  PROVE  FileSize[s] = FileSize[t] /\ Source(s) = Source(t)
BY DEF Uniform

(* Writing a part of the file at its own place, behind what is in place    *)
(* already, disturbs nothing that is in place and nothing past the end.    *)
LEMMA WriteInPlace ==
  ASSUME NEW s \in Sessions, NEW c \in Content, NEW off \in Nat, NEW n \in Nat,
         off + n <= FileSize[s], n > 0 => \A p \in Pos : p < off => c[p] = Source(s)[p],
         NEW d, d = WriteAt(c, off, n, Source(s), off)
  PROVE  /\ \A p \in Pos : c[p] = Source(s)[p] => d[p] = Source(s)[p]
         /\ \A p \in Pos : off <= p /\ p < off + n => d[p] = Source(s)[p]
         /\ \A p \in Pos : p >= FileSize[s] /\ c[p] = Eof => d[p] = Eof
<1>1. FileSize[s] \in Nat /\ \A p \in Pos : p < FileSize[s] => FileCells[s][p] \in Nat
  BY FilesAssumption, ConstantTypes
<1>2. ASSUME NEW p \in Pos, p < FileSize[s] PROVE Source(s)[p] # Eof
  BY <1>1, <1>2 DEF Source, Eof
<1>3. ASSUME NEW p \in Pos, off <= p, p < off + n PROVE d[p] = Source(s)[p]
  <2>1. off + (p - off) = p
    BY <1>3 DEF Pos
  <2> QED BY <1>3, <2>1 DEF WriteAt
<1>4. ASSUME NEW p \in Pos, p >= off + n PROVE d[p] = c[p]
  BY <1>4 DEF WriteAt, Pos
<1>5. ASSUME NEW p \in Pos, p < off PROVE d[p] = c[p]
  <2>1. n > 0 => c[p] # Eof
    BY <1>1, <1>2, <1>5 DEF Pos
  <2> QED BY <1>5, <2>1 DEF WriteAt, Pos
<1>6. \A p \in Pos : p \in Int
  BY DEF Pos
<1> QED BY <1>1, <1>3, <1>4, <1>5, <1>6

-----------------------------------------------------------------------------
(* What a step does to the disk and to the list of received chunks. *)

LEMMA DiskSame ==
  ASSUME UniformDisk, UNCHANGED <<outFile, data, stateFile, chunkSize>>
  PROVE  UniformDisk'
BY DEF UniformDisk, ClaimsBacked, StateFits

(* Without a state that claims something, there is nothing to back. *)
LEMMA NothingClaimed ==
  ASSUME UniformDisk, stateFile'.kind # "saved", UNCHANGED data
  PROVE  UniformDisk'
BY DEF UniformDisk, ClaimsBacked

LEMMA ListSame ==
  ASSUME NEW s \in Sessions, ListBacked(s), stateFile'.kind = "saved" => stateFile' = stateFile,
         UNCHANGED <<outFile, data, chunkSize, received[s], chunkIdx[s], fd[s]>>
  PROVE  ListBacked(s)'
BY DEF ListBacked, Holds, InPlace, CurrentOffset, ChunkOffset

(* The state that is saved claims what the list in memory holds. *)
LEMMA SavedBacked ==
  ASSUME Uniform, ServerTypeOK, UniformDisk, NEW s \in Sessions, ListBacked(s),
         stateFile' = SavedState(s), UNCHANGED <<outFile, data, chunkSize>>
  PROVE  UniformDisk'
<1>1. outFile # NoFile
  BY NoFileAssumption DEF ListBacked, ServerTypeOK
<1>2. stateFile'.recv = received[s] /\ stateFile'.chunk = chunkSize /\ stateFile'.size = FileSize[s]
  BY DEF SavedState, StateRecord
<1>3. ASSUME NEW t \in Sessions, NEW k \in received[s], NEW p \in ChunkCells(k, chunkSize)
      PROVE  data[outFile][p] = Source(t)[p]
  <2>1. data[outFile][p] = Source(s)[p]
    BY <1>3 DEF ListBacked, Holds, InPlace
  <2> QED BY <2>1, SameFile
<1>4. ClaimsBacked'
  BY <1>1, <1>2, <1>3 DEF ClaimsBacked
<1>5. \A t \in Sessions : StateFits(t)'
  BY <1>2, SameFile DEF StateFits
<1> QED BY <1>4, <1>5 DEF UniformDisk

(* A chunk the list has is passed: what is before the next one is in place.*)
LEMMA ListAdvances ==
  ASSUME ServerTypeOK, NEW s \in Sessions, ListBacked(s), chunkIdx[s] \in received[s],
         chunkIdx'[s] = chunkIdx[s] + 1, stateFile'.kind = "saved" => stateFile'.recv \subseteq received[s],
         UNCHANGED <<outFile, data, chunkSize, received[s], fd[s]>>
  PROVE  ListBacked(s)'
<1>1. chunkIdx[s] \in Nat /\ chunkSize \in Nat
  BY ServerNumbers
<1>2. ASSUME NEW p \in Pos, p < CurrentOffset(s)' PROVE InPlace(s, p)
  <2>1. CASE p < CurrentOffset(s)
    BY <2>1 DEF ListBacked
  <2>2. CASE ~(p < CurrentOffset(s))
    <3>1. p \in Int /\ CurrentOffset(s) <= p
      BY <1>1, <2>2 DEF Pos, CurrentOffset, ChunkOffset
    <3>2. CurrentOffset(s)' = (chunkIdx[s] + 1) * chunkSize
      BY DEF CurrentOffset, ChunkOffset
    <3>3. p \in ChunkCells(chunkIdx[s], chunkSize)
      BY <1>2, <3>1, <3>2 DEF ChunkCells, CurrentOffset, ChunkOffset
    <3> QED BY <3>3 DEF ListBacked, Holds
  <2> QED BY <2>1, <2>2
<1> QED BY <1>2 DEF ListBacked, Holds, InPlace

(* The chunk that was requested, or a part of it, is written. *)
LEMMA ListWritten ==
  ASSUME Uniform, SrvTypes, CliTypes, NEW s \in Sessions, UniformDisk, ListBacked(s),
         chunkIdx[s] < NumChunksOf(s), NEW n \in Nat, n <= ChunkAt(s, CurrentOffset(s)).n,
         data' = [data EXCEPT ![fd[s]] = WriteAt(@, CurrentOffset(s), n, Source(s), CurrentOffset(s))],
         received[s] \subseteq received'[s],
         \/ received'[s] = received[s]
         \/ received'[s] = received[s] \cup {chunkIdx[s]} /\ n = ChunkAt(s, CurrentOffset(s)).n,
         UNCHANGED <<outFile, stateFile, chunkSize, fd, chunkIdx>>
  PROVE  UniformDisk' /\ ListBacked(s)'
<1> DEFINE off == CurrentOffset(s)
           c == data[fd[s]]
           d == WriteAt(c, off, n, Source(s), off)
           full == ChunkAt(s, off).n
<1>1. /\ full = Least(chunkSize, FileSize[s] - off) /\ full \in Nat
      /\ off \in Nat /\ off + full <= FileSize[s]
  BY AskedLength DEF Uniform, SrvTypes, CliTypes
<1>2. chunkSize \in Nat /\ chunkIdx[s] \in Nat /\ FileSize[s] \in Nat
  BY ServerNumbers, ConstantTypes DEF SrvTypes
<1>3. fd[s] = outFile /\ outFile \in Sessions /\ c \in Content
  BY DEF ListBacked, SrvTypes, ServerTypeOK, StoreTypeOK
<1>4. /\ \A i \in Sessions \ {outFile} : data'[i] = data[i]
      /\ data'[outFile] = d
  BY <1>3 DEF SrvTypes, StoreTypeOK
<1>5. \A p \in Pos : p < off => c[p] = Source(s)[p]
  BY <1>3 DEF ListBacked, InPlace
<1>6. /\ \A p \in Pos : c[p] = Source(s)[p] => d[p] = Source(s)[p]
      /\ \A p \in Pos : off <= p /\ p < off + n => d[p] = Source(s)[p]
      /\ \A p \in Pos : p >= FileSize[s] /\ c[p] = Eof => d[p] = Eof
  <2>1. off + n <= FileSize[s]
    BY <1>1, <1>2
  <2> HIDE DEF off, c, d
  <2>2. d = WriteAt(c, off, n, Source(s), off)
    BY DEF d, off, c
  <2> QED BY <1>1, <1>3, <1>5, <2>1, <2>2, WriteInPlace
<1>7. UNCHANGED off
  BY DEF CurrentOffset, ChunkOffset
<1> HIDE DEF off, c, d, full
<1>8. ASSUME NEW p \in Pos, InPlace(s, p) PROVE InPlace(s, p)'
  BY <1>3, <1>4, <1>6, <1>8 DEF InPlace, c
<1>9. ASSUME NEW t \in Sessions, NEW i \in Sessions, NEW p \in Pos, p >= FileSize[t]
      PROVE  data'[i][p] = Eof
  <2>1. data[i][p] = Eof
    BY <1>9 DEF UniformDisk
  <2>2. FileSize[t] = FileSize[s]
    BY SameFile
  <2> QED BY <1>3, <1>4, <1>6, <1>9, <2>1, <2>2 DEF c
<1>10. ClaimsBacked'
  <2> SUFFICES ASSUME stateFile.kind = "saved"
               PROVE  /\ outFile # NoFile
                      /\ \A t \in Sessions : \A k \in stateFile.recv :
                           \A p \in ChunkCells(k, stateFile.chunk) : data'[outFile][p] = Source(t)[p]
    BY DEF ClaimsBacked
  <2>1. ASSUME NEW t \in Sessions, NEW k \in stateFile.recv, NEW p \in ChunkCells(k, stateFile.chunk)
        PROVE  data'[outFile][p] = Source(t)[p]
    <3>1. p \in Pos /\ data[outFile][p] = Source(s)[p]
      BY <2>1 DEF UniformDisk, ClaimsBacked, ChunkCells
    <3>2. data'[outFile][p] = Source(s)[p]
      BY <1>8, <3>1 DEF InPlace
    <3> QED BY <3>2, SameFile
  <2> QED BY <2>1 DEF UniformDisk, ClaimsBacked
<1>11. UniformDisk'
  BY <1>9, <1>10 DEF UniformDisk, StateFits
<1>12. ASSUME received'[s] = received[s] \cup {chunkIdx[s]}, n = full,
              NEW p \in ChunkCells(chunkIdx[s], chunkSize)
       PROVE  InPlace(s, p)'
  <2>1. p \in Pos /\ p \in Int /\ off <= p /\ p < off + chunkSize
    BY <1>2, <1>12 DEF ChunkCells, off, CurrentOffset, ChunkOffset, Pos
  <2>2. CASE p < off + n
    BY <1>4, <1>6, <2>1, <2>2 DEF InPlace
  <2>3. CASE p >= off + n
    <3>1. p >= FileSize[s]
      BY <1>1, <1>2, <1>12, <2>1, <2>3 DEF Least
    <3>2. Source(s)[p] = Eof
      BY <1>2, <2>1, <3>1 DEF Source
    <3>3. data'[outFile][p] = Eof
      BY <1>3, <1>9, <2>1, <3>1
    <3> QED BY <3>2, <3>3 DEF InPlace
  <2> QED BY <1>1, <2>1, <2>2, <2>3
<1>13. ASSUME NEW k \in received'[s], NEW p \in ChunkCells(k, chunkSize) PROVE InPlace(s, p)'
  <2>1. CASE k \in received[s]
    BY <1>8, <1>13, <2>1 DEF ListBacked, Holds, ChunkCells
  <2>2. CASE k \notin received[s]
    BY <1>12, <1>13, <2>2 DEF full, off
  <2> QED BY <2>1, <2>2
<1>14. ASSUME NEW p \in Pos, p < off PROVE InPlace(s, p)'
  BY <1>8, <1>14 DEF ListBacked, off
<1>15. (stateFile.kind = "saved" => stateFile.recv \subseteq received[s]) /\ outFile = fd[s]
  BY DEF ListBacked
<1>16. ListBacked(s)'
  BY <1>7, <1>13, <1>14, <1>15 DEF ListBacked, Holds, off
<1> QED BY <1>11, <1>16

-----------------------------------------------------------------------------
(* A step of one goroutine. *)

LEMMA AmongChunks ==
  ASSUME NEW s \in Sessions, sPc'[s] \in WithChunks, ListBacked(s)',
         sPc'[s] \in {"save", "saving"} => (chunkIdx[s] \in received[s])',
         sPc'[s] = "reply" => (chunkIdx[s] \notin received[s])'
  PROVE  UniformSession(s)'
BY DEF UniformSession, WithChunks, BeforeDecision

LEMMA AtItsEnd ==
  ASSUME NEW s \in Sessions, sPc'[s] \in {"aborted", "dead"}
  PROVE  UniformSession(s)'
BY DEF UniformSession, BeforeDecision, WithChunks

(* The list in memory, where the goroutine has one. *)
LEMMA ListAt ==
  ASSUME NEW s \in Sessions, UniformSession(s), sPc[s] \in WithChunks \cup {"alloc"}
  PROVE  ListBacked(s)
BY DEF UniformSession

(* Asking again after a failed attempt. *)
LEMMA RetryUniform ==
  ASSUME SrvTypes, NEW s \in Sessions, UniformSession(s), RetryChunk(s), sPc[s] = "reply",
         ListBacked(s)', UNCHANGED <<received, chunkIdx>>
  PROVE  UniformSession(s)'
<1>1. sPc'[s] \in {"reply", "failSave"}
  BY RetryFrame
<1>2. chunkIdx[s] \notin received[s]
  BY DEF UniformSession
<1> QED BY <1>1, <1>2, AmongChunks DEF WithChunks

(* The offer: what fits is taken over, so without an offer nothing is      *)
(* claimed.                                                                *)
LEMMA OfferUniform ==
  ASSUME SrvTypes, NEW s \in Sessions, UniformDisk, UniformSession(s), TryResumeTransfer(s)
  PROVE  UniformDisk' /\ UniformSession(s)'
<1> DEFINE fits == /\ stateFile.kind = "saved"
                   /\ stateFile.size = FileSize[s]
                   /\ stateFile.chunk = chunkSize
<1>1. /\ sPc[s] = "load" /\ sPc'[s] = "ack"
      /\ mode'[s] = IF fits THEN "resumed" ELSE "fresh"
      /\ UNCHANGED <<chunkIdx, outFile, data, stateFile, chunkSize>>
  BY DEF TryResumeTransfer, Goto, SrvTypes, ServerTypeOK, diskVars
<1>2. ~fits => stateFile.kind # "saved"
  BY DEF UniformDisk, StateFits
<1>3. chunkIdx[s] = 0
  BY <1>1 DEF UniformSession, BeforeDecision
<1> HIDE DEF fits
<1> QED BY <1>1, <1>2, <1>3, DiskSame DEF UniformSession, BeforeDecision, WithChunks

(* A resumed transfer goes on with the file that is there: there is one,   *)
(* and it has every chunk the state claims.                                *)
LEMMA OpenUniform ==
  ASSUME Uniform, SrvTypes, NEW s \in Sessions, UniformDisk, UniformSession(s),
         SavedSession(s), mode[s] # "rejected", OpenOutput(s)
  PROVE  UniformDisk' /\ UniformSession(s)'
<1> USE DEF SrvTypes, ServerTypeOK, StoreTypeOK
<1>1. sPc[s] = "open" /\ UNCHANGED <<stateFile, chunkSize, mode, received, chunkIdx>>
  BY DEF OpenOutput
<1>2. chunkIdx[s] = 0 /\ CurrentOffset(s)' = 0
  <2>1. chunkIdx[s] = 0
    BY <1>1 DEF UniformSession
  <2>2. chunkSize \in Nat
    BY ServerNumbers
  <2> QED BY <1>1, <2>1, <2>2 DEF CurrentOffset, ChunkOffset
<1>3. \A p \in Pos : ~(p < CurrentOffset(s)')
  BY <1>2 DEF Pos
<1>4. CASE mode[s] = "resumed"
  <2>1. stateFile = SavedState(s)
    BY <1>1, <1>4 DEF SavedSession
  <2>2. stateFile.kind = "saved" /\ stateFile.recv = received[s] /\ stateFile.chunk = chunkSize
    BY <2>1 DEF SavedState, StateRecord
  <2>3. outFile # NoFile /\ \A k \in received[s] : Holds(s, k)
    BY <2>2 DEF UniformDisk, ClaimsBacked, Holds, InPlace
  <2>4. sPc'[s] = "loop" /\ fd'[s] = outFile /\ UNCHANGED <<outFile, data>>
    BY <1>4, <2>3 DEF OpenOutput, Goto
  <2>5. ListBacked(s)'
    BY <1>1, <1>3, <2>2, <2>3, <2>4 DEF ListBacked, Holds, InPlace
  <2> QED BY <1>1, <2>4, <2>5, DiskSame, AmongChunks DEF WithChunks
<1>5. CASE mode[s] = "fresh"
  <2>1. received[s] = {} /\ stateFile.kind # "saved"
    BY <1>1, <1>5 DEF SavedSession, UniformSession
  <2>2. /\ sPc'[s] = "alloc" /\ fd'[s] = CreatedFile(s) /\ outFile' = CreatedFile(s)
        /\ data' = [data EXCEPT ![CreatedFile(s)] = Empty]
    BY <1>5 DEF OpenOutput, Goto, CreateOutput
  <2>3. ListBacked(s)'
    BY <1>1, <1>3, <2>1, <2>2 DEF ListBacked
  <2>4. UniformDisk'
    BY <1>1, <2>1, <2>2 DEF UniformDisk, ClaimsBacked, Empty
  <2>5. UniformSession(s)'
    BY <1>1, <1>2, <2>1, <2>2, <2>3 DEF UniformSession, BeforeDecision
  <2> QED BY <2>4, <2>5
<1> QED BY <1>4, <1>5

(* Preallocation: only a fresh transfer does it, with an empty list.       *)
LEMMA PreallocateUniform ==
  ASSUME SrvTypes, NEW s \in Sessions, UniformDisk, UniformSession(s), Uniform,
         SavedSession(s), mode[s] # "rejected", PreallocateFile(s)
  PROVE  UniformDisk' /\ UniformSession(s)'
<1> USE DEF SrvTypes, ServerTypeOK, StoreTypeOK
<1>1. /\ sPc[s] = "alloc" /\ sPc'[s] = "loop"
      /\ data' = [data EXCEPT ![fd[s]] = TruncateTo(@, FileSize[s])]
      /\ UNCHANGED <<outFile, stateFile, chunkSize, mode, received, chunkIdx, fd>>
  BY DEF PreallocateFile, Goto
<1>2. mode[s] = "fresh"
  BY <1>1 DEF SavedSession
<1>3. received[s] = {} /\ stateFile.kind # "saved" /\ chunkIdx[s] = 0
  BY <1>1, <1>2 DEF SavedSession, UniformSession
<1>4. \A p \in Pos : ~(p < CurrentOffset(s)')
  <2>1. chunkSize \in Nat
    BY ServerNumbers
  <2>2. CurrentOffset(s)' = 0
    BY <1>1, <1>3, <2>1 DEF CurrentOffset, ChunkOffset
  <2> QED BY <2>2 DEF Pos
<1>5. ListBacked(s)'
  BY <1>1, <1>3, <1>4, ListAt DEF ListBacked
<1>6. ASSUME NEW t \in Sessions, NEW i \in Sessions, NEW p \in Pos, p >= FileSize[t]
      PROVE  data'[i][p] = Eof
  <2>1. data[i][p] = Eof
    BY <1>6 DEF UniformDisk
  <2>2. p >= FileSize[s]
    BY <1>6, SameFile
  <2> QED BY <1>1, <2>1, <2>2 DEF TruncateTo
<1>7. UniformDisk'
  BY <1>1, <1>3, <1>6 DEF UniformDisk, ClaimsBacked
<1> QED BY <1>1, <1>5, <1>7, AmongChunks DEF WithChunks

(* After the last chunk the whole file is in place. *)
LEMMA DoneUniform ==
  ASSUME Uniform, SrvTypes, NEW s \in Sessions, UniformDisk, UniformSession(s),
         AllChunksDone(s)
  PROVE  UniformDisk' /\ UniformSession(s)'
<1> USE DEF SrvTypes, ServerTypeOK, StoreTypeOK
<1>1. /\ sPc[s] = "loop" /\ chunkIdx[s] >= NumChunksOf(s) /\ sPc'[s] = "cleanup"
      /\ UNCHANGED <<outFile, data, stateFile, chunkSize>>
  BY DEF AllChunksDone, AtLoop, Goto, diskVars, Uniform
<1>2. ListBacked(s)
  BY <1>1, ListAt DEF WithChunks
<1>3. CurrentOffset(s) \in Nat /\ CurrentOffset(s) >= FileSize[s] /\ FileSize[s] \in Nat
  <2>1. /\ chunkSize \in Nat /\ chunkSize > 0 /\ chunkIdx[s] \in Nat
        /\ CurrentOffset(s) = chunkIdx[s] * chunkSize /\ FileSize[s] \in Nat
    BY ServerNumbers, ConstantTypes DEF CurrentOffset, ChunkOffset
  <2>2. chunkIdx[s] >= NumChunks(FileSize[s], chunkSize)
    BY <1>1 DEF NumChunksOf
  <2>3. chunkIdx[s] * chunkSize >= FileSize[s]
    BY <2>1, <2>2, ChunkBegins
  <2> QED BY <2>1, <2>3
<1>4. outFile \in Sessions /\ outFile # NoFile
  BY <1>2, NoFileAssumption DEF ListBacked
<1>5. ASSUME NEW p \in Pos PROVE data[outFile][p] = Source(s)[p]
  <2>1. CASE p < CurrentOffset(s)
    BY <1>2, <2>1 DEF ListBacked, InPlace
  <2>2. CASE ~(p < CurrentOffset(s))
    <3>1. p >= FileSize[s] /\ ~(p < FileSize[s])
      BY <1>3, <2>2 DEF Pos
    <3>2. data[outFile][p] = Eof
      BY <1>4, <3>1 DEF UniformDisk
    <3> QED BY <3>1, <3>2 DEF Source
  <2> QED BY <2>1, <2>2
<1>6. data[outFile] = Source(s)
  BY <1>4, <1>5, SourceType DEF Content
<1>7. OutputIs(s)'
  BY <1>1, <1>4, <1>6 DEF OutputIs
<1> QED BY <1>1, <1>7, DiskSame DEF UniformSession, BeforeDecision, WithChunks

LEMMA UniformServer ==
  ASSUME Uniform, SrvTypes, CliTypes, NEW s \in Sessions, DialogueSession(s), SavedSession(s),
         UniformDisk, UniformSession(s), ServerStep(s) \/ ServerFault(s), UNCHANGED cPc
  PROVE  UniformDisk' /\ UniformSession(s)'
<1> USE DEF SrvTypes, ServerTypeOK
<1>0. mode[s] # "rejected" /\ inSync[s] /\ sPc[s] \notin {"dropFile", "dropState"}
  BY DEF DialogueSession
<1>1. sPc[s] \notin {"verify", "hash", "discard"}
  BY DEF UniformSession
<1>2. CASE \/ InitLost(s) \/ OpenOutputFails(s) \/ LastSaveFails(s) \/ InitTimeout(s)
           \/ DiscardFails(s)
  <2>1. sPc'[s] = "aborted" /\ UNCHANGED <<outFile, data, stateFile, chunkSize>>
    BY <1>2 DEF InitLost, OpenOutputFails, LastSaveFails, InitTimeout, DiscardFails, Abort,
                Goto, diskVars
  <2> QED BY <2>1, DiskSame, AtItsEnd
<1>3. CASE SaveStateAndFail(s)
  <2>1. /\ sPc[s] = "failSaving" /\ sPc'[s] = "aborted" /\ stateFile' = SavedState(s)
        /\ UNCHANGED <<outFile, data, chunkSize>>
    BY <1>3 DEF SaveStateAndFail, Abort, Goto
  <2> QED BY <2>1, ListAt, SavedBacked, AtItsEnd DEF WithChunks
<1>4. CASE \/ DiscardOutput(s) \/ RequestHash(s) \/ CompareHash(s) \/ HashLost(s) \/ HashFails(s)
           \/ DropPartialFile(s) \/ DropPartialState(s)
  BY <1>0, <1>1, <1>4 DEF DiscardOutput, RequestHash, CompareHash, HashLost, HashFails,
                          DropPartialFile, DropPartialState
<1>5. CASE ReadInit(s)
  <2>1. /\ sPc[s] = "accept" /\ sPc'[s] \in {"aborted", "load"}
        /\ UNCHANGED <<outFile, data, stateFile, chunkSize, chunkIdx>>
    BY <1>5 DEF ReadInit, Abort, Goto, diskVars
  <2> QED BY <2>1, DiskSame DEF UniformSession, BeforeDecision, WithChunks
<1>6. CASE TryResumeTransfer(s)
  BY <1>6, OfferUniform
<1>7. CASE ResumeDecision(s)
  <2>1. sPc'[s] = "open"
    BY <1>7, DecisionTurns
  <2>2. sPc[s] = "ack" /\ mode' = mode /\ UNCHANGED <<outFile, data, stateFile, chunkSize, chunkIdx>>
    BY <1>7, <2>1 DEF ResumeDecision, Goto, diskVars
  <2> QED BY <2>1, <2>2, DiskSame DEF UniformSession, BeforeDecision, WithChunks
<1>8. CASE OpenOutput(s)
  BY <1>0, <1>8, OpenUniform
<1>9. CASE PreallocateFile(s)
  BY <1>0, <1>9, PreallocateUniform
<1>10. CASE PreallocateFails(s)
  <2>1. /\ sPc[s] = "alloc" /\ sPc'[s] = "loop"
        /\ UNCHANGED <<outFile, data, stateFile, chunkSize, received, chunkIdx, fd>>
    BY <1>10 DEF PreallocateFails, Goto, diskVars
  <2> QED BY <2>1, ListAt, ListSame, DiskSame, AmongChunks DEF WithChunks
<1>11. CASE SkipReceivedChunk(s)
  <2>1. /\ sPc[s] = "loop" /\ sPc'[s] = "loop" /\ chunkIdx[s] \in received[s]
        /\ chunkIdx'[s] = chunkIdx[s] + 1
        /\ UNCHANGED <<outFile, data, stateFile, chunkSize, received, fd>>
    BY <1>11 DEF SkipReceivedChunk, AtLoop, diskVars
  <2>2. ListBacked(s)
    BY <2>1, ListAt DEF WithChunks
  <2>3. ListBacked(s)'
    BY <2>1, <2>2, ListAdvances DEF ListBacked
  <2> QED BY <2>1, <2>3, DiskSame, AmongChunks DEF WithChunks
<1>12. CASE RequestChunk(s)
  <2>1. /\ sPc[s] = "loop" /\ sPc'[s] \in {"reply", "failSave"} /\ chunkIdx[s] \notin received[s]
        /\ UNCHANGED <<outFile, data, stateFile, chunkSize, received, chunkIdx, fd>>
    BY <1>12 DEF RequestChunk, AtLoop, Goto, diskVars
  <2> QED BY <2>1, ListAt, ListSame, DiskSame, AmongChunks DEF WithChunks
<1>13. CASE ReceiveChunk(s)
  <2> DEFINE off == CurrentOffset(s)
             m == ChunkAt(s, off)
  <2>1. sPc[s] = "reply" /\ HasCommand(s, toServer, "Data")
    BY <1>13 DEF ReceiveChunk, ChunkArrived
  <2>2. Head(toServer[s]) = m /\ m.off = off /\ m.n \in Nat /\ chunkIdx[s] < NumChunksOf(s)
    BY <2>1, ArrivedTurns, AskedLength DEF Uniform, CliTypes
  <2>3. /\ data' = [data EXCEPT ![fd[s]] = WriteAt(@, off, m.n, Source(s), off)]
        /\ received'[s] = received[s] \cup {chunkIdx[s]} /\ sPc'[s] = "save"
        /\ UNCHANGED <<outFile, stateFile, chunkSize, chunkIdx, fd>>
    BY <1>13, <2>2 DEF ReceiveChunk, Goto
  <2>4. ListBacked(s) /\ m.n <= m.n
    BY <2>1, <2>2, ListAt DEF WithChunks
  <2>5. UniformDisk' /\ ListBacked(s)'
    BY <2>2, <2>3, <2>4, ListWritten
  <2> QED BY <2>3, <2>5, AmongChunks DEF WithChunks
<1>14. CASE ReceiveOversizedChunk(s)
  BY <1>14, ArrivedTurns DEF ReceiveOversizedChunk, ChunkArrived, Uniform
<1>15. CASE WriteChunkFails(s)
  <2> DEFINE off == CurrentOffset(s)
             m == ChunkAt(s, off)
  <2>1. sPc[s] = "reply" /\ HasCommand(s, toServer, "Data") /\ RetryChunk(s)
    BY <1>15 DEF WriteChunkFails, ChunkArrived
  <2>2. Head(toServer[s]) = m /\ m.off = off /\ m.n \in Nat /\ chunkIdx[s] < NumChunksOf(s)
    BY <2>1, ArrivedTurns, AskedLength DEF Uniform, CliTypes
  <2>3. PICK n \in 0 .. (m.n - 1) :
          data' = [data EXCEPT ![fd[s]] = WriteAt(@, off, n, Source(s), off)]
    BY <1>15, <2>2 DEF WriteChunkFails
  <2>4. UNCHANGED <<outFile, stateFile, chunkSize, received, chunkIdx, fd>>
    BY <1>15 DEF WriteChunkFails
  <2>5. ListBacked(s) /\ n \in Nat /\ n <= m.n
    BY <2>1, <2>2, ListAt DEF WithChunks
  <2>6. UniformDisk' /\ ListBacked(s)'
    BY <2>2, <2>3, <2>4, <2>5, ListWritten
  <2> QED BY <2>1, <2>4, <2>6, RetryUniform
<1>16. CASE MisreadChunk(s)
  BY <1>0, <1>16 DEF MisreadChunk
<1>17. CASE ChunkLost(s)
  <2>1. /\ sPc[s] = "reply" /\ RetryChunk(s)
        /\ UNCHANGED <<outFile, data, stateFile, chunkSize, received, chunkIdx, fd>>
    BY <1>17 DEF ChunkLost, diskVars
  <2> QED BY <2>1, ListAt, ListSame, DiskSame, RetryUniform DEF WithChunks
<1>18. CASE TruncateState(s)
  <2>1. /\ sPc[s] \in {"save", "failSave"} /\ sPc'[s] \in {"saving", "failSaving"}
        /\ sPc'[s] = "saving" => sPc[s] = "save"
        /\ stateFile'.kind # "saved"
        /\ UNCHANGED <<outFile, data, chunkSize, received, chunkIdx, fd>>
    BY <1>18 DEF TruncateState, Goto, TornState, StateRecord
  <2>2. sPc[s] = "save" => chunkIdx[s] \in received[s]
    BY DEF UniformSession
  <2> QED BY <2>1, <2>2, ListAt, ListSame, NothingClaimed, AmongChunks DEF WithChunks
<1>19. CASE SaveState(s) \/ SaveStateFails(s)
  <2>1. /\ sPc[s] = "saving" /\ sPc'[s] = "loop" /\ chunkIdx'[s] = chunkIdx[s] + 1
        /\ stateFile' \in {stateFile, SavedState(s)}
        /\ UNCHANGED <<outFile, data, chunkSize, received, fd>>
    BY <1>19 DEF SaveState, SaveStateFails, Goto, diskVars
  <2>2. ListBacked(s) /\ chunkIdx[s] \in received[s]
    BY <2>1, ListAt DEF WithChunks, UniformSession
  <2>3. stateFile'.kind = "saved" => stateFile'.recv \subseteq received[s]
    BY <2>1, <2>2 DEF ListBacked, SavedState, StateRecord
  <2>4. ListBacked(s)'
    BY <2>1, <2>2, <2>3, ListAdvances
  <2>5. UniformDisk'
    BY <2>1, <2>2, DiskSame, SavedBacked
  <2> QED BY <2>1, <2>4, <2>5, AmongChunks DEF WithChunks
<1>20. CASE AllChunksDone(s)
  BY <1>20, DoneUniform
<1>21. CASE Cleanup(s)
  <2>1. /\ sPc[s] = "cleanup" /\ sPc'[s] = "complete" /\ stateFile'.kind # "saved"
        /\ UNCHANGED <<outFile, data>>
    BY <1>21 DEF Cleanup, Goto, RemoveTransferState, NoState, StateRecord
  <2>2. OutputIs(s)'
    BY <2>1 DEF UniformSession, OutputIs
  <2> QED BY <2>1, <2>2, NothingClaimed DEF UniformSession, BeforeDecision, WithChunks
<1>22. CASE RemovalFails(s) \/ SendComplete(s)
  <2>1. /\ sPc[s] \in {"cleanup", "complete"} /\ sPc'[s] \in {"complete", "completed"}
        /\ UNCHANGED <<outFile, data, stateFile, chunkSize>>
    BY <1>0, <1>22 DEF RemovalFails, SendComplete, Goto, diskVars
  <2>2. OutputIs(s)'
    BY <2>1 DEF UniformSession, OutputIs
  <2> QED BY <2>1, <2>2, DiskSame DEF UniformSession, BeforeDecision, WithChunks
<1>23. CASE Panics(s)
  BY <1>0, <1>23 DEF Panics, NilStatePanic, MisreadPanics
<1>24. CASE ReopenFails(s)
  BY <1>24 DEF ReopenFails, Uniform
<1> QED
  BY <1>2, <1>3, <1>4, <1>5, <1>6, <1>7, <1>8, <1>9, <1>10, <1>11, <1>12, <1>13, <1>14, <1>15,
     <1>16, <1>17, <1>18, <1>19, <1>20, <1>21, <1>22, <1>23, <1>24
  DEF ServerStep, ServerFault, Panics

-----------------------------------------------------------------------------
(* All sessions, all steps. *)

LEMMA UniformSame ==
  ASSUME NEW t \in Sessions, UniformSession(t), Running(t)' => Running(t),
         UNCHANGED <<sPc[t], mode[t], received[t], chunkIdx[t], fd[t], outFile, data, stateFile,
                     chunkSize>>
  PROVE  UniformSession(t)'
<1>1. ListBacked(t) => ListBacked(t)'
  BY ListSame
<1> QED BY <1>1 DEF UniformSession, OutputIs

LEMMA UniformAtRest ==
  ASSUME NEW t \in Sessions, ~Active(t)', sPc'[t] = "idle" => chunkIdx'[t] = 0
  PROVE  UniformSession(t)'
BY DEF Active, ServerBusy, ServerEnds, UniformSession, BeforeDecision, WithChunks

LEMMA UniformInit == Init => UniformInv
<1>1. Init => UniformDisk
  BY DEF Init, StoreInit, UniformDisk, ClaimsBacked, NoState, StateRecord, Empty
<1>2. Init => \A s \in Sessions : UniformSession(s)
  BY DEF Init, ServerInit, UniformSession, BeforeDecision, WithChunks
<1> QED BY <1>1, <1>2 DEF UniformInv

LEMMA ProcessEndsUniform ==
  ASSUME SrvTypes, UniformInv, NEW how, ProcessEnds(how), UNCHANGED cPc
  PROVE  UniformInv'
<1>1. UNCHANGED <<mode, received, chunkIdx, fd, outFile, data, stateFile, chunkSize>>
  BY DEF ProcessEnds, diskVars
<1>2. \A t \in Sessions : sPc'[t] \in {sPc[t], "dead"}
  BY DEF ProcessEnds
<1> QED BY <1>1, <1>2, DiskSame, UniformSame, AtItsEnd DEF UniformInv, Running

LEMMA UniformNext ==
  ASSUME Uniform, TypeOK, AgreeInv, DialogueInv, SavedInv, UniformInv, [Next]_vars
  PROVE  UniformInv'
<1> USE DEF TypeOK, SrvTypes, CliTypes
<1>1. ASSUME NEW s \in Sessions, Dial(s) PROVE UniformInv'
  <2>1. /\ sPc' = [sPc EXCEPT ![s] = "accept"] /\ cPc' = [cPc EXCEPT ![s] = "profiling"]
        /\ UNCHANGED <<mode, received, chunkIdx, fd, outFile, data, stateFile, chunkSize>>
    BY <1>1 DEF Dial, Goto, Become, diskVars
  <2>2. sPc[s] = "idle"
    BY <1>1 DEF Dial, AgreeInv
  <2>3. UniformSession(s)'
    BY <2>1, <2>2 DEF UniformInv, UniformSession, BeforeDecision, WithChunks, ServerTypeOK
  <2>4. ASSUME NEW t \in Sessions \ {s} PROVE UniformSession(t)'
    BY <2>1, UniformSame DEF UniformInv, ServerTypeOK, SenderTypeOK, Running
  <2> QED BY <2>1, <2>3, <2>4, DiskSame DEF UniformInv
<1>2. ASSUME NEW s \in Sessions, ServerStep(s) \/ ServerFault(s), UNCHANGED cPc PROVE UniformInv'
  <2>1. ~Panics(s)
    BY DEF Panics, NilStatePanic, MisreadPanics, DialogueInv, DialogueSession
  <2>2. Framed(s) /\ OthersKept(s)
    BY <1>2, <2>1, ServerFrame, ServerOthers
  <2>3. ASSUME NEW t \in Sessions \ {s} PROVE UniformSession(t)'
    <3>1. ~Active(t)' /\ sPc'[t] = sPc[t] /\ chunkIdx'[t] = chunkIdx[t]
      BY <1>2, <2>2 DEF Framed, Untouched, OthersKept, SavedInv, OneAtATime, Active, ServerBusy,
                        Running
    <3> QED BY <3>1, UniformAtRest DEF UniformInv, UniformSession, BeforeDecision
  <2>4. UniformDisk' /\ UniformSession(s)'
    BY <1>2, UniformServer DEF DialogueInv, SavedInv, UniformInv
  <2> QED BY <2>3, <2>4 DEF UniformInv
<1>3. ASSUME NEW s \in Sessions, ClientStep(s) \/ ClientEnded(s), UNCHANGED <<srvVars, diskVars>>
      PROVE  UniformInv'
  <2>1. \A t \in Sessions : Running(t)' => Running(t)
    BY <1>3, ClientFrame DEF ClientFramed, Running
  <2> QED BY <1>3, <2>1, DiskSame, UniformSame DEF UniformInv, srvVars, diskVars
<1>4. CASE RestartServer
  <2>1. chunkSize' = chunkSize
    BY <1>4 DEF RestartServer, Restart, Uniform, OneChunkSize, ServerTypeOK
  <2>2. UNCHANGED <<sPc, mode, received, chunkIdx, fd, outFile, data, stateFile, cPc>>
    BY <1>4 DEF RestartServer, Restart, diskVars, cliVars
  <2> QED BY <2>1, <2>2, DiskSame, UniformSame DEF UniformInv, Running
<1>5. CASE Crash /\ UNCHANGED cliVars
  BY <1>5, ProcessEndsUniform DEF Crash, cliVars
<1>6. CASE UNCHANGED <<srvVars, cliVars, diskVars>>
  BY <1>6, DiskSame, UniformSame DEF UniformInv, srvVars, cliVars, diskVars, Running
<1> QED
  BY <1>1, <1>2, <1>3, <1>4, <1>5, <1>6 DEF Next, ServerMoves, ClientMoves, Fault, vars, cliVars

(* The invariant behind the results that follow: with one file, one chunk  *)
(* size, no verification and no overlap, what the lists claim is in the    *)
(* output (server.go:280-306, 341-386, 488-505).                           *)
THEOREM UniformKept ==
  ASSUME Uniform
  PROVE  Spec => []UniformInv
<1>0. OneChunkSize /\ Overlap = "never"
  BY DEF Uniform
<1>1. Init => UniformInv
  BY UniformInit
<1>2. TypeOK /\ AgreeInv /\ DialogueInv /\ SavedInv /\ UniformInv /\ [Next]_vars => UniformInv'
  BY UniformNext
<1> QED
  BY <1>0, <1>1, <1>2, TypeCorrect, AgreementKept, TurnsTaken, SavedAlways, PTL DEF Spec

(* The resume state on disk never claims a chunk the output file does not  *)
(* have (server.go:374-378), through crashes, lost connections, failed     *)
(* writes and truncated state files.                                       *)
THEOREM ClaimsAlwaysBacked ==
  ASSUME Uniform
  PROVE  Spec => []ClaimsBacked
<1>1. UniformInv => ClaimsBacked
  BY DEF UniformInv, UniformDisk
<1> QED BY <1>1, UniformKept, PTL

LEMMA UniformSettles ==
  ASSUME Uniform
  PROVE  Spec => []Kept
<1>0. Overlap = "never"
  BY DEF Uniform
<1>1. TypeOK /\ AgreeInv /\ SavedInv /\ UniformInv => Kept
  BY DEF Kept, Settled, SavedInv, UniformInv, UniformSession
<1> QED BY <1>0, <1>1, TypeCorrect, AgreementKept, SavedAlways, UniformKept, PTL

(* A client that reports success has its file at the output path, also if  *)
(* parts of it were transferred by runs before it and nothing is verified  *)
(* (server.go:266-270).                                                    *)
THEOREM UniformDelivery ==
  ASSUME Uniform
  PROVE  Spec => IntactOnSuccess
BY UniformSettles, IntactFromKept, PTL DEF Spec

(* The program implements Delivery (server.go:118-274, client.go:213-236)  *)
(* in this configuration as well.                                          *)
THEOREM UniformPromise ==
  ASSUME Uniform
  PROVE  Spec => KeepsPromise
<1>1. Overlap = "never"
  BY DEF Uniform
<1> QED
  BY <1>1, UniformSettles, PromiseFromKept, PTL DEF Spec
=============================================================================
