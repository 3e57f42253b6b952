--------------------------- MODULE VerifiedProofs ---------------------------
(***************************************************************************)
(* With verification asked for on both sides and one session after the     *)
(* other, a client that reports success has delivered its file: for all    *)
(* chunk sizes of both ends, whatever the file and whatever was in the     *)
(* output directory before, through any faults.  The program then keeps    *)
(* what Delivery promises.                                                 *)
(***************************************************************************)
EXTENDS DeliveryProofs

(* -verify on the server and on every client; the operator starts a client *)
(* when the previous one is through on both ends.                          *)
Verified ==
  /\ ServerVerify = TRUE
  /\ \A s \in Sessions : ClientVerify[s] = TRUE
  /\ Overlap = "never"

(* The part of VerifiedSession that a step of the server can disturb. *)
FileKept(s) ==
  /\ sPc[s] \in WithOpenFile => outFile = fd[s]
  /\ sPc[s] \in {"cleanup", "complete"} => outFile = fd[s] /\ OutputIs(s)
  /\ sPc[s] = "completed" /\ Running(s) => OutputIs(s)

LEMMA VerifyInit == Init => VerifyInv
<1> SUFFICES ASSUME Init PROVE VerifyInv
  OBVIOUS
<1>1. ASSUME NEW s \in Sessions
      PROVE  sPc[s] = "idle" /\ cPc[s] = "idle" /\ toServer[s] = <<>>
  BY DEF Init, ServerInit, SenderInit, WireInit
<1>2. OneAtATime
  BY <1>1 DEF OneAtATime, Active, Running, ServerBusy, ServerEnds, ClientEnds
<1>3. ASSUME NEW s \in Sessions PROVE VerifiedSession(s)
  <2>1. <<>> \in Seq(HonestHash(s))
    OBVIOUS
  <2> QED BY <1>1, <2>1 DEF VerifiedSession, WithOpenFile
<1> QED BY <1>2, <1>3 DEF VerifyInv

(* Where a goroutine stands after an early return. *)
LEMMA AbortKeeps ==
  ASSUME SrvTypes, NEW s \in Sessions, Abort(s)
  PROVE  FileKept(s)'
BY AbortFrame DEF FileKept, WithOpenFile

LEMMA RetryKeeps ==
  ASSUME SrvTypes, NEW s \in Sessions, RetryChunk(s), sPc[s] = "reply", FileKept(s),
         UNCHANGED <<outFile, fd>>
  PROVE  FileKept(s)'
BY RetryFrame DEF FileKept, WithOpenFile

(* The comparison passes only if the open file is the client's. *)
LEMMA CompareKeeps ==
  ASSUME SrvTypes, NEW s \in Sessions, CompareHash(s), VerifiedSession(s)
  PROVE  FileKept(s)'
<1> DEFINE m == Head(toServer[s])
<1>1. toServer[s] # <<>> /\ m.cmd = "Hash" /\ sPc[s] = "hash"
  BY DEF CompareHash, HasCommand
<1>2. m \in HonestHash(s)
  BY <1>1, TakenWithin DEF VerifiedSession, SrvTypes, WireTypeOK
<1>3. m.sum = Source(s)
  BY <1>1, <1>2 DEF HonestHash
<1>4. outFile = fd[s] /\ outFile # NoFile
  BY <1>1, NoFileAssumption DEF VerifiedSession, WithOpenFile, SrvTypes, ServerTypeOK
<1>5. UNCHANGED <<outFile, data, fd>>
  BY DEF CompareHash, diskVars
<1>6. CASE m.sum = data[fd[s]] /\ Goto(s, "cleanup")
  <2>1. sPc'[s] = "cleanup"
    BY <1>6 DEF Goto, SrvTypes, ServerTypeOK
  <2> QED BY <1>3, <1>4, <1>5, <1>6, <2>1 DEF FileKept, OutputIs, WithOpenFile
<1>7. CASE Goto(s, "discard")
  <2>1. sPc'[s] = "discard"
    BY <1>7 DEF Goto, SrvTypes, ServerTypeOK
  <2> QED BY <2>1 DEF FileKept, WithOpenFile
<1> QED BY <1>6, <1>7 DEF CompareHash

(* A step of the goroutine of s keeps the promise made to s. *)
LEMMA ServerKeeps ==
  ASSUME Verified, SrvTypes, NEW s \in Sessions, ServerStep(s) \/ ServerFault(s),
         ~Panics(s), VerifiedSession(s), UNCHANGED cPc
  PROVE  FileKept(s)'
<1>0. FileKept(s)
  BY DEF FileKept, VerifiedSession
<1>1. CASE \/ InitLost(s) \/ SaveStateAndFail(s) \/ DiscardOutput(s) \/ OpenOutputFails(s)
           \/ DiscardFails(s) \/ LastSaveFails(s)
  <2>1. Abort(s)
    BY <1>1 DEF InitLost, SaveStateAndFail, DiscardOutput, OpenOutputFails, DiscardFails,
               LastSaveFails
  <2> QED BY <2>1, AbortKeeps
<1>2. CASE ReadInit(s)
  <2>1. CASE FileSize[s] = 0
    BY <1>2, <2>1, AbortKeeps DEF ReadInit
  <2>2. CASE FileSize[s] # 0
    BY <1>2, <2>2 DEF ReadInit, Goto, SrvTypes, ServerTypeOK, FileKept, WithOpenFile
  <2> QED BY <2>1, <2>2
<1>3. CASE InitTimeout(s)
  BY <1>3 DEF InitTimeout, Goto, SrvTypes, ServerTypeOK, FileKept, WithOpenFile
<1>4. CASE TryResumeTransfer(s)
  BY <1>4 DEF TryResumeTransfer, Goto, SrvTypes, ServerTypeOK, FileKept, WithOpenFile
<1>5. CASE ResumeDecision(s)
  BY <1>5 DEF ResumeDecision, Goto, SrvTypes, ServerTypeOK, FileKept, WithOpenFile
<1>6. CASE DropPartialFile(s) \/ DropPartialState(s)
  BY <1>6 DEF DropPartialFile, DropPartialState, Goto, SrvTypes, ServerTypeOK, FileKept,
              WithOpenFile
<1>7. CASE OpenOutput(s) \/ ReopenFails(s)
  <2>1. outFile' = fd'[s]
    BY <1>7 DEF OpenOutput, ReopenFails, CreateOutput, SrvTypes, ServerTypeOK
  <2>2. sPc'[s] \in {"loop", "alloc"}
    BY <1>7 DEF OpenOutput, ReopenFails, Goto, SrvTypes, ServerTypeOK
  <2> QED BY <2>1, <2>2 DEF FileKept, WithOpenFile
<1>8. CASE PreallocateFile(s) \/ PreallocateFails(s)
  BY <1>0, <1>8 DEF PreallocateFile, PreallocateFails, Goto, SrvTypes, ServerTypeOK, FileKept,
                    WithOpenFile, diskVars
<1>9. CASE SkipReceivedChunk(s) \/ AllChunksDone(s)
  BY <1>0, <1>9 DEF SkipReceivedChunk, AllChunksDone, AtLoop, Goto, SrvTypes, ServerTypeOK,
                    FileKept, WithOpenFile, diskVars, Verified
<1>10. CASE RequestChunk(s)
  BY <1>0, <1>10 DEF RequestChunk, AtLoop, Goto, SrvTypes, ServerTypeOK, FileKept,
                     WithOpenFile, diskVars
<1>11. CASE ReceiveChunk(s)
  BY <1>0, <1>11 DEF ReceiveChunk, ChunkArrived, Goto, SrvTypes, ServerTypeOK, FileKept,
                     WithOpenFile
<1>12. CASE ReceiveOversizedChunk(s) \/ ChunkLost(s) \/ WriteChunkFails(s)
  <2>1. RetryChunk(s) /\ sPc[s] = "reply" /\ UNCHANGED <<outFile, fd>>
    BY <1>12 DEF ReceiveOversizedChunk, ChunkLost, WriteChunkFails, ChunkArrived, diskVars
  <2> QED BY <1>0, <2>1, RetryKeeps
<1>13. CASE MisreadChunk(s)
  <2>1. sPc[s] = "reply" /\ UNCHANGED <<outFile, fd>>
    BY <1>13 DEF MisreadChunk
  <2>2. CASE RetryChunk(s)
    BY <1>0, <2>1, <2>2, RetryKeeps
  <2>3. CASE Goto(s, "save")
    BY <1>0, <2>1, <2>3 DEF Goto, SrvTypes, ServerTypeOK, FileKept, WithOpenFile
  <2> QED BY <1>13, <2>2, <2>3 DEF MisreadChunk
<1>14. CASE TruncateState(s)
  BY <1>0, <1>14 DEF TruncateState, Goto, SrvTypes, ServerTypeOK, FileKept, WithOpenFile
<1>15. CASE SaveState(s) \/ SaveStateFails(s)
  BY <1>0, <1>15 DEF SaveState, SaveStateFails, Goto, SrvTypes, ServerTypeOK, FileKept,
                     WithOpenFile, diskVars
<1>16. CASE RequestHash(s)
  BY <1>0, <1>16 DEF RequestHash, Goto, SrvTypes, ServerTypeOK, FileKept, WithOpenFile,
                     diskVars
<1>17. CASE CompareHash(s)
  BY <1>17, CompareKeeps
<1>18. CASE HashLost(s) \/ HashFails(s)
  BY <1>18 DEF HashLost, HashFails, Goto, SrvTypes, ServerTypeOK, FileKept, WithOpenFile
<1>19. CASE Cleanup(s)
  BY <1>0, <1>19 DEF Cleanup, Goto, SrvTypes, ServerTypeOK, FileKept, WithOpenFile, OutputIs
<1>20. CASE RemovalFails(s)
  BY <1>0, <1>20 DEF RemovalFails, Goto, SrvTypes, ServerTypeOK, FileKept, WithOpenFile,
                     OutputIs, diskVars
<1>21. CASE SendComplete(s)
  BY <1>0, <1>21 DEF SendComplete, Goto, SrvTypes, ServerTypeOK, FileKept, WithOpenFile,
                     OutputIs, diskVars
<1> QED
  BY <1>1, <1>2, <1>3, <1>4, <1>5, <1>6, <1>7, <1>8, <1>9, <1>10, <1>11, <1>12, <1>13, <1>14,
     <1>15, <1>16, <1>17, <1>18, <1>19, <1>20, <1>21
  DEF ServerStep, ServerFault, Panics

(* The end of the process leaves the disk alone and ends every goroutine   *)
(* that had work to do.                                                    *)
LEMMA ProcessEndsKeeps ==
  ASSUME SrvTypes, VerifyInv, NEW how, ProcessEnds(how), UNCHANGED cPc
  PROVE  VerifyInv'
<1>1. ASSUME NEW t \in Sessions
      PROVE  sPc'[t] = sPc[t] \/ sPc'[t] = "dead"
  BY DEF ProcessEnds
<1>2. ASSUME NEW t \in Sessions, Active(t)' PROVE Active(t)
  BY <1>1, <1>2 DEF Active, Running, ServerBusy, ServerEnds
<1>3. ASSUME NEW t \in Sessions PROVE VerifiedSession(t)'
  <2>1. <<>> \in Seq(HonestHash(t))
    OBVIOUS
  <2>2. toServer'[t] \in Seq(HonestHash(t))
    BY <2>1 DEF ProcessEnds, VerifyInv, VerifiedSession
  <2>3. UNCHANGED <<outFile, data, fd>>
    BY DEF ProcessEnds, diskVars
  <2>4. VerifiedSession(t)
    BY DEF VerifyInv
  <2> QED BY <1>1, <2>2, <2>3, <2>4 DEF VerifiedSession, WithOpenFile, OutputIs, Running, HonestHash
<1> QED BY <1>2, <1>3 DEF VerifyInv, OneAtATime

(* A step of one client changes nothing on the server's side but the queue *)
(* it writes into.                                                         *)
LEMMA ClientKeeps ==
  ASSUME CliTypes, VerifyInv, NEW s \in Sessions, ClientStep(s) \/ ClientEnded(s),
         UNCHANGED <<sPc, fd, outFile, data>>
  PROVE  VerifyInv'
<1>1. ClientFramed(s)
  BY ClientFrame
<1>2. ASSUME NEW t \in Sessions, Running(t)' PROVE Running(t)
  BY <1>1, <1>2 DEF ClientFramed, Running
<1>3. ASSUME NEW t \in Sessions, Active(t)' PROVE Active(t)
  BY <1>2, <1>3 DEF Active, ServerBusy
<1>4. ASSUME NEW t \in Sessions PROVE VerifiedSession(t)'
  <2>1. VerifiedSession(t)
    BY DEF VerifyInv
  <2>2. toServer'[t] \in Seq(HonestHash(t))
    BY <1>1, <2>1 DEF ClientFramed, VerifiedSession
  <2> QED BY <1>2, <2>1, <2>2 DEF VerifiedSession, OutputIs, HonestHash
<1> QED BY <1>3, <1>4 DEF VerifyInv, OneAtATime

(* A step of one goroutine: no other session is active. *)
LEMMA ServerKeepsAll ==
  ASSUME Verified, SrvTypes, VerifyInv, NEW s \in Sessions, ServerStep(s) \/ ServerFault(s),
         UNCHANGED cPc
  PROVE  VerifyInv'
<1>1. CASE Panics(s)
  BY <1>1, ProcessEndsKeeps DEF Panics, NilStatePanic, MisreadPanics
<1>2. CASE ~Panics(s)
  <2>1. Framed(s)
    BY <1>2, ServerFrame
  <2>2. ASSUME NEW t \in Sessions \ {s}
        PROVE  ~Active(t) /\ ~Active(t)' /\ VerifiedSession(t)'
    <3>1. ~Active(t)
      BY <2>1 DEF VerifyInv, OneAtATime, Active, Framed
    <3>2. Untouched(t)
      BY <2>1 DEF Framed
    <3>3. ~Active(t)'
      BY <3>1, <3>2 DEF Active, Untouched, Running, ServerBusy
    <3>4. toServer'[t] \in Seq(HonestHash(t))
      BY <3>2 DEF Untouched, VerifyInv, VerifiedSession
    <3> QED BY <3>1, <3>3, <3>4 DEF Active, ServerBusy, ServerEnds, VerifiedSession,
                                    WithOpenFile, HonestHash
  <2>3. VerifiedSession(s)'
    <3>1. FileKept(s)'
      BY <1>2, ServerKeeps DEF VerifyInv
    <3>2. toServer'[s] \in Seq(HonestHash(s))
      BY <2>1 DEF Framed, Disciplined, VerifyInv, VerifiedSession
    <3> QED BY <3>1, <3>2 DEF FileKept, VerifiedSession, HonestHash
  <2>4. OneAtATime'
    BY <2>2 DEF OneAtATime
  <2>5. \A t \in Sessions : VerifiedSession(t)'
    BY <2>2, <2>3
  <2> QED BY <2>4, <2>5 DEF VerifyInv
<1> QED BY <1>1, <1>2

LEMMA VerifyNext ==
  ASSUME Verified, TypeOK, VerifyInv, [Next]_vars
  PROVE  VerifyInv'
<1> USE DEF TypeOK, SrvTypes, CliTypes
<1>1. ASSUME NEW s \in Sessions, Dial(s) PROVE VerifyInv'
  <2>1. \A t \in Sessions \ {s} : ~Active(t) /\ ~Active(t)'
    BY <1>1 DEF Dial, MayDial, Verified, Become, Goto, Active, Running, ServerBusy,
                SenderTypeOK, ServerTypeOK
  <2>2. ASSUME NEW t \in Sessions PROVE VerifiedSession(t)'
    <3>1. VerifiedSession(t)
      BY DEF VerifyInv
    <3>2. UNCHANGED <<toServer, fd, outFile, data>>
      BY <1>1 DEF Dial, diskVars
    <3>3. CASE t = s
      BY <1>1, <3>1, <3>2, <3>3 DEF Dial, Goto, ServerTypeOK, VerifiedSession, WithOpenFile,
                                    HonestHash
    <3>4. CASE t # s
      BY <1>1, <2>1, <3>1, <3>2, <3>4 DEF Active, ServerBusy, ServerEnds, VerifiedSession,
                                          WithOpenFile, HonestHash
    <3> QED BY <3>3, <3>4
  <2> QED BY <2>1, <2>2 DEF VerifyInv, OneAtATime
<1>2. ASSUME NEW s \in Sessions, ServerStep(s) \/ ServerFault(s), UNCHANGED cPc PROVE VerifyInv'
  BY <1>2, ServerKeepsAll
<1>3. ASSUME NEW s \in Sessions, ClientStep(s) \/ ClientEnded(s), UNCHANGED <<srvVars, diskVars>>
      PROVE  VerifyInv'
  BY <1>3, ClientKeeps DEF srvVars, diskVars
<1>4. ASSUME UNCHANGED <<sPc, fd, cPc, diskVars>>,
             \A t \in Sessions : toServer'[t] \in Seq(HonestHash(t))
      PROVE  VerifyInv'
  BY <1>4 DEF VerifyInv, OneAtATime, VerifiedSession, Active, Running, ServerBusy, OutputIs,
              diskVars, HonestHash
<1>5. CASE RestartServer \/ UNCHANGED vars
  <2>1. UNCHANGED <<sPc, fd, cPc, diskVars, toServer>>
    BY <1>5 DEF RestartServer, Restart, vars, cliVars, wireVars, srvVars
  <2> QED BY <1>4, <2>1 DEF VerifyInv, VerifiedSession
<1>6. CASE Fault
  <2>1. CASE Crash /\ UNCHANGED cliVars
    BY <2>1, ProcessEndsKeeps DEF Crash, cliVars
  <2>2. ASSUME NEW s \in Sessions, ConnectionLost(s), UNCHANGED <<srvVars, cliVars, diskVars>>
        PROVE VerifyInv'
    <3>1. ASSUME NEW t \in Sessions PROVE toServer'[t] \in Seq(HonestHash(t))
      <4>1. <<>> \in Seq(HonestHash(t))
        OBVIOUS
      <4> QED BY <2>2, <4>1 DEF ConnectionLost, VerifyInv, VerifiedSession, WireTypeOK
    <3> QED BY <1>4, <2>2, <3>1 DEF srvVars, cliVars
  <2> QED BY <1>2, <1>3, <1>6, <2>1, <2>2 DEF Fault, cliVars
<1> QED
  BY <1>1, <1>2, <1>3, <1>5, <1>6 DEF Next, ServerMoves, ClientMoves, cliVars

(* The invariant behind the guarantee: whatever a goroutine that got past  *)
(* the comparison promises is kept by every step (server.go:243-270).      *)
THEOREM VerifiedKept ==
  ASSUME Verified
  PROVE  Spec => []VerifyInv
<1>1. Init => TypeOK /\ VerifyInv
  BY InitTypes, VerifyInit
<1>2. TypeOK /\ VerifyInv /\ [Next]_vars => TypeOK' /\ VerifyInv'
  BY NextTypes, VerifyNext
<1> QED
  BY <1>1, <1>2, PTL DEF Spec

-----------------------------------------------------------------------------
(* What a client that reports success relies on, in one of the             *)
(* configurations that guarantee it: the output is in place from the end   *)
(* of the goroutine to the end of the client, with nobody else at work.    *)
Settled == OneAtATime /\ \A s \in Sessions : sPc[s] = "completed" /\ Running(s) => OutputIs(s)
Kept    == TypeOK /\ AgreeInv /\ Settled

(* When a client learns of its success, the goroutine is through and its   *)
(* promise still stands.                                                   *)
LEMMA SuccessStep ==
  ASSUME Kept, AgreeInv', [Next]_vars,
         NEW s \in Sessions, cPc[s] # "ok", cPc'[s] = "ok"
  PROVE  OutputIs(s)'
<1>1. ASSUME NEW t \in Sessions, ClientStep(t) \/ ClientEnded(t), UNCHANGED <<srvVars, diskVars>>
      PROVE  OutputIs(s)'
  <2>1. ClientFramed(t)
    BY <1>1, ClientFrame DEF Kept, TypeOK, CliTypes
  <2>2. t = s
    BY <2>1 DEF ClientFramed
  <2>3. sPc[s] = "completed"
    BY <1>1 DEF AgreeInv, NoFalseSuccess, srvVars
  <2>4. Running(s)
    BY <2>1, <2>2 DEF ClientFramed
  <2> QED BY <1>1, <2>3, <2>4 DEF Kept, Settled, OutputIs, diskVars
<1>2. CASE UNCHANGED cPc
  BY <1>2
<1>3. ASSUME NEW t \in Sessions, Dial(t) PROVE OutputIs(s)'
  BY <1>3 DEF Dial, Become, Kept, TypeOK, SenderTypeOK
<1> QED
  BY <1>1, <1>2, <1>3 DEF Next, ServerMoves, ClientMoves, RestartServer, Fault, vars, cliVars

LEMMA IntactFromKept == Init /\ [][Next]_vars /\ []Kept => IntactOnSuccess
<1>1. Kept /\ Kept' /\ [Next]_vars
        => [\A s \in Sessions : cPc[s] # "ok" /\ cPc'[s] = "ok" => OutputIs(s)']_vars
  BY SuccessStep DEF Kept
<1> QED
  BY <1>1, PTL DEF IntactOnSuccess

(* With that the program implements Delivery: every step of it, seen       *)
(* through the output path and the outcomes of the clients, is a step of   *)
(* Delivery or none.                                                       *)

LEMMA PromiseInit == Init => Promise!Init
BY DEF Init, SenderInit, ServerInit, StoreInit, Promise!Init, Output, Outcome, Working, Running,
       ServerBusy, ServerEnds

(* The outcomes depend on where the clients stand, the sessions at work on *)
(* where the goroutines stand, the output on the disk.                     *)
LEMMA SeenSame ==
  /\ UNCHANGED cPc => UNCHANGED Outcome
  /\ UNCHANGED sPc => UNCHANGED Working
  /\ UNCHANGED <<outFile, data>> => UNCHANGED Output
BY DEF Outcome, Running, Working, ServerBusy, Output

(* The dial starts a run: nobody else is active. *)
LEMMA DialStarts ==
  ASSUME Overlap = "never", Kept, NEW s \in Sessions, Dial(s)
  PROVE  Promise!Start(s)
<1> USE DEF Kept, TypeOK, ServerTypeOK, SenderTypeOK
<1>1. Output' = Output
  BY SeenSame DEF Dial, diskVars
<1>2. cPc[s] = "idle" /\ cPc' = [cPc EXCEPT ![s] = "profiling"]
  BY DEF Dial, Become
<1>3. sPc[s] = "idle" /\ sPc' = [sPc EXCEPT ![s] = "accept"]
  BY <1>2 DEF Dial, Goto, AgreeInv
<1>4. \A t \in Sessions \ {s} : ~Running(t) /\ ~ServerBusy(t)
  BY DEF Dial, MayDial
<1>5. Working = {}
  BY <1>3, <1>4 DEF Working, ServerBusy
<1>6. Working' = {s}
  BY <1>3, <1>4 DEF Working, ServerBusy, ServerEnds
<1>7. Outcome[s] = "new" /\ \A t \in Sessions : Outcome[t] # "running"
  BY <1>2, <1>4 DEF Outcome, ClientEnds
<1>8. Outcome' = [Outcome EXCEPT ![s] = "running"]
  BY <1>2 DEF Outcome, Running, ClientEnds
<1> QED
  BY <1>1, <1>5, <1>6, <1>7, <1>8 DEF Promise!Start, Promise!Become

(* The end of the process. *)
LEMMA EndStops ==
  ASSUME NEW how, ProcessEnds(how), UNCHANGED cPc
  PROVE  Promise!Stop
<1>1. Working' = {}
  BY DEF ProcessEnds, Working, ServerBusy, ServerEnds
<1>2. UNCHANGED <<Output, Outcome>>
  BY SeenSame DEF ProcessEnds, diskVars
<1> QED BY <1>1, <1>2 DEF Promise!Stop

(* A step of one goroutine is work on the output, or the end of all. *)
LEMMA ServerWorks ==
  ASSUME TypeOK, TypeOK', NEW s \in Sessions, ServerStep(s) \/ ServerFault(s), UNCHANGED cPc
  PROVE  Promise!Work(s) \/ Promise!Stop
<1>1. CASE Panics(s)
  BY <1>1, EndStops DEF Panics, NilStatePanic, MisreadPanics
<1>2. CASE ~Panics(s)
  <2>1. Framed(s)
    BY <1>2, ServerFrame DEF TypeOK, SrvTypes
  <2>2. s \in Working
    BY <2>1 DEF Framed, Working
  <2>3. \A t \in Sessions \ {s} : t \in Working' <=> t \in Working
    BY <2>1 DEF Framed, Untouched, Working, ServerBusy
  <2>4. Working' \in {Working, Working \ {s}}
    <3>1. Working \subseteq Sessions /\ Working' \subseteq Sessions
      BY DEF Working
    <3> QED BY <2>2, <2>3, <3>1
  <2>5. Output' \in Content \cup {NoFile}
    BY DEF TypeOK, StoreTypeOK, Output
  <2>6. UNCHANGED Outcome
    BY SeenSame
  <2> QED BY <2>2, <2>4, <2>5, <2>6 DEF Promise!Work
<1> QED BY <1>1, <1>2

(* A step of one client ends its run, with success only if the file is     *)
(* there and the goroutine through, or is none of Delivery.                *)
LEMMA ClientReports ==
  ASSUME Kept, AgreeInv', NEW s \in Sessions, ClientStep(s) \/ ClientEnded(s),
         UNCHANGED <<srvVars, diskVars>>
  PROVE  Promise!Deliver(s) \/ Promise!Fail(s) \/ UNCHANGED <<Output, Outcome, Working>>
<1>0. UNCHANGED <<Output, Working>>
  BY SeenSame DEF srvVars, diskVars
<1>1. ClientFramed(s)
  BY ClientFrame DEF Kept, TypeOK, CliTypes
<1>2. Running(s) /\ \A t \in Sessions \ {s} : cPc'[t] = cPc[t]
  BY <1>1 DEF ClientFramed
<1>3. Outcome[s] = "running"
  BY <1>2 DEF Outcome, Running
<1>4. \A t \in Sessions \ {s} : Outcome'[t] = Outcome[t]
  BY <1>2 DEF Outcome, Running
<1>5. CASE cPc'[s] = "ok"
  <2>1. sPc[s] = "completed"
    BY <1>5 DEF AgreeInv, NoFalseSuccess, srvVars
  <2>2. s \notin Working
    BY <2>1 DEF Working, ServerBusy, ServerEnds
  <2>3. Output = Source(s)
    BY <1>2, <2>1 DEF Kept, Settled, OutputIs, Output
  <2>4. Outcome' = [Outcome EXCEPT ![s] = "ok"]
    BY <1>4, <1>5 DEF Outcome, Running, ClientEnds
  <2> QED BY <1>0, <1>3, <2>2, <2>3, <2>4 DEF Promise!Deliver, Promise!Become
<1>6. CASE cPc'[s] = "failed"
  <2>1. Outcome' = [Outcome EXCEPT ![s] = "failed"]
    BY <1>4, <1>6 DEF Outcome, Running, ClientEnds
  <2> QED BY <1>0, <1>3, <2>1 DEF Promise!Fail, Promise!Become
<1>7. CASE cPc'[s] \notin ClientEnds
  <2>1. cPc'[s] # "idle"
    BY <1>1 DEF ClientFramed
  <2>2. Outcome'[s] = "running"
    BY <1>7, <2>1 DEF Outcome, Running
  <2>3. UNCHANGED Outcome
    BY <1>3, <1>4, <2>2 DEF Outcome
  <2> QED BY <1>0, <2>3
<1> QED BY <1>5, <1>6, <1>7 DEF ClientEnds

LEMMA StepKeepsPromise ==
  ASSUME Overlap = "never", Kept, Kept', [Next]_vars
  PROVE  [Promise!Next]_(Promise!promised)
<1> USE DEF Promise!promised, Promise!Next
<1>1. ASSUME NEW s \in Sessions, Dial(s) PROVE Promise!Next
  BY <1>1, DialStarts
<1>2. ASSUME NEW s \in Sessions, ServerStep(s) \/ ServerFault(s), UNCHANGED cPc PROVE Promise!Next
  BY <1>2, ServerWorks DEF Kept
<1>3. ASSUME NEW s \in Sessions, ClientStep(s) \/ ClientEnded(s), UNCHANGED <<srvVars, diskVars>>
      PROVE  Promise!Next \/ UNCHANGED <<Output, Outcome, Working>>
  BY <1>3, ClientReports DEF Kept
<1>4. CASE UNCHANGED <<sPc, cPc, diskVars>>
  BY <1>4, SeenSame DEF diskVars
<1>5. CASE Crash /\ UNCHANGED cliVars
  BY <1>5, EndStops DEF Crash, cliVars
<1>6. CASE RestartServer
  BY <1>4, <1>6 DEF RestartServer, Restart, cliVars
<1>7. ASSUME NEW s \in Sessions, ConnectionLost(s), UNCHANGED <<srvVars, cliVars, diskVars>>
      PROVE  UNCHANGED <<Output, Outcome, Working>>
  BY <1>7, SeenSame DEF srvVars, cliVars, diskVars
<1>8. CASE Fault
  BY <1>2, <1>3, <1>5, <1>7, <1>8 DEF Fault, cliVars
<1>9. CASE UNCHANGED vars
  BY <1>4, <1>9 DEF vars, srvVars, cliVars
<1> QED
  BY <1>1, <1>2, <1>3, <1>6, <1>8, <1>9 DEF Next, ServerMoves, ClientMoves, cliVars

LEMMA PromiseFromKept ==
  ASSUME Overlap = "never"
  PROVE  Init /\ [][Next]_vars /\ []Kept => KeepsPromise
<1>1. Kept /\ Kept' /\ [Next]_vars => [Promise!Next]_(Promise!promised)
  BY StepKeepsPromise
<1> QED
  BY PromiseInit, <1>1, PTL DEF KeepsPromise, Promise!Spec

LEMMA VerifiedSettles ==
  ASSUME Verified
  PROVE  Spec => []Kept
<1>1. TypeOK /\ AgreeInv /\ VerifyInv => Kept
  BY DEF Kept, Settled, VerifyInv, VerifiedSession
<1> QED BY <1>1, TypeCorrect, AgreementKept, VerifiedKept, PTL

(* A client that reports success has its file, cell for cell, at the       *)
(* output path, if both ends verify and sessions do not overlap            *)
(* (server.go:266-270).                                                    *)
THEOREM VerifiedDelivery ==
  ASSUME Verified
  PROVE  Spec => IntactOnSuccess
BY VerifiedSettles, IntactFromKept, PTL DEF Spec

(* The program implements Delivery (server.go:118-274, client.go:213-236), *)
(* if both ends verify and sessions do not overlap: the output changes     *)
(* only at the hands of a goroutine at work, success comes with the file   *)
(* in place, and nothing touches it before the next run is started.        *)
THEOREM PromiseKept ==
  ASSUME Verified
  PROVE  Spec => KeepsPromise
<1>1. Overlap = "never"
  BY DEF Verified
<1> QED
  BY <1>1, VerifiedSettles, PromiseFromKept, PTL DEF Spec
=============================================================================
