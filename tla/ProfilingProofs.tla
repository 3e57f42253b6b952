--------------------------- MODULE ProfilingProofs ---------------------------
(***************************************************************************)
(* Theorems about Profiling, for all timeouts that satisfy                 *)
(* PatienceAssumption, any number of pings, any configuration.             *)
(***************************************************************************)
EXTENDS Profiling, TLAPS

Profiles == phase \notin {"init", "gone"}

(* What is left of the server's timeout for the first command: the client  *)
(* spends at most DialTimeout on its dial, at most ProfileTimeout on its   *)
(* pings, and one pause on top of that.                                    *)
Budget ==
  /\ Profiles => serving["main"] = "waiting" /\ srvLeft["main"] > 0
  /\ phase = "dial"  => srvLeft["main"] >= dialLeft + (Timeout - DialTimeout)
  /\ phase = "await" \/ (Profiles /\ ctxLeft > 0)
       => srvLeft["main"] >= ctxLeft + (Timeout - ProfileTimeout)
  /\ phase = "pause" => srvLeft["main"] >= pauseLeft + (Timeout - ProfileTimeout - PingPause)
  /\ phase = "await" => rtt + ctxLeft <= ProfileTimeout
  /\ initSent => phase = "init"

(* A goroutine that was left behind by a timeout is one whose reader has   *)
(* no use any more: the server's loop has ended, the client's context is   *)
(* done.                                                                   *)
ReadersApart ==
  /\ \A c \in Conns : reading[c] => serving[c] = "waiting"
  /\ \A c \in Conns : orphan[c] => serving[c] = "ended"
  /\ reading["client"] => phase = "await"
  /\ orphan["client"] => ctxLeft = 0
  /\ phase = "dial" => serving["prof"] = "none"
  /\ OneReader

(* At most one ping is under way, and it is the last one.                  *)
NothingUnderWay == pings = <<>> /\ pongs = <<>>

OnePing ==
  /\ phase = "await" => \/ NothingUnderWay
                        \/ pings = <<ping>> /\ pongs = <<>>
                        \/ pings = <<>> /\ pongs = <<ping>>
  /\ phase \in {"dial", "pause"} => NothingUnderWay
  /\ phase = "ping" /\ ctxLeft > 0 /\ link["prof"] = "open" => NothingUnderWay
  /\ answered <= ping /\ (phase = "await" => answered < ping)
  /\ PongIsTheAnswer

Configured ==
  /\ Profiles => chunk = Chunk /\ workers = Workers
  /\ NoResultNoChange

ProfilingInv == ProfilingTypeOK /\ Budget /\ ReadersApart /\ OnePing /\ Configured

-----------------------------------------------------------------------------
(* The constants, and the numbers of Tuning. *)

LEMMA ProfilingConstants ==
  /\ TickMs \in Nat /\ Timeout \in Nat /\ ProfileTimeout \in Nat /\ DialTimeout \in Nat
  /\ PingPause \in Nat /\ PingCount \in Nat
  /\ Workers \in Nat \ {0} /\ CPUs \in Nat \ {0}
  /\ Timeout > DialTimeout /\ Timeout > ProfileTimeout + PingPause
BY TimingAssumption, PatienceAssumption DEF ValidConfig

(* Whatever was measured, the chunk size stays as given or comes to lie    *)
(* between the limits, and there is at least one worker.                   *)
LEMMA AdjustedTypes ==
  ASSUME NEW c, NEW w \in Nat \ {0}, NEW cpus \in Nat \ {0}, NEW ms \in Nat
  PROVE  /\ AdjustedChunk(c, ms) \in {c} \cup MinChunk .. MaxChunk
         /\ AdjustedWorkers(w, ms, cpus) \in Nat \ {0}
<1>1. ProductChunk(ms) \in MinChunk .. MaxChunk
  <2>1. Bandwidth(ms) * ms \in Nat
    BY DEF Bandwidth
  <2>2. (Bandwidth(ms) * ms) \div 1000 \in Int
    BY <2>1
  <2>3. \A n \in Int : Larger(MinChunk, Smaller(MaxChunk, n)) \in MinChunk .. MaxChunk
    BY DEF Larger, Smaller, MinChunk, MaxChunk
  <2> QED BY <2>2, <2>3 DEF ProductChunk
<1>2. OptimalChunkSize(ms) \in MinChunk .. MaxChunk
  <2>1. \A n \in Nat : (n * 3) \div 2 \in Int /\ (n * 3) \div 2 >= n
    OBVIOUS
  <2>2. \A n \in MinChunk .. MaxChunk :
          (n * 3) \div 2 <= MaxChunk => (n * 3) \div 2 \in MinChunk .. MaxChunk
    BY <2>1 DEF MinChunk, MaxChunk
  <2> QED BY <1>1, <2>2 DEF OptimalChunkSize
<1> QED
  BY <1>2 DEF AdjustedChunk, AdjustedWorkers, Larger, Smaller

LEMMA MeasuredType == ProfilingTypeOK => MeasuredRTT \in Nat
<1> SUFFICES ASSUME ProfilingTypeOK, answered # 0 PROVE (total * TickMs) \div answered \in Nat
  BY DEF MeasuredRTT, DefaultRTT
<1>1. total * TickMs \in Nat
  BY ProfilingConstants DEF ProfilingTypeOK
<1>2. answered \in Nat /\ answered > 0
  BY ProfilingConstants DEF ProfilingTypeOK
<1>3. \A n \in Nat, d \in Nat : d > 0 => n \div d \in Nat
  OBVIOUS
<1> QED BY <1>1, <1>2, <1>3

(* A queue keeps its type, read or written. *)
LEMMA QueueTypes ==
  ASSUME NEW S, NEW q \in Seq(S), q # <<>>
  PROVE  Head(q) \in S /\ Tail(q) \in Seq(S) /\ (\A p \in Seq(S) : Append(p, Head(q)) \in Seq(S))
OBVIOUS

LEMMA OneInQueue ==
  /\ \A x : Append(<<>>, x) = <<x>>
  /\ \A x : Head(<<x>>) = x /\ Tail(<<x>>) = <<>> /\ <<x>> # <<>>
OBVIOUS

-----------------------------------------------------------------------------
(* Step by step: the types, ... *)
LEMMA TypesKept ==
  ASSUME ProfilingInv, [ProfilingNext]_profVars
  PROVE  ProfilingTypeOK'
<1> USE DEF ProfilingInv, ProfilingTypeOK, clientVars, timers, netVars, readVars, StartRead, EndRead, Conns, Readers
<1>1. CASE DialProfiling
  BY <1>1, ProfilingConstants DEF DialProfiling
<1>2. CASE DialProfilingFails
  BY <1>2 DEF DialProfilingFails
<1>3. CASE SendPing
  <2>1. ping' \in 0 .. PingCount
    BY <1>3, ProfilingConstants DEF SendPing
  <2>2. pings' \in Seq(1 .. PingCount)
    <3>1. ping # PingCount => ping + 1 \in 1 .. PingCount
      BY ProfilingConstants
    <3>2. \A n \in 1 .. PingCount : Append(pings, n) \in Seq(1 .. PingCount)
      OBVIOUS
    <3> QED BY <1>3, <3>1, <3>2 DEF SendPing
  <2>3. rtt' \in 0 .. ProfileTimeout
    BY <1>3, ProfilingConstants DEF SendPing
  <2> QED BY <1>3, <2>1, <2>2, <2>3 DEF SendPing
<1>4. CASE ReceivePong
  <2>1. answered' \in 0 .. PingCount /\ total' \in Nat /\ pauseLeft' \in 0 .. PingPause
    BY <1>4, ProfilingConstants DEF ReceivePong, OnePing
  <2>2. pongs' \in Seq(1 .. PingCount)
    BY <1>4, QueueTypes DEF ReceivePong
  <2>3. stale' \in BOOLEAN
    BY <1>4 DEF ReceivePong
  <2> QED BY <1>4, <2>1, <2>2, <2>3 DEF ReceivePong
<1>5. CASE PongLost
  BY <1>5 DEF PongLost
<1>6. CASE PingTimeout
  BY <1>6 DEF PingTimeout, Cancel
<1>7. CASE PauseOver
  BY <1>7 DEF PauseOver
<1>8. CASE StartTransfer
  <2>1. chunk' \in {Chunk} \cup MinChunk .. MaxChunk /\ workers' \in Nat \ {0}
    BY <1>8, AdjustedTypes, MeasuredType, ProfilingConstants DEF StartTransfer
  <2>2. <<>> \in Seq(1 .. PingCount)
    OBVIOUS
  <2> QED BY <1>8, <2>1, <2>2 DEF StartTransfer
<1>9. CASE AnswerPing
  <2>1. pings' \in Seq(1 .. PingCount) /\ pongs' \in Seq(1 .. PingCount)
    BY <1>9, QueueTypes DEF AnswerPing
  <2> QED BY <1>9, <2>1, ProfilingConstants DEF AnswerPing
<1>10. CASE BeginTransfer
  BY <1>10 DEF BeginTransfer
<1>11. CASE ConnectionEnds
  BY <1>11 DEF ConnectionEnds
<1>12. CASE Tick
  <2>1. dialLeft' \in 0 .. DialTimeout /\ ctxLeft' \in 0 .. ProfileTimeout
        /\ pauseLeft' \in 0 .. PingPause
    BY <1>12, ProfilingConstants DEF Tick, OneLess
  <2>2. srvLeft' \in [Conns -> 0 .. Timeout]
    BY <1>12, ProfilingConstants DEF Tick, OneLess
  <2>3. rtt' \in 0 .. ProfileTimeout
    BY <1>12, ProfilingConstants DEF Tick, Urgent, Budget
  <2> QED BY <1>12, <2>1, <2>2, <2>3 DEF Tick
<1>13. CASE ProfilingLost
  BY <1>13 DEF ProfilingLost
<1>14. CASE ClientVanishes
  <2>1. <<>> \in Seq(1 .. PingCount)
    OBVIOUS
  <2> QED BY <1>14, <2>1 DEF ClientVanishes
<1>15. ASSUME NEW c \in Conns, ReadTimeout(c) PROVE ProfilingTypeOK'
  BY <1>15 DEF ReadTimeout, ReadExpired, Cancel, EndRead
<1>16. ASSUME NEW r \in Readers, OrphanEnds(r) PROVE ProfilingTypeOK'
  <2>1. \A q \in Seq(1 .. PingCount) :
          (IF q = <<>> THEN q ELSE Tail(q)) \in Seq(1 .. PingCount)
    BY QueueTypes
  <2> QED BY <1>16, <2>1 DEF OrphanEnds
<1>17. CASE UNCHANGED profVars
  BY <1>17 DEF profVars
<1> QED
  BY <1>1, <1>2, <1>3, <1>4, <1>5, <1>6, <1>7, <1>8, <1>9, <1>10, <1>11, <1>12, <1>13, <1>14,
     <1>15, <1>16, <1>17 DEF ProfilingNext, ProfilingStep

(* ... the timers against each other, ... *)
LEMMA BudgetKept ==
  ASSUME ProfilingInv, [ProfilingNext]_profVars
  PROVE  Budget'
<1> USE DEF ProfilingInv, ProfilingTypeOK, Budget, Profiles, clientVars, timers, netVars, readVars, StartRead, EndRead, Conns, Readers
<1>1. CASE DialProfiling
  BY <1>1 DEF DialProfiling
<1>2. CASE DialProfilingFails
  BY <1>2 DEF DialProfilingFails
<1>3. CASE SendPing
  BY <1>3 DEF SendPing
<1>4. CASE ReceivePong
  BY <1>4, ProfilingConstants DEF ReceivePong
<1>5. CASE PongLost
  BY <1>5 DEF PongLost
<1>6. CASE PingTimeout
  BY <1>6 DEF PingTimeout
<1>7. CASE PauseOver
  BY <1>7 DEF PauseOver
<1>8. CASE StartTransfer
  BY <1>8 DEF StartTransfer
<1>9. CASE AnswerPing
  BY <1>9 DEF AnswerPing
<1>10. CASE BeginTransfer
  BY <1>10 DEF BeginTransfer
<1>11. CASE ConnectionEnds
  BY <1>11 DEF ConnectionEnds
<1>12. CASE Tick
  BY <1>12, ProfilingConstants DEF Tick, OneLess, Urgent, ReadExpired
<1>13. CASE ProfilingLost
  BY <1>13 DEF ProfilingLost
<1>14. CASE ClientVanishes
  BY <1>14 DEF ClientVanishes
<1>15. ASSUME NEW c \in Conns, ReadTimeout(c) PROVE Budget'
  BY <1>15 DEF ReadTimeout, ReadExpired, Cancel, EndRead
<1>16. ASSUME NEW r \in Readers, OrphanEnds(r) PROVE Budget'
  BY <1>16 DEF OrphanEnds
<1>17. CASE UNCHANGED profVars
  BY <1>17 DEF profVars
<1> QED
  BY <1>1, <1>2, <1>3, <1>4, <1>5, <1>6, <1>7, <1>8, <1>9, <1>10, <1>11, <1>12, <1>13, <1>14,
     <1>15, <1>16, <1>17 DEF ProfilingNext, ProfilingStep

(* ... who reads, ... *)
LEMMA ReadersKept ==
  ASSUME ProfilingInv, [ProfilingNext]_profVars
  PROVE  ReadersApart'
<1> USE DEF ProfilingInv, ProfilingTypeOK, Budget, Profiles, ReadersApart, OneReader, clientVars, timers, netVars, readVars, StartRead, EndRead, Conns, Readers
<1>1. CASE DialProfiling
  BY <1>1 DEF DialProfiling
<1>2. CASE DialProfilingFails
  BY <1>2 DEF DialProfilingFails
<1>3. CASE SendPing
  BY <1>3 DEF SendPing
<1>4. CASE ReceivePong
  BY <1>4 DEF ReceivePong
<1>5. CASE PongLost
  BY <1>5 DEF PongLost
<1>6. CASE PingTimeout
  BY <1>6 DEF PingTimeout, Cancel
<1>7. CASE PauseOver
  BY <1>7 DEF PauseOver
<1>8. CASE StartTransfer
  BY <1>8 DEF StartTransfer
<1>9. CASE AnswerPing
  BY <1>9 DEF AnswerPing
<1>10. CASE BeginTransfer
  BY <1>10 DEF BeginTransfer
<1>11. CASE ConnectionEnds
  BY <1>11 DEF ConnectionEnds
<1>12. CASE Tick
  BY <1>12, ProfilingConstants DEF Tick, OneLess, Urgent
<1>13. CASE ProfilingLost
  BY <1>13 DEF ProfilingLost
<1>14. CASE ClientVanishes
  BY <1>14 DEF ClientVanishes
<1>15. ASSUME NEW c \in Conns, ReadTimeout(c) PROVE ReadersApart'
  BY <1>15 DEF ReadTimeout, ReadExpired, Cancel, EndRead
<1>16. ASSUME NEW r \in Readers, OrphanEnds(r) PROVE ReadersApart'
  BY <1>16 DEF OrphanEnds
<1>17. CASE UNCHANGED profVars
  BY <1>17 DEF profVars
<1> QED
  BY <1>1, <1>2, <1>3, <1>4, <1>5, <1>6, <1>7, <1>8, <1>9, <1>10, <1>11, <1>12, <1>13, <1>14,
     <1>15, <1>16, <1>17 DEF ProfilingNext, ProfilingStep

(* ... what is under way, ... *)
LEMMA OnePingKept ==
  ASSUME ProfilingInv, [ProfilingNext]_profVars
  PROVE  OnePing'
<1> USE DEF ProfilingInv, ProfilingTypeOK, OnePing, NothingUnderWay, PongIsTheAnswer, clientVars, timers, netVars, readVars, StartRead, EndRead, Conns, Readers
<1>1. CASE DialProfiling
  BY <1>1 DEF DialProfiling
<1>2. CASE DialProfilingFails
  BY <1>2 DEF DialProfilingFails
<1>3. CASE SendPing
  <2>1. ping \in Nat /\ answered \in Nat /\ ping + 1 \in Nat /\ answered < ping + 1
        /\ answered <= ping + 1
    BY ProfilingConstants
  <2>2. CASE phase' = "adjust"
    BY <1>3, <2>2 DEF SendPing
  <2>3. CASE phase' = "await"
    <3>1. ctxLeft > 0 /\ link["prof"] = "open"
      BY <1>3, <2>3, ProfilingConstants DEF SendPing
    <3>2. pings = <<>> /\ pongs = <<>>
      BY <1>3, <3>1 DEF SendPing
    <3>3. ping' = ping + 1 /\ pings' = Append(pings, ping + 1) /\ pongs' = pongs
      BY <1>3, <2>3 DEF SendPing
    <3>4. pings' = <<ping'>> /\ pongs' = <<>>
      BY <3>2, <3>3, OneInQueue
    <3> QED BY <1>3, <2>1, <2>3, <3>4 DEF SendPing
  <2>4. CASE phase' = "ping"
    BY <1>3, <2>1, <2>4 DEF SendPing
  <2> QED BY <1>3, <2>2, <2>3, <2>4 DEF SendPing
<1>4. CASE ReceivePong
  <2>1. pings = <<>> /\ pongs = <<ping>>
    BY <1>4 DEF ReceivePong
  <2>2. Head(pongs) = ping /\ Tail(pongs) = <<>>
    BY <2>1, OneInQueue
  <2>3. ~stale'
    BY <1>4, <2>2 DEF ReceivePong
  <2>4. answered' <= ping'
    BY <1>4, ProfilingConstants DEF ReceivePong
  <2> QED BY <1>4, <2>1, <2>2, <2>3, <2>4 DEF ReceivePong
<1>5. CASE PongLost
  BY <1>5 DEF PongLost
<1>6. CASE PingTimeout
  BY <1>6 DEF PingTimeout
<1>7. CASE PauseOver
  BY <1>7 DEF PauseOver
<1>8. CASE StartTransfer
  BY <1>8 DEF StartTransfer
<1>9. CASE AnswerPing
  BY <1>9, OneInQueue DEF AnswerPing
<1>10. CASE BeginTransfer
  BY <1>10 DEF BeginTransfer
<1>11. CASE ConnectionEnds
  BY <1>11 DEF ConnectionEnds
<1>12. CASE Tick
  BY <1>12, ProfilingConstants DEF Tick, OneLess, Urgent
<1>13. CASE ProfilingLost
  BY <1>13 DEF ProfilingLost
<1>14. CASE ClientVanishes
  BY <1>14 DEF ClientVanishes
<1>15. ASSUME NEW c \in Conns, ReadTimeout(c) PROVE OnePing'
  BY <1>15 DEF ReadTimeout, ReadExpired, Cancel, EndRead
<1>16. ASSUME NEW r \in Readers, OrphanEnds(r) PROVE OnePing'
  BY <1>16, OneInQueue DEF OrphanEnds
<1>17. CASE UNCHANGED profVars
  BY <1>17 DEF profVars
<1> QED
  BY <1>1, <1>2, <1>3, <1>4, <1>5, <1>6, <1>7, <1>8, <1>9, <1>10, <1>11, <1>12, <1>13, <1>14,
     <1>15, <1>16, <1>17 DEF ProfilingNext, ProfilingStep

(* ... and the configuration. *)
LEMMA ConfiguredKept ==
  ASSUME ProfilingInv, [ProfilingNext]_profVars
  PROVE  Configured'
<1> USE DEF ProfilingInv, ProfilingTypeOK, Profiles, Configured, NoResultNoChange, clientVars, timers, netVars, readVars, StartRead, EndRead, Conns, Readers
<1>1. CASE DialProfiling
  BY <1>1 DEF DialProfiling
<1>2. CASE DialProfilingFails
  BY <1>2 DEF DialProfilingFails
<1>3. CASE SendPing
  BY <1>3 DEF SendPing
<1>4. CASE ReceivePong
  BY <1>4 DEF ReceivePong
<1>5. CASE PongLost
  BY <1>5 DEF PongLost
<1>6. CASE PingTimeout
  BY <1>6 DEF PingTimeout
<1>7. CASE PauseOver
  BY <1>7 DEF PauseOver
<1>8. CASE StartTransfer
  <2>1. answered = 0 => ~HighLatency(MeasuredRTT) /\ ~LowLatency(MeasuredRTT)
    BY DEF MeasuredRTT, DefaultRTT, HighLatency, LowLatency
  <2> QED BY <1>8, <2>1 DEF StartTransfer, AdjustedChunk, AdjustedWorkers
<1>9. CASE AnswerPing
  BY <1>9 DEF AnswerPing
<1>10. CASE BeginTransfer
  BY <1>10 DEF BeginTransfer
<1>11. CASE ConnectionEnds
  BY <1>11 DEF ConnectionEnds
<1>12. CASE Tick
  BY <1>12 DEF Tick
<1>13. CASE ProfilingLost
  BY <1>13 DEF ProfilingLost
<1>14. CASE ClientVanishes
  BY <1>14 DEF ClientVanishes
<1>15. ASSUME NEW c \in Conns, ReadTimeout(c) PROVE Configured'
  BY <1>15 DEF ReadTimeout, ReadExpired, Cancel, EndRead
<1>16. ASSUME NEW r \in Readers, OrphanEnds(r) PROVE Configured'
  BY <1>16 DEF OrphanEnds
<1>17. CASE UNCHANGED profVars
  BY <1>17 DEF profVars
<1> QED
  BY <1>1, <1>2, <1>3, <1>4, <1>5, <1>6, <1>7, <1>8, <1>9, <1>10, <1>11, <1>12, <1>13, <1>14,
     <1>15, <1>16, <1>17 DEF ProfilingNext, ProfilingStep

-----------------------------------------------------------------------------
(* The theorems. *)

LEMMA ProfilingStarts == ProfilingInit => ProfilingInv
<1> SUFFICES ASSUME ProfilingInit PROVE ProfilingInv
  OBVIOUS
<1> USE DEF ProfilingInit
<1>1. ProfilingTypeOK
  <2>1. <<>> \in Seq(1 .. PingCount)
    OBVIOUS
  <2>2. dialLeft \in 0 .. DialTimeout /\ ctxLeft \in 0 .. ProfileTimeout /\ pauseLeft \in 0 .. PingPause
        /\ ping \in 0 .. PingCount /\ answered \in 0 .. PingCount /\ rtt \in 0 .. ProfileTimeout
    BY ProfilingConstants
  <2>3. srvLeft \in [Conns -> 0 .. Timeout] /\ reading \in [Readers -> BOOLEAN]
        /\ orphan \in [Readers -> BOOLEAN]
    BY ProfilingConstants
  <2>4. link \in [Conns -> {"none", "open", "closed"}]
        /\ serving \in [Conns -> {"none", "waiting", "transfer", "ended"}]
    OBVIOUS
  <2> QED BY <2>1, <2>2, <2>3, <2>4, ProfilingConstants DEF ProfilingTypeOK
<1>2. Budget
  BY ProfilingConstants DEF Budget, Profiles, Conns
<1>3. ReadersApart
  BY DEF ReadersApart, OneReader, Conns, Readers
<1>4. OnePing
  BY DEF OnePing, NothingUnderWay, PongIsTheAnswer
<1>5. Configured
  BY DEF Configured, NoResultNoChange
<1> QED BY <1>1, <1>2, <1>3, <1>4, <1>5 DEF ProfilingInv

LEMMA ProfilingKept == ProfilingSpec => []ProfilingInv
<1>1. ProfilingInv /\ [ProfilingNext]_profVars => ProfilingInv'
  BY TypesKept, BudgetKept, ReadersKept, OnePingKept, ConfiguredKept DEF ProfilingInv
<1> QED BY ProfilingStarts, <1>1, PTL DEF ProfilingSpec

(* Type correctness: a measurement never takes longer than the context     *)
(* allows, the chunk size and the number of workers the client comes to    *)
(* use are ones it may use (network.go:198-227, client.go:139-153).        *)
THEOREM ProfilingTypeCorrect == ProfilingSpec => []ProfilingTypeOK
BY ProfilingKept, PTL DEF ProfilingInv

(* The server's first read outlasts every profiling, whatever the number   *)
(* of pings and wherever a timeout, a lost answer or a lost connection     *)
(* falls (server.go:78, network.go:131-195).                               *)
THEOREM ServerOutlasts == ProfilingSpec => []ServerWaits
<1>1. ProfilingInv => ServerWaits
  BY DEF ProfilingInv, Budget, Profiles, ServerWaits
<1> QED BY ProfilingKept, <1>1, PTL

(* A timed out read is the last one of its reader, on both ends            *)
(* (protocol.go:314-335, server.go:87, network.go:144).                    *)
THEOREM OneReaderAlways == ProfilingSpec => []OneReader
<1>1. ProfilingInv => OneReader
  BY DEF ProfilingInv, ReadersApart
<1> QED BY ProfilingKept, <1>1, PTL

(* No round-trip time is measured with the answer to an earlier ping       *)
(* (network.go:162-190).                                                   *)
THEOREM AnswersMatch == ProfilingSpec => []PongIsTheAnswer
<1>1. ProfilingInv => PongIsTheAnswer
  BY DEF ProfilingInv, OnePing
<1> QED BY ProfilingKept, <1>1, PTL

(* Without a measurement the configuration stays as it was given           *)
(* (network.go:124-129, client.go:139-153).                                *)
THEOREM DefaultsChangeNothing == ProfilingSpec => []NoResultNoChange
<1>1. ProfilingInv => NoResultNoChange
  BY DEF ProfilingInv, Configured
<1> QED BY ProfilingKept, <1>1, PTL
=============================================================================
