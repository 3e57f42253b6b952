------------------------------ MODULE Profiling ------------------------------
(***************************************************************************)
(* What happens between the client's dial and its initialization: over a   *)
(* second connection the client measures the round-trip time with pings    *)
(* (ProfileNetwork, network.go:123-242), while the server's goroutine of   *)
(* the first connection already waits for a command, with a timeout        *)
(* (handleConnection, server.go:77-104).  Both read through the goroutines *)
(* of protocol.go:304-336, which a timeout leaves behind.                  *)
(*                                                                         *)
(* Time passes in ticks; a timer counts down, and time stands still while  *)
(* somebody has something to do.  Messages take any time.  The connection  *)
(* that will carry the file is not lost here: FileTransfer does that.      *)
(***************************************************************************)
EXTENDS Tuning, Sequences

CONSTANTS
  TickMs,          \* milliseconds per tick
  Timeout,         \* cfg.Timeout of the server, in ticks
  ProfileTimeout,  \* config.ProfileTimeout, in ticks
  DialTimeout,     \* of net.DialTimeout, in ticks
  PingPause,       \* time.Sleep between two pings, in ticks
  PingCount,       \* config.PingCount
  Chunk,           \* cfg.ChunkSize of the client as configured
  Workers,         \* cfg.Workers as configured
  CPUs             \* runtime.NumCPU()

ASSUME TimingAssumption ==
  /\ TickMs \in Nat /\ Timeout \in Nat /\ ProfileTimeout \in Nat /\ DialTimeout \in Nat
  /\ PingPause \in Nat /\ PingCount \in Nat
  /\ Chunk \in Nat /\ Workers \in Nat /\ CPUs \in Nat \ {0}
  /\ ValidConfig(Chunk, Workers, 0, Timeout)

(* The server is more patient than a profiling can last.  The defaults are *)
(* two minutes against five seconds.                                       *)
ASSUME PatienceAssumption ==
  Timeout > DialTimeout /\ Timeout > ProfileTimeout + PingPause

Conns   == {"main", "prof"}       \* the two connections
Readers == Conns \cup {"client"}  \* buffered readers: the server's two, the client's on "prof"

VARIABLES
  phase,      \* where the client stands
  ping,       \* the last ping it sent
  rtt,        \* ticks since then
  answered,   \* successfulPings
  total,      \* totalRTT
  dialLeft, ctxLeft, pauseLeft,  \* timers of the client
  link,       \* link[c]: "none", "open" or "closed"
  pings,      \* numbers of the pings on their way
  pongs,      \* the same, of the pings they answer
  initSent,   \* CmdInit is on its way
  serving,    \* serving[c]: what the server's goroutine of c does
  srvLeft,    \* srvLeft[c]: what is left of its timeout
  reading,    \* reading[r]: a read of r is waiting for its byte
  orphan,     \* orphan[r]: a goroutine whose read timed out still reads from r
  stale,      \* a pong was taken for the answer to a later ping
  chunk, workers  \* the client's configuration

clientVars == <<phase, ping, rtt, answered, total, stale, chunk, workers>>
timers     == <<dialLeft, ctxLeft, pauseLeft, srvLeft>>
netVars    == <<link, pings, pongs, initSent>>
readVars   == <<reading, orphan>>
profVars   == <<clientVars, timers, netVars, readVars, serving>>

ProfilingTypeOK ==
  /\ phase \in {"dial", "ping", "await", "pause", "adjust", "init", "gone"}
  /\ ping \in 0 .. PingCount /\ answered \in 0 .. PingCount
  /\ rtt \in 0 .. ProfileTimeout /\ total \in Nat
  /\ dialLeft \in 0 .. DialTimeout /\ ctxLeft \in 0 .. ProfileTimeout
  /\ pauseLeft \in 0 .. PingPause
  /\ link \in [Conns -> {"none", "open", "closed"}]
  /\ pings \in Seq(1 .. PingCount) /\ pongs \in Seq(1 .. PingCount)
  /\ serving \in [Conns -> {"none", "waiting", "transfer", "ended"}]
  /\ srvLeft \in [Conns -> 0 .. Timeout]
  /\ reading \in [Readers -> BOOLEAN] /\ orphan \in [Readers -> BOOLEAN]
  /\ initSent \in BOOLEAN /\ stale \in BOOLEAN
  /\ chunk \in {Chunk} \cup MinChunk .. MaxChunk
  /\ workers \in Nat \ {0}

(* The client has dialled and made the context of ProfileNetwork; the      *)
(* server has accepted and reads.                                          *)
ProfilingInit ==
  /\ phase = "dial"
  /\ ping = 0 /\ rtt = 0 /\ answered = 0 /\ total = 0
  /\ dialLeft = DialTimeout /\ ctxLeft = ProfileTimeout /\ pauseLeft = 0
  /\ link = [c \in Conns |-> IF c = "main" THEN "open" ELSE "none"]
  /\ pings = <<>> /\ pongs = <<>> /\ initSent = FALSE
  /\ serving = [c \in Conns |-> IF c = "main" THEN "waiting" ELSE "none"]
  /\ srvLeft = [c \in Conns |-> Timeout]
  /\ reading = [r \in Readers |-> r = "main"]
  /\ orphan = [r \in Readers |-> FALSE]
  /\ stale = FALSE
  /\ chunk = Chunk /\ workers = Workers

-----------------------------------------------------------------------------
(* Reading with a context (readByteWithContext). *)

StartRead(r) == reading' = [reading EXCEPT ![r] = TRUE]
EndRead(r)   == reading' = [reading EXCEPT ![r] = FALSE]

(* The context is done: the read returns, its goroutine goes on reading    *)
(* unless it had not begun.                                                *)
Cancel(r) ==
  /\ EndRead(r)
  /\ \E left \in BOOLEAN : orphan' = [orphan EXCEPT ![r] = left]

(* An orphan takes one byte and drops it, or finds the connection closed.  *)
OrphanEnds(r) ==
  LET drop(q) == IF q = <<>> THEN q ELSE Tail(q)
      c       == IF r = "client" THEN "prof" ELSE r
  IN  /\ orphan[r]
      /\ orphan' = [orphan EXCEPT ![r] = FALSE]
      /\ CASE r = "client" -> /\ pongs # <<>> \/ link[c] = "closed"
                              /\ pongs' = drop(pongs) /\ UNCHANGED <<pings, initSent>>
           [] r = "prof"   -> /\ pings # <<>> \/ link[c] = "closed"
                              /\ pings' = drop(pings) /\ UNCHANGED <<pongs, initSent>>
           [] OTHER        -> /\ initSent \/ link[c] = "closed"
                              /\ initSent' = FALSE /\ UNCHANGED <<pings, pongs>>
      /\ UNCHANGED <<clientVars, timers, link, reading, serving>>

-----------------------------------------------------------------------------
(* The client. *)

(* Mutant: the five seconds begin when the connection is there. *)
DialProfilingFirst ==
  /\ phase = "dial"
  /\ phase' = "ping"
  /\ link' = [link EXCEPT !["prof"] = "open"]
  /\ serving' = [serving EXCEPT !["prof"] = "waiting"]
  /\ srvLeft' = [srvLeft EXCEPT !["prof"] = Timeout]
  /\ ctxLeft' = ProfileTimeout
  /\ StartRead("prof")
  /\ UNCHANGED <<ping, rtt, answered, total, stale, chunk, workers, dialLeft, pauseLeft,
                 pings, pongs, initSent, orphan>>

DialProfiling ==
  /\ phase = "dial"
  /\ phase' = "ping"
  /\ link' = [link EXCEPT !["prof"] = "open"]
  /\ serving' = [serving EXCEPT !["prof"] = "waiting"]
  /\ srvLeft' = [srvLeft EXCEPT !["prof"] = Timeout]
  /\ StartRead("prof")
  /\ UNCHANGED <<ping, rtt, answered, total, stale, chunk, workers, dialLeft, ctxLeft,
                 pauseLeft, pings, pongs, initSent, orphan>>

(* Refused, or not answered in time: the defaults are used. *)
DialProfilingFails ==
  /\ phase = "dial"
  /\ phase' = "adjust"
  /\ UNCHANGED <<ping, rtt, answered, total, stale, chunk, workers, timers, netVars,
                 readVars, serving>>

(* The head of the loop: it ends after PingCount rounds or when the        *)
(* context is done.  On a lost connection the flush or the read fails, and *)
(* the next round begins at once.                                          *)
SendPing ==
  /\ phase = "ping"
  /\ IF ping = PingCount \/ ctxLeft = 0
       THEN phase' = "adjust" /\ UNCHANGED <<ping, rtt, pings, reading>>
       ELSE /\ ping' = ping + 1
            /\ IF link["prof"] = "open"
                 THEN /\ pings' = Append(pings, ping + 1)
                      /\ phase' = "await" /\ rtt' = 0
                      /\ StartRead("client")
                 ELSE UNCHANGED <<phase, rtt, pings, reading>>
  /\ UNCHANGED <<answered, total, stale, chunk, workers, timers, link, pongs, initSent,
                 orphan, serving>>

ReceivePong ==
  /\ phase = "await" /\ pongs # <<>>
  /\ phase' = "pause" /\ pauseLeft' = PingPause
  /\ answered' = answered + 1 /\ total' = total + rtt
  /\ stale' = (stale \/ Head(pongs) # ping)
  /\ pongs' = Tail(pongs)
  /\ EndRead("client")
  /\ UNCHANGED <<ping, rtt, chunk, workers, dialLeft, ctxLeft, srvLeft, link, pings,
                 initSent, orphan, serving>>

PongLost ==
  /\ phase = "await" /\ pongs = <<>> /\ link["prof"] = "closed"
  /\ phase' = "ping"
  /\ EndRead("client")
  /\ UNCHANGED <<ping, rtt, answered, total, stale, chunk, workers, timers, netVars, orphan,
                 serving>>

(* Mutant: each ping has a deadline of its own, on the connection. *)
PingDeadlineEach ==
  /\ phase = "await" /\ (rtt > 0 \/ ctxLeft = 0)
  /\ phase' = "ping"
  /\ EndRead("client")
  /\ UNCHANGED <<ping, rtt, answered, total, stale, chunk, workers, timers, netVars, orphan,
                 serving>>

PingTimeout ==
  /\ phase = "await" /\ ctxLeft = 0
  /\ phase' = "ping"
  /\ Cancel("client")
  /\ UNCHANGED <<ping, rtt, answered, total, stale, chunk, workers, timers, netVars, serving>>

PauseOver ==
  /\ phase = "pause" /\ pauseLeft = 0
  /\ phase' = "ping"
  /\ UNCHANGED <<ping, rtt, answered, total, stale, chunk, workers, timers, netVars,
                 readVars, serving>>

MeasuredRTT == IF answered = 0 THEN DefaultRTT ELSE (total * TickMs) \div answered

(* The second connection is closed, the configuration adjusted, and the    *)
(* initialization sent.                                                    *)
StartTransfer ==
  /\ phase = "adjust"
  /\ phase' = "init"
  /\ chunk' = AdjustedChunk(Chunk, MeasuredRTT)
  /\ workers' = AdjustedWorkers(Workers, MeasuredRTT, CPUs)
  /\ link' = [link EXCEPT !["prof"] = IF @ = "none" THEN "none" ELSE "closed"]
  /\ pongs' = <<>>
  /\ initSent' = TRUE
  /\ UNCHANGED <<ping, rtt, answered, total, stale, timers, pings, readVars, serving>>

-----------------------------------------------------------------------------
(* The server. *)

(* A command was read; handlePing answers it and the loop reads again,     *)
(* with the whole timeout before it.                                       *)
AnswerPing ==
  /\ serving["prof"] = "waiting" /\ pings # <<>>
  /\ pings' = Tail(pings)
  /\ pongs' = IF link["prof"] = "open" THEN Append(pongs, Head(pings)) ELSE pongs
  /\ srvLeft' = [srvLeft EXCEPT !["prof"] = Timeout]
  /\ UNCHANGED <<clientVars, dialLeft, ctxLeft, pauseLeft, link, initSent, readVars, serving>>

BeginTransfer ==
  /\ serving["main"] = "waiting" /\ initSent
  /\ initSent' = FALSE
  /\ serving' = [serving EXCEPT !["main"] = "transfer"]
  /\ EndRead("main")
  /\ UNCHANGED <<clientVars, timers, link, pings, pongs, orphan>>

(* Mutant: reading as the rest of the server does, without a deadline. *)
NeverExpired(c) == FALSE

ReadExpired(c) == serving[c] = "waiting" /\ srvLeft[c] = 0

(* Mutant: the loop goes on after a timeout. *)
ReadTimeoutGoesOn(c) ==
  /\ ReadExpired(c)
  /\ \E left \in BOOLEAN : orphan' = [orphan EXCEPT ![c] = left]
  /\ srvLeft' = [srvLeft EXCEPT ![c] = Timeout]
  /\ UNCHANGED <<clientVars, dialLeft, ctxLeft, pauseLeft, netVars, reading, serving>>

(* The timeout ends the goroutine, and its deferred Close the connection.  *)
ReadTimeout(c) ==
  /\ ReadExpired(c)
  /\ Cancel(c)
  /\ serving' = [serving EXCEPT ![c] = "ended"]
  /\ link' = [link EXCEPT ![c] = "closed"]
  /\ UNCHANGED <<clientVars, timers, pings, pongs, initSent>>

ConnectionEnds ==
  /\ serving["prof"] = "waiting" /\ pings = <<>> /\ link["prof"] = "closed"
  /\ serving' = [serving EXCEPT !["prof"] = "ended"]
  /\ EndRead("prof")
  /\ UNCHANGED <<clientVars, timers, netVars, orphan>>

-----------------------------------------------------------------------------
(* Time and faults. *)

Urgent ==
  \/ phase \in {"ping", "adjust"}
  \/ phase = "dial" /\ dialLeft = 0
  \/ phase = "await" /\ ctxLeft = 0
  \/ phase = "pause" /\ pauseLeft = 0
  \/ \E c \in Conns : ReadExpired(c)

OneLess(n) == IF n = 0 THEN 0 ELSE n - 1

Tick ==
  /\ ~Urgent
  /\ dialLeft' = OneLess(dialLeft) /\ ctxLeft' = OneLess(ctxLeft)
  /\ pauseLeft' = OneLess(pauseLeft)
  /\ srvLeft' = [c \in Conns |-> IF serving[c] = "waiting" THEN OneLess(srvLeft[c])
                                                            ELSE srvLeft[c]]
  /\ rtt' = IF phase = "await" THEN rtt + 1 ELSE rtt
  /\ UNCHANGED <<phase, ping, answered, total, stale, chunk, workers, netVars, readVars,
                 serving>>

(* The second connection breaks. *)
ProfilingLost ==
  /\ link["prof"] = "open"
  /\ link' = [link EXCEPT !["prof"] = "closed"]
  /\ pings' = <<>> /\ pongs' = <<>>
  /\ UNCHANGED <<clientVars, timers, initSent, readVars, serving>>

(* The client's machine is gone without a word to the server. *)
ClientVanishes ==
  /\ phase # "gone"
  /\ phase' = "gone"
  /\ pings' = <<>> /\ pongs' = <<>> /\ initSent' = FALSE
  /\ reading' = [reading EXCEPT !["client"] = FALSE]
  /\ orphan' = [orphan EXCEPT !["client"] = FALSE]
  /\ UNCHANGED <<ping, rtt, answered, total, stale, chunk, workers, timers, link, serving>>

ProfilingStep ==
  \/ DialProfiling \/ DialProfilingFails \/ SendPing \/ ReceivePong \/ PongLost
  \/ PingTimeout \/ PauseOver \/ StartTransfer
  \/ AnswerPing \/ BeginTransfer \/ ConnectionEnds
  \/ \E c \in Conns : ReadTimeout(c)
  \/ \E r \in Readers : OrphanEnds(r)

ProfilingNext == ProfilingStep \/ Tick \/ ProfilingLost \/ ClientVanishes

ProfilingSpec == ProfilingInit /\ [][ProfilingNext]_profVars

(* Time passes, and what is due gets done. *)
FairProfiling ==
  /\ ProfilingSpec
  /\ WF_profVars(Tick)
  /\ WF_profVars(Urgent /\ ProfilingStep)
  /\ WF_profVars(ConnectionEnds)
  /\ \A r \in Readers : WF_profVars(OrphanEnds(r))

-----------------------------------------------------------------------------
(* Properties. *)

(* The server does not give up on a client that is still profiling: the    *)
(* dial, the pings and the pauses of network.go:131-195 together stay      *)
(* below the timeout the server's first read has (server.go:78).           *)
ServerWaits == serving["main"] = "ended" => phase \in {"init", "gone"}

(* No read is started on a reader from which a goroutine of an earlier,    *)
(* timed out read still takes bytes (protocol.go:314-335): the byte would  *)
(* go to either of the two.                                                *)
OneReader == \A r \in Readers : ~(reading[r] /\ orphan[r])

(* A round-trip time is never measured with the answer to another ping     *)
(* (network.go:162-190).                                                   *)
PongIsTheAnswer == ~stale

(* A profiling without a result leaves the configuration as it was given   *)
(* (network.go:124-129, client.go:139-153).                                *)
NoResultNoChange == answered = 0 => chunk = Chunk /\ workers = Workers

(* The client gets to its transfer, both goroutines of the server get a    *)
(* command or end, and no goroutine of a timed out read stays for ever     *)
(* (server.go:56, 78-90; network.go:131, 144).                             *)
EveryWaitEnds ==
  /\ <>(phase \in {"init", "gone"})
  /\ \A c \in Conns : <>[](serving[c] # "waiting")
  /\ \A r \in Readers : <>[](~orphan[r])
=============================================================================
