------------------------------- MODULE Tuning -------------------------------
(***************************************************************************)
(* The numbers of a run that are computed: the bounds config.go accepts,   *)
(* and what the client makes of the round-trip time it measured.  Sizes    *)
(* are in KiB and times in milliseconds; the fractions the code rounds     *)
(* away in bytes are below that.                                           *)
(***************************************************************************)
EXTENDS Integers

MinChunk     == 512
MaxChunk     == 8 * 1024
DefaultRTT   == 100   \* NetworkProfile.RTT when no ping was answered

Smaller(a, b) == IF a < b THEN a ELSE b
Larger(a, b)  == IF a > b THEN a ELSE b

(* Config.Validate, of the fields a model depends on. *)
ValidConfig(chunk, workers, retries, timeout) ==
  chunk > 0 /\ workers > 0 /\ retries >= 0 /\ timeout > 0

(* ProfileNetwork's heuristic: KiB per second for a round-trip time. *)
Bandwidth(rtt) ==
  1024 * (IF rtt < 10 THEN 50 ELSE IF rtt < 50 THEN 20 ELSE IF rtt < 100 THEN 10 ELSE 5)

(* The bandwidth-delay product, between the limits, ... *)
ProductChunk(rtt) == Larger(MinChunk, Smaller(MaxChunk, (Bandwidth(rtt) * rtt) \div 1000))

(* ... and half as much again for a slow answer, unless that is too much.  *)
OptimalChunkSize(rtt) ==
  LET more == (ProductChunk(rtt) * 3) \div 2
  IN  IF rtt > 50 /\ more <= MaxChunk THEN more ELSE ProductChunk(rtt)

(* Mutant: the default round-trip time counts as a high one. *)
HighLatencyFrom(rtt) == rtt >= 100

HighLatency(rtt) == rtt > 100
LowLatency(rtt)  == rtt < 10

(* adjustConfigForNetwork, cpus being runtime.NumCPU(). *)
AdjustedChunk(chunk, rtt) == IF HighLatency(rtt) THEN OptimalChunkSize(rtt) ELSE chunk

(* Mutant: half of one worker. *)
HalfTheWorkers(workers, rtt, cpus) ==
  IF HighLatency(rtt)     THEN workers \div 2
  ELSE IF LowLatency(rtt) THEN Smaller(cpus, workers * 2)
  ELSE workers

(* Fewer workers, but one, for a slow network, more, as far as there are   *)
(* processors, for a fast one.                                             *)
AdjustedWorkers(workers, rtt, cpus) ==
  IF HighLatency(rtt)     THEN Larger(1, workers \div 2)
  ELSE IF LowLatency(rtt) THEN Smaller(cpus, workers * 2)
  ELSE workers
=============================================================================
