\* Pings that take any time or are lost, a server whose timeout is just above
\* what a profiling can last, a client that may vanish.
\* A resting system lets time pass: no deadlock is possible.
SPECIFICATION FairProfiling
CONSTANTS
  TickMs = 100
  Timeout = 9
  ProfileTimeout = 7
  DialTimeout = 7
  PingPause = 1
  PingCount = 3
  Chunk = 2048
  Workers = 1
  CPUs = 3
INVARIANTS ProfilingTypeOK ServerWaits OneReader PongIsTheAnswer NoResultNoChange
PROPERTIES EveryWaitEnds
