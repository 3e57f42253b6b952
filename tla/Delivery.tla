------------------------------ MODULE Delivery ------------------------------
(***************************************************************************)
(* What the program promises about one file name, to a user who sees only  *)
(* the output directory and how each run of the client ends: the output    *)
(* changes only while the receiving end of some session is at work, a run  *)
(* that reports success leaves exactly its file there, and nothing touches *)
(* the file again before the next run is started.                          *)
(***************************************************************************)
CONSTANTS
  Sessions,  \* runs of the client
  Contents,  \* what a file can hold
  File,      \* File[s]: the file session s sends
  Absent     \* there is no output file

VARIABLES
  output,    \* what a reader of the output path finds
  outcome,   \* outcome[s]: "new", "running", "ok" or "failed"
  working    \* the sessions whose receiving end may still act

promised == <<output, outcome, working>>

Become(s, o) == outcome' = [outcome EXCEPT ![s] = o]

Init ==
  /\ output = Absent
  /\ outcome = [s \in Sessions |-> "new"]
  /\ working = {}

(* A run is started when the one before is over on both ends. *)
Start(s) ==
  /\ outcome[s] = "new"
  /\ \A t \in Sessions : outcome[t] # "running"
  /\ working = {}
  /\ Become(s, "running")
  /\ working' = {s}
  /\ UNCHANGED output

(* The receiving end does something with the output, and may be through.   *)
Work(s) ==
  /\ s \in working
  /\ output' \in Contents \cup {Absent}
  /\ working' \in {working, working \ {s}}
  /\ UNCHANGED outcome

(* The process of the receiving end is gone. *)
Stop ==
  /\ working' = {}
  /\ UNCHANGED <<output, outcome>>

(* Success is reported with the file in place and nobody left to touch it. *)
Deliver(s) ==
  /\ outcome[s] = "running"
  /\ s \notin working
  /\ output = File[s]
  /\ Become(s, "ok")
  /\ UNCHANGED <<output, working>>

Fail(s) ==
  /\ outcome[s] = "running"
  /\ Become(s, "failed")
  /\ UNCHANGED <<output, working>>

Next ==
  \/ \E s \in Sessions : Start(s) \/ Work(s) \/ Deliver(s) \/ Fail(s)
  \/ Stop

Spec == Init /\ [][Next]_promised
=============================================================================
