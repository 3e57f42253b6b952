-------------------------------- MODULE Wire --------------------------------
(***************************************************************************)
(* The TCP connection of each session and the commands of protocol.go.     *)
(*                                                                         *)
(* A queue holds what one side flushed and the other has not read, in      *)
(* order.  A message is a command byte with the line(s) that follow it;    *)
(* "HashRequest" is the one command byte that is sent with nothing after   *)
(* it, and "Verdict" the same byte followed by the line HASH_VERIFIED.     *)
(* The resume offset and the chunk list of a Resume message only feed the  *)
(* client's statistics and are left out, as are the texts of errors.       *)
(***************************************************************************)
EXTENDS FileData, Sequences

VARIABLES
  conn,       \* conn[s]: "none" before the dial, then "open", then "closed"
  toServer,   \* toServer[s]: queue of commands the client flushed
  toClient    \* toClient[s]: queue of commands the server flushed

wireVars == <<conn, toServer, toClient>>

InitMsg          == [cmd |-> "Init"]
AckMsg(b)        == [cmd |-> "Ack", accept |-> b]
DataMsg(off, n)  == [cmd |-> "Data", off |-> off, n |-> n]
HashMsg(c)       == [cmd |-> "Hash", sum |-> c]
ResumeMsg(b, t)  == [cmd |-> "Resume", can |-> b, total |-> t]
RequestMsg(off)  == [cmd |-> "Request", off |-> off]
Plain(c)         == [cmd |-> c]

ClientMessages ==
  [cmd : {"Init"}] \cup [cmd : {"Ack"}, accept : BOOLEAN]
    \cup [cmd : {"Data"}, off : Int, n : Int] \cup [cmd : {"Hash"}, sum : Content]

ServerMessages ==
  [cmd : {"Resume"}, can : BOOLEAN, total : Int] \cup [cmd : {"Request"}, off : Int]
    \cup [cmd : {"HashAlgo", "HashRequest", "Verdict", "Complete", "Error"}]

WireTypeOK ==
  /\ conn \in [Sessions -> {"none", "open", "closed"}]
  /\ toServer \in [Sessions -> Seq(ClientMessages)]
  /\ toClient \in [Sessions -> Seq(ServerMessages)]

WireInit ==
  /\ conn = [s \in Sessions |-> "none"]
  /\ toServer = [s \in Sessions |-> <<>>]
  /\ toClient = [s \in Sessions |-> <<>>]

(* A queue after one more message was flushed into it: on a closed         *)
(* connection the bytes go nowhere.  The writer may see an error then;     *)
(* where it is looked at, it leads where the next read's error leads,      *)
(* except after the verdict, which no read follows (CompareHash).          *)
Sent(s, q, m) == IF conn[s] = "open" THEN [q EXCEPT ![s] = Append(@, m)] ELSE q

HasCommand(s, q, c) == q[s] # <<>> /\ Head(q[s]).cmd = c
Taken(s, q)         == [q EXCEPT ![s] = Tail(@)]

(* A read fails once the peer has closed and everything it sent was read.  *)
AtEof(s, q) == q[s] = <<>> /\ conn[s] = "closed"

(* Mutant: the deferred Close is missing. *)
ServerKeepsOpen(s, q) ==
  /\ toClient' = q
  /\ toServer' = [toServer EXCEPT ![s] = <<>>]
  /\ UNCHANGED conn

(* The server's deferred conn.Close after a last message; the client's     *)
(* unread bytes are gone.                                                  *)
ServerCloses(s, q) ==
  /\ toClient' = q
  /\ conn' = [conn EXCEPT ![s] = "closed"]
  /\ toServer' = [toServer EXCEPT ![s] = <<>>]

(* The client's deferred conn.Close, or the end of its process. *)
ClientCloses(s) ==
  /\ toClient' = [toClient EXCEPT ![s] = <<>>]
  /\ conn' = [conn EXCEPT ![s] = "closed"]
  /\ UNCHANGED toServer

(* The network drops the connection with whatever is in flight.  A prefix  *)
(* that still arrives is the behaviour in which it is read first.          *)
ConnectionLost(s) ==
  /\ conn[s] = "open" \/ toServer[s] # <<>> \/ toClient[s] # <<>>
  /\ conn' = [conn EXCEPT ![s] = "closed"]
  /\ toServer' = [toServer EXCEPT ![s] = <<>>]
  /\ toClient' = [toClient EXCEPT ![s] = <<>>]
=============================================================================
