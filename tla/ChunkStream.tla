----------------------------- MODULE ChunkStream -----------------------------
(***************************************************************************)
(* The exchange behind the messages Request and Data of Wire: a chunk      *)
(* crosses the connection as a command, its length, a flag, perhaps the    *)
(* compressed length, and its bytes in pieces (sendChunk and what it       *)
(* calls, client.go:404-588), and is put together again by receiveChunk    *)
(* (server.go:386-524).  Both ends retry, and neither starts afresh: what  *)
(* is in the stream stays there.                                           *)
(*                                                                         *)
(* Bytes come in units of the smallest write size.  A source that was      *)
(* truncated before the transfer reached it yields less than was announced.*)
(***************************************************************************)
EXTENDS Integers, Sequences

CONSTANTS
  LastChunk,   \* chunks 0 .. LastChunk are asked for, in this order
  ChunkLen,    \* units in a chunk of the server
  SendRetries, \* maxRetries of sendChunk
  Retries,     \* cfg.Retries of the server
  StartWrite,  \* config.LargeWriteSize, in units of config.SmallWriteSize
  MaxWrite     \* config.MaxWriteSize, in the same units

Chunks == 0 .. LastChunk
MinWrite == 1

ASSUME StreamAssumption ==
  /\ LastChunk \in Nat /\ ChunkLen \in Nat \ {0}
  /\ SendRetries \in Nat /\ Retries \in Nat \ {0}
  /\ StartWrite \in Nat /\ MaxWrite \in Nat
  /\ MinWrite <= StartWrite /\ StartWrite <= MaxWrite

VARIABLES
  fileLen,   \* units in the source, as ReadAt finds it
  compress,  \* the client compresses: asked to, and the name says it may
  link,      \* "open"; "broken": writes fail; "closed" by either end
  requests,  \* chunks asked for, on their way to the client
  wire,      \* tokens on their way to the server
  cAt,       \* where the client stands in sendChunk
  cur,       \* the chunk it sends
  try,       \* its retry counter
  expired,   \* ctx.Err() # nil
  stuck,     \* the bufio.Writer has kept an error
  left,      \* units of the payload still to be written
  writeSize, \* maxWriteSize of sendDataInPieces
  sAt,       \* where the server stands in receiveChunk
  chunk,     \* chunkIdx
  attempt,   \* its retry counter
  want,      \* actualChunkSize
  need,      \* units to read: want, or compressedSize
  squeezed,  \* compressFlag = 1
  body,      \* what was read of them
  stored     \* stored[k]: units of chunk k in the file, Missing if it is not marked

sendVars == <<fileLen, compress, cAt, cur, try, expired, stuck, left, writeSize>>
recvVars == <<sAt, chunk, attempt, want, need, squeezed, body, stored>>
pipeVars == <<link, requests, wire>>
streamVars == <<sendVars, recvVars, pipeVars>>

(* What the reader finds in the stream, in this order. *)
Token(kind, n) == [kind |-> kind, n |-> n]
DataCmd        == Token("data", 0)
Unit(k)        == Token("unit", k)   \* a unit of chunk k

Tokens == [kind : {"data", "size", "flag", "csize", "unit"}, n : Nat]

Units(k, n) == [i \in 1 .. n |-> Unit(k)]

Missing == -1
Garbage == -2  \* something that is not chunk k was written for it

(* The shorter of two lengths, the longer. *)
Lesser(a, b)  == IF a < b THEN a ELSE b
Greater(a, b) == IF a > b THEN a ELSE b

(* What file.ReadAt finds for chunk k. *)
Available(k) == Greater(0, Lesser(ChunkLen, fileLen - k * ChunkLen))

StreamTypeOK ==
  /\ fileLen \in 0 .. ChunkLen * (LastChunk + 1) /\ compress \in BOOLEAN
  /\ link \in {"open", "broken", "closed"}
  /\ requests \in Seq(Chunks) /\ wire \in Seq(Tokens)
  /\ cAt \in {"idle", "try", "flag", "pieces", "ended"}
  /\ cur \in Chunks /\ try \in 0 .. SendRetries
  /\ expired \in BOOLEAN /\ stuck \in BOOLEAN
  /\ left \in 0 .. ChunkLen + 1 /\ writeSize \in MinWrite .. MaxWrite
  /\ sAt \in {"ask", "cmd", "size", "flag", "csize", "body", "write", "done", "failed"}
  /\ chunk \in Chunks /\ attempt \in 0 .. Retries - 1
  /\ want \in Nat /\ need \in Nat /\ squeezed \in BOOLEAN
  /\ body \in Seq(Tokens)
  /\ stored \in [Chunks -> Garbage .. ChunkLen]

StreamInit ==
  /\ fileLen \in 0 .. ChunkLen * (LastChunk + 1) /\ compress \in BOOLEAN
  /\ link = "open" /\ requests = <<>> /\ wire = <<>>
  /\ cAt = "idle" /\ cur = 0 /\ try = 0 /\ expired = FALSE /\ stuck = FALSE
  /\ left = 0 /\ writeSize = StartWrite
  /\ sAt = "ask" /\ chunk = 0 /\ attempt = 0
  /\ want = 0 /\ need = 0 /\ squeezed = FALSE /\ body = <<>>
  /\ stored = [k \in Chunks |-> Missing]

-----------------------------------------------------------------------------
(* The client: sendChunk. *)

TakeRequest ==
  /\ cAt = "idle" /\ requests # <<>>
  /\ cAt' = "try"
  /\ cur' = Head(requests) /\ requests' = Tail(requests)
  /\ try' = 0 /\ expired' = FALSE
  /\ UNCHANGED <<fileLen, compress, stuck, left, writeSize, link, wire, recvVars>>

(* The context's timeout, 30 seconds or 10 per megabyte. *)
SendTimeout ==
  /\ cAt \in {"try", "flag", "pieces"} /\ ~expired
  /\ expired' = TRUE
  /\ UNCHANGED <<fileLen, compress, cAt, cur, try, stuck, left, writeSize, recvVars, pipeVars>>

(* Run returns, and the deferred Close ends the connection. *)
Leave ==
  /\ cAt' = "ended"
  /\ link' = "closed" /\ requests' = <<>>

(* Mutant: only the number of retries ends the loop. *)
NoMoreRetries == try = SendRetries

NoMoreTries == expired \/ try = SendRetries

(* Mutant: the error is logged and the next request awaited. *)
GiveUpAndStay ==
  /\ cAt = "try" /\ NoMoreTries
  /\ cAt' = "idle"
  /\ UNCHANGED <<fileLen, compress, cur, try, expired, stuck, left, writeSize, recvVars, pipeVars>>

GiveUp ==
  /\ cAt = "try" /\ NoMoreTries
  /\ Leave
  /\ UNCHANGED <<fileLen, compress, cur, try, expired, stuck, left, writeSize, wire, recvVars>>

(* A writer that failed once fails for good. *)
TryFails ==
  /\ cAt = "try" /\ ~NoMoreTries /\ stuck
  /\ try' = try + 1
  /\ UNCHANGED <<fileLen, compress, cAt, cur, expired, stuck, left, writeSize, recvVars, pipeVars>>

(* Some tokens reach the stream.  A write that fails leaves a part of them *)
(* there, its error in the writer, and the attempt is over.                *)
Flush(tokens, next) ==
  \/ /\ link # "broken"
     /\ wire' = IF link = "open" THEN wire \o tokens ELSE wire
     /\ cAt' = next
     /\ UNCHANGED <<link, stuck, try>>
  \/ /\ \E n \in 0 .. Len(tokens) :
          wire' = IF link = "open" THEN wire \o SubSeq(tokens, 1, n) ELSE wire
     /\ link' = IF link = "open" THEN "broken" ELSE link
     /\ stuck' = TRUE
     /\ cAt' = "try" /\ try' = try + 1

SendHeader ==
  /\ cAt = "try" /\ ~NoMoreTries /\ ~stuck
  /\ Flush(<<DataCmd, Token("size", Available(cur))>>, "flag")
  /\ UNCHANGED <<fileLen, compress, cur, expired, left, writeSize, requests, recvVars>>

(* The flag says whether the compressed length follows; what gzip makes of *)
(* a chunk can be longer than the chunk.                                   *)
SendFlag ==
  /\ cAt = "flag"
  /\ \/ /\ ~compress
        /\ left' = Available(cur)
        /\ Flush(<<Token("flag", 0)>>, "pieces")
     \/ /\ compress
        /\ \E c \in 1 .. Available(cur) + 1 :
             /\ left' = c
             /\ Flush(<<Token("flag", 1), Token("csize", c)>>, "pieces")
  /\ writeSize' = StartWrite
  /\ UNCHANGED <<fileLen, compress, cur, expired, requests, recvVars>>

(* Mutant: halved without a lower bound. *)
HalvedFreely(speed) ==
  CASE speed = "slow" -> writeSize \div 2
    [] speed = "fast" -> Lesser(2 * writeSize, MaxWrite)
    [] OTHER          -> writeSize

(* How long a piece took decides the size of the next one. *)
NextWriteSize(speed) ==
  CASE speed = "slow" -> Greater(MinWrite, writeSize \div 2)
    [] speed = "fast" -> Lesser(2 * writeSize, MaxWrite)
    [] OTHER          -> writeSize

SendPiece ==
  LET n == Lesser(writeSize, left)
  IN  /\ cAt = "pieces" /\ left > 0 /\ ~expired
      /\ left' = left - n
      /\ \E speed \in {"slow", "normal", "fast"} : writeSize' = NextWriteSize(speed)
      /\ Flush(Units(cur, n), "pieces")
      /\ UNCHANGED <<fileLen, compress, cur, expired, requests, recvVars>>

(* The context is looked at before every piece, and after the last one not *)
(* any more: the chunk is sent.                                            *)
StopSending ==
  /\ cAt = "pieces" /\ left > 0 /\ expired
  /\ cAt' = "try" /\ try' = try + 1
  /\ UNCHANGED <<fileLen, compress, cur, expired, stuck, left, writeSize, recvVars, pipeVars>>

ChunkSent ==
  /\ cAt = "pieces" /\ left = 0
  /\ cAt' = "idle"
  /\ UNCHANGED <<fileLen, compress, cur, try, expired, stuck, left, writeSize, recvVars, pipeVars>>

(* The next read of a command fails, or brings CmdComplete or CmdError. *)
ServerGone ==
  /\ cAt = "idle" /\ requests = <<>> /\ link # "open"
  /\ Leave
  /\ UNCHANGED <<fileLen, compress, cur, try, expired, stuck, left, writeSize, wire, recvVars>>

-----------------------------------------------------------------------------
(* The server: receiveChunkWithRetries and receiveChunk. *)

AskChunk ==
  /\ sAt = "ask"
  /\ sAt' = "cmd"
  /\ requests' = IF link = "open" THEN Append(requests, chunk) ELSE requests
  /\ UNCHANGED <<chunk, attempt, want, need, squeezed, body, stored, link, wire, sendVars>>

(* An attempt is over: another one, or the transfer fails and the          *)
(* connection is closed.                                                   *)
FailAttempt ==
  IF attempt + 1 < Retries
    THEN attempt' = attempt + 1 /\ sAt' = "ask" /\ UNCHANGED link
    ELSE sAt' = "failed" /\ link' = "closed" /\ UNCHANGED attempt

(* The next token, if it is of the kind that is read, else the attempt is  *)
(* over.                                                                   *)
HasNext(kind) == wire # <<>> /\ Head(wire).kind = kind
TokenRead     == wire' = Tail(wire)

Expected == [cmd |-> "data", size |-> "size", csize |-> "csize"]

ReadDataCmd ==
  /\ sAt = "cmd" /\ HasNext("data")
  /\ TokenRead
  /\ sAt' = "size"
  /\ UNCHANGED <<chunk, attempt, want, need, squeezed, body, stored, link, requests, sendVars>>

ReadSize ==
  /\ sAt = "size" /\ HasNext("size")
  /\ TokenRead
  /\ IF 0 < Head(wire).n /\ Head(wire).n <= ChunkLen
       THEN sAt' = "flag" /\ want' = Head(wire).n /\ UNCHANGED <<attempt, link>>
       ELSE FailAttempt /\ UNCHANGED want
  /\ UNCHANGED <<chunk, need, squeezed, body, stored, requests, sendVars>>

ReadFlag ==
  /\ sAt = "flag" /\ wire # <<>>
  /\ TokenRead
  /\ squeezed' = (Head(wire) = Token("flag", 1))
  /\ sAt' = IF squeezed' THEN "csize" ELSE "body"
  /\ need' = want
  /\ body' = <<>>
  /\ UNCHANGED <<chunk, attempt, want, stored, link, requests, sendVars>>

ReadCompressedSize ==
  /\ sAt = "csize" /\ HasNext("csize")
  /\ TokenRead
  /\ sAt' = "body" /\ need' = Head(wire).n
  /\ UNCHANGED <<chunk, attempt, want, squeezed, body, stored, link, requests, sendVars>>

(* Something else is in the stream. *)
ReadUnexpected ==
  /\ sAt \in DOMAIN Expected
  /\ wire # <<>> /\ ~HasNext(Expected[sAt])
  /\ TokenRead
  /\ FailAttempt
  /\ UNCHANGED <<chunk, want, need, squeezed, body, stored, requests, sendVars>>

(* Mutant: one Read is taken for all of it. *)
ReadBodyOnce ==
  /\ sAt = "body" /\ wire # <<>>
  /\ \E n \in 1 .. Lesser(need - Len(body), Len(wire)) :
       /\ body' = body \o SubSeq(wire, 1, n)
       /\ wire' = SubSeq(wire, n + 1, Len(wire))
  /\ sAt' = "write"
  /\ UNCHANGED <<chunk, attempt, want, need, squeezed, stored, link, requests, sendVars>>

(* A Read returns what is there, in parts of any size; the loop collects   *)
(* them.                                                                   *)
ReadBody ==
  /\ sAt = "body" /\ wire # <<>>
  /\ \E n \in 1 .. Lesser(need - Len(body), Len(wire)) :
       /\ body' = body \o SubSeq(wire, 1, n)
       /\ wire' = SubSeq(wire, n + 1, Len(wire))
  /\ sAt' = IF Len(body') = need THEN "write" ELSE "body"
  /\ UNCHANGED <<chunk, attempt, want, need, squeezed, stored, link, requests, sendVars>>

(* The peer is gone and everything it sent was read. *)
ReadFails ==
  /\ sAt \in {"cmd", "size", "flag", "csize", "body"} /\ wire = <<>> /\ link # "open"
  /\ FailAttempt
  /\ UNCHANGED <<chunk, want, need, squeezed, body, stored, requests, wire, sendVars>>

Genuine == body = Units(chunk, Len(body))

(* DecompressData accepts a stream that ends early and returns what it     *)
(* held, which is less than was announced; it fails on anything else.      *)
Decompressed ==
  IF ~Genuine             THEN {}
  ELSE IF Len(body) = need THEN {want} ELSE 0 .. want - 1

ChunkData == IF squeezed THEN Decompressed ELSE {IF Genuine THEN Len(body) ELSE Garbage}

WriteChunk ==
  /\ sAt = "write"
  /\ \E n \in ChunkData : stored' = [stored EXCEPT ![chunk] = n]
  /\ IF chunk = LastChunk
       THEN sAt' = "done" /\ link' = "closed" /\ UNCHANGED <<chunk, attempt>>
       ELSE sAt' = "ask" /\ chunk' = chunk + 1 /\ attempt' = 0 /\ UNCHANGED link
  /\ UNCHANGED <<want, need, squeezed, body, requests, wire, sendVars>>

(* The bytes do not decompress, or WriteAt fails. *)
WriteFails ==
  /\ sAt = "write"
  /\ FailAttempt
  /\ UNCHANGED <<chunk, want, need, squeezed, body, stored, requests, wire, sendVars>>

-----------------------------------------------------------------------------
(* The connection breaks, with what is in it. *)
Break ==
  /\ link = "open"
  /\ link' = "broken" /\ requests' = <<>> /\ wire' = <<>>
  /\ UNCHANGED <<sendVars, recvVars>>

SenderStep ==
  \/ TakeRequest \/ GiveUp \/ TryFails \/ SendHeader \/ SendFlag \/ SendPiece
  \/ StopSending \/ ChunkSent \/ ServerGone

ReceiverStep ==
  \/ AskChunk \/ ReadDataCmd \/ ReadSize \/ ReadFlag \/ ReadCompressedSize
  \/ ReadUnexpected \/ ReadBody \/ ReadFails \/ WriteChunk \/ WriteFails

StreamNext == SenderStep \/ SendTimeout \/ ReceiverStep \/ Break

StreamSpec == StreamInit /\ [][StreamNext]_streamVars

(* Both ends run; a write that blocks is accepted some time, or fails. *)
FairStream == StreamSpec /\ WF_streamVars(SenderStep) /\ WF_streamVars(ReceiverStep)

-----------------------------------------------------------------------------
(* Properties. *)

(* The server's reads fall on the boundaries of what the client wrote,     *)
(* through timeouts, retries of both ends and broken connections           *)
(* (client.go:426-447, server.go:392-413): nothing follows a chunk that    *)
(* was not written to its end.  A chunk without a unit is the exception:   *)
(* its length is refused and its flag is left in the stream.               *)
InFrame ==
  (\A k \in Chunks : Available(k) > 0) /\ wire # <<>> =>
    CASE sAt = "cmd"   -> Head(wire) = DataCmd
      [] sAt = "size"  -> Head(wire) = Token("size", Available(chunk))
      [] sAt = "flag"  -> Head(wire).kind = "flag"
      [] sAt = "csize" -> Head(wire).kind = "csize"
      [] sAt = "body"  -> Head(wire) = Unit(chunk)
      [] OTHER         -> TRUE

(* What is marked as received is in the file to the last unit the client   *)
(* read for it (server.go:374, 459-480): no part of a chunk, although a    *)
(* Read returns parts and a compressed stream that ends early is accepted, *)
(* and nothing of another chunk.                                           *)
StoredWhole == \A k \in Chunks : stored[k] \in {Missing, Available(k)}

(* The exchange comes to an end on both sides, although no read has a      *)
(* deadline (client.go:197, server.go:120).                                *)
ExchangeEnds == <>(sAt \in {"done", "failed"} /\ cAt = "ended")
=============================================================================
