---------------------------- MODULE StreamProofs ----------------------------
(***************************************************************************)
(* Proofs about ChunkStream: types, that the server reads where the client *)
(* wrote, and that it marks only whole chunks.                             *)
(***************************************************************************)
EXTENDS ChunkStream, SequenceTheorems, TLAPS

-----------------------------------------------------------------------------
(* The inductive invariant. *)

(* Numbers that keep the types: lengths the server accepted, a loop of the *)
(* client that has not used up its retries.                                *)
Bounds ==
  /\ want <= ChunkLen
  /\ cAt \in {"flag", "pieces"} => try < SendRetries
  /\ sAt = "csize" => squeezed /\ Len(body) = 0
  /\ sAt \in {"body", "write"} /\ ~squeezed => need = want
  /\ sAt \in {"body", "write"} => Len(body) <= need

(* The message of a chunk, token by token, if its payload has c units.     *)
HeadLen == IF compress THEN 4 ELSE 3

Tok(c, j) ==
  CASE j = 1 -> DataCmd
    [] j = 2 -> Token("size", Available(chunk))
    [] j = 3 -> Token("flag", IF compress THEN 1 ELSE 0)
    [] j = 4 /\ compress -> Token("csize", c)
    [] OTHER -> Unit(chunk)

Payloads == {c \in 1 .. ChunkLen + 1 : compress \/ c = Available(chunk)}

(* How much of it the server has read, ... *)
Consumed ==
  CASE sAt = "size"  -> 1
    [] sAt = "flag"  -> 2
    [] sAt = "csize" -> 3
    [] sAt \in {"body", "write"} -> HeadLen + Len(body)
    [] OTHER -> 0

(* ... and how much the client has written. *)
Written == Consumed + Len(wire)

AtRest == cAt = "idle" \/ (cAt = "pieces" /\ left = 0)

Sending(c) ==
  \/ /\ requests = <<chunk>> /\ AtRest
     /\ sAt = "cmd" /\ wire = <<>>
  \/ /\ requests = <<>>
     /\ cAt = "idle"   => Written = HeadLen + c
     /\ cAt = "try"    => Written < HeadLen + c /\ (expired \/ Written = 0)
     /\ cAt = "flag"   => Written = 2
     /\ cAt = "pieces" => Written = HeadLen + c - left /\ left <= c
     /\ cAt # "idle"   => cur = chunk

Understood(c) ==
  /\ sAt = "csize" => compress
  /\ sAt \in {"flag", "csize", "body", "write"} => want = Available(chunk)
  /\ sAt \in {"csize", "body", "write"} => squeezed = compress
  /\ sAt \in {"body", "write"} => need = c /\ \A i \in 1 .. Len(body) : body[i] = Unit(chunk)
  /\ sAt = "write" => Len(body) = need

InMessage(c) ==
  /\ \A i \in 1 .. Len(wire) : wire[i] = Tok(c, Consumed + i)
  /\ Written <= HeadLen + c
  /\ Understood(c)
  /\ link = "open" => Sending(c)

Framed ==
  Available(chunk) > 0 =>
    /\ sAt = "ask" => wire = <<>> /\ (link = "open" => requests = <<>> /\ AtRest)
    /\ sAt \notin {"ask", "done", "failed"} => \E c \in Payloads : InMessage(c)

(* The chunk that has no unit is refused again and again. *)
Refused ==
  Available(chunk) = 0 =>
    /\ sAt \in {"ask", "cmd", "size", "failed"}
    /\ \A i \in 1 .. Len(wire) : wire[i].kind = "size" => wire[i].n = 0
    /\ link = "open" => requests \in Seq({chunk}) /\ (cur = chunk \/ AtRest)

(* Who has left has closed the connection, and a writer with an error has  *)
(* lost it.                                                                *)
Gone ==
  /\ sAt \in {"done", "failed"} \/ cAt = "ended" => link = "closed"
  /\ stuck => link # "open"

StreamInv ==
  StreamTypeOK /\ Bounds /\ Framed /\ Refused /\ Gone /\ StoredWhole

-----------------------------------------------------------------------------
(* Lengths, tokens and sequences of tokens. *)

LEMMA StreamConstants ==
  /\ LastChunk \in Nat /\ ChunkLen \in Nat \ {0} /\ SendRetries \in Nat
  /\ Retries \in Nat \ {0} /\ StartWrite \in MinWrite .. MaxWrite
  /\ MaxWrite \in Nat /\ MinWrite = 1
BY StreamAssumption DEF MinWrite

(* What ReadAt finds is at most a chunk. *)
LEMMA AvailableBound ==
  ASSUME fileLen \in Nat, NEW k \in Chunks
  PROVE  Available(k) \in 0 .. ChunkLen
<1>1. k * ChunkLen \in Nat
  BY StreamConstants DEF Chunks
<1>2. fileLen - k * ChunkLen \in Int
  BY <1>1
<1>3. Lesser(ChunkLen, fileLen - k * ChunkLen) \in Int
      /\ Lesser(ChunkLen, fileLen - k * ChunkLen) <= ChunkLen
  BY <1>2, StreamConstants DEF Lesser
<1>4. \A n \in Int : n <= ChunkLen => Greater(0, n) \in 0 .. ChunkLen
  BY StreamConstants DEF Greater
<1> QED BY <1>3, <1>4 DEF Available

LEMMA FileLength == fileLen \in 0 .. ChunkLen * (LastChunk + 1) => fileLen \in Nat
BY StreamConstants

LEMMA TokenTypes ==
  /\ DataCmd \in Tokens
  /\ \A n \in Nat : /\ Token("size", n) \in Tokens /\ Token("flag", n) \in Tokens
                    /\ Token("csize", n) \in Tokens /\ Unit(n) \in Tokens
BY DEF DataCmd, Token, Tokens, Unit

LEMMA UnitsTyped ==
  ASSUME NEW k \in Nat, NEW n \in Nat
  PROVE  /\ Units(k, n) \in Seq(Tokens) /\ Len(Units(k, n)) = n
         /\ \A i \in 1 .. n : Units(k, n)[i] = Unit(k)
BY TokenTypes DEF Units

(* A failing or succeeding write appends a part of its tokens. *)
Appended(w, v, t, n) ==
  /\ v \in Seq(Tokens) /\ n \in 0 .. Len(t) /\ Len(v) = Len(w) + n
  /\ \A i \in 1 .. Len(w) : v[i] = w[i]
  /\ \A i \in 1 .. n : v[Len(w) + i] = t[i]

LEMMA AppendAll ==
  ASSUME NEW w \in Seq(Tokens), NEW t \in Seq(Tokens)
  PROVE  Appended(w, w \o t, t, Len(t))
BY ConcatProperties, LenProperties DEF Appended

LEMMA AppendPart ==
  ASSUME NEW w \in Seq(Tokens), NEW t \in Seq(Tokens), NEW n \in 0 .. Len(t)
  PROVE  Appended(w, w \o SubSeq(t, 1, n), t, n)
<1>1. /\ SubSeq(t, 1, n) \in Seq(Tokens) /\ Len(SubSeq(t, 1, n)) = n
      /\ \A i \in 1 .. n : SubSeq(t, 1, n)[i] = t[i]
  <2>1. \A i \in 1 .. n : t[i] \in Tokens
    BY ElementOfSeq
  <2>2. /\ SubSeq(t, 1, n) \in Seq(Tokens)
        /\ Len(SubSeq(t, 1, n)) = (IF 1 <= n THEN n - 1 + 1 ELSE 0)
        /\ \A i \in 1 .. n - 1 + 1 : SubSeq(t, 1, n)[i] = t[1 + i - 1]
    BY <2>1, SubSeqProperties
  <2> QED BY <2>2
<1>2. /\ w \o SubSeq(t, 1, n) \in Seq(Tokens)
      /\ Len(w \o SubSeq(t, 1, n)) = Len(w) + n
      /\ \A i \in 1 .. Len(w) + n :
           (w \o SubSeq(t, 1, n))[i] = IF i <= Len(w) THEN w[i] ELSE SubSeq(t, 1, n)[i - Len(w)]
  BY <1>1, ConcatProperties
<1> QED BY <1>1, <1>2, LenProperties DEF Appended

(* A Read takes a part from the front of the stream. *)
LEMMA TakePart ==
  ASSUME NEW w \in Seq(Tokens), NEW b \in Seq(Tokens), NEW n \in 1 .. Len(w)
  PROVE  /\ Appended(b, b \o SubSeq(w, 1, n), w, n)
         /\ SubSeq(w, n + 1, Len(w)) \in Seq(Tokens)
         /\ Len(SubSeq(w, n + 1, Len(w))) = Len(w) - n
         /\ \A i \in 1 .. Len(w) - n : SubSeq(w, n + 1, Len(w))[i] = w[n + i]
<1>1. Appended(b, b \o SubSeq(w, 1, n), w, n)
  BY AppendPart, LenProperties
<1>2. /\ SubSeq(w, n + 1, Len(w)) \in Seq(Tokens)
      /\ Len(SubSeq(w, n + 1, Len(w)))
           = (IF n + 1 <= Len(w) THEN Len(w) - (n + 1) + 1 ELSE 0)
      /\ \A i \in 1 .. Len(w) - (n + 1) + 1 : SubSeq(w, n + 1, Len(w))[i] = w[n + 1 + i - 1]
  <2>1. \A i \in n + 1 .. Len(w) : w[i] \in Tokens
    BY ElementOfSeq, LenProperties
  <2> QED BY <2>1, SubSeqProperties, LenProperties
<1> QED BY <1>1, <1>2, LenProperties

LEMMA TakeOne ==
  ASSUME NEW w \in Seq(Tokens), w # <<>>
  PROVE  /\ Head(w) = w[1] /\ Head(w) \in Tokens
         /\ Tail(w) \in Seq(Tokens) /\ Len(Tail(w)) = Len(w) - 1 /\ Len(w) >= 1
         /\ \A i \in 1 .. Len(Tail(w)) : Tail(w)[i] = w[i + 1]
BY HeadTailProperties, EmptySeq, LenProperties

(* What becomes of the stream when something is flushed. *)
LEMMA Flushed ==
  ASSUME StreamTypeOK, NEW t \in Seq(Tokens), NEW next, Flush(t, next)
  PROVE  \/ /\ link = "open" /\ Appended(wire, wire', t, Len(t))
            /\ cAt' = next /\ UNCHANGED <<link, stuck, try>>
         \/ /\ link = "open" /\ (\E n \in 0 .. Len(t) : Appended(wire, wire', t, n))
            /\ link' = "broken" /\ stuck' = TRUE /\ cAt' = "try" /\ try' = try + 1
         \/ /\ link # "open" /\ UNCHANGED <<wire, link>>
            /\ \/ cAt' = next /\ UNCHANGED <<stuck, try>>
               \/ cAt' = "try" /\ stuck' = TRUE /\ try' = try + 1
<1>1. CASE link # "open"
  BY <1>1 DEF Flush
<1>2. CASE link = "open"
  <2>1. wire \in Seq(Tokens)
    BY DEF StreamTypeOK
  <2>2. CASE wire' = wire \o t /\ cAt' = next /\ UNCHANGED <<link, stuck, try>>
    BY <1>2, <2>1, <2>2, AppendAll
  <2>3. CASE /\ \E n \in 0 .. Len(t) : wire' = wire \o SubSeq(t, 1, n)
             /\ link' = "broken" /\ stuck' = TRUE /\ cAt' = "try" /\ try' = try + 1
    BY <1>2, <2>1, <2>3, AppendPart
  <2> QED BY <1>2, <2>2, <2>3 DEF Flush
<1> QED BY <1>1, <1>2

LEMMA FlushedOpen ==
  ASSUME StreamTypeOK, NEW t \in Seq(Tokens), NEW next, Flush(t, next), link = "open"
  PROVE  \E n \in Nat : /\ Appended(wire, wire', t, n)
                        /\ link' = "open" => n = Len(t) /\ cAt' = next
<1>1. CASE Appended(wire, wire', t, Len(t)) /\ cAt' = next
  <2>1. Len(t) \in Nat
    BY LenProperties
  <2> QED BY <1>1, <2>1
<1>2. CASE link' = "broken" /\ \E n \in 0 .. Len(t) : Appended(wire, wire', t, n)
  <2>1. PICK n \in 0 .. Len(t) : Appended(wire, wire', t, n)
    BY <1>2
  <2>2. n \in Nat
    BY LenProperties
  <2> QED BY <1>2, <2>1, <2>2
<1> QED BY <1>1, <1>2, Flushed

-----------------------------------------------------------------------------
(* Types and bounds, ... *)

LEMMA WriteSizes ==
  ASSUME writeSize \in MinWrite .. MaxWrite, NEW speed
  PROVE  NextWriteSize(speed) \in MinWrite .. MaxWrite
<1>1. \A n \in Nat : n \div 2 \in Nat /\ n \div 2 <= n
  OBVIOUS
<1>2. writeSize \in Nat /\ writeSize \div 2 \in Nat /\ writeSize \div 2 <= writeSize
  BY <1>1, StreamConstants
<1>3. Greater(MinWrite, writeSize \div 2) \in MinWrite .. MaxWrite
  BY <1>2, StreamConstants DEF Greater
<1>4. Lesser(2 * writeSize, MaxWrite) \in MinWrite .. MaxWrite
  BY StreamConstants DEF Lesser
<1> QED BY <1>3, <1>4 DEF NextWriteSize

LEMMA FlushTypes ==
  ASSUME StreamTypeOK, NEW t \in Seq(Tokens), NEW next \in {"flag", "pieces"},
         Flush(t, next), try < SendRetries
  PROVE  /\ wire' \in Seq(Tokens) /\ link' \in {"open", "broken", "closed"}
         /\ cAt' \in {next, "try"} /\ try' \in 0 .. SendRetries /\ stuck' \in BOOLEAN
         /\ cAt' = next => try' < SendRetries
<1>1. try \in 0 .. SendRetries /\ try + 1 \in 0 .. SendRetries
  BY StreamConstants DEF StreamTypeOK
<1> QED BY <1>1, Flushed DEF Appended, StreamTypeOK

LEMMA FailTypes ==
  ASSUME StreamTypeOK, FailAttempt
  PROVE  /\ attempt' \in 0 .. Retries - 1 /\ sAt' \in {"ask", "failed"}
         /\ link' \in {"open", "broken", "closed"}
BY StreamConstants DEF FailAttempt, StreamTypeOK

LEMMA BytesTyped ==
  ASSUME StreamTypeOK, Bounds, sAt = "write", NEW n \in ChunkData
  PROVE  n \in Garbage .. ChunkLen
<1>1. Len(body) \in Nat /\ want \in Nat /\ want <= ChunkLen /\ Len(body) <= need /\ need \in Nat
  BY LenProperties DEF StreamTypeOK, Bounds
<1>2. CASE squeezed
  <2>1. n \in {want} \cup 0 .. want - 1
    BY <1>2 DEF ChunkData, Decompressed
  <2> QED BY <1>1, <2>1, StreamConstants DEF Garbage
<1>3. CASE ~squeezed
  <2>1. n \in {Len(body), Garbage} /\ need = want
    BY <1>3 DEF ChunkData, Bounds
  <2> QED BY <1>1, <2>1, StreamConstants DEF Garbage
<1> QED BY <1>2, <1>3 DEF StreamTypeOK

LEMMA SenderTypes ==
  ASSUME StreamTypeOK, Bounds, SenderStep \/ SendTimeout
  PROVE  StreamTypeOK' /\ Bounds'
<1>0. fileLen \in Nat /\ \A k \in Chunks : Available(k) \in 0 .. ChunkLen
  BY FileLength, AvailableBound DEF StreamTypeOK
<1> USE DEF StreamTypeOK, Bounds, recvVars, pipeVars
<1>1. CASE TakeRequest
  <2>1. Head(requests) \in Chunks /\ Tail(requests) \in Seq(Chunks)
    BY <1>1, HeadTailProperties DEF TakeRequest
  <2>2. 0 \in 0 .. SendRetries
    BY StreamConstants
  <2> QED BY <1>1, <2>1, <2>2 DEF TakeRequest
<1>2. CASE SendTimeout
  BY <1>2 DEF SendTimeout
<1>3. CASE GiveUp
  <2>1. <<>> \in Seq(Chunks)
    OBVIOUS
  <2> QED BY <1>3, <2>1 DEF GiveUp, Leave
<1>4. CASE TryFails
  <2>1. try + 1 \in 0 .. SendRetries
    BY <1>4, StreamConstants DEF TryFails, NoMoreTries
  <2> QED BY <1>4, <2>1 DEF TryFails
<1>5. CASE SendHeader
  <2>1. try < SendRetries
    BY <1>5, StreamConstants DEF SendHeader, NoMoreTries
  <2>2. <<DataCmd, Token("size", Available(cur))>> \in Seq(Tokens)
    BY <1>0, TokenTypes
  <2> QED BY <1>5, <2>1, <2>2, FlushTypes DEF SendHeader
<1>6. CASE SendFlag
  <2>1. try < SendRetries
    BY <1>6 DEF SendFlag
  <2>2. MinWrite <= StartWrite /\ StartWrite <= MaxWrite /\ StartWrite \in Nat
    BY StreamConstants
  <2>3. <<Token("flag", 0)>> \in Seq(Tokens)
        /\ \A c \in Nat : <<Token("flag", 1), Token("csize", c)>> \in Seq(Tokens)
    BY TokenTypes
  <2>4. Available(cur) \in 0 .. ChunkLen
    BY <1>0
  <2>5. CASE ~compress
    <3>1. left' = Available(cur) /\ Flush(<<Token("flag", 0)>>, "pieces")
      BY <1>6, <2>5 DEF SendFlag
    <3>2. left' \in 0 .. ChunkLen + 1
      BY <2>4, <3>1, StreamConstants
    <3>3. /\ wire' \in Seq(Tokens) /\ link' \in {"open", "broken", "closed"}
          /\ cAt' \in {"pieces", "try"} /\ try' \in 0 .. SendRetries /\ stuck' \in BOOLEAN
          /\ cAt' = "pieces" => try' < SendRetries
      <4>1. <<Token("flag", 0)>> \in Seq(Tokens)
        BY <2>3
      <4> QED BY <2>1, <3>1, <4>1, FlushTypes
    <3> QED BY <1>6, <2>2, <3>2, <3>3 DEF SendFlag
  <2>6. CASE compress
    <3>1. PICK c \in 1 .. Available(cur) + 1 :
            left' = c /\ Flush(<<Token("flag", 1), Token("csize", c)>>, "pieces")
      BY <1>6, <2>6 DEF SendFlag
    <3>2. left' \in 0 .. ChunkLen + 1 /\ c \in Nat
      BY <2>4, <3>1, StreamConstants
    <3>3. /\ wire' \in Seq(Tokens) /\ link' \in {"open", "broken", "closed"}
          /\ cAt' \in {"pieces", "try"} /\ try' \in 0 .. SendRetries /\ stuck' \in BOOLEAN
          /\ cAt' = "pieces" => try' < SendRetries
      <4>1. <<Token("flag", 1), Token("csize", c)>> \in Seq(Tokens)
        BY <2>3, <3>2
      <4> QED BY <2>1, <3>1, <4>1, FlushTypes
    <3> QED BY <1>6, <2>2, <3>2, <3>3 DEF SendFlag
  <2> QED BY <2>5, <2>6
<1>7. CASE SendPiece
  <2>1. try < SendRetries
    BY <1>7 DEF SendPiece
  <2>2. writeSize' \in MinWrite .. MaxWrite
    BY <1>7, WriteSizes DEF SendPiece
  <2>3. Lesser(writeSize, left) \in Nat /\ Lesser(writeSize, left) <= left
    BY StreamConstants DEF Lesser
  <2>4. left' \in 0 .. ChunkLen + 1
    BY <1>7, <2>3, StreamConstants DEF SendPiece
  <2>5. Units(cur, Lesser(writeSize, left)) \in Seq(Tokens)
    BY <2>3, UnitsTyped, StreamConstants DEF Chunks
  <2> QED BY <1>7, <2>1, <2>2, <2>4, <2>5, FlushTypes DEF SendPiece
<1>8. CASE StopSending
  <2>1. try + 1 \in 0 .. SendRetries
    BY <1>8, StreamConstants DEF StopSending
  <2> QED BY <1>8, <2>1 DEF StopSending
<1>9. CASE ChunkSent
  BY <1>9 DEF ChunkSent
<1>10. CASE ServerGone
  <2>1. <<>> \in Seq(Chunks)
    OBVIOUS
  <2> QED BY <1>10, <2>1 DEF ServerGone, Leave
<1> QED
  BY <1>1, <1>2, <1>3, <1>4, <1>5, <1>6, <1>7, <1>8, <1>9, <1>10 DEF SenderStep

LEMMA ReceiverTypes ==
  ASSUME StreamTypeOK, Bounds, ReceiverStep
  PROVE  StreamTypeOK' /\ Bounds'
<1>0. wire # <<>> => /\ Head(wire) \in Tokens /\ Head(wire).n \in Nat
                     /\ Tail(wire) \in Seq(Tokens)
  BY TakeOne DEF StreamTypeOK, Tokens
<1> USE DEF StreamTypeOK, Bounds, sendVars, HasNext, TokenRead
<1>1. CASE AskChunk
  <2>1. Append(requests, chunk) \in Seq(Chunks)
    BY AppendProperties
  <2> QED BY <1>1, <2>1 DEF AskChunk
<1>2. CASE ReadDataCmd
  BY <1>0, <1>2 DEF ReadDataCmd
<1>3. CASE ReadSize
  BY <1>0, <1>3, FailTypes DEF ReadSize
<1>4. CASE ReadFlag
  <2>1. <<>> \in Seq(Tokens) /\ Len(<<>>) = 0
    OBVIOUS
  <2> QED BY <1>0, <1>4, <2>1 DEF ReadFlag
<1>5. CASE ReadCompressedSize
  BY <1>0, <1>5 DEF ReadCompressedSize
<1>6. CASE ReadUnexpected
  BY <1>0, <1>6, FailTypes DEF ReadUnexpected
<1>7. CASE ReadBody
  <2>1. PICK n \in 1 .. Lesser(need - Len(body), Len(wire)) :
          /\ body' = body \o SubSeq(wire, 1, n)
          /\ wire' = SubSeq(wire, n + 1, Len(wire))
    BY <1>7 DEF ReadBody
  <2>2. Len(body) \in Nat /\ Len(wire) \in Nat
    BY LenProperties
  <2>3. n \in 1 .. Len(wire) /\ n <= need - Len(body)
    BY <2>2 DEF Lesser
  <2>4. /\ body' \in Seq(Tokens) /\ Len(body') = Len(body) + n
        /\ wire' \in Seq(Tokens)
    BY <2>1, <2>3, TakePart DEF Appended
  <2>5. Len(body') <= need
    BY <2>2, <2>3, <2>4
  <2> QED BY <1>7, <2>4, <2>5 DEF ReadBody
<1>8. CASE ReadFails
  BY <1>8, FailTypes DEF ReadFails
<1>9. CASE WriteChunk
  <2>1. stored' \in [Chunks -> Garbage .. ChunkLen]
    BY <1>9, BytesTyped DEF WriteChunk
  <2>2. chunk' \in Chunks /\ attempt' \in 0 .. Retries - 1
    BY <1>9, StreamConstants DEF WriteChunk, Chunks
  <2> QED BY <1>9, <2>1, <2>2 DEF WriteChunk
<1>10. CASE WriteFails
  BY <1>10, FailTypes DEF WriteFails
<1> QED
  BY <1>1, <1>2, <1>3, <1>4, <1>5, <1>6, <1>7, <1>8, <1>9, <1>10 DEF ReceiverStep

-----------------------------------------------------------------------------
(* ... what the client does to the stream, ... *)

Kept == UNCHANGED <<recvVars, fileLen, compress>>

LEMMA KeptLengths ==
  ASSUME Kept
  PROVE  /\ \A k : Available(k)' = Available(k)
         /\ Consumed' = Consumed /\ HeadLen' = HeadLen /\ Payloads' = Payloads
         /\ \A c, j : Tok(c, j)' = Tok(c, j)
         /\ \A c : Understood(c)' = Understood(c)
         /\ StoredWhole' = StoredWhole
BY DEF Kept, recvVars, Available, Consumed, HeadLen, Payloads, Tok, Understood, StoredWhole

LEMMA WrittenTypes ==
  ASSUME StreamTypeOK
  PROVE  /\ Consumed \in Nat /\ HeadLen \in {3, 4} /\ Len(wire) \in Nat /\ Written \in Nat
         /\ Written = Consumed + Len(wire)
<1>1. Len(body) \in Nat /\ Len(wire) \in Nat
  BY LenProperties DEF StreamTypeOK
<1>2. HeadLen \in {3, 4}
  BY DEF HeadLen
<1>3. Consumed \in Nat
  BY <1>1, <1>2 DEF Consumed
<1> QED BY <1>1, <1>2, <1>3 DEF Written

(* Without a connection only the server matters. *)
LEMMA CutOff ==
  ASSUME Framed, Refused, Kept, wire' = wire, link' # "open"
  PROVE  Framed' /\ Refused'
<1>1. \A c : InMessage(c) => InMessage(c)'
  BY KeptLengths DEF InMessage, Written
<1> QED
  BY <1>1, KeptLengths DEF Framed, Refused, Kept, recvVars

(* What is appended goes on where the stream ended. *)
LEMMA Extended ==
  ASSUME StreamTypeOK, NEW c \in Nat, InMessage(c), Kept,
         NEW t \in Seq(Tokens), NEW n \in Nat, Appended(wire, wire', t, n),
         \A i \in 1 .. Len(t) : t[i] = Tok(c, Written + i),
         Written + Len(t) <= HeadLen + c
  PROVE  /\ Written' = Written + n
         /\ (link' = "open" => Sending(c)') => InMessage(c)'
<1>1. Written' = Written + n
  BY WrittenTypes, KeptLengths DEF Written, Appended
<1>2. \A i \in 1 .. Len(wire') : wire'[i] = Tok(c, Consumed + i)
  <2> TAKE i \in 1 .. Len(wire')
  <2>1. CASE i <= Len(wire)
    BY <2>1, WrittenTypes DEF InMessage, Appended
  <2>2. CASE i > Len(wire)
    <3>1. i - Len(wire) \in 1 .. n /\ n <= Len(t) /\ i = Len(wire) + (i - Len(wire))
      BY <2>2, WrittenTypes DEF Appended
    <3>2. wire'[i] = t[i - Len(wire)]
      BY <3>1 DEF Appended
    <3>3. i - Len(wire) \in 1 .. Len(t)
      BY <3>1, LenProperties
    <3>4. t[i - Len(wire)] = Tok(c, Written + (i - Len(wire)))
      BY <3>3
    <3>5. Written + (i - Len(wire)) = Consumed + i
      BY WrittenTypes
    <3> QED BY <3>2, <3>4, <3>5
  <2> QED BY <2>1, <2>2, WrittenTypes
<1>3. Written' <= HeadLen + c
  BY <1>1, WrittenTypes, LenProperties DEF Appended
<1> QED BY <1>1, <1>2, <1>3, KeptLengths DEF InMessage

LEMMA RefusedFurther ==
  ASSUME StreamTypeOK, Refused, Kept, NEW t \in Seq(Tokens), NEW n \in Nat,
         Appended(wire, wire', t, n),
         Available(chunk) = 0 => \A i \in 1 .. Len(t) : t[i].kind = "size" => t[i].n = 0,
         requests' = requests, cur' = cur, link = "open",
         Available(chunk) = 0 => cur = chunk
  PROVE  Refused'
<1> SUFFICES ASSUME Available(chunk) = 0
             PROVE  \A i \in 1 .. Len(wire') : wire'[i].kind = "size" => wire'[i].n = 0
  BY KeptLengths DEF Refused, Kept, recvVars
<1> TAKE i \in 1 .. Len(wire')
<1>1. CASE i <= Len(wire)
  <2>1. i \in 1 .. Len(wire) /\ wire'[i] = wire[i]
    BY <1>1, WrittenTypes DEF Appended
  <2> QED BY <2>1 DEF Refused
<1>2. CASE i > Len(wire)
  <2>1. /\ i - Len(wire) \in 1 .. n /\ n <= Len(t) /\ i = Len(wire) + (i - Len(wire))
    BY <1>2, WrittenTypes DEF Appended
  <2>2. wire'[i] = t[i - Len(wire)] /\ i - Len(wire) \in 1 .. Len(t)
    BY <2>1, LenProperties DEF Appended
  <2> QED BY <2>2
<1> QED BY <1>1, <1>2, WrittenTypes

(* While a client is at work on a connection, the server waits for a       *)
(* message of which the client knows how much it has written.              *)
LEMMA AtWork ==
  ASSUME StreamInv, link = "open", ~AtRest
  PROVE  /\ sAt \notin {"done", "failed"}
         /\ ~stuck
         /\ cAt \in {"try", "flag", "pieces"} => cur = chunk
         /\ Available(chunk) > 0 =>
              /\ sAt # "ask"
              /\ \E c \in Payloads : InMessage(c) /\ Sending(c)
         /\ Available(chunk) \in 0 .. ChunkLen
<1>1. Available(chunk) \in 0 .. ChunkLen
  BY FileLength, AvailableBound DEF StreamInv, StreamTypeOK
<1>2. Available(chunk) = 0 => cur = chunk
  BY DEF StreamInv, Refused
<1>3. sAt \notin {"done", "failed"} /\ ~stuck
  BY DEF StreamInv, Gone
<1>4. Available(chunk) > 0 =>
        /\ sAt # "ask"
        /\ \E c \in Payloads : InMessage(c) /\ Sending(c)
  BY <1>3 DEF StreamInv, Framed, InMessage
<1>5. Available(chunk) > 0 /\ cAt \in {"try", "flag", "pieces"} => cur = chunk
  BY <1>4 DEF Sending
<1> QED BY <1>1, <1>2, <1>3, <1>4, <1>5

LEMMA SendsHeader ==
  ASSUME StreamInv, SendHeader
  PROVE  Framed' /\ Refused'
<1> DEFINE t == <<DataCmd, Token("size", Available(cur))>>
<1>1. Kept /\ requests' = requests /\ cur' = cur /\ expired' = expired
  BY DEF SendHeader, Kept
<1>2. t \in Seq(Tokens) /\ Len(t) = 2 /\ t[1] = DataCmd /\ t[2] = Token("size", Available(cur))
  <2>1. Available(cur) \in Nat
    BY FileLength, AvailableBound DEF StreamInv, StreamTypeOK
  <2> QED BY <2>1, TokenTypes
<1>3. StreamTypeOK /\ Framed /\ Refused /\ ~AtRest /\ Flush(t, "flag")
  BY DEF StreamInv, SendHeader, AtRest
<1> HIDE DEF t
<1>4. CASE link # "open"
  BY <1>1, <1>2, <1>3, <1>4, Flushed, CutOff
<1>5. CASE link = "open"
  <2>1. PICK n \in Nat : /\ Appended(wire, wire', t, n)
                         /\ link' = "open" => n = Len(t) /\ cAt' = "flag"
    BY <1>2, <1>3, <1>5, FlushedOpen
  <2>2. cur = chunk /\ Available(chunk) \in 0 .. ChunkLen
    BY <1>3, <1>5, AtWork DEF SendHeader
  <2>3. Refused'
    <3>1. Available(chunk) = 0 => \A i \in 1 .. Len(t) : t[i].kind = "size" => t[i].n = 0
      BY <1>2, <2>2 DEF DataCmd, Token
    <3> QED BY <1>1, <1>2, <1>3, <1>5, <2>1, <2>2, <3>1, RefusedFurther
  <2>4. ASSUME Available(chunk) > 0 PROVE Framed'
    <3>1. PICK c \in Payloads : InMessage(c) /\ Sending(c)
      BY <1>3, <1>5, <2>4, AtWork
    <3>2. c \in Nat /\ c > 0
      BY StreamConstants DEF Payloads
    <3>3. Written = 0 /\ requests = <<>>
      BY <3>1 DEF Sending, SendHeader, NoMoreTries, AtRest
    <3>4. \A i \in 1 .. Len(t) : t[i] = Tok(c, Written + i)
      BY <1>2, <2>2, <3>3 DEF Tok
    <3>5. Written + Len(t) <= HeadLen + c
      BY <1>2, <3>2, <3>3, WrittenTypes, <1>3
    <3>6. /\ Written' = Written + n
          /\ (link' = "open" => Sending(c)') => InMessage(c)'
      BY <1>1, <1>2, <1>3, <2>1, <3>1, <3>2, <3>4, <3>5, Extended
    <3>7. link' = "open" => Sending(c)'
      BY <1>1, <1>2, <2>1, <2>2, <3>3, <3>6 DEF Sending, Kept, recvVars
    <3>8. c \in Payloads' /\ sAt' = sAt /\ sAt # "ask"
      BY <1>1, <1>3, <1>5, <2>4, AtWork, KeptLengths DEF Kept, recvVars
    <3> QED BY <3>6, <3>7, <3>8 DEF Framed
  <2>5. Available(chunk) = 0 => Framed'
    BY <1>1, KeptLengths DEF Framed, Kept, recvVars
  <2> QED BY <2>2, <2>3, <2>4, <2>5
<1> QED BY <1>4, <1>5

LEMMA SendsFlag ==
  ASSUME StreamInv, SendFlag
  PROVE  Framed' /\ Refused'
<1>0. Available(cur) \in Nat
  BY FileLength, AvailableBound DEF StreamInv, StreamTypeOK
<1>1. Kept /\ requests' = requests /\ cur' = cur
  BY DEF SendFlag, Kept
<1>2. PICK t \in Seq(Tokens), d \in Nat :
        /\ Flush(t, "pieces") /\ left' = d
        /\ Len(t) = HeadLen - 2
        /\ t[1] = Token("flag", IF compress THEN 1 ELSE 0)
        /\ compress => t[2] = Token("csize", d) /\ d \in 1 .. Available(cur) + 1
        /\ ~compress => d = Available(cur)
  <2>1. CASE ~compress
    <3> DEFINE u == <<Token("flag", 0)>>
    <3>1. left' = Available(cur) /\ Flush(u, "pieces")
      BY <2>1 DEF SendFlag
    <3>2. u \in Seq(Tokens) /\ Len(u) = 1 /\ u[1] = Token("flag", 0)
      BY TokenTypes
    <3>3. HeadLen = 3 /\ (IF compress THEN 1 ELSE 0) = 0
      BY <2>1 DEF HeadLen
    <3> HIDE DEF u
    <3> USE <1>0, <3>2
    <3> WITNESS u \in Seq(Tokens), Available(cur) \in Nat
    <3> QED BY <2>1, <3>1, <3>3
  <2>2. CASE compress
    <3>1. PICK c \in 1 .. Available(cur) + 1 :
            left' = c /\ Flush(<<Token("flag", 1), Token("csize", c)>>, "pieces")
      BY <2>2 DEF SendFlag
    <3> DEFINE u == <<Token("flag", 1), Token("csize", c)>>
    <3>2. u \in Seq(Tokens) /\ Len(u) = 2
          /\ u[1] = Token("flag", 1) /\ u[2] = Token("csize", c)
      BY <1>0, TokenTypes
    <3>3. Flush(u, "pieces")
      BY <3>1
    <3>4. HeadLen = 4 /\ (IF compress THEN 1 ELSE 0) = 1 /\ c \in Nat
      BY <1>0, <2>2 DEF HeadLen
    <3> HIDE DEF u
    <3> USE <3>2, <3>4
    <3> WITNESS u \in Seq(Tokens), c \in Nat
    <3> QED BY <2>2, <3>1, <3>3
  <2> QED BY <2>1, <2>2
<1>3. StreamTypeOK /\ Framed /\ Refused /\ ~AtRest
  BY DEF StreamInv, SendFlag, AtRest
<1>4. CASE link # "open"
  BY <1>1, <1>2, <1>3, <1>4, Flushed, CutOff
<1>5. CASE link = "open"
  <2>1. PICK n \in Nat : /\ Appended(wire, wire', t, n)
                         /\ link' = "open" => n = Len(t) /\ cAt' = "pieces"
    BY <1>2, <1>3, <1>5, FlushedOpen
  <2>2. cur = chunk /\ Available(chunk) \in 0 .. ChunkLen
    BY <1>3, <1>5, AtWork DEF SendFlag
  <2>3. Refused'
    <3>1. \A i \in 1 .. Len(t) : t[i].kind # "size"
      BY <1>2 DEF Token, HeadLen
    <3> QED BY <1>1, <1>3, <1>5, <2>1, <2>2, <3>1, RefusedFurther
  <2>4. ASSUME Available(chunk) > 0 PROVE Framed'
    <3>1. PICK c \in Payloads : InMessage(c) /\ Sending(c)
      BY <1>3, <1>5, <2>4, AtWork
    <3>2. d \in Payloads /\ d > 0
      BY <1>2, <2>2, <2>4, StreamConstants DEF Payloads
    <3>3. Written = 2 /\ requests = <<>>
      BY <3>1 DEF Sending, SendFlag, AtRest
    <3>4. InMessage(d)
      <4>1. \A i \in 1 .. Len(wire) : Consumed + i <= 2
        BY <1>3, <3>3, WrittenTypes
      <4>2. \A i \in 1 .. Len(wire) : Tok(c, Consumed + i) = Tok(d, Consumed + i)
        BY <1>3, <4>1, WrittenTypes DEF Tok
      <4>3. Written <= HeadLen + d
        BY <1>3, <3>3, WrittenTypes
      <4>4. sAt \notin {"body", "write"}
        <5>1. Consumed <= 2
          BY <1>3, <3>3, WrittenTypes
        <5>2. sAt \in {"body", "write"} => Consumed = HeadLen + Len(body) /\ Len(body) \in Nat
          BY <1>3, LenProperties DEF Consumed, StreamTypeOK
        <5> QED BY <1>3, <5>1, <5>2, WrittenTypes
      <4>5. Understood(d)
        BY <3>1, <4>4 DEF InMessage, Understood
      <4>6. Sending(d)
        BY <3>3, <2>2 DEF Sending, SendFlag
      <4> QED BY <3>1, <4>2, <4>3, <4>5, <4>6 DEF InMessage
    <3>5. \A i \in 1 .. Len(t) : t[i] = Tok(d, Written + i)
      BY <1>2, <3>3 DEF Tok, HeadLen
    <3>6. Written + Len(t) <= HeadLen + d
      BY <1>2, <3>2, <3>3, WrittenTypes, <1>3
    <3>7. /\ Written' = Written + n
          /\ (link' = "open" => Sending(d)') => InMessage(d)'
      BY <1>1, <1>3, <2>1, <3>4, <3>5, <3>6, Extended
    <3>8. link' = "open" => Sending(d)'
      <4>1. link' = "open" => Written' = HeadLen' + d - left' /\ left' <= d
        BY <1>1, <1>2, <1>3, <2>1, <3>3, <3>7, WrittenTypes, KeptLengths
      <4> QED BY <1>1, <2>1, <2>2, <3>3, <4>1 DEF Sending, Kept, recvVars
    <3>9. d \in Payloads' /\ sAt' = sAt /\ sAt # "ask"
      BY <1>1, <1>3, <1>5, <2>4, <3>2, AtWork, KeptLengths DEF Kept, recvVars
    <3> QED BY <3>7, <3>8, <3>9 DEF Framed
  <2>5. Available(chunk) = 0 => Framed'
    BY <1>1, KeptLengths DEF Framed, Kept, recvVars
  <2> QED BY <2>2, <2>3, <2>4, <2>5
<1> QED BY <1>4, <1>5

LEMMA SendsPiece ==
  ASSUME StreamInv, SendPiece
  PROVE  Framed' /\ Refused'
<1> DEFINE m == Lesser(writeSize, left)
<1>1. Kept /\ requests' = requests /\ cur' = cur /\ left' = left - m
      /\ Flush(Units(cur, m), "pieces")
  BY DEF SendPiece, Kept
<1>2. m \in Nat /\ m <= left /\ left \in Nat
  BY StreamConstants DEF StreamInv, StreamTypeOK, Lesser
<1> HIDE DEF m
<1>3. PICK t \in Seq(Tokens) : /\ Flush(t, "pieces") /\ Len(t) = m
                               /\ \A i \in 1 .. Len(t) : t[i] = Unit(cur)
  <2>1. cur \in Nat
    BY StreamConstants DEF StreamInv, StreamTypeOK, Chunks
  <2> QED BY <1>1, <1>2, <2>1, UnitsTyped
<1>4. StreamTypeOK /\ Framed /\ Refused /\ ~AtRest /\ cAt = "pieces" /\ left > 0
  BY <1>2 DEF StreamInv, SendPiece, AtRest
<1>5. CASE link # "open"
  BY <1>1, <1>3, <1>4, <1>5, Flushed, CutOff
<1>6. CASE link = "open"
  <2>1. PICK n \in Nat : /\ Appended(wire, wire', t, n)
                         /\ link' = "open" => n = Len(t) /\ cAt' = "pieces"
    BY <1>3, <1>4, <1>6, FlushedOpen
  <2>2. cur = chunk /\ Available(chunk) \in 0 .. ChunkLen
    BY <1>4, <1>6, AtWork
  <2>3. Refused'
    <3>1. \A i \in 1 .. Len(t) : t[i].kind # "size"
      BY <1>3 DEF Unit, Token
    <3> QED BY <1>1, <1>4, <1>6, <2>1, <2>2, <3>1, RefusedFurther
  <2>4. ASSUME Available(chunk) > 0 PROVE Framed'
    <3>1. PICK c \in Payloads : InMessage(c) /\ Sending(c)
      BY <1>4, <1>6, <2>4, AtWork
    <3>2. c \in Nat
      BY StreamConstants DEF Payloads
    <3>3. Written = HeadLen + c - left /\ left <= c /\ requests = <<>>
      BY <1>4, <3>1 DEF Sending, AtRest
    <3>4. \A i \in 1 .. Len(t) : t[i] = Tok(c, Written + i)
      <4>1. Written >= HeadLen
        BY <1>2, <1>4, <3>2, <3>3, WrittenTypes
      <4>2. \A i \in 1 .. Len(t) : Written + i > HeadLen /\ Written + i \in Nat
        BY <1>4, <4>1, WrittenTypes
      <4>3. \A j \in Nat : j > HeadLen => Tok(c, j) = Unit(chunk)
        BY DEF Tok, HeadLen
      <4> QED BY <1>3, <2>2, <4>2, <4>3
    <3>5. Written + Len(t) <= HeadLen + c
      BY <1>2, <1>3, <1>4, <3>2, <3>3, WrittenTypes
    <3>6. /\ Written' = Written + n
          /\ (link' = "open" => Sending(c)') => InMessage(c)'
      BY <1>1, <1>4, <2>1, <3>1, <3>2, <3>4, <3>5, Extended
    <3>7. link' = "open" => Sending(c)'
      <4>1. link' = "open" => Written' = HeadLen' + c - left' /\ left' <= c
        BY <1>1, <1>2, <1>3, <1>4, <2>1, <3>2, <3>3, <3>6, WrittenTypes, KeptLengths
      <4> QED BY <1>1, <2>1, <2>2, <3>3, <4>1 DEF Sending, Kept, recvVars
    <3>8. c \in Payloads' /\ sAt' = sAt /\ sAt # "ask"
      BY <1>1, <1>4, <1>6, <2>4, AtWork, KeptLengths DEF Kept, recvVars
    <3> QED BY <3>6, <3>7, <3>8 DEF Framed
  <2>5. Available(chunk) = 0 => Framed'
    BY <1>1, KeptLengths DEF Framed, Kept, recvVars
  <2> QED BY <2>2, <2>3, <2>4, <2>5
<1> QED BY <1>5, <1>6

(* The rest of the client touches no token. *)
LEMMA ClientWaits ==
  ASSUME StreamInv,
         TakeRequest \/ SendTimeout \/ GiveUp \/ TryFails \/ StopSending \/ ChunkSent \/ ServerGone
  PROVE  Framed' /\ Refused'
<1>1. Kept /\ wire' = wire
  BY DEF TakeRequest, SendTimeout, GiveUp, TryFails, StopSending, ChunkSent, ServerGone, Kept,
         pipeVars
<1>2. StreamTypeOK /\ Framed /\ Refused /\ Gone
  BY DEF StreamInv
<1>3. CASE link' # "open"
  BY <1>1, <1>2, <1>3, CutOff
<1>4. CASE link' = "open"
  <2>1. link = "open" /\ ~stuck
    BY <1>2, <1>4 DEF TakeRequest, SendTimeout, GiveUp, TryFails, StopSending, ChunkSent,
                      ServerGone, Leave, pipeVars, Gone
  <2>2. /\ Written' = Written /\ Written \in Nat /\ HeadLen' = HeadLen /\ HeadLen \in {3, 4}
        /\ chunk' = chunk /\ sAt' = sAt
    BY <1>1, <1>2, KeptLengths, WrittenTypes DEF Written, Kept, recvVars
  <2>3. ASSUME NEW c \in Payloads, Sending(c) PROVE Sending(c)'
    <3>1. c \in Nat /\ c > 0 /\ left \in Nat
      BY <1>2, StreamConstants DEF Payloads, StreamTypeOK
    <3>2. CASE TakeRequest
      <4>1. requests = <<chunk>> /\ sAt = "cmd" /\ wire = <<>>
        BY <2>3, <3>2 DEF Sending, TakeRequest
      <4>2. requests' = <<>> /\ cur' = chunk
        BY <3>2, <4>1 DEF TakeRequest
      <4>3. Written = 0
        BY <4>1 DEF Written, Consumed
      <4> QED BY <2>2, <3>1, <3>2, <4>2, <4>3 DEF Sending, TakeRequest
    <3>3. CASE SendTimeout
      BY <1>1, <2>2, <2>3, <3>1, <3>3 DEF Sending, SendTimeout, pipeVars, AtRest
    <3>4. CASE TryFails
      BY <2>1, <3>4 DEF TryFails
    <3>5. CASE StopSending
      BY <1>1, <2>2, <2>3, <3>1, <3>5 DEF Sending, StopSending, pipeVars, AtRest
    <3>6. CASE ChunkSent
      BY <1>1, <2>2, <2>3, <3>1, <3>6 DEF Sending, ChunkSent, pipeVars, AtRest
    <3> QED
      BY <1>4, <3>2, <3>3, <3>4, <3>5, <3>6 DEF GiveUp, ServerGone, Leave
  <2>4. \A c \in Payloads : InMessage(c) => InMessage(c)'
    BY <1>1, <2>1, <2>2, <2>3, KeptLengths DEF InMessage, Written
  <2>5. Framed'
    <3>1. sAt = "ask" /\ Available(chunk) > 0 => requests' = <<>> /\ AtRest'
      BY <1>2, <1>4, <2>1 DEF Framed, AtRest, TakeRequest, SendTimeout, GiveUp, TryFails,
                        StopSending, ChunkSent, ServerGone, Leave, pipeVars
    <3> QED BY <1>1, <1>2, <2>2, <2>4, <3>1, KeptLengths DEF Framed
  <2>6. Refused'
    <3>1. ASSUME Available(chunk) = 0
          PROVE  requests' \in Seq({chunk}) /\ (cur' = chunk \/ AtRest')
      <4>1. requests \in Seq({chunk}) /\ (cur = chunk \/ AtRest)
        BY <1>2, <2>1, <3>1 DEF Refused
      <4>2. requests # <<>> => Head(requests) = chunk /\ Tail(requests) \in Seq({chunk})
        BY <4>1, HeadTailProperties
      <4> QED
        BY <1>4, <4>1, <4>2 DEF AtRest, TakeRequest, SendTimeout, GiveUp, TryFails,
                          StopSending, ChunkSent, ServerGone, Leave, pipeVars
    <3> QED BY <1>1, <1>2, <2>2, <3>1, KeptLengths DEF Refused
  <2> QED BY <2>5, <2>6
<1> QED BY <1>3, <1>4

-----------------------------------------------------------------------------
(* ... and what the server makes of it. *)

Unsent == UNCHANGED <<sendVars, requests, chunk>>

LEMMA UnsentLengths ==
  ASSUME Unsent
  PROVE  /\ \A k : Available(k)' = Available(k)
         /\ HeadLen' = HeadLen /\ Payloads' = Payloads /\ AtRest' = AtRest
         /\ \A c, j : Tok(c, j)' = Tok(c, j)
BY DEF Unsent, sendVars, Available, HeadLen, Payloads, Tok, AtRest

(* A server that reads is in a message, unless the chunk has no unit. *)
LEMMA Reading ==
  ASSUME StreamInv, sAt \notin {"ask", "done", "failed"}, Available(chunk) # 0
  PROVE  /\ Available(chunk) \in 1 .. ChunkLen
         /\ \E c \in Payloads : c \in Nat /\ c > 0 /\ InMessage(c)
         /\ wire # <<>> =>
              \A c : InMessage(c) => Head(wire) = Tok(c, Consumed + 1)
<1>1. Available(chunk) \in 1 .. ChunkLen
  BY FileLength, AvailableBound DEF StreamInv, StreamTypeOK
<1>2. \A c \in Payloads : c \in Nat /\ c > 0
  BY StreamConstants DEF Payloads
<1>3. ASSUME NEW c, InMessage(c), wire # <<>>
      PROVE  Head(wire) = Tok(c, Consumed + 1)
  <2>1. Head(wire) = wire[1] /\ 1 \in 1 .. Len(wire)
    BY <1>3, TakeOne, WrittenTypes DEF StreamInv, StreamTypeOK
  <2> QED BY <1>3, <2>1 DEF InMessage
<1> QED BY <1>1, <1>2, <1>3 DEF StreamInv, Framed

(* One token further in the same message. *)
LEMMA OneFurther ==
  ASSUME StreamTypeOK, NEW c \in Nat, InMessage(c), Unsent, link' = link,
         wire # <<>>, wire' = Tail(wire), Consumed' = Consumed + 1, Understood(c)'
  PROVE  InMessage(c)'
<1>1. /\ Len(wire') = Len(wire) - 1 /\ Len(wire) \in Nat
      /\ \A i \in 1 .. Len(wire') : wire'[i] = wire[i + 1] /\ i + 1 \in 1 .. Len(wire)
  BY TakeOne, LenProperties DEF StreamTypeOK
<1>2. Written' = Written
  BY <1>1, WrittenTypes DEF Written
<1>3. \A i \in 1 .. Len(wire') : wire'[i] = Tok(c, Consumed' + i)
  <2> TAKE i \in 1 .. Len(wire')
  <2>1. wire'[i] = Tok(c, Consumed + (i + 1))
    BY <1>1 DEF InMessage
  <2>2. Consumed + (i + 1) = Consumed' + i
    BY <1>1, WrittenTypes
  <2> QED BY <2>1, <2>2
<1>4. link' = "open" => Sending(c)'
  BY <1>2, UnsentLengths DEF InMessage, Sending, Unsent, sendVars
<1> QED BY <1>2, <1>3, <1>4, UnsentLengths DEF InMessage

LEMMA RefusedOnward ==
  ASSUME StreamTypeOK, Refused, Unsent, wire # <<>>, wire' = Tail(wire),
         link' = "open" => link = "open",
         Available(chunk) = 0 => sAt' \in {"ask", "cmd", "size", "failed"}
  PROVE  Refused'
<1>1. \A i \in 1 .. Len(wire') : wire'[i] = wire[i + 1] /\ i + 1 \in 1 .. Len(wire)
  BY TakeOne, LenProperties DEF StreamTypeOK
<1> QED BY <1>1, UnsentLengths DEF Refused, Unsent, sendVars

LEMMA AsksChunk ==
  ASSUME StreamInv, AskChunk
  PROVE  Framed' /\ Refused'
<1>1. /\ \A k : Available(k)' = Available(k)
      /\ HeadLen' = HeadLen /\ Payloads' = Payloads /\ AtRest' = AtRest
      /\ wire' = wire /\ link' = link /\ chunk' = chunk /\ cur' = cur /\ sAt = "ask" /\ sAt' = "cmd"
  BY DEF AskChunk, sendVars, Available, HeadLen, Payloads, AtRest
<1>2. Available(chunk) \in 0 .. ChunkLen /\ chunk \in Chunks /\ HeadLen \in {3, 4}
  BY FileLength, AvailableBound, WrittenTypes DEF StreamInv, StreamTypeOK
<1>3. ASSUME Available(chunk) > 0
      PROVE  \E c \in Payloads' : InMessage(c)'
  <2>1. wire = <<>> /\ Len(wire) = 0 /\ (link = "open" => requests = <<>> /\ AtRest)
    BY <1>1, <1>3 DEF StreamInv, Framed
  <2>2. PICK c \in Payloads : c = Available(chunk)
    BY <1>2, <1>3, StreamConstants DEF Payloads
  <2>3. Consumed' = 0 /\ Written' = 0
    BY <1>1, <2>1 DEF Consumed, Written
  <2>4. Understood(c)'
    BY <1>1 DEF Understood
  <2>5. link = "open" => requests' = <<chunk>>
    BY <2>1 DEF AskChunk
  <2>6. (link = "open" => Sending(c))'
    BY <1>1, <2>1, <2>5 DEF Sending
  <2>7. InMessage(c)'
    BY <1>1, <1>2, <1>3, <2>1, <2>2, <2>3, <2>4, <2>6 DEF InMessage
  <2> QED BY <1>1, <2>7
<1>4. Framed'
  BY <1>1, <1>3 DEF Framed
<1>5. Refused'
  <2>1. \A q \in Seq({chunk}) : Append(q, chunk) \in Seq({chunk})
    BY AppendProperties
  <2> QED BY <1>1, <2>1 DEF StreamInv, Refused, AskChunk
<1> QED BY <1>4, <1>5

LEMMA ReadsOn ==
  ASSUME StreamInv, ReadDataCmd \/ ReadSize \/ ReadFlag \/ ReadCompressedSize \/ ReadUnexpected
  PROVE  Framed' /\ Refused'
<1>1. /\ StreamTypeOK /\ Unsent /\ wire # <<>> /\ wire' = Tail(wire)
      /\ link' = "open" => link = "open"
      /\ sAt \in {"cmd", "size", "flag", "csize"}
  BY DEF StreamInv, ReadDataCmd, ReadSize, ReadFlag, ReadCompressedSize, ReadUnexpected, Unsent,
         HasNext, TokenRead, FailAttempt, Expected
<1>2. CASE Available(chunk) = 0
  <2>1. sAt \in {"cmd", "size"} /\ (Head(wire).kind = "size" => Head(wire).n = 0)
    <3>1. Head(wire) = wire[1] /\ 1 \in 1 .. Len(wire)
      BY <1>1, TakeOne, LenProperties DEF StreamTypeOK
    <3> QED BY <1>1, <1>2, <3>1 DEF StreamInv, Refused
  <2>2. sAt' \in {"ask", "cmd", "size", "failed"}
    BY <1>1, <2>1 DEF ReadDataCmd, ReadSize, ReadFlag, ReadCompressedSize, ReadUnexpected,
                      FailAttempt, HasNext
  <2>3. Refused'
    BY <1>1, <2>2, RefusedOnward DEF StreamInv
  <2>4. Framed'
    BY <1>1, <1>2, UnsentLengths DEF Framed, Unsent
  <2> QED BY <2>3, <2>4
<1>3. CASE Available(chunk) # 0
  <2>1. /\ Available(chunk) \in 1 .. ChunkLen
        /\ \E c \in Payloads : c \in Nat /\ c > 0 /\ InMessage(c)
    BY <1>1, <1>3, Reading
  <2>2. PICK c \in Payloads : c \in Nat /\ c > 0 /\ InMessage(c)
    BY <2>1
  <2>3. Head(wire) = Tok(c, Consumed + 1)
    BY <1>1, <1>3, <2>2, Reading
  <2>4. HeadLen = (IF compress THEN 4 ELSE 3) /\ compress \in BOOLEAN
    BY <1>1 DEF HeadLen, StreamTypeOK
  <2>5. Understood(c)
    BY <2>2 DEF InMessage
  <2>6. UNCHANGED <<fileLen, compress, chunk>>
    BY <1>1 DEF Unsent, sendVars
  <2>7. ReadDataCmd \/ ReadSize \/ ReadFlag \/ ReadCompressedSize =>
          /\ Consumed' = Consumed + 1 /\ Understood(c)' /\ link' = link
          /\ sAt' \notin {"ask", "done", "failed"}
    <3>1. CASE ReadDataCmd
      BY <3>1 DEF ReadDataCmd, Consumed, Understood
    <3>2. CASE ReadSize
      <4>1. Head(wire) = Token("size", Available(chunk))
        BY <2>3, <3>2 DEF ReadSize, Consumed, Tok
      <4>2. sAt' = "flag" /\ want' = Available(chunk) /\ link' = link
        BY <2>1, <3>2, <4>1 DEF ReadSize, Token
      <4> QED BY <1>1, <3>2, <4>2, UnsentLengths DEF ReadSize, Consumed, Understood
    <3>3. CASE ReadFlag
      <4>1. Head(wire) = Token("flag", IF compress THEN 1 ELSE 0)
        BY <2>3, <3>3 DEF ReadFlag, Consumed, Tok
      <4>2. squeezed' = compress /\ want = Available(chunk)
        BY <2>4, <2>5, <3>3, <4>1 DEF ReadFlag, Token, Understood
      <4>3. /\ sAt' = IF compress THEN "csize" ELSE "body"
            /\ need' = want /\ want' = want /\ body' = <<>> /\ link' = link
        BY <3>3, <4>2 DEF ReadFlag
      <4>4. ~compress => c = Available(chunk)
        BY <2>2 DEF Payloads
      <4>5. Consumed' = 3 /\ Consumed = 2
        BY <2>4, <2>6, <3>3, <4>3 DEF Consumed, ReadFlag, HeadLen
      <4>6. Understood(c)'
        BY <1>1, <2>4, <2>6, <4>2, <4>3, <4>4, UnsentLengths DEF Understood
      <4> QED BY <4>3, <4>5, <4>6
    <3>4. CASE ReadCompressedSize
      <4>1. compress /\ Head(wire) = Token("csize", c) /\ sAt = "csize"
        BY <2>3, <2>5, <3>4 DEF ReadCompressedSize, Consumed, Tok, Understood
      <4>2. need' = c /\ sAt' = "body" /\ link' = link /\ UNCHANGED <<want, squeezed, body>>
        BY <3>4, <4>1 DEF ReadCompressedSize, Token
      <4>3. Len(body) = 0
        BY <4>1 DEF StreamInv, Bounds
      <4>4. Consumed' = 4 /\ Consumed = 3
        BY <2>4, <2>6, <4>1, <4>2, <4>3 DEF Consumed, HeadLen
      <4>5. Understood(c)'
        BY <1>1, <2>5, <2>6, <4>1, <4>2, <4>3, UnsentLengths DEF Understood
      <4> QED BY <4>2, <4>4, <4>5
    <3> QED BY <3>1, <3>2, <3>3, <3>4
  <2>8. ~ReadUnexpected
    BY <2>3, <2>4, <2>5
       DEF ReadUnexpected, HasNext, Expected, Consumed, Tok, DataCmd, Token, Understood
  <2>9. InMessage(c)' /\ sAt' \notin {"ask", "done", "failed"}
    BY <1>1, <2>2, <2>7, <2>8, OneFurther
  <2>10. Framed'
    BY <1>1, <2>2, <2>9, UnsentLengths DEF Framed
  <2>11. Refused'
    BY <1>1, <1>3, RefusedOnward DEF StreamInv
  <2> QED BY <2>10, <2>11
<1> QED BY <1>2, <1>3

LEMMA ReadsBody ==
  ASSUME StreamInv, ReadBody
  PROVE  Framed' /\ Refused'
<1>1. /\ StreamTypeOK /\ Unsent /\ link' = link /\ sAt = "body" /\ sAt' \in {"body", "write"}
      /\ sAt' = "write" => Len(body') = need'
      /\ UNCHANGED <<want, need, squeezed>>
  BY DEF StreamInv, ReadBody, Unsent
<1>2. PICK n \in 1 .. Lesser(need - Len(body), Len(wire)) :
        /\ body' = body \o SubSeq(wire, 1, n)
        /\ wire' = SubSeq(wire, n + 1, Len(wire))
  BY DEF ReadBody
<1>3. Len(body) \in Nat /\ Len(wire) \in Nat /\ need \in Nat
  BY <1>1, LenProperties DEF StreamTypeOK
<1>4. n \in 1 .. Len(wire)
  BY <1>3 DEF Lesser
<1>5. /\ Appended(body, body', wire, n)
      /\ Len(wire') = Len(wire) - n
      /\ \A i \in 1 .. Len(wire) - n : wire'[i] = wire[n + i]
  BY <1>1, <1>2, <1>4, TakePart DEF StreamTypeOK
<1>6. Available(chunk) # 0
  BY <1>1 DEF StreamInv, Refused
<1>7. PICK c \in Payloads : c \in Nat /\ c > 0 /\ InMessage(c)
  BY <1>1, <1>6, Reading
<1>8. Consumed = HeadLen + Len(body) /\ Consumed' = HeadLen' + Len(body') /\ HeadLen \in {3, 4}
  BY <1>1 DEF Consumed, HeadLen
<1>9. Consumed' = Consumed + n /\ Written' = Written
  BY <1>1, <1>3, <1>4, <1>5, <1>8, UnsentLengths DEF Appended, Written
<1>10. \A i \in 1 .. Len(wire') : wire'[i] = Tok(c, Consumed' + i)
  <2> TAKE i \in 1 .. Len(wire')
  <2>1. n + i \in 1 .. Len(wire) /\ wire'[i] = wire[n + i]
    BY <1>3, <1>4, <1>5
  <2>2. wire'[i] = Tok(c, Consumed + (n + i))
    BY <1>7, <2>1 DEF InMessage
  <2>3. Consumed + (n + i) = Consumed' + i
    BY <1>3, <1>4, <1>5, <1>8, <1>9
  <2> QED BY <2>2, <2>3
<1>11. \A i \in 1 .. Len(body') : body'[i] = Unit(chunk)
  <2> TAKE i \in 1 .. Len(body')
  <2>1. CASE i <= Len(body)
    <3>1. i \in 1 .. Len(body) /\ body'[i] = body[i]
      BY <1>3, <1>5, <2>1 DEF Appended
    <3> QED BY <1>1, <1>7, <3>1 DEF InMessage, Understood
  <2>2. CASE i > Len(body)
    <3>1. i - Len(body) \in 1 .. n /\ i = Len(body) + (i - Len(body))
      BY <1>3, <1>5, <2>2 DEF Appended
    <3>2. body'[i] = wire[i - Len(body)] /\ i - Len(body) \in 1 .. Len(wire)
      BY <1>4, <1>5, <3>1 DEF Appended
    <3>3. wire[i - Len(body)] = Tok(c, Consumed + (i - Len(body)))
      BY <1>7, <3>2 DEF InMessage
    <3>4. Consumed + (i - Len(body)) \in Nat /\ Consumed + (i - Len(body)) > HeadLen
      BY <1>3, <1>8, <3>1
    <3>5. \A j \in Nat : j > HeadLen => Tok(c, j) = Unit(chunk)
      BY DEF Tok, HeadLen
    <3> QED BY <3>2, <3>3, <3>4, <3>5
  <2> QED BY <1>3, <1>5, <2>1, <2>2 DEF Appended
<1>12. Understood(c)'
  <2>1. Understood(c) /\ chunk' = chunk /\ compress' = compress
    BY <1>1, <1>7 DEF InMessage, Unsent, sendVars
  <2> QED BY <1>1, <1>11, <2>1, UnsentLengths DEF Understood
<1>13. link' = "open" => Sending(c)'
  <2>1. wire # <<>>
    BY <1>3, <1>4
  <2> QED BY <1>1, <1>7, <1>9, <2>1, UnsentLengths DEF InMessage, Sending, Unsent, sendVars
<1>14. InMessage(c)'
  BY <1>7, <1>9, <1>10, <1>12, <1>13, <1>1, UnsentLengths DEF InMessage
<1>15. Framed'
  BY <1>1, <1>7, <1>14, UnsentLengths DEF Framed
<1>16. Refused'
  BY <1>1, <1>6, UnsentLengths DEF Refused, Unsent
<1> QED BY <1>15, <1>16

(* A chunk that was read to its end leaves nothing in the stream, and its  *)
(* client is through with it.                                              *)
LEMMA AllRead ==
  ASSUME StreamInv, sAt = "write"
  PROVE  /\ Available(chunk) \in 1 .. ChunkLen
         /\ wire = <<>>
         /\ link = "open" => requests = <<>> /\ AtRest
         /\ squeezed = compress /\ want = Available(chunk) /\ Len(body) = need
         /\ ~squeezed => need = want
         /\ Genuine
<1>1. Available(chunk) # 0
  BY DEF StreamInv, Refused
<1>2. PICK c \in Payloads : c \in Nat /\ c > 0 /\ InMessage(c)
  BY <1>1, Reading
<1>3. StreamTypeOK /\ Consumed = HeadLen + c
  BY <1>2 DEF StreamInv, InMessage, Understood, Consumed
<1>4. Len(wire) = 0 /\ Written = HeadLen + c
  BY <1>2, <1>3, WrittenTypes DEF InMessage
<1>5. wire = <<>>
  BY <1>3, <1>4, EmptySeq DEF StreamTypeOK
<1>6. link = "open" => requests = <<>> /\ AtRest
  <2> SUFFICES ASSUME link = "open" PROVE requests = <<>> /\ AtRest
    OBVIOUS
  <2>1. Sending(c) /\ sAt # "cmd"
    BY <1>2 DEF InMessage
  <2>2. cAt # "ended"
    BY DEF StreamInv, Gone
  <2>3. left \in Nat /\ HeadLen \in {3, 4} /\ cAt \in {"idle", "try", "flag", "pieces", "ended"}
    BY <1>3, StreamConstants, WrittenTypes DEF StreamTypeOK
  <2>4. requests = <<>> /\ cAt # "try" /\ cAt # "flag"
    BY <1>2, <1>4, <2>1, <2>3 DEF Sending
  <2>5. cAt = "pieces" => left = 0
    BY <1>2, <1>4, <2>1, <2>3 DEF Sending
  <2> QED BY <2>2, <2>3, <2>4, <2>5 DEF AtRest
<1>7. Genuine
  <2>1. \A i \in 1 .. Len(body) : body[i] = Unit(chunk)
    BY <1>2 DEF InMessage, Understood
  <2>2. Len(body) \in Nat /\ body = [i \in 1 .. Len(body) |-> body[i]]
    BY <1>3, LenProperties DEF StreamTypeOK
  <2> QED BY <2>1, <2>2 DEF Genuine, Units
<1> QED
  BY <1>1, <1>2, <1>5, <1>6, <1>7, Reading DEF StreamInv, Bounds, InMessage, Understood

LEMMA Writes ==
  ASSUME StreamInv, WriteChunk
  PROVE  Framed' /\ Refused' /\ StoredWhole'
<1>1. sAt = "write" /\ wire' = wire /\ requests' = requests /\ UNCHANGED sendVars
  BY DEF WriteChunk
<1>2. /\ Available(chunk) \in 1 .. ChunkLen /\ wire = <<>>
      /\ link = "open" => requests = <<>> /\ AtRest
  BY <1>1, AllRead
<1>3. (\A k : Available(k)' = Available(k)) /\ AtRest' = AtRest
  BY <1>1 DEF Available, AtRest, sendVars
<1>4. \A n \in ChunkData : n = Available(chunk)
  BY <1>1, AllRead DEF ChunkData, Decompressed
<1>5. StoredWhole'
  BY <1>3, <1>4 DEF WriteChunk, StoredWhole, StreamInv, StreamTypeOK
<1>6. Framed'
  BY <1>1, <1>2, <1>3 DEF Framed, WriteChunk
<1>7. Refused'
  <2>1. CASE chunk = LastChunk
    <3>1. chunk' = chunk /\ Available(chunk)' = Available(chunk)
      BY <1>3, <2>1 DEF WriteChunk
    <3> QED BY <1>2, <3>1 DEF Refused
  <2>2. CASE chunk # LastChunk
    <3>1. sAt' = "ask" /\ link' = link
      BY <2>2 DEF WriteChunk
    <3>2. <<>> \in Seq({chunk'}) /\ Len(<<>>) = 0
      OBVIOUS
    <3>3. wire' = <<>> /\ (link' = "open" => requests' = <<>> /\ AtRest')
      BY <1>1, <1>2, <1>3, <3>1
    <3>4. 1 .. Len(wire') = {}
      BY <3>2, <3>3
    <3> QED BY <3>1, <3>2, <3>3, <3>4 DEF Refused
  <2> QED BY <2>1, <2>2
<1> QED BY <1>5, <1>6, <1>7

(* A read or a write that fails: the next attempt, if any, begins with an  *)
(* empty stream.                                                           *)
LEMMA Fails ==
  ASSUME StreamInv, ReadFails \/ WriteFails
  PROVE  Framed' /\ Refused'
<1>1. /\ Unsent /\ wire' = wire /\ FailAttempt
      /\ sAt' \in {"ask", "failed"} /\ (link' = "open" => link = "open")
  BY DEF ReadFails, WriteFails, Unsent, FailAttempt
<1>2. wire = <<>> /\ (link = "open" => requests = <<>> /\ AtRest)
  BY AllRead DEF ReadFails, WriteFails
<1>3. Framed'
  BY <1>1, <1>2, UnsentLengths DEF Framed, Unsent
<1>4. Refused'
  BY <1>1, UnsentLengths DEF StreamInv, Refused, Unsent, sendVars
<1> QED BY <1>3, <1>4

-----------------------------------------------------------------------------
(* The theorems. *)

LEMMA Breaks ==
  ASSUME StreamInv, Break
  PROVE  StreamInv'
<1>1. Kept /\ UNCHANGED sendVars /\ wire' = <<>> /\ requests' = <<>> /\ link' = "broken" /\ link = "open"
  BY DEF Break, Kept, sendVars
<1>2. StreamTypeOK' /\ Bounds'
  <2>1. <<>> \in Seq(Tokens) /\ <<>> \in Seq(Chunks)
    OBVIOUS
  <2> QED BY <1>1, <2>1 DEF StreamInv, StreamTypeOK, Bounds, Kept, recvVars, sendVars
<1>3. \A c \in Payloads : c \in Nat /\ (InMessage(c) => InMessage(c)')
  <2> SUFFICES ASSUME NEW c \in Payloads, InMessage(c) PROVE InMessage(c)'
    BY StreamConstants DEF Payloads
  <2>1. Written' = Consumed /\ Consumed <= Written /\ Len(wire') = 0
    BY <1>1, KeptLengths, WrittenTypes DEF StreamInv, Written
  <2>2. Consumed <= HeadLen + c
    <3>1. c \in Nat
      BY StreamConstants DEF Payloads
    <3> QED BY <2>1, <3>1, WrittenTypes DEF InMessage, StreamInv
  <2> QED BY <1>1, <2>1, <2>2, KeptLengths DEF InMessage
<1>4. Framed'
  BY <1>1, <1>3, KeptLengths DEF StreamInv, Framed, Kept, recvVars
<1>5. Refused'
  BY <1>1, KeptLengths DEF StreamInv, Refused, Kept, recvVars
<1>6. Gone' /\ StoredWhole'
  BY <1>1, KeptLengths DEF StreamInv, Gone, Kept, recvVars, sendVars
<1> QED BY <1>2, <1>4, <1>5, <1>6 DEF StreamInv

LEMMA GoneKept ==
  ASSUME StreamInv, SenderStep \/ SendTimeout \/ ReceiverStep
  PROVE  Gone'
<1> USE DEF StreamInv, Gone, Leave, Flush, FailAttempt, sendVars, recvVars, pipeVars
<1>1. CASE TakeRequest \/ SendTimeout \/ GiveUp \/ TryFails \/ StopSending \/ ChunkSent \/ ServerGone
  BY <1>1 DEF TakeRequest, SendTimeout, GiveUp, TryFails, StopSending, ChunkSent, ServerGone
<1>2. CASE SendHeader
  BY <1>2 DEF SendHeader
<1>3. CASE SendFlag
  <2>1. (\E t : Flush(t, "pieces")) /\ sAt' = sAt
    BY <1>3 DEF SendFlag
  <2> QED BY <2>1
<1>4. CASE SendPiece
  BY <1>4 DEF SendPiece
<1>5. CASE AskChunk \/ ReadDataCmd \/ ReadFlag \/ ReadCompressedSize \/ ReadBody
  BY <1>5 DEF AskChunk, ReadDataCmd, ReadFlag, ReadCompressedSize, ReadBody
<1>6. CASE ReadSize \/ ReadUnexpected \/ ReadFails \/ WriteFails
  BY <1>6 DEF ReadSize, ReadUnexpected, ReadFails, WriteFails, Expected
<1>7. CASE WriteChunk
  BY <1>7 DEF WriteChunk
<1> QED BY <1>1, <1>2, <1>3, <1>4, <1>5, <1>6, <1>7 DEF SenderStep, ReceiverStep

LEMMA StoredKept ==
  ASSUME StreamInv, (SenderStep \/ SendTimeout) \/ (ReceiverStep /\ ~WriteChunk)
  PROVE  StoredWhole'
<1>1. UNCHANGED <<stored, fileLen>>
  BY DEF SenderStep, SendTimeout, ReceiverStep, TakeRequest, GiveUp, TryFails, StopSending,
         ChunkSent, ServerGone, SendHeader, SendFlag, SendPiece, AskChunk, ReadDataCmd, ReadSize,
         ReadFlag, ReadCompressedSize, ReadUnexpected, ReadBody, ReadFails, WriteFails,
         sendVars, recvVars
<1> QED BY <1>1 DEF StreamInv, StoredWhole, Available

LEMMA StreamInvInit == StreamInit => StreamInv
<1> SUFFICES ASSUME StreamInit PROVE StreamInv
  OBVIOUS
<1>1. StreamTypeOK /\ Bounds
  <2>1. <<>> \in Seq(Chunks) /\ <<>> \in Seq(Tokens)
    OBVIOUS
  <2>2. stored \in [Chunks -> Garbage .. ChunkLen]
    BY StreamConstants DEF StreamInit, Garbage, Missing
  <2>3. 0 \in Chunks /\ 0 \in 0 .. SendRetries /\ 0 \in 0 .. Retries - 1 /\ 0 \in 0 .. ChunkLen + 1
    BY StreamConstants DEF Chunks
  <2>4. Bounds
    BY StreamConstants DEF StreamInit, Bounds
  <2> QED BY <2>1, <2>2, <2>3, <2>4, StreamConstants DEF StreamInit, StreamTypeOK
<1>2. Framed /\ Gone /\ StoredWhole
  BY DEF StreamInit, Framed, Gone, StoredWhole, AtRest
<1>3. Refused
  <2>1. <<>> \in Seq({chunk}) /\ Len(<<>>) = 0
    OBVIOUS
  <2> QED BY <2>1 DEF StreamInit, Refused, AtRest
<1> QED BY <1>1, <1>2, <1>3 DEF StreamInv

LEMMA StreamInvStep == StreamInv /\ [StreamNext]_streamVars => StreamInv'
<1> SUFFICES ASSUME StreamInv, [StreamNext]_streamVars PROVE StreamInv'
  OBVIOUS
<1>1. CASE SenderStep \/ SendTimeout
  <2>1. StreamTypeOK' /\ Bounds'
    BY <1>1, SenderTypes DEF StreamInv
  <2>2. Framed' /\ Refused'
    BY <1>1, SendsHeader, SendsFlag, SendsPiece, ClientWaits DEF SenderStep
  <2> QED BY <1>1, <2>1, <2>2, GoneKept, StoredKept DEF StreamInv
<1>2. CASE ReceiverStep
  <2>1. StreamTypeOK' /\ Bounds'
    BY <1>2, ReceiverTypes DEF StreamInv
  <2>2. Framed' /\ Refused'
    BY <1>2, AsksChunk, ReadsOn, ReadsBody, Writes, Fails DEF ReceiverStep
  <2>3. StoredWhole'
    BY <1>2, Writes, StoredKept
  <2> QED BY <1>2, <2>1, <2>2, <2>3, GoneKept DEF StreamInv
<1>3. CASE Break
  BY <1>3, Breaks
<1>4. CASE UNCHANGED streamVars
  BY <1>4 DEF streamVars, sendVars, recvVars, pipeVars, StreamInv, StreamTypeOK, Bounds, Framed,
              Refused, Gone, StoredWhole, InMessage, Sending, Understood, Written, Consumed,
              HeadLen, Tok, Payloads, Available, AtRest
<1> QED BY <1>1, <1>2, <1>3, <1>4 DEF StreamNext

(* Types, and with them: the write size never leaves its bounds, so that   *)
(* every piece advances (client.go:555-582), and neither end tries a chunk *)
(* more often than it is allowed to.                                       *)
THEOREM StreamTypeCorrect == StreamSpec => []StreamTypeOK
<1>1. StreamInv => StreamTypeOK
  BY DEF StreamInv
<1> QED BY <1>1, StreamInvInit, StreamInvStep, PTL DEF StreamSpec

(* Whatever times out, fails or breaks, and however often either end tries *)
(* again: the server reads what the client wrote for what it is            *)
(* (client.go:404-447, server.go:386-524).                                 *)
THEOREM AlwaysInFrame == StreamSpec => []InFrame
<1>1. StreamInv => InFrame
  <2> SUFFICES ASSUME StreamInv, \A k \in Chunks : Available(k) > 0, wire # <<>>,
                      sAt \in {"cmd", "size", "flag", "csize", "body"}
               PROVE  CASE sAt = "cmd"   -> Head(wire) = DataCmd
                        [] sAt = "size"  -> Head(wire) = Token("size", Available(chunk))
                        [] sAt = "flag"  -> Head(wire).kind = "flag"
                        [] sAt = "csize" -> Head(wire).kind = "csize"
                        [] sAt = "body"  -> Head(wire) = Unit(chunk)
                        [] OTHER         -> TRUE
    BY DEF InFrame
  <2>1. Available(chunk) # 0 /\ StreamTypeOK
    BY DEF StreamInv, StreamTypeOK
  <2>2. PICK c \in Payloads : c \in Nat /\ InMessage(c) /\ Head(wire) = Tok(c, Consumed + 1)
    BY <2>1, Reading
  <2>3. sAt = "csize" => compress
    BY <2>2 DEF InMessage, Understood
  <2>4. sAt = "body" => Consumed + 1 \in Nat /\ Consumed + 1 > HeadLen
    <3>1. Len(body) \in Nat
      BY <2>1, LenProperties DEF StreamTypeOK
    <3> QED BY <2>1, <3>1, WrittenTypes DEF Consumed
  <2>5. sAt = "body" => Head(wire) = Unit(chunk)
    BY <2>2, <2>4 DEF Tok, HeadLen
  <2> QED BY <2>2, <2>3, <2>5 DEF Tok, Consumed, Token
<1> QED BY <1>1, StreamInvInit, StreamInvStep, PTL DEF StreamSpec

(* A chunk that is marked as received is in the file as the client read    *)
(* it, whole (server.go:374, 459-480).                                     *)
THEOREM OnlyWholeChunks == StreamSpec => []StoredWhole
<1>1. StreamInv => StoredWhole
  BY DEF StreamInv
<1> QED BY <1>1, StreamInvInit, StreamInvStep, PTL DEF StreamSpec
=============================================================================
