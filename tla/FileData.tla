------------------------------ MODULE FileData ------------------------------
(***************************************************************************)
(* The data one transfer is about: the source file of every client run     *)
(* ("session"), the content of files on the receiver's disk, and the chunk *)
(* arithmetic that server.go and client.go both use.                       *)
(*                                                                         *)
(* A file is a function from positions ("cells", one abstract block of     *)
(* bytes each) to integers.  A source cell is a natural number, a cell the *)
(* receiver allocated without writing it reads as Hole (zeros), a cell     *)
(* past the end of the file is Eof, and Garbage stands for bytes that      *)
(* were never file data (a mis-framed stream written to the file).         *)
(***************************************************************************)
EXTENDS Integers

CONSTANTS
  Sessions,    \* client runs; each one dials the server at most once
  MaxSize,     \* bound: no file is longer than MaxSize cells
  FileSize,    \* FileSize[s]: length in cells of the file session s sends
  FileCells    \* FileCells[s][p]: cell p of that file

Hole    == 0
Eof     == -1
Garbage == -2

Pos     == 0 .. (MaxSize - 1)
Content == [Pos -> Int]

ASSUME SizeAssumption  == MaxSize \in Nat
ASSUME FilesAssumption ==
  /\ FileSize  \in [Sessions -> 0 .. MaxSize]
  /\ FileCells \in [Sessions -> [Pos -> Nat]]

(* The file of session s as the client reads it. *)
Source(s) == [p \in Pos |-> IF p < FileSize[s] THEN FileCells[s][p] ELSE Eof]

(* os.Create: an existing file is truncated to nothing. *)
Empty == [p \in Pos |-> Eof]

Least(a, b) == IF a < b THEN a ELSE b

(* Mutant: the last, shorter chunk is not counted. *)
NumWholeChunks(size, cs) == size \div cs

(* Number of chunks of size cs in a file of the given size: a ceiling.     *)
NumChunks(size, cs) == (size + cs - 1) \div cs

(* The cells of chunk k, for chunk size cs. *)
ChunkOffset(k, cs) == k * cs

(* What file.ReadAt(buffer, off) returns for a buffer of cs cells: a full  *)
(* buffer, or less at the end of the file.                                 *)
ReadLength(size, off, cs) == Least(cs, size - off)

(* file.Truncate(size): drop what is beyond, extend with zeros. *)
TruncateTo(c, size) ==
  [p \in Pos |-> IF p >= size THEN Eof ELSE IF c[p] = Eof THEN Hole ELSE c[p]]

(* file.WriteAt(data, off), where data are the n cells of src from cell    *)
(* "from" on; a gap between the old end of the file and off reads as zeros.*)
WriteAt(c, off, n, src, from) ==
  [p \in Pos |-> IF p >= off /\ p < off + n
                   THEN LET q == from + (p - off)
                        IN  IF q \in Pos THEN src[q] ELSE Garbage
                 ELSE IF n > 0 /\ c[p] = Eof /\ p < off THEN Hole
                 ELSE c[p]]
=============================================================================
