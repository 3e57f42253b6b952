--------------------------- MODULE MCFileTransfer ---------------------------
(***************************************************************************)
(* Small instances of FileTransfer for TLC.                                *)
(***************************************************************************)
EXTENDS FileTransfer

CONSTANTS s1, s2, s3  \* the sessions the instances name

Agree == [s \in Sessions |-> TRUE]

(* Every session sends the same file, MaxSize cells long. *)
SameSize == [s \in Sessions |-> MaxSize]
SameFile == [s \in Sessions |-> [p \in Pos |-> p + 1]]

(* Somebody edits the source between the runs of s1 and the others, ...    *)
EditedFile == [s \in Sessions |-> [p \in Pos |-> IF s = s1 THEN p + 1 ELSE p + 11]]

(* ... and leaves nothing of it for s3. *)
EmptiedFile == [s \in Sessions |-> IF s = s3 THEN 0 ELSE MaxSize]

(* A shorter file of the same name is sent in between. *)
OtherBetween     == [s \in Sessions |-> IF s = s2 THEN MaxSize - 1 ELSE MaxSize]
OtherFileBetween == [s \in Sessions |-> [p \in Pos |-> IF s = s2 THEN p + 11 ELSE p + 1]]

(* The sessions of an instance are alike, so what holds of one of them,    *)
(* whichever turn it gets, holds of all: with faults over, the client that *)
(* connects delivers its file (server.go:171-187, 341-381), whatever the   *)
(* others, which may come before or after it, left in the output directory.*)
LastDelivers == DeliversWhenQuiet(s3)
=============================================================================
