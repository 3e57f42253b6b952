------------------------------- MODULE Store --------------------------------
(***************************************************************************)
(* The receiver's output directory, for one base file name: the directory  *)
(* entry of the output file, the contents behind open files, and the       *)
(* resume state <name>.justdatacopier.state of filesystem.go.  All         *)
(* sessions send a file of the same base name: different names share       *)
(* nothing on disk.                                                        *)
(*                                                                         *)
(* A file outlives its directory entry as long as a session has it open,   *)
(* so contents are kept per file ("inode"), named after the session that   *)
(* created it: one session creates at most one.                            *)
(***************************************************************************)
EXTENDS FileData

CONSTANT NoFile

ASSUME NoFileAssumption == NoFile \notin Sessions

VARIABLES
  outFile,     \* the file the output path names, or NoFile
  data,        \* data[i]: content of file i
  stateFile    \* the resume state on disk

diskVars == <<outFile, data, stateFile>>

(* "torn" is a state file json.Unmarshal rejects: os.WriteFile truncates   *)
(* before it writes.                                                       *)
StateRecord(kind, size, chunk, recv) ==
  [kind |-> kind, size |-> size, chunk |-> chunk, recv |-> recv]

NoState   == StateRecord("absent", 0, 0, {})
TornState == StateRecord("torn", 0, 0, {})

StoreTypeOK ==
  /\ outFile \in Sessions \cup {NoFile}
  /\ data \in [Sessions -> Content]
  /\ stateFile \in [kind : {"absent", "torn", "saved"},
                    size : Nat, chunk : Nat, recv : SUBSET Int]

StoreInit ==
  /\ outFile = NoFile
  /\ data = [i \in Sessions |-> Empty]
  /\ stateFile = NoState

(* os.Create(path) by session s: truncate the file that is there, or make  *)
(* a new one.                                                              *)
CreatedFile(s) == IF outFile = NoFile THEN s ELSE outFile

CreateOutput(s) ==
  /\ outFile' = CreatedFile(s)
  /\ data' = [data EXCEPT ![CreatedFile(s)] = Empty]

RemoveOutput        == outFile' = NoFile
RemoveTransferState == stateFile' = NoState

(* The output path names a file that is, cell for cell, what s sends. *)
OutputIs(s) == outFile # NoFile /\ data[outFile] = Source(s)
=============================================================================
