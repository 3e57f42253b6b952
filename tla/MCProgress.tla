----------------------------- MODULE MCProgress -----------------------------
(***************************************************************************)
(* Small instances of Progress for TLC.                                    *)
(***************************************************************************)
EXTENDS Progress

CONSTANTS s1, s2  \* the sessions the instances name

SameSize == [s \in Sessions |-> MaxSize]
SameFile == [s \in Sessions |-> [p \in Pos |-> p + 1]]

Agree     == [s \in Sessions |-> TRUE]
FirstOnly == [s \in Sessions |-> s = s1]
=============================================================================
