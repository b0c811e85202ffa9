---------------------------- MODULE MCTaskQueue ----------------------------
(***************************************************************************)
(* Small instances of TaskQueue for TLC.                                   *)
(***************************************************************************)
EXTENDS TaskQueueRun, SequencesExt

CONSTANTS u1, u2, i1, i2, i3

\* i1 and i2 belong to u1, and i3 to u2.
OwnerOf == [i \in Imports |-> IF i = i3 THEN u2 ELSE u1]

\* LRem agrees with the library's filter on every list of up to four entries.
ASSUME LRemIsFilter ==
  \A list \in BoundedSeq(Imports, 4) : \A e \in Imports :
    LRem(list, e) = SelectSeq(list, LAMBDA x : x # e)
=============================================================================
