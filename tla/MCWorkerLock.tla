---------------------------- MODULE MCWorkerLock ----------------------------
(***************************************************************************)
(* Small instances of WorkerLock for TLC.                                  *)
(***************************************************************************)
EXTENDS WorkerLock

CONSTANTS p1, p2, p3, n1, n2, n3

MCProcesses == {p1, p2, p3}
MCInodes == {n1, n2, n3}
=============================================================================
