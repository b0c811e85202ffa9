--------------------------- MODULE MCRegistration ---------------------------
(***************************************************************************)
(* A small instance of Registration for TLC: one code on two lines, one on *)
(* one, and as many connections as threads.                                *)
(***************************************************************************)
EXTENDS Registration

CONSTANTS t1, t2, a1, a2, c1, c2, g1, g2

MCThreads == {t1, t2}
MCAccounts == {a1, a2}
MCCodes == {c1, c2}
MCInitialCodes == [c \in MCCodes |-> IF c = c1 THEN 2 ELSE 1]
MCGroups == {g1, g2}
=============================================================================
