----------------------------- MODULE MCAccounts -----------------------------
(***************************************************************************)
(* A small instance of Accounts with its Reports for TLC.                  *)
(***************************************************************************)
EXTENDS Reports, TLC

CONSTANTS u1, u2, u3, a1, a2, e1, c1, c2, d1, d2, i1, i2

MCUsers == {u1, u2, u3}
MCPhones == {a1, a2}
MCEnterprises == {e1}
MCClients == {c1, c2}
MCAdmins == {d1, d2}
MCImports == {i1, i2}
Symmetric ==
  Permutations(MCUsers) \cup Permutations(MCPhones) \cup Permutations(MCClients)
    \cup Permutations(MCAdmins) \cup Permutations(MCImports)
=============================================================================
