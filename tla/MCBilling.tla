----------------------------- MODULE MCBilling -----------------------------
(***************************************************************************)
(* Small instances of Billing for TLC.                                     *)
(***************************************************************************)
EXTENDS Billing, TLC

CONSTANTS i1, i2

OneModule == {{"llm"}, {"image_gen"}}
AllModules == {Modules}
EitherOrBoth == {{}, {"llm"}, Modules}
MCImports == {i1, i2}
ImportSymmetry == Permutations(MCImports)
=============================================================================
