------------------------------- MODULE MCExport -------------------------------
(***************************************************************************)
(* A small instance of Export for TLC: an import with three images and two *)
(* skus, and one with one image and one sku that a run has done before and *)
(* that an analysis can select nothing from.  The attribute database has a *)
(* reference pid that contradicts a name, a category with a template of    *)
(* its own and one without, values in two parts, and one whose entry has   *)
(* no id although one of its parts has.                                    *)
(***************************************************************************)
EXTENDS Export

CONSTANTS i1, i2, s1, s2

MCImports == {i1, i2}
MCShops == {s1, s2}
MCFinished == {i2}
Symmetric == Permutations(MCShops)
MCGallery == [i \in MCImports |-> IF i = i1 THEN <<"u1", "u2", "u3">> ELSE <<"v1">>]
MCSkuCount == [i \in MCImports |-> IF i = i1 THEN 2 ELSE 1]

MCRefPid == [r \in {"r1"} |-> "p1"]
MCNamePid == [n \in {"material"} |-> "p2"]
MCPropPid == [n \in {"material", "style"} |-> IF n = "style" THEN "p3" ELSE "p2"]
MCPropTemplate == [n \in {"material", "style"} |-> IF n = "style" THEN "f3" ELSE "f2"]
MCTemplate == [k \in {<<"nails", "p1">>, <<"forks", "p2">>} |->
                 IF k[2] = "p1" THEN "f1" ELSE "g2"]
MCDefaultTemplate == [p \in {"p1", "p2", "p3"} |->
                        CASE p = "p1" -> "g1" [] p = "p2" -> "f2" [] p = "p3" -> "f3"]
MCValueVid == [k \in {<<"p1", <<"wood", "steel">>>>, <<"p1", <<"steel">>>>,
                      <<"p2", <<"steel", "wood">>>>, <<"p2", <<"wood">>>>} |->
                 CASE k = <<"p1", <<"steel">>>> -> "v1" [] k = <<"p2", <<"wood">>>> -> "v2"
                   [] k = <<"p2", <<"steel", "wood">>>> -> "v3" [] OTHER -> NoId]
MCExcluded == {"origin"}

Collected(name, ref, value, v) ==
  [propName |-> name, refPid |-> ref, pid |-> NoId, templatePid |-> NoId,
   vid |-> v, propValue |-> value]
MCProps == [i \in MCImports |->
  IF i = i1
  THEN <<Collected("origin", NoId, <<"x">>, NoId),
         Collected("material", "r1", <<"wood", "steel">>, NoId),
         Collected("lining", "r1", <<"wool", "steel">>, NoId),
         Collected("colour", NoId, <<"red">>, NoId)>>
  ELSE <<Collected("material", NoId, <<"steel", "wood">>, NoId),
         Collected("style", "r9", <<"plain">>, "v9")>>]
MCCategory == [i \in MCImports |-> IF i = i1 THEN "nails" ELSE "forks"]
=============================================================================
