------------------------- MODULE MC_PageResourceLoader -------------------------
(* Four loads, the first two of one resource. *)
EXTENDS PageResourceLoader, TLC

CONSTANTS l1, l2, l3, l4, k1, k2

MCLoads == {l1, l2, l3, l4}
MCKeys == {k1, k2}
MCKeyOf == (l1 :> k1) @@ (l2 :> k1) @@ (l3 :> k2) @@ (l4 :> k2)
================================================================================
