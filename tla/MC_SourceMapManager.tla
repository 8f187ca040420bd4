-------------------------- MODULE MC_SourceMapManager --------------------------
(* Two pages.  c1 keeps its id on both; c2 and c3 exchange theirs: the id that *)
(* c3 shares with c1 on the first page is the one c2 shares with c1 on the     *)
(* second.  The URLs of c4 resolve to something on the first page only.        *)
EXTENDS SourceMapManager, TLC

CONSTANTS c1, c2, c3, c4, i1, i2, p1, p2

MCClients == {c1, c2, c3, c4}
MCIds == {i1, i2}
MCPages == {p1, p2}
MCResolve == (c1 :> ((p1 :> i1) @@ (p2 :> i1)))
          @@ (c2 :> ((p1 :> i2) @@ (p2 :> i1)))
          @@ (c3 :> ((p1 :> i1) @@ (p2 :> i2)))
          @@ (c4 :> ((p1 :> i2) @@ (p2 :> NoId)))
================================================================================
