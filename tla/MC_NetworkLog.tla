---------------------------- MODULE MC_NetworkLog ----------------------------
(* The document d is redirected, the responses to it may have the URL of its   *)
(* second hop, and it may move from the main target to another; the load s     *)
(* shares the main target and that URL, and may belong to the document.        *)
EXTENDS NetworkLog, TLC

CONSTANTS d, s, m1, m2, u1, u2

MCUrlOf == (d :> <<u1, u2>>) @@ (s :> <<u2>>)
MCOriginsOf == (d :> {m1}) @@ (s :> {m1})
MCRewritten == (d :> {u2}) @@ (s :> {})
================================================================================
