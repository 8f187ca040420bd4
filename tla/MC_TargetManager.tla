---------------------------- MODULE MC_TargetManager ----------------------------
(* A frame and a worker; the worker has no DOM.  The classes: one that every   *)
(* target starts with, and one that is created when somebody asks for it.      *)
EXTENDS TargetManager, TLC

CONSTANTS frame, worker, js, dom, o1, o2, n1

MCTargets == {frame, worker}
MCModels == {js, dom}
MCSupports == (frame :> {js, dom}) @@ (worker :> {js})
MCAutostart == {js}
MCObservers == {o1, o2}
MCListeners == {n1}
MCClassOf == (o1 :> dom) @@ (o2 :> dom) @@ (n1 :> dom)
================================================================================
