----------------------------- MODULE MCKnowledge -----------------------------
(***************************************************************************)
(* A server process with two requests at a time and a Celery worker, two   *)
(* organizations that crawl one page, which changes once, and one file of  *)
(* two chunks.                                                             *)
(***************************************************************************)
EXTENDS KnowledgeProps, TLC

CONSTANTS web, worker, w1, a1, a2, page, file, shop, other

MCProcs == {web, worker}
MCSlots == {w1, a1, a2}
MCHost  == w1 :> worker @@ a1 :> web @@ a2 :> web
MCOwner == file :> shop
MCHtml  == page :> [v \in Versions |-> v]
=============================================================================
