------------------------------ MODULE MCMetering ------------------------------
(***************************************************************************)
(* A chat that opens a conversation and an embedding, both of which add    *)
(* tokens, race to create and to update the rows of one organization, and  *)
(* a voice call those of another; the dashboard lists one of them.         *)
(***************************************************************************)
EXTENDS MeteringProps, TLC

CONSTANTS o1, o2, c1, c2, c3

MCOrgs   == {o1, o2}
MCCalls  == {c1, c2, c3}
MCOrgOf  == c1 :> o1 @@ c2 :> o1 @@ c3 :> o2
MCKindOf == c1 :> "chat" @@ c2 :> "embedding" @@ c3 :> "voice"
MCTokens == c1 :> 1 @@ c2 :> 2 @@ c3 :> 1
MCNew    == {c1}
=============================================================================
