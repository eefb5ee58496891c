------------------------------- MODULE MCChat -------------------------------
(***************************************************************************)
(* Two requests in service, one agent, and a query of every kind the       *)
(* pipeline tells apart: small talk with something in it that governance   *)
(* would block, a plain question and a near-identical one that governance  *)
(* blocks, and a contextual reasoning question that may be escalated.      *)
(***************************************************************************)
EXTENDS ChatProps, TLC

CONSTANTS o1, a1, s1, s2, greet, ask, jailbreak, compare

MCOrgs    == {o1}
MCAgents  == {a1}
MCSlots   == {s1, s2}
MCQueries == {greet, ask, jailbreak, compare}
MCOrgOf   == a1 :> o1
MCPath    == [q \in MCQueries |-> CASE q = greet -> "fast" [] q = compare -> "contextual"
                                    [] OTHER -> "plain"]
MCAllowed == [q \in MCQueries |-> q \notin {jailbreak, greet}]
MCRisks   == greet :> {"low"} @@ ask :> {"high"} @@ jailbreak :> {"low"}
             @@ compare :> {"low", "escalate"}
MCText    == [q \in MCQueries |-> IF q = jailbreak THEN ask ELSE q]
Symmetry  == Permutations(MCSlots)
=============================================================================
