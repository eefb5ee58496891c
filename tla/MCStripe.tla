------------------------------ MODULE MCStripe ------------------------------
(***************************************************************************)
(* One organization that may subscribe twice, two plans with a price and   *)
(* one without, two webhook workers, one API call, and enough events for a *)
(* checkout followed by a failed renewal and a cancellation or a second    *)
(* checkout.                                                               *)
(***************************************************************************)
EXTENDS StripeProps, TLC

CONSTANTS w1, w2, s1, s2, growth, pro, seeded

MCWorkers == {w1, w2}
MCSubs    == {s1, s2}
MCPriced  == {growth, pro}
MCPlans   == MCPriced \union {seeded}
Symmetry  == Permutations(MCWorkers) \union Permutations(MCSubs) \union Permutations(MCPriced)
=============================================================================
