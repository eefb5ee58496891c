------------------------------ MODULE MCAccounts ------------------------------
(***************************************************************************)
(* Two users and one who would take the first one's name; five requests,   *)
(* two at a time.                                                          *)
(***************************************************************************)
EXTENDS AccountsProps, TLC

CONSTANTS p1, p2, alice, bob, alice2

Same == {<<u, u>> : u \in {alice, bob, alice2}} \union {<<alice, alice2>>, <<alice2, alice>>}
Twins == Permutations({p1, p2})
=============================================================================
