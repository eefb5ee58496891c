------------------------------ MODULE Traversal ------------------------------
(***************************************************************************)
(* What a crawl is for, without frontier, batches, limits or failures:     *)
(* starting from some pages, follow links to pages, visit each of those    *)
(* that were found and are allowed at most once, and then stop.            *)
(***************************************************************************)
EXTENDS Naturals

CONSTANTS
    Pages,
    Roots,      \* the pages to start from
    Links,      \* Links[p]: the pages p links to
    Allowed     \* the pages that may be visited

VARIABLES
    found,      \* the pages heard of
    visits,     \* visits[p]: how often p was visited
    over        \* the traversal has come to its end

Init ==
    /\ found = {}
    /\ visits = [p \in Pages |-> 0]
    /\ over = FALSE

Begin ==
    /\ ~over /\ found = {}
    /\ found' = Roots
    /\ UNCHANGED <<visits, over>>

Visit(p) ==
    /\ ~over /\ p \in found \intersect Allowed
    /\ visits[p] = 0
    /\ visits' = [visits EXCEPT ![p] = 1]
    /\ UNCHANGED <<found, over>>

(* The links of a page are known once it was visited. *)
Follow(p) ==
    /\ ~over /\ visits[p] = 1
    /\ found' = found \union Links[p]
    /\ UNCHANGED <<visits, over>>

(* It may stop before it has visited all it found, but not go on then. *)
Stop ==
    /\ ~over
    /\ over' = TRUE
    /\ UNCHANGED <<found, visits>>

Next == Begin \/ Stop \/ \E p \in Pages : Visit(p) \/ Follow(p)

Spec == Init /\ [][Next]_<<found, visits, over>>
=============================================================================
