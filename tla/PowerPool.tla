------------------------------ MODULE PowerPool ------------------------------
(***************************************************************************)
(* What the site arbitrator promises about any power it hands out (its     *)
(* docstring: "allocatable only once during this decision; it is not a     *)
(* per-load allowance"): a pool that every load may draw from once, in any *)
(* order, and that never goes below empty.                                 *)
(***************************************************************************)
EXTENDS Integers

CONSTANTS Loads, None

VARIABLES
    free,    \* what is left in the pool
    share    \* what each load drew; None until it is answered

vars == <<free, share>>

Init == free \in Nat /\ share = [l \in Loads |-> None]

Draw(l) ==
    /\ share[l] = None
    /\ \E w \in 0..free :
          /\ free' = free - w
          /\ share' = [share EXCEPT ![l] = w]

Next == \E l \in Loads : Draw(l)

Safety == Init /\ [][Next]_vars

Spec == Safety /\ WF_vars(Next)
=============================================================================
