------------------------------ MODULE SignedPlans ------------------------------
(***************************************************************************)
(* What the execution account promises about each frozen plan, without     *)
(* prices, cash, inventory, sessions and checkpoints: the reference        *)
(* account executes the whole plan once, before any actual share of it;    *)
(* the actual account fills it in pieces that never exceed it; what is     *)
(* left expires at once or stays due, and nothing else happens to it.      *)
(***************************************************************************)
EXTENDS Integers

CONSTANTS Plan,      \* frozen plans
          MaxQuantity

VARIABLES quantity,  \* [Plan -> shares requested, without the side]
          executed,  \* plans the reference account has executed
          filled,    \* [Plan -> shares the actual account has filled]
          expired    \* [Plan -> shares that will not be filled any more]

vars == <<quantity, executed, filled, expired>>

Due(p) == quantity[p] - filled[p] - expired[p]

Init ==
  /\ quantity \in [Plan -> 1..MaxQuantity]
  /\ executed = {}
  /\ filled = [p \in Plan |-> 0]
  /\ expired = [p \in Plan |-> 0]

(* One order: the reference leg the first time, then the actual one. *)
Order(p, shares) ==
  /\ Due(p) > 0
  /\ shares \in 0..Due(p)
  /\ executed' = executed \union {p}
  /\ filled' = [filled EXCEPT ![p] = @ + shares]
  /\ expired' \in {expired, [expired EXCEPT ![p] = Due(p) - shares]}
  /\ UNCHANGED quantity

Next == \E p \in Plan, shares \in 0..MaxQuantity : Order(p, shares)

Spec == Init /\ [][Next]_vars
=============================================================================
