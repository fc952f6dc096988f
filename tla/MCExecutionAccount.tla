-------------------------- MODULE MCExecutionAccount --------------------------
(* Small instances of ExecutionAccount. *)
EXTENDS ExecutionAccount

(* One share for two on record at the close of session 1, and 1 in cash. *)
OneForTwo ==
  <<[asset |-> 1, record |-> 1, ex |-> 2, pay |-> 3, list |-> 3, cash |-> 1,
     stock |-> Float(1, 2)]>>

NoActions == <<>>

(* Eight shares for five: a ratio that a float only approximates. *)
EightForFive ==
  <<[asset |-> 1, record |-> 1, ex |-> 2, pay |-> 2, list |-> 2, cash |-> 0,
     stock |-> Float(8, 5)]>>

ThreeAndSix ==
  {o \in Order : o.buy /\ o.quantity \in {3, 6} /\ o.date = 1 /\ o.reference = None}

(* Purchases on sessions 1 and 2, one of them with a reference price, and *)
(* sales on 2 and 3; what settles in two sessions is sold before it does.  *)
BuyThenSell ==
  {o \in Order : /\ o.date \in IF o.buy THEN {1, 2} ELSE {2, 3}
                 /\ o.quantity = 2 \/ (o.buy /\ o.reference = None)
                 /\ o.buy \/ o.reference = None}
=============================================================================
