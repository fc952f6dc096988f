-------------------------------- MODULE MCAlpha --------------------------------
(***************************************************************************)
(* The instance of AlphaContinuation: two return windows, one of them      *)
(* starting later than it could, lags of every sign, one session without   *)
(* a Book, and the component selections that share a family.               *)
(***************************************************************************)
EXTENDS AlphaContinuation

MCReturnWindows == {[start |-> 1, end |-> 1], [start |-> 2, end |-> 3]}

MCLeadLags == {-1, 0, 1}

MCSelections == {{"horizons", "rolling_ic"},
                 {"book_tail", "lead_lag", "alpha_return", "persistence"},
                 Components}
=============================================================================
