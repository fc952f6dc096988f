--------------------------- MODULE ReceiptAuthority ---------------------------
(***************************************************************************)
(* What BTStore promises about committed chapters, without its files,      *)
(* transactions, plans and crashes: a chapter is committed once, complete, *)
(* and never changes; the tables it names stay readable until it is        *)
(* retired; only tables that no committed chapter names are discarded.     *)
(***************************************************************************)
CONSTANTS Table,       \* logical tables (canonical content digests)
          Evaluation,  \* evaluations, each with one chapter
          NoChapter    \* the evaluation has no committed chapter

VARIABLES stored,      \* tables whose numerical file is readable
          committed    \* [Evaluation -> the set of tables of its chapter]

vars == <<stored, committed>>

Unchaptered == [e \in Evaluation |-> NoChapter]

(* Tables that some committed chapter of es names. *)
Named(es) ==
  {t \in Table : \E e \in es : committed[e] # NoChapter /\ t \in committed[e]}

Init == stored \in SUBSET Table /\ committed = Unchaptered

Store(t) == stored' = stored \union {t} /\ UNCHANGED committed

Discard(t) ==
  /\ t \notin Named(Evaluation)
  /\ stored' = stored \ {t}
  /\ UNCHANGED committed

Commit(e, tables) ==
  /\ committed[e] = NoChapter
  /\ tables \subseteq stored
  /\ committed' = [committed EXCEPT ![e] = tables]
  /\ UNCHANGED stored

Retire(es) ==
  /\ committed' = [e \in Evaluation |-> IF e \in es THEN NoChapter ELSE committed[e]]
  /\ UNCHANGED stored

Next ==
  \/ \E t \in Table : Store(t) \/ Discard(t)
  \/ \E e \in Evaluation, tables \in SUBSET Table : Commit(e, tables)
  \/ \E es \in SUBSET Evaluation : Retire(es)

Spec == Init /\ [][Next]_vars

=============================================================================
