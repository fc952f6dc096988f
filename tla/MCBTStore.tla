------------------------------ MODULE MCBTStore ------------------------------
(* Small instances of BTStore: tables, evaluations, publishers and         *)
(* encodings are interchangeable model values.                             *)
EXTENDS BTStore, TLC

Symmetry ==
  Permutations(Table) \union Permutations(Evaluation)
    \union Permutations(Publisher) \union Permutations(Encoding)
=============================================================================
