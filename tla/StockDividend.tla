----------------------------- MODULE StockDividend -----------------------------
(***************************************************************************)
(* How a stock dividend is divided among the plans that held the shares.   *)
(*                                                                         *)
(* The account posts int(position * ratio) shares; each originating plan   *)
(* gets the floor of its own product and the plans with the largest        *)
(* fractions share what is left.  Products are binary floating point: an   *)
(* operand is mantissa / 2^scale and a product is rounded to Precision     *)
(* bits, to nearest, ties to even.  Python's floats have 53 bits; a small  *)
(* Precision shows the same roundings on small share counts.               *)
(***************************************************************************)
EXTENDS Integers, FiniteSets, FiniteSetsExt

CONSTANTS
  Plan,      \* plan identifiers, numbered in the order of their text
  Precision  \* bits of a float's mantissa

ASSUME StockDividendAssumption ==
  /\ Plan \subseteq Nat /\ IsFiniteSet(Plan)
  /\ Precision \in Nat \ {0}

(* n / d rounded to an integer. *)
RoundNearest(n, d) ==
  LET quotient == n \div d
      twice == 2 * (n % d)
  IN IF twice > d \/ (twice = d /\ quotient % 2 = 1) THEN quotient + 1 ELSE quotient

(* The float nearest to n / d, for ratios of at least 2^-Precision. *)
Float(n, d) ==
  LET scale == Min({k \in 0..2 * Precision : n * 2^k >= d * 2^(Precision - 1)})
  IN [mantissa |-> RoundNearest(n * 2^scale, d), scale |-> scale]

(* The bits of n that a mantissa has no room for. *)
Excess(n) ==
  CHOOSE k \in 0..n : n < 2^(Precision + k) /\ (k = 0 \/ 2^(Precision + k - 1) <= n)

(* quantity * ratio, in units of 2^-scale. *)
Product(quantity, ratio) ==
  LET exact == quantity * ratio.mantissa
  IN RoundNearest(exact, 2^Excess(exact)) * 2^Excess(exact)

WholeShares(quantity, ratio) == Product(quantity, ratio) \div 2^ratio.scale
Fraction(quantity, ratio) == Product(quantity, ratio) % 2^ratio.scale

Total(shares) == SumFunction(shares)
Floors(shares, ratio) == [p \in DOMAIN shares |-> WholeShares(shares[p], ratio)]

(* Mutant: the fractions are lost. *)
NoRemainder(shares, ratio) == 0

Remainder(shares, ratio) ==
  WholeShares(Total(shares), ratio) - Total(Floors(shares, ratio))

(* ordered[:remainder]: a negative bound counts from the end. *)
SliceLength(length, bound) == IF bound >= 0 THEN bound ELSE length + bound

(* Whole shares per plan; shares holds the plans with shares on record. *)
Allocation(shares, ratio) ==
  LET held == {p \in Plan : shares[p] > 0}
      ahead(p) == {q \in held :
                     LET mine == Fraction(shares[p], ratio)
                         other == Fraction(shares[q], ratio)
                     IN other > mine \/ (other = mine /\ q < p)}
      slice == SliceLength(Cardinality(held), Remainder(shares, ratio))
  IN [p \in Plan |->
        IF p \notin held THEN 0
        ELSE WholeShares(shares[p], ratio)
             + (IF Cardinality(ahead(p)) < slice THEN 1 ELSE 0)]
=============================================================================
