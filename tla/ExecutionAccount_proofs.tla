----------------------- MODULE ExecutionAccount_proofs -----------------------
(***************************************************************************)
(* Proofs about ExecutionAccount, for any assets, prices, plans, corporate *)
(* actions, settlement rule, cost rule and number of sessions.             *)
(***************************************************************************)
EXTENDS ExecutionAccount, FiniteLemmas

-----------------------------------------------------------------------------
(* Stock dividends: a rounded product is a whole number of shares.          *)

LEMMA ExcessType ==
  ASSUME NEW n \in Nat
  PROVE  /\ Excess(n) \in Nat
         /\ Excess(n) = 0 \/ 2^(Precision + Excess(n) - 1) <= n
<1> DEFINE D == {k \in 0 .. n : n < 2^(Precision + k)}
<1>1. n \in D
  <2>1. n + Precision \in Nat /\ n <= Precision + n /\ Precision + n \in Nat
    BY StockDividendAssumption
  <2>2. 2^(Precision + n) \in Nat /\ Precision + n < 2^(Precision + n)
    BY <2>1, PowerOfTwo
  <2> QED
    BY <2>1, <2>2
<1>2. D \subseteq Int /\ IsFiniteSet(D) /\ D # {}
  <2>1. IsFiniteSet(0 .. n) /\ D \subseteq 0 .. n
    BY FS_Interval
  <2> QED
    BY <1>1, <2>1, FS_Subset
<1> DEFINE k == Min(D)
<1>3. k \in D /\ \A j \in D : k <= j
  <2> HIDE DEF D
  <2> QED
    BY <1>2, MinMember
<1>4. k = 0 \/ 2^(Precision + k - 1) <= n
  <2> SUFFICES ASSUME k # 0 PROVE 2^(Precision + k - 1) <= n
    OBVIOUS
  <2>1. k - 1 \in 0 .. n /\ k - 1 \notin D /\ Precision + k - 1 \in Nat
        /\ Precision + (k - 1) = Precision + k - 1
    BY <1>3, StockDividendAssumption
  <2>2. 2^(Precision + k - 1) \in Nat
    BY <2>1, PowerOfTwo
  <2> QED
    BY <2>1, <2>2
<1> HIDE DEF k
<1>5. \E j \in 0 .. n : n < 2^(Precision + j) /\ (j = 0 \/ 2^(Precision + j - 1) <= n)
  BY <1>3, <1>4
<1>6. /\ Excess(n) \in 0 .. n
      /\ Excess(n) = 0 \/ 2^(Precision + Excess(n) - 1) <= n
  BY <1>5 DEF Excess
<1> QED
  BY <1>6

LEMMA WholeSharesType ==
  ASSUME NEW quantity \in Nat, NEW ratio \in [mantissa : Nat, scale : Nat]
  PROVE  WholeShares(quantity, ratio) \in Nat
<1> DEFINE exact == quantity * ratio.mantissa
           unit == 2^Excess(exact)
<1>1. exact \in Nat
  OBVIOUS
<1>2. unit \in Nat \ {0}
  BY <1>1, ExcessType, PowerOfTwo
<1>3. RoundNearest(exact, unit) \in Nat
  <2> HIDE DEF exact, unit
  <2>1. exact \div unit \in Nat
    BY <1>1, <1>2
  <2> QED
    BY <2>1 DEF RoundNearest
<1>4. Product(quantity, ratio) \in Nat
  <2> HIDE DEF exact, unit
  <2>1. RoundNearest(exact, unit) * unit \in Nat
    BY <1>2, <1>3
  <2> QED
    BY <2>1 DEF Product, exact, unit
<1>5. 2^ratio.scale \in Nat \ {0}
  BY PowerOfTwo
<1> QED
  BY <1>4, <1>5 DEF WholeShares

-----------------------------------------------------------------------------
(* Sums over the assets, sessions and actions.                              *)

LEMMA Finite ==
  /\ IsFiniteSet(Plan) /\ IsFiniteSet(Asset) /\ IsFiniteSet(Action) /\ IsFiniteSet(Session)
  /\ \A T : T \subseteq Session \/ T \subseteq Action \/ T \subseteq Plan => IsFiniteSet(T)
<1>1. IsFiniteSet(Plan) /\ IsFiniteSet(Asset)
  BY StockDividendAssumption, ExecutionAccountAssumption
<1>2. IsFiniteSet(Action) /\ IsFiniteSet(Session)
  <2>1. Action = 1 .. Len(Actions) /\ Len(Actions) \in Nat
    BY ExecutionAccountAssumption DEF Action
  <2> QED
    BY <2>1, FS_Interval, ExecutionAccountAssumption DEF Session
<1> QED
  BY <1>1, <1>2, FS_Subset

LEMMA SumNat ==
  ASSUME NEW T, IsFiniteSet(T), NEW f \in [T -> Nat]
  PROVE  /\ Sum(f) \in Nat
         /\ \A x \in T : f[x] <= Sum(f)
  BY SumOnNat DEF Sum, SumFunction

LEMMA SumZero ==
  ASSUME NEW T, IsFiniteSet(T)
  PROVE  Sum([x \in T |-> 0]) = 0
<1> DEFINE f == [x \in T |-> 0]
<1>1. DOMAIN f = T /\ \A x \in T : f[x] = 0
  OBVIOUS
<1> HIDE DEF f
<1> QED
  BY <1>1, SumOnZero DEF Sum, SumFunction, f

\* What some of the terms give, and what the others do.
LEMMA SumSplit ==
  ASSUME NEW T, IsFiniteSet(T), NEW f \in [T -> Int], NEW U \in SUBSET T
  PROVE  Sum(f) = Sum([x \in U |-> f[x]]) + Sum([x \in T |-> IF x \in U THEN 0 ELSE f[x]])
<1> DEFINE part == [x \in U |-> f[x]]
           inside == [x \in T |-> IF x \in U THEN f[x] ELSE 0]
           outside == [x \in T |-> IF x \in U THEN 0 ELSE f[x]]
<1>1. IsFiniteSet(U)
  BY FS_Subset
<1>2. DOMAIN f = T /\ DOMAIN part = U /\ DOMAIN inside = T /\ DOMAIN outside = T
  OBVIOUS
<1>3. \A x \in T : inside[x] \in Int /\ outside[x] \in Int /\ f[x] = inside[x] + outside[x]
  OBVIOUS
<1>4. \A x \in T \ U : inside[x] = 0
  OBVIOUS
<1>5. \A x \in U : part[x] = inside[x]
  OBVIOUS
<1> HIDE DEF part, inside, outside
<1>6. SumFunctionOnSet(f, T) = SumFunctionOnSet(inside, T) + SumFunctionOnSet(outside, T)
  BY <1>3, SumOnAdd
<1>7. SumFunctionOnSet(inside, T) = SumFunctionOnSet(inside, U)
  BY <1>3, <1>4, SumOnPart
<1>8. SumFunctionOnSet(part, U) = SumFunctionOnSet(inside, U)
  BY <1>1, <1>5, SumOnSame
<1> QED
  BY <1>2, <1>6, <1>7, <1>8 DEF Sum, SumFunction, part, outside

LEMMA SumInteger ==
  ASSUME NEW T, IsFiniteSet(T), NEW f \in [T -> Int]
  PROVE  Sum(f) \in Int
  BY SumOnInt DEF Sum, SumFunction

LEMMA SumPlus ==
  ASSUME NEW T, IsFiniteSet(T), NEW f \in [T -> Int], NEW g \in [T -> Int], NEW h \in [T -> Int],
         \A x \in T : h[x] = f[x] + g[x]
  PROVE  Sum(h) = Sum(f) + Sum(g)
<1>1. DOMAIN f = T /\ DOMAIN g = T /\ DOMAIN h = T
  OBVIOUS
<1>2. \A x \in T : f[x] \in Int /\ g[x] \in Int
  OBVIOUS
<1> QED
  BY <1>1, <1>2, SumOnAdd DEF Sum, SumFunction

\* A sum over some of the terms is a sum over all, the others counting 0.
LEMMA SumSome ==
  ASSUME NEW T, IsFiniteSet(T), NEW f \in [T -> Int], NEW U \in SUBSET T
  PROVE  Sum([x \in U |-> f[x]]) = Sum([x \in T |-> IF x \in U THEN f[x] ELSE 0])
<1> DEFINE part == [x \in U |-> f[x]]
           whole == [x \in T |-> IF x \in U THEN f[x] ELSE 0]
<1>1. IsFiniteSet(U)
  BY FS_Subset
<1>2. DOMAIN part = U /\ DOMAIN whole = T
  OBVIOUS
<1>3. /\ \A x \in T : whole[x] \in Int
      /\ \A x \in T \ U : whole[x] = 0
      /\ \A x \in U : part[x] = whole[x]
  OBVIOUS
<1> HIDE DEF part, whole
<1>4. SumFunctionOnSet(whole, T) = SumFunctionOnSet(whole, U)
  BY <1>3, SumOnPart
<1>5. SumFunctionOnSet(part, U) = SumFunctionOnSet(whole, U)
  BY <1>1, <1>3, SumOnSame
<1> QED
  BY <1>2, <1>4, <1>5 DEF Sum, SumFunction, part, whole

LEMMA SumUpdate ==
  ASSUME NEW T, IsFiniteSet(T), NEW f \in [T -> Int], NEW x \in T, NEW v \in Int
  PROVE  Sum([f EXCEPT ![x] = v]) = Sum(f) - f[x] + v
<1> DEFINE g == [f EXCEPT ![x] = v]
<1>1. DOMAIN f = T /\ DOMAIN g = T /\ g[x] = v
  OBVIOUS
<1>2. /\ \A y \in T : f[y] \in Int /\ g[y] \in Int
      /\ \A y \in T \ {x} : g[y] = f[y]
  OBVIOUS
<1> HIDE DEF g
<1>3. SumFunctionOnSet(g, T) = SumFunctionOnSet(f, T) - f[x] + g[x]
  BY <1>2, SumOnUpdate
<1> QED
  BY <1>1, <1>3 DEF Sum, SumFunction, g

-----------------------------------------------------------------------------
(* The books of one account.                                                *)

Fields == {"cash", "position", "mark", "lots", "available", "unsettled", "gross", "net",
           "income", "entitled", "holders", "awards", "cashDue", "sharesDue"}

\* Cash is there, and every share is available or settles after session d.
Sound(acct, d) ==
  /\ DOMAIN acct = Fields
  /\ acct.cash \in Nat
  /\ acct.position \in Shares /\ acct.available \in Shares
  /\ acct.unsettled \in [Asset -> [Session -> Nat]]
  /\ \A a \in Asset : acct.available[a] + Sum(acct.unsettled[a]) = acct.position[a]
  /\ \A a \in Asset, e \in Session : acct.unsettled[a][e] > 0 => e > d
  /\ acct.entitled \in [Action -> Nat] /\ acct.cashDue \in [Action -> Nat]
  /\ acct.sharesDue \in [Action -> Nat]
  /\ acct.mark \in [Asset -> Price \union {None}]

LEMMA ActionType ==
  ASSUME NEW k \in Action
  PROVE  /\ Actions[k].asset \in Asset /\ Actions[k].cash \in Nat
         /\ Actions[k].stock \in [mantissa : Nat, scale : Nat]
         /\ Actions[k].record \in Nat /\ Actions[k].ex \in Nat
         /\ Actions[k].pay \in Nat /\ Actions[k].list \in Nat
         /\ Actions[k].record < Actions[k].ex
         /\ Actions[k].ex <= Actions[k].pay /\ Actions[k].ex <= Actions[k].list
<1>1. Actions[k] \in CorporateAction
  BY ExecutionAccountAssumption DEF Action
<1>2. /\ Actions[k].record < Actions[k].ex
      /\ Actions[k].ex <= Actions[k].pay /\ Actions[k].ex <= Actions[k].list
  BY ExecutionAccountAssumption
<1> QED
  BY <1>1, <1>2 DEF CorporateAction

LEMMA OpeningSound ==
  Sound(Opening, 0)
<1>1. \A a \in Asset : Opening.unsettled[a] = [d \in Session |-> 0]
  BY DEF Opening
<1>2. \A a \in Asset : Sum(Opening.unsettled[a]) = 0
  BY <1>1, SumZero, Finite
<1>3. Capital \in Nat
  BY ExecutionAccountAssumption
<1> QED
  BY <1>1, <1>2, <1>3 DEF Opening, Sound, Fields, Shares

\* Dividends and bonus shares are amounts of the recorded shares.
LEMMA AccruedSound ==
  ASSUME NEW acct, NEW d, NEW e, Sound(acct, d)
  PROVE  Sound(Accrued(acct, e), d)
<1> DEFINE next == Accrued(acct, e)
<1>1. DOMAIN next = Fields
  BY DEF Sound, Fields, Accrued
<1>2. /\ next.cash = acct.cash /\ next.position = acct.position
      /\ next.available = acct.available /\ next.unsettled = acct.unsettled
      /\ next.entitled = acct.entitled /\ next.mark = acct.mark
  BY DEF Sound, Fields, Accrued
<1>3. next.cashDue \in [Action -> Nat]
  <2>1. next.cashDue = [k \in Action |-> IF Actions[k].ex = e
                          THEN acct.entitled[k] * Actions[k].cash ELSE acct.cashDue[k]]
    BY DEF Sound, Fields, Accrued
  <2>2. \A k \in Action : acct.entitled[k] * Actions[k].cash \in Nat
    BY ActionType DEF Sound
  <2> QED
    BY <2>1, <2>2 DEF Sound
<1>4. next.sharesDue \in [Action -> Nat]
  <2>1. next.sharesDue = [k \in Action |-> IF Actions[k].ex = e
                            THEN WholeShares(acct.entitled[k], Actions[k].stock)
                            ELSE acct.sharesDue[k]]
    BY DEF Sound, Fields, Accrued
  <2>2. \A k \in Action : WholeShares(acct.entitled[k], Actions[k].stock) \in Nat
    BY ActionType, WholeSharesType DEF Sound
  <2> QED
    BY <2>1, <2>2 DEF Sound
<1> QED
  BY <1>1, <1>2, <1>3, <1>4 DEF Sound

\* Settled shares become available, and nothing else of them changes.
LEMMA ReleasedSound ==
  ASSUME NEW acct, NEW d \in Int, NEW e \in Int, Sound(acct, d)
  PROVE  Sound(Released(acct, e), e)
<1> DEFINE next == Released(acct, e)
           settled == SettledBy(e)
           amount(a) == Sum([i \in settled |-> acct.unsettled[a][i]])
<1>1. DOMAIN next = Fields
  BY DEF Sound, Fields, Released
<1>2. /\ next.cash = acct.cash /\ next.position = acct.position
      /\ next.entitled = acct.entitled /\ next.mark = acct.mark
      /\ next.cashDue = acct.cashDue /\ next.sharesDue = acct.sharesDue
  BY DEF Sound, Fields, Released
<1>3. next.available = [a \in Asset |-> acct.available[a] + amount(a)]
  BY DEF Sound, Fields, Released
<1>4. next.unsettled = [a \in Asset |-> [i \in Session |->
                          IF i \in settled THEN 0 ELSE acct.unsettled[a][i]]]
  BY DEF Sound, Fields, Released
<1>5. settled \subseteq Session /\ \A i \in Session : i \notin settled => i > e
  BY DEF SettledBy, Session
<1>6. ASSUME NEW a \in Asset
      PROVE  /\ amount(a) \in Nat
             /\ next.available[a] + Sum(next.unsettled[a]) = next.position[a]
  <2> DEFINE f == acct.unsettled[a]
  <2>1. f \in [Session -> Nat] /\ f \in [Session -> Int]
    BY DEF Sound
  <2>2. amount(a) \in Nat
    <3>1. [i \in settled |-> f[i]] \in [settled -> Nat] /\ IsFiniteSet(settled)
      BY <1>5, <2>1, Finite
    <3> HIDE DEF settled, f
    <3> QED
      BY <3>1, SumNat DEF f
  <2>3. Sum(f) = amount(a) + Sum([i \in Session |-> IF i \in settled THEN 0 ELSE f[i]])
    <3> HIDE DEF settled, f
    <3> QED
      BY <1>5, <2>1, SumSplit, Finite DEF f
  <2>4. Sum(next.unsettled[a]) \in Nat
    <3>1. next.unsettled[a] \in [Session -> Nat]
      BY <1>4, <2>1
    <3> HIDE DEF next
    <3> QED
      BY <3>1, SumNat, Finite
  <2>5. /\ next.unsettled[a] = [i \in Session |-> IF i \in settled THEN 0 ELSE f[i]]
        /\ next.available[a] = acct.available[a] + amount(a)
        /\ acct.available[a] + Sum(f) = acct.position[a] /\ acct.available[a] \in Nat
    BY <1>3, <1>4 DEF Sound, Shares
  <2> HIDE DEF next, f, amount
  <2> QED
    BY <1>2, <2>2, <2>3, <2>4, <2>5
<1>7. next.available \in Shares
  <2> HIDE DEF next, amount
  <2> QED
    BY <1>3, <1>6 DEF Sound, Shares
<1>8. next.unsettled \in [Asset -> [Session -> Nat]]
  BY <1>4 DEF Sound
<1>9. \A a \in Asset, i \in Session : next.unsettled[a][i] > 0 => i > e
  BY <1>4, <1>5
<1>10. \A a \in Asset : next.available[a] + Sum(next.unsettled[a]) = next.position[a]
  BY <1>6
<1>11. /\ next.cash \in Nat /\ next.position \in Shares /\ next.entitled \in [Action -> Nat]
       /\ next.cashDue \in [Action -> Nat] /\ next.sharesDue \in [Action -> Nat]
       /\ next.mark \in [Asset -> Price \union {None}]
  BY <1>2 DEF Sound
<1>12. Sound(next, e)
  <2> HIDE DEF next
  <2> QED
    BY <1>1, <1>7, <1>8, <1>9, <1>10, <1>11 DEF Sound
<1> QED
  BY <1>12

\* What is paid and listed was receivable.
LEMMA PaidSound ==
  ASSUME NEW acct, NEW d, NEW e, Sound(acct, d)
  PROVE  Sound(Paid(acct, e), d)
<1> DEFINE next == Paid(acct, e)
           paid == {k \in Action : Actions[k].pay = e}
           listed == {k \in Action : Actions[k].list = e}
           ofAsset(a) == {k \in listed : Actions[k].asset = a}
           shares(a) == Sum([k \in ofAsset(a) |-> acct.sharesDue[k]])
           money == Sum([k \in paid |-> acct.cashDue[k]])
<1>1. DOMAIN next = Fields
  BY DEF Sound, Fields, Paid
<1>2. /\ next.unsettled = acct.unsettled /\ next.entitled = acct.entitled
      /\ next.mark = acct.mark
  BY DEF Sound, Fields, Paid
<1>3. next.cash = acct.cash + money
  BY DEF Sound, Fields, Paid
<1>4. money \in Nat
  <2>1. IsFiniteSet(paid) /\ [k \in paid |-> acct.cashDue[k]] \in [paid -> Nat]
    BY Finite DEF Sound
  <2> HIDE DEF paid
  <2> QED
    BY <2>1, SumNat
<1>5. \A a \in Asset : shares(a) \in Nat
  <2> TAKE a \in Asset
  <2>1. IsFiniteSet(ofAsset(a)) /\ [k \in ofAsset(a) |-> acct.sharesDue[k]] \in [ofAsset(a) -> Nat]
    BY Finite DEF Sound
  <2> HIDE DEF ofAsset
  <2> QED
    BY <2>1, SumNat
<1>6. /\ next.position = [a \in Asset |-> acct.position[a] + shares(a)]
      /\ next.available = [a \in Asset |-> acct.available[a] + shares(a)]
  BY DEF Sound, Fields, Paid
<1>7. next.cashDue \in [Action -> Nat] /\ next.sharesDue \in [Action -> Nat]
  <2>1. /\ next.cashDue = [k \in Action |-> IF k \in paid THEN 0 ELSE acct.cashDue[k]]
        /\ next.sharesDue = [k \in Action |-> IF k \in listed THEN 0 ELSE acct.sharesDue[k]]
    BY DEF Sound, Fields, Paid
  <2> HIDE DEF paid, listed
  <2> QED
    BY <2>1 DEF Sound
<1>8. \A a \in Asset : Sum(acct.unsettled[a]) \in Nat
  BY SumNat, Finite DEF Sound
<1>9. Sound(next, d)
  <2> HIDE DEF next, money, shares
  <2>1. next.position \in Shares /\ next.available \in Shares
    BY <1>5, <1>6 DEF Sound, Shares
  <2>2. \A a \in Asset : next.available[a] + Sum(next.unsettled[a]) = next.position[a]
    BY <1>2, <1>5, <1>6, <1>8 DEF Sound, Shares
  <2>3. next.cash \in Nat
    BY <1>3, <1>4 DEF Sound
  <2> QED
    BY <1>1, <1>2, <1>7, <2>1, <2>2, <2>3 DEF Sound
<1> QED
  BY <1>9

LEMMA MarkedSound ==
  ASSUME NEW acct, NEW d, Sound(acct, d), NEW prices \in [Asset -> Price \union {None}]
  PROVE  Sound(Marked(acct, prices), d)
<1> DEFINE next == Marked(acct, prices)
<1>1. DOMAIN next = Fields
  BY DEF Sound, Fields, Marked
<1>2. /\ next.cash = acct.cash /\ next.position = acct.position
      /\ next.available = acct.available /\ next.unsettled = acct.unsettled
      /\ next.entitled = acct.entitled
      /\ next.cashDue = acct.cashDue /\ next.sharesDue = acct.sharesDue
  BY DEF Sound, Fields, Marked
<1>3. next.mark \in [Asset -> Price \union {None}]
  BY DEF Sound, Fields, Marked
<1> HIDE DEF next
<1>4. Sound(next, d)
  BY <1>1, <1>2, <1>3 DEF Sound
<1> QED
  BY <1>4 DEF next

LEMMA OpenedSound ==
  ASSUME NEW acct, NEW d \in Int, NEW e \in Int, Sound(acct, d),
         NEW prices \in [Asset -> Price \union {None}]
  PROVE  Sound(Opened(acct, e, prices), e)
<1>1. Sound(Released(Accrued(acct, e), e), e)
  BY AccruedSound, ReleasedSound
<1> QED
  BY <1>1, PaidSound, MarkedSound DEF Opened

LEMMA ClosedSound ==
  ASSUME NEW acct, NEW d, Sound(acct, d), NEW e, NEW prices \in [Asset -> Price \union {None}]
  PROVE  Sound(WithoutEmptyLots(Recorded(Marked(acct, prices), e)), d)
<1> DEFINE marked == Marked(acct, prices)
           recorded == Recorded(marked, e)
           next == WithoutEmptyLots(recorded)
<1>1. Sound(marked, d)
  BY MarkedSound
<1> HIDE DEF marked
<1>2. DOMAIN recorded = Fields
  BY <1>1 DEF Sound, Fields, Recorded
<1>3. /\ recorded.cash = marked.cash /\ recorded.position = marked.position
      /\ recorded.available = marked.available /\ recorded.unsettled = marked.unsettled
      /\ recorded.mark = marked.mark
      /\ recorded.cashDue = marked.cashDue /\ recorded.sharesDue = marked.sharesDue
  BY <1>1 DEF Sound, Fields, Recorded
<1>4. recorded.entitled \in [Action -> Nat]
  <2>1. recorded.entitled = [k \in Action |-> IF Actions[k].record = e
                               THEN marked.position[Actions[k].asset] ELSE marked.entitled[k]]
    BY <1>1 DEF Sound, Fields, Recorded
  <2>2. \A k \in Action : marked.position[Actions[k].asset] \in Nat
    BY <1>1, ActionType DEF Sound, Shares
  <2> QED
    BY <1>1, <2>1, <2>2 DEF Sound
<1> HIDE DEF recorded
<1>5. /\ DOMAIN next = Fields
      /\ next.cash = recorded.cash /\ next.position = recorded.position
      /\ next.available = recorded.available /\ next.unsettled = recorded.unsettled
      /\ next.mark = recorded.mark /\ next.entitled = recorded.entitled
      /\ next.cashDue = recorded.cashDue /\ next.sharesDue = recorded.sharesDue
  BY <1>2 DEF Fields, WithoutEmptyLots
<1> HIDE DEF next
<1>6. Sound(next, d)
  BY <1>1, <1>3, <1>4, <1>5 DEF Sound
<1> QED
  BY <1>6 DEF next, recorded, marked

\* A purchase that is paid for is available now or settles later.
LEMMA BoughtSound ==
  ASSUME NEW acct, Sound(acct, day), NEW p, plans[p].asset \in Asset,
         NEW quantity \in Nat, NEW price \in Nat, NEW fee \in Nat,
         quantity * price + fee <= acct.cash,
         NEW reference \in Price \union {None},
         NEW when, when = day \/ (when \in Session /\ when > day)
  PROVE  Sound(Bought(acct, p, quantity, price, fee, reference, when), day)
<1> DEFINE next == Bought(acct, p, quantity, price, fee, reference, when)
           a == plans[p].asset
           f == acct.unsettled[a]
           g == [f EXCEPT ![when] = IF when = day THEN f[when] ELSE f[when] + quantity]
<1>1. DOMAIN next = Fields
  BY DEF Sound, Fields, Bought
<1>2. /\ next.entitled = acct.entitled
      /\ next.cashDue = acct.cashDue /\ next.sharesDue = acct.sharesDue
  BY DEF Sound, Fields, Bought
<1>3. next.cash \in Nat
  <2>1. next.cash = acct.cash - quantity * price - fee
    BY DEF Sound, Fields, Bought
  <2>2. quantity * price \in Nat
    OBVIOUS
  <2> HIDE DEF next
  <2> QED
    BY <2>1, <2>2 DEF Sound
<1>4. next.mark \in [Asset -> Price \union {None}]
  <2>1. next.mark = [acct.mark EXCEPT ![a] =
                       IF acct.mark[a] = None THEN reference ELSE acct.mark[a]]
    BY DEF Sound, Fields, Bought
  <2> HIDE DEF next
  <2> QED
    BY <2>1 DEF Sound
<1>5. /\ next.position = [acct.position EXCEPT ![a] = acct.position[a] + quantity]
      /\ next.available = [acct.available EXCEPT ![a] =
                             IF when = day THEN acct.available[a] + quantity
                             ELSE acct.available[a]]
      /\ next.unsettled = [acct.unsettled EXCEPT ![a] = g]
  <2>1. next.position = [acct.position EXCEPT ![a] = acct.position[a] + quantity]
    BY DEF Sound, Fields, Bought
  <2>2. next.available = [acct.available EXCEPT ![a] =
                            IF when = day THEN acct.available[a] + quantity
                            ELSE acct.available[a]]
    BY DEF Sound, Fields, Bought
  <2>3. next.unsettled = [acct.unsettled EXCEPT ![a] = g]
    BY DEF Sound, Fields, Bought
  <2> QED
    BY <2>1, <2>2, <2>3
<1>6. f \in [Session -> Nat] /\ f \in [Session -> Int]
  BY DEF Sound
<1>7. /\ g \in [Session -> Nat]
      /\ \A e \in Session : g[e] > 0 => e > day
      /\ Sum(g) = IF when = day THEN Sum(f) ELSE Sum(f) + quantity
  <2>1. CASE when = day
    <3>1. g = f
      BY <1>6, <2>1
    <3> HIDE DEF g
    <3> QED
      BY <1>6, <2>1, <3>1 DEF Sound
  <2>2. CASE when # day
    <3>1. when \in Session /\ when > day
      BY <2>2
    <3>2. g = [f EXCEPT ![when] = f[when] + quantity] /\ f[when] + quantity \in Int
          /\ f[when] \in Int
      BY <1>6, <2>2, <3>1
    <3>3. Sum(g) = Sum(f) - f[when] + (f[when] + quantity)
      <4> HIDE DEF f, g
      <4> QED
        BY <1>6, <3>1, <3>2, SumUpdate, Finite
    <3>4. Sum(f) \in Nat
      <4> HIDE DEF f
      <4> QED
        BY <1>6, SumNat, Finite
    <3>5. Sum(g) = Sum(f) + quantity
      <4> HIDE DEF f, g
      <4> QED
        BY <3>2, <3>3, <3>4
    <3>6. \A e \in Session : f[e] > 0 => e > day
      BY DEF Sound
    <3>7. g \in [Session -> Nat] /\ \A e \in Session : g[e] > 0 => e > day
      <4>1. f[when] + quantity \in Nat
        BY <1>6, <3>1
      <4> HIDE DEF f, g
      <4> QED
        BY <1>6, <3>1, <3>2, <3>6, <4>1
    <3> QED
      BY <2>2, <3>5, <3>7
  <2> QED
    BY <2>1, <2>2
<1>8. Sum(f) \in Nat
  <2> HIDE DEF f
  <2> QED
    BY <1>6, SumNat, Finite
<1>9. Sound(next, day)
  <2> HIDE DEF next, g
  <2>1. next.position \in Shares /\ next.available \in Shares
    BY <1>5 DEF Sound, Shares
  <2>2. next.unsettled \in [Asset -> [Session -> Nat]]
        /\ \A b \in Asset : next.unsettled[b] = IF b = a THEN g ELSE acct.unsettled[b]
    BY <1>5, <1>7 DEF Sound
  <2>3. \A b \in Asset, e \in Session : next.unsettled[b][e] > 0 => e > day
    BY <1>7, <2>2 DEF Sound
  <2>4. ASSUME NEW b \in Asset
        PROVE  next.available[b] + Sum(next.unsettled[b]) = next.position[b]
    <3>1. CASE b = a
      <4>1. acct.available[a] + Sum(f) = acct.position[a]
            /\ acct.available[a] \in Nat /\ acct.position[a] \in Nat
        BY DEF Sound, Shares
      <4>2. /\ next.position[b] = acct.position[a] + quantity
            /\ next.available[b] = IF when = day THEN acct.available[a] + quantity
                                                ELSE acct.available[a]
            /\ next.unsettled[b] = g
        BY <1>5, <2>2, <3>1 DEF Sound, Shares
      <4> HIDE DEF f
      <4> QED
        BY <1>7, <1>8, <4>1, <4>2
    <3>2. CASE b # a
      BY <1>5, <2>2, <3>2 DEF Sound, Shares
    <3> QED
      BY <3>1, <3>2
  <2> QED
    BY <1>1, <1>2, <1>3, <1>4, <2>1, <2>2, <2>3, <2>4 DEF Sound
<1> QED
  BY <1>9

\* A sale of available shares whose proceeds and cash pay the fee.
LEMMA SoldSound ==
  ASSUME NEW acct, Sound(acct, day), NEW p, plans[p].asset \in Asset,
         NEW quantity \in Nat, NEW price \in Nat, NEW fee \in Nat,
         quantity <= acct.available[plans[p].asset],
         fee <= acct.cash + quantity * price,
         NEW reference \in Price \union {None}
  PROVE  Sound(Sold(acct, p, quantity, price, fee, reference), day)
<1> DEFINE next == Sold(acct, p, quantity, price, fee, reference)
           a == plans[p].asset
<1>1. DOMAIN next = Fields
  BY DEF Sound, Fields, Sold
<1>2. /\ next.entitled = acct.entitled /\ next.unsettled = acct.unsettled
      /\ next.cashDue = acct.cashDue /\ next.sharesDue = acct.sharesDue
  BY DEF Sound, Fields, Sold
<1>3. next.cash \in Nat
  <2>1. next.cash = acct.cash + quantity * price - fee
    BY DEF Sound, Fields, Sold
  <2>2. quantity * price \in Nat
    OBVIOUS
  <2> HIDE DEF next
  <2> QED
    BY <2>1, <2>2 DEF Sound
<1>4. next.mark \in [Asset -> Price \union {None}]
  <2>1. next.mark = [acct.mark EXCEPT ![a] =
                       IF acct.mark[a] = None THEN reference ELSE acct.mark[a]]
    BY DEF Sound, Fields, Sold
  <2> HIDE DEF next
  <2> QED
    BY <2>1 DEF Sound
<1>5. /\ next.position = [acct.position EXCEPT ![a] = acct.position[a] - quantity]
      /\ next.available = [acct.available EXCEPT ![a] = acct.available[a] - quantity]
  BY DEF Sound, Fields, Sold
<1>6. \A b \in Asset : Sum(acct.unsettled[b]) \in Nat
  BY SumNat, Finite DEF Sound
<1>7. Sound(next, day)
  <2> HIDE DEF next
  <2>1. \A b \in Asset : /\ acct.available[b] + Sum(acct.unsettled[b]) = acct.position[b]
                         /\ acct.available[b] \in Nat /\ acct.position[b] \in Nat
    BY DEF Sound, Shares
  <2>2. /\ \A b \in Asset : next.position[b] =
              IF b = a THEN acct.position[b] - quantity ELSE acct.position[b]
        /\ \A b \in Asset : next.available[b] =
              IF b = a THEN acct.available[b] - quantity ELSE acct.available[b]
        /\ next.position = [b \in Asset |-> next.position[b]]
        /\ next.available = [b \in Asset |-> next.available[b]]
    <3>1. acct.position \in [Asset -> Nat] /\ acct.available \in [Asset -> Nat]
      BY DEF Sound, Shares
    <3> QED
      BY <1>5, <3>1
  <2>3. \A b \in Asset : /\ next.position[b] \in Nat /\ next.available[b] \in Nat
                         /\ next.available[b] + Sum(acct.unsettled[b]) = next.position[b]
    <3> TAKE b \in Asset
    <3>1. Sum(acct.unsettled[b]) \in Nat /\ quantity \in Nat /\ quantity <= acct.available[a]
      BY <1>6
    <3>2. /\ acct.available[b] + Sum(acct.unsettled[b]) = acct.position[b]
          /\ acct.available[b] \in Nat /\ acct.position[b] \in Nat
      BY <2>1
    <3>3. /\ next.position[b] = IF b = a THEN acct.position[b] - quantity ELSE acct.position[b]
          /\ next.available[b] = IF b = a THEN acct.available[b] - quantity
                                          ELSE acct.available[b]
      BY <2>2
    <3> QED
      BY <3>1, <3>2, <3>3
  <2>4. next.position \in Shares /\ next.available \in Shares
    BY <2>2, <2>3 DEF Shares
  <2> QED
    BY <1>1, <1>2, <1>3, <1>4, <2>3, <2>4 DEF Sound
<1> QED
  BY <1>7
-----------------------------------------------------------------------------
(* What a session does with the rows of the plans.                          *)

\* The request of a call, and where the call is.
RequestInv ==
  /\ plans \in [Plan -> Orders]
  /\ calendar \subseteq Session /\ cutoff \in calendar
  /\ supplied \subseteq Plan
  /\ phase \in {"between", "trading", "checkpoint", "rejected"}
  /\ day \in 0 .. LastSession
  /\ open \in [Asset -> OpenPrice \union {None}]

\* A row that waits is of a supplied plan, asks for all that is neither
\* filled nor expired, has expired in no part so far, and is a retry once
\* the reference leg is executed.  Before that nothing of its plan is filled
\* or expired.
RowsInv ==
  /\ processed \subseteq supplied
  /\ due \in [Plan -> Row \union {None}]
  /\ filled \in [Plan -> Nat] /\ expired \in [Plan -> Nat]
  /\ \A p \in Plan :
       /\ filled[p] + expired[p] <= plans[p].quantity
       /\ p \notin supplied => due[p] = None
       /\ p \notin processed => filled[p] = 0 /\ expired[p] = 0
       /\ due[p] # None => /\ due[p].left = plans[p].quantity - filled[p]
                           /\ expired[p] = 0
                           /\ due[p].retry <=> p \in processed

\* Both accounts are sound, and nothing settles later in the reference one.
BooksInv ==
  /\ DOMAIN account = Ledger
  /\ \A l \in Ledger : Sound(account[l], day)
  /\ \A a \in Asset, d \in Session : account["ideal"].unsettled[a][d] = 0

AccountInv == RequestInv /\ RowsInv /\ BooksInv

LEMMA PlanType ==
  ASSUME RequestInv, NEW p \in Plan
  PROVE  /\ plans[p].asset \in Asset /\ plans[p].buy \in BOOLEAN
         /\ plans[p].quantity \in 1 .. MaxQuantity /\ MaxQuantity \in Nat
         /\ plans[p].date \in Session
         /\ plans[p].reference \in Price \union {None}
         /\ open[plans[p].asset] \in OpenPrice \union {None}
<1>1. plans[p] \in Order
  BY ExecutionAccountAssumption DEF RequestInv
<1>2. /\ plans[p].asset \in Asset /\ plans[p].buy \in BOOLEAN
      /\ plans[p].quantity \in 1 .. MaxQuantity /\ plans[p].date \in Session
      /\ plans[p].reference \in ReferencePrice \union {None}
  BY <1>1 DEF Order
<1> QED
  BY <1>2, ExecutionAccountAssumption DEF RequestInv, Price

LEMMA RowType ==
  ASSUME RequestInv, RowsInv, NEW p \in Plan, due[p] # None
  PROVE  /\ due[p] \in Row /\ due[p].left \in 1 .. MaxQuantity /\ MaxQuantity \in Nat
         /\ due[p].date \in Session /\ due[p].retry \in BOOLEAN /\ p \in supplied
<1>1. due[p] \in Row /\ p \in supplied
  BY DEF RowsInv
<1> QED
  BY <1>1, ExecutionAccountAssumption DEF Row

LEMMA NewRowType ==
  ASSUME RequestInv, NEW p \in Plan
  PROVE  /\ NewRow(p) \in Row /\ NewRow(p) # None
         /\ NewRow(p).left = plans[p].quantity /\ NewRow(p).date = plans[p].date
         /\ ~ NewRow(p).retry
<1>1. NewRow(p) \in Row
  BY PlanType DEF NewRow, Row
<1> QED
  BY <1>1, ExecutionAccountAssumption DEF NewRow

LEMMA PriceType ==
  ASSUME NEW price \in Price
  PROVE  price \in Nat /\ price # None /\ Slippage \in Nat
         /\ price - Slippage \in Nat /\ price + Slippage \in Nat
  BY ExecutionAccountAssumption

LEMMA FeeType ==
  ASSUME NEW notional \in Nat
  PROVE  Fee(notional) \in Nat
<1> DEFINE S == {MinFee, notional \div FeeDivisor}
<1>1. MinFee \in Nat /\ FeeDivisor \in Nat \ {0}
  BY ExecutionAccountAssumption
<1>2. notional \div FeeDivisor \in Nat
  BY <1>1
<1>3. S \subseteq Nat /\ S \subseteq Int /\ S # {}
  BY <1>1, <1>2
<1>4. IsFiniteSet(S)
  BY PairFinite
<1>5. Max(S) \in S
  <2> HIDE DEF S
  <2> QED
    BY <1>3, <1>4, MaxMember
<1> QED
  BY <1>3, <1>5 DEF Fee

\* A purchase is in whole lots, within its row, and paid for.
LEMMA BuyQuantityType ==
  ASSUME RequestInv, RowsInv, NEW p \in Plan, due[p] # None
  PROVE  /\ BuyQuantity(p) \in 0 .. due[p].left
         /\ BuyQuantity(p) # 0 => Affordable(p, BuyQuantity(p))
<1> DEFINE left == due[p].left
           lots == {n \in 1 .. (left \div LotSize) : Affordable(p, n * LotSize)}
           S == {0} \union lots
           n == Max(S)
<1>1. left \in Nat /\ LotSize \in Nat \ {0} /\ left \div LotSize \in Nat
  BY RowType, ExecutionAccountAssumption
<1>2. S \subseteq Int /\ S # {} /\ IsFiniteSet(S)
  <2>1. IsFiniteSet(0 .. (left \div LotSize))
    BY <1>1, FS_Interval
  <2>2. S \subseteq 0 .. (left \div LotSize) /\ S # {}
    BY <1>1
  <2>3. IsFiniteSet(S)
    BY <2>1, <2>2, FS_Subset
  <2>4. S \subseteq Int
    BY <2>2
  <2> QED
    BY <2>2, <2>3, <2>4
<1>3. n \in S
  <2> HIDE DEF S
  <2> QED
    BY <1>2, MaxMember
<1>4. BuyQuantity(p) = LotSize * n
  BY DEF BuyQuantity
<1> HIDE DEF n
<1>5. CASE n = 0
  BY <1>1, <1>4, <1>5
<1>6. CASE n \in lots
  <2>1. n \in Nat /\ n <= left \div LotSize /\ Affordable(p, n * LotSize)
    BY <1>6
  <2>2. n * LotSize = LotSize * n /\ LotSize * n \in Nat
    BY <1>1, <2>1
  <2>3. LotSize * n <= left
    <3> HIDE DEF left
    <3>1. LotSize * n <= LotSize * (left \div LotSize)
      BY <1>1, <2>1
    <3>2. LotSize * (left \div LotSize) <= left
      BY <1>1
    <3> QED
      BY <1>1, <2>2, <3>1, <3>2
  <2> QED
    BY <1>1, <1>4, <2>1, <2>2, <2>3
<1> QED
  BY <1>3, <1>5, <1>6

\* A sale is within its row and the available shares, and its fee is paid.
LEMMA SellQuantityType ==
  ASSUME RequestInv, RowsInv, BooksInv, NEW p \in Plan, due[p] # None,
         open[plans[p].asset] \in OpenPrice
  PROVE  /\ SellQuantity(p) \in 0 .. due[p].left
         /\ SellQuantity(p) <= account["actual"].available[plans[p].asset]
         /\ SellQuantity(p) # 0 => Fee(SellQuantity(p) * SellPrice(p))
                                     <= account["actual"].cash + SellQuantity(p) * SellPrice(p)
<1> DEFINE left == due[p].left
           available == account["actual"].available[plans[p].asset]
           cash == account["actual"].cash
           S == {left, available}
           quantity == Min(S)
           proceeds == quantity * SellPrice(p)
<1>1. left \in Nat /\ available \in Nat /\ cash \in Nat
  <2>1. Sound(account["actual"], day) /\ plans[p].asset \in Asset
    BY PlanType DEF BooksInv, Ledger
  <2> QED
    BY <2>1, RowType DEF Sound, Shares
<1>2. IsFiniteSet(S) /\ S # {} /\ S \subseteq Int
  <2>1. IsFiniteSet(S) /\ S # {}
    BY PairFinite
  <2>2. S \subseteq Int
    BY <1>1
  <2> QED
    BY <2>1, <2>2
<1>3. quantity \in S /\ \A x \in S : quantity <= x
  <2> HIDE DEF S
  <2> QED
    BY <1>2, MinMember
<1>4. SellQuantity(p) = IF proceeds < Fee(proceeds) - cash THEN 0 ELSE quantity
  BY DEF SellQuantity
<1> HIDE DEF quantity
<1>5. quantity \in Nat /\ quantity <= left /\ quantity <= available
  BY <1>1, <1>3
<1>6. SellPrice(p) \in Nat
  BY PriceType DEF SellPrice, Price
<1>7. proceeds \in Nat /\ Fee(proceeds) \in Nat
  BY <1>5, <1>6, FeeType
<1> HIDE DEF left, available, cash
<1>8. /\ SellQuantity(p) \in 0 .. left /\ SellQuantity(p) <= available
      /\ SellQuantity(p) # 0 => SellQuantity(p) = quantity /\ Fee(proceeds) <= cash + proceeds
  <2> HIDE DEF proceeds
  <2> QED
    BY <1>1, <1>4, <1>5, <1>7
<1> QED
  BY <1>8 DEF left, available, cash

\* Settlement is on a session ahead, unless it is immediate.
LEMMA SettlementDateType ==
  ASSUME RequestInv, SettlementKnown
  PROVE  SettlementDate = day \/ (SettlementDate \in Session /\ SettlementDate > day)
<1>1. CASE SettlementSessions = 0
  BY <1>1 DEF SettlementDate
<1>2. CASE SettlementSessions # 0
  <2>1. Following \subseteq Session /\ Following \subseteq Int /\ IsFiniteSet(Following)
    <3>1. Following \subseteq Session
      BY DEF RequestInv, Following
    <3>2. Session \subseteq Int
      BY DEF Session
    <3> QED
      BY <3>1, <3>2, Finite
  <2>2. SettlementSessions \in 1 .. Cardinality(Following)
    <3>1. SettlementSessions \in Nat /\ Cardinality(Following) \in Nat
      BY <2>1, FS_CardinalityType, ExecutionAccountAssumption
    <3> QED
      BY <1>2, <3>1 DEF SettlementKnown
  <2>3. \E d \in Following : Cardinality({e \in Following : e <= d}) = SettlementSessions
    BY <2>1, <2>2, CountedElement
  <2>4. SettlementDate \in Following
    BY <1>2, <2>3 DEF SettlementDate
  <2> QED
    BY <2>1, <2>4 DEF Following
<1> QED
  BY <1>1, <1>2
-----------------------------------------------------------------------------
(* The two legs of an order.                                                *)

LEMMA UnsettledUntouched ==
  ASSUME NEW acct, NEW d, Sound(acct, d), NEW p, NEW quantity, NEW price, NEW fee, NEW reference
  PROVE  /\ Bought(acct, p, quantity, price, fee, reference, day).unsettled = acct.unsettled
         /\ Sold(acct, p, quantity, price, fee, reference).unsettled = acct.unsettled
<1>1. Bought(acct, p, quantity, price, fee, reference, day).unsettled = acct.unsettled
  <2>1. Bought(acct, p, quantity, price, fee, reference, day).unsettled
          = [acct.unsettled EXCEPT ![plans[p].asset][day] = acct.unsettled[plans[p].asset][day]]
    BY DEF Sound, Fields, Bought
  <2> DEFINE f == acct.unsettled
             a == plans[p].asset
  <2>2. f \in [Asset -> [Session -> Nat]]
    BY DEF Sound
  <2> HIDE DEF f, a
  <2>3. [f EXCEPT ![a][day] = f[a][day]] = f
    BY ONLY <2>2
  <2> QED
    BY <2>1, <2>3 DEF f, a
<1>2. Sold(acct, p, quantity, price, fee, reference).unsettled = acct.unsettled
  BY DEF Sound, Fields, Sold
<1> QED
  BY <1>1, <1>2

LEMMA IdealLegSound ==
  ASSUME RequestInv, RowsInv, BooksInv, NEW p \in Plan, due[p] # None,
         due[p].retry \/ IdealFeasible(p)
  PROVE  /\ Sound(IdealFilled(p), day)
         /\ IdealFilled(p).unsettled = account["ideal"].unsettled
<1> DEFINE acct == account["ideal"]
           left == due[p].left
           price == Reference(p)
<1>1. Sound(acct, day) /\ plans[p].asset \in Asset /\ plans[p].buy \in BOOLEAN
  BY PlanType DEF BooksInv, Ledger
<1>2. CASE due[p].retry
  BY <1>1, <1>2 DEF IdealFilled
<1>3. CASE ~ due[p].retry
  <2>1. left \in Nat /\ price \in Price /\ price \in Nat
    <3>1. Reference(p) \in Price \union {None}
      BY PlanType DEF Reference, Price
    <3>2. Reference(p) # None
      BY <1>3 DEF IdealFeasible
    <3>3. due[p].left \in Nat
      BY RowType
    <3> QED
      BY <3>1, <3>2, <3>3, PriceType
  <2>2. CASE plans[p].buy
    <3>1. left * price <= acct.cash
      BY <1>3, <2>2 DEF IdealFeasible
    <3>2. left * price + 0 <= acct.cash
      <4>1. left * price \in Nat
        BY <2>1
      <4> HIDE DEF left, price, acct
      <4> QED
        BY <3>1, <4>1
    <3>3. IdealFilled(p) = Bought(acct, p, left, price, 0, price, day)
      BY <1>3, <2>2 DEF IdealFilled
    <3> HIDE DEF acct, left, price
    <3>4. Sound(Bought(acct, p, left, price, 0, price, day), day)
      BY <1>1, <2>1, <3>2, BoughtSound
    <3>5. Bought(acct, p, left, price, 0, price, day).unsettled = acct.unsettled
      BY <1>1, UnsettledUntouched
    <3> QED
      BY <3>3, <3>4, <3>5 DEF acct
  <2>3. CASE ~ plans[p].buy
    <3>1. left <= acct.position[plans[p].asset]
      BY <1>3, <2>3 DEF IdealFeasible
    <3>2. left <= acct.available[plans[p].asset]
      <4> DEFINE f == acct.unsettled[plans[p].asset]
      <4>1. DOMAIN f = Session /\ \A d \in Session : f[d] = 0
        BY <1>1 DEF BooksInv, Sound
      <4> HIDE DEF f
      <4>2. Sum(f) = 0
        <5>1. f \in [Session -> Nat]
          BY <1>1 DEF Sound, f
        <5>2. f = [d \in Session |-> 0]
          BY <4>1, <5>1
        <5> QED
          BY <5>2, SumZero, Finite
      <4>3. acct.available[plans[p].asset] + Sum(f) = acct.position[plans[p].asset]
            /\ acct.available[plans[p].asset] \in Nat
        BY <1>1 DEF f, Sound, Shares
      <4> HIDE DEF acct, left
      <4> QED
        BY <3>1, <4>2, <4>3
    <3>3. 0 <= acct.cash + left * price
      <4>1. acct.cash \in Nat /\ left * price \in Nat
        BY <1>1, <2>1 DEF Sound
      <4> HIDE DEF acct, left, price
      <4> QED
        BY <4>1
    <3>4. IdealFilled(p) = Sold(acct, p, left, price, 0, price)
      BY <1>3, <2>3 DEF IdealFilled
    <3> HIDE DEF acct, left, price
    <3>5. Sound(Sold(acct, p, left, price, 0, price), day)
      BY <1>1, <2>1, <3>2, <3>3, SoldSound
    <3>6. Sold(acct, p, left, price, 0, price).unsettled = acct.unsettled
      BY <1>1, UnsettledUntouched
    <3> QED
      BY <3>4, <3>5, <3>6 DEF acct
  <2> QED
    BY <2>2, <2>3
<1> QED
  BY <1>2, <1>3

LEMMA ActualQuantityType ==
  ASSUME RequestInv, RowsInv, BooksInv, NEW p \in Plan, due[p] # None, NEW tradable \in BOOLEAN
  PROVE  ActualQuantity(p, tradable) \in 0 .. due[p].left
<1>1. due[p].left \in Nat
  BY RowType
<1>2. CASE open[plans[p].asset] = None \/ ~ tradable
  BY <1>1, <1>2 DEF ActualQuantity
<1>3. CASE ~ (open[plans[p].asset] = None \/ ~ tradable)
  <2>1. open[plans[p].asset] \in OpenPrice
    BY <1>3, PlanType
  <2>2. BuyQuantity(p) \in 0 .. due[p].left /\ SellQuantity(p) \in 0 .. due[p].left
    BY <2>1, BuyQuantityType, SellQuantityType
  <2> QED
    BY <1>3, <2>2 DEF ActualQuantity
<1> QED
  BY <1>2, <1>3

LEMMA ActualLegSound ==
  ASSUME RequestInv, RowsInv, BooksInv, NEW p \in Plan, due[p] # None, NEW tradable \in BOOLEAN,
         (plans[p].buy /\ ActualQuantity(p, tradable) > 0) => SettlementKnown
  PROVE  Sound(ActualFilled(p, ActualQuantity(p, tradable)), day)
<1> DEFINE acct == account["actual"]
           quantity == ActualQuantity(p, tradable)
           price == open[plans[p].asset]
<1>1. Sound(acct, day) /\ plans[p].asset \in Asset /\ plans[p].buy \in BOOLEAN
  BY PlanType DEF BooksInv, Ledger
<1>2. quantity \in Nat
  <2>1. due[p].left \in Nat
    BY RowType
  <2> QED
    BY <2>1, ActualQuantityType
<1>3. CASE quantity = 0
  <2>1. ActualFilled(p, quantity) = acct
    BY <1>3 DEF ActualFilled
  <2> HIDE DEF acct, quantity
  <2> QED
    BY <1>1, <2>1 DEF quantity
<1>4. CASE quantity # 0
  <2>1. price # None /\ tradable
    BY <1>4 DEF ActualQuantity
  <2>2. price \in OpenPrice /\ price \in Price
    BY <2>1, PlanType DEF Price
  <2>3. BuyPrice(p) \in Nat /\ SellPrice(p) \in Nat
    BY <2>2, PriceType DEF BuyPrice, SellPrice
  <2>4. CASE plans[p].buy
    <3>1. quantity = BuyQuantity(p)
      BY <2>1, <2>4 DEF ActualQuantity
    <3>2. Affordable(p, quantity)
      BY <1>4, <3>1, BuyQuantityType
    <3> HIDE DEF quantity
    <3>3. quantity * BuyPrice(p) \in Nat /\ Fee(quantity * BuyPrice(p)) \in Nat
      BY <1>2, <2>3, FeeType
    <3>4. quantity * BuyPrice(p) + Fee(quantity * BuyPrice(p)) <= acct.cash
      BY <3>2 DEF Affordable
    <3>5. SettlementKnown
      BY <1>2, <1>4, <2>4 DEF quantity
    <3>6. SettlementDate = day \/ (SettlementDate \in Session /\ SettlementDate > day)
      BY <3>5, SettlementDateType
    <3>7. ActualFilled(p, quantity)
            = Bought(acct, p, quantity, BuyPrice(p), Fee(quantity * BuyPrice(p)), price,
                     SettlementDate)
      BY <1>4, <2>4 DEF ActualFilled
    <3> HIDE DEF acct, price
    <3>8. Sound(ActualFilled(p, quantity), day)
      BY <1>1, <1>2, <2>2, <2>3, <3>3, <3>4, <3>6, <3>7, BoughtSound
    <3> QED
      BY <3>8 DEF quantity
  <2>5. CASE ~ plans[p].buy
    <3>1. quantity = SellQuantity(p)
      BY <2>1, <2>5 DEF ActualQuantity
    <3>2. /\ quantity <= acct.available[plans[p].asset]
          /\ Fee(quantity * SellPrice(p)) <= acct.cash + quantity * SellPrice(p)
      BY <1>4, <2>2, <3>1, SellQuantityType
    <3> HIDE DEF quantity
    <3>3. quantity * SellPrice(p) \in Nat /\ Fee(quantity * SellPrice(p)) \in Nat
      BY <1>2, <2>3, FeeType
    <3>4. ActualFilled(p, quantity)
            = Sold(acct, p, quantity, SellPrice(p), Fee(quantity * SellPrice(p)), price)
      BY <1>4, <2>5 DEF ActualFilled
    <3> HIDE DEF acct, price
    <3>5. Sound(ActualFilled(p, quantity), day)
      BY <1>1, <1>2, <2>2, <2>3, <3>2, <3>3, <3>4, SoldSound
    <3> QED
      BY <3>5 DEF quantity
  <2> QED
    BY <2>4, <2>5
<1> QED
  BY <1>3, <1>4
-----------------------------------------------------------------------------
(* Every step keeps the invariant.                                          *)

LEMMA InitInv ==
  Init => AccountInv
<1> SUFFICES ASSUME Init PROVE AccountInv
  OBVIOUS
<1>1. RequestInv
  <2>1. LastSession \in Nat
    BY ExecutionAccountAssumption
  <2>2. calendar \subseteq Session
    BY <2>1 DEF Init, Session
  <2>3. day \in 0 .. LastSession
    BY <2>1 DEF Init
  <2>4. open \in [Asset -> OpenPrice \union {None}]
    BY DEF Init
  <2> QED
    BY <2>2, <2>3, <2>4 DEF Init, RequestInv
<1>2. RowsInv
  <2>1. ASSUME NEW p \in Plan
        PROVE  NewRow(p) \in Row /\ NewRow(p).left = plans[p].quantity /\ ~ NewRow(p).retry
               /\ NewRow(p) # None
    BY <1>1, NewRowType
  <2>2. \A p \in Plan : plans[p].quantity \in Nat
    BY <1>1, PlanType
  <2>3. /\ supplied \subseteq Plan /\ processed = {}
        /\ due = [p \in Plan |-> IF p \in supplied THEN NewRow(p) ELSE None]
        /\ filled = [p \in Plan |-> 0] /\ expired = [p \in Plan |-> 0]
    BY DEF Init
  <2> QED
    BY <2>1, <2>2, <2>3 DEF RowsInv
<1>3. BooksInv
  <2>1. account = [l \in Ledger |-> Opening] /\ day = 0
    BY DEF Init
  <2>2. \A a \in Asset, d \in Session : Opening.unsettled[a][d] = 0
    BY DEF Opening
  <2> QED
    BY <2>1, <2>2, OpeningSound DEF BooksInv, Ledger
<1> QED
  BY <1>1, <1>2, <1>3 DEF AccountInv

\* A sound account stays sound, whatever opens or closes a session.
LEMMA OpenedUnsettled ==
  ASSUME NEW acct, NEW d, Sound(acct, d), NEW e, NEW prices,
         \A a \in Asset, i \in Session : acct.unsettled[a][i] = 0
  PROVE  \A a \in Asset, i \in Session : Opened(acct, e, prices).unsettled[a][i] = 0
<1> DEFINE released == Released(Accrued(acct, e), e)
<1>1. Sound(Accrued(acct, e), d) /\ Accrued(acct, e).unsettled = acct.unsettled
  <2>1. Accrued(acct, e).unsettled = acct.unsettled
    BY DEF Sound, Fields, Accrued
  <2> QED
    BY <2>1, AccruedSound
<1>2. DOMAIN released = Fields /\ released.unsettled = [a \in Asset |-> [i \in Session |->
        IF i \in SettledBy(e) THEN 0 ELSE acct.unsettled[a][i]]]
  <2> HIDE DEF Accrued
  <2> QED
    BY <1>1 DEF Sound, Fields, Released
<1> HIDE DEF released
<1>3. DOMAIN Paid(released, e) = Fields /\ Paid(released, e).unsettled = released.unsettled
  BY <1>2 DEF Fields, Paid
<1>4. Marked(Paid(released, e), prices).unsettled = released.unsettled
  BY <1>3 DEF Fields, Marked
<1>5. Opened(acct, e, prices).unsettled = released.unsettled
  BY <1>4 DEF Opened, released
<1> QED
  BY <1>2, <1>5

LEMMA ClosedUnsettled ==
  ASSUME NEW acct, NEW d, Sound(acct, d), NEW e, NEW prices
  PROVE  WithoutEmptyLots(Recorded(Marked(acct, prices), e)).unsettled = acct.unsettled
<1>1. DOMAIN Marked(acct, prices) = Fields /\ Marked(acct, prices).unsettled = acct.unsettled
  BY DEF Sound, Fields, Marked
<1> DEFINE recorded == Recorded(Marked(acct, prices), e)
<1>2. DOMAIN recorded = Fields /\ recorded.unsettled = acct.unsettled
  <2> HIDE DEF Marked
  <2> QED
    BY <1>1 DEF Fields, Recorded
<1> HIDE DEF recorded
<1>3. WithoutEmptyLots(recorded).unsettled = acct.unsettled
  BY <1>2 DEF Fields, WithoutEmptyLots
<1> QED
  BY <1>3 DEF recorded

LEMMA SessionInDays ==
  Session \subseteq 0 .. LastSession /\ Session \subseteq Int
  BY DEF Session

LEMMA SessionType ==
  ASSUME NEW d \in Session
  PROVE  d \in Int /\ d > 0
  BY DEF Session

LEMMA NextSession ==
  ASSUME RequestInv, Ahead # {}
  PROVE  /\ Min(Ahead) \in Session /\ Min(Ahead) \in calendar
         /\ day < Min(Ahead) /\ Min(Ahead) <= cutoff
         /\ \A d \in Ahead : Min(Ahead) <= d
<1>1. Ahead \subseteq calendar /\ Ahead \subseteq Session
  BY DEF Ahead, RequestInv
<1>2. IsFiniteSet(Ahead) /\ Ahead \subseteq Int
  BY <1>1, Finite, SessionInDays
<1>3. Min(Ahead) \in Ahead /\ \A d \in Ahead : Min(Ahead) <= d
  BY <1>2, MinMember
<1> QED
  BY <1>1, <1>3 DEF Ahead

LEMMA RetrySession ==
  ASSUME RequestInv, Following # {}
  PROVE  Min(Following) \in Session /\ Min(Following) \in calendar /\ day < Min(Following)
<1>1. Following \subseteq calendar /\ Following \subseteq Session
  BY DEF Following, RequestInv
<1>2. IsFiniteSet(Following) /\ Following \subseteq Int
  BY <1>1, Finite, SessionInDays
<1>3. Min(Following) \in Following
  BY <1>2, MinMember
<1> QED
  BY <1>1, <1>3 DEF Following

LEMMA OpenSessionInv ==
  ASSUME AccountInv, OpenSession
  PROVE  AccountInv'
<1> USE DEF AccountInv
<1>1. /\ day' \in Session /\ day' \in Int /\ day \in Int
      /\ open' \in [Asset -> OpenPrice \union {None}]
      /\ open' \in [Asset -> Price \union {None}]
  <2>1. day' \in Session
    BY NextSession DEF OpenSession
  <2> QED
    BY <2>1, SessionInDays DEF OpenSession, RequestInv, Price
<1>2. RequestInv'
  <2>1. UNCHANGED <<plans, calendar, cutoff, supplied>> /\ phase' = "trading"
    BY DEF OpenSession, request
  <2> QED
    BY <1>1, <2>1, SessionInDays DEF RequestInv
<1>3. RowsInv'
  <2>1. UNCHANGED <<plans, supplied, processed, due, filled, expired>>
    BY DEF OpenSession, request, orders
  <2> QED
    BY <2>1 DEF RowsInv
<1>4. BooksInv'
  <2>1. account' = [l \in Ledger |-> Opened(account[l], day', open')]
    BY DEF OpenSession
  <2>2. \A l \in Ledger : Sound(account[l], day)
    BY DEF BooksInv
  <2>3. \A l \in Ledger : Sound(account'[l], day')
    BY <1>1, <2>1, <2>2, OpenedSound
  <2>4. "ideal" \in Ledger
    BY DEF Ledger
  <2>5. \A a \in Asset, d \in Session : account'["ideal"].unsettled[a][d] = 0
    BY <2>1, <2>2, <2>4, OpenedUnsettled DEF BooksInv
  <2> QED
    BY <2>1, <2>3, <2>5 DEF BooksInv
<1> QED
  BY <1>2, <1>3, <1>4

LEMMA CloseSessionInv ==
  ASSUME AccountInv, CloseSession
  PROVE  AccountInv'
<1> USE DEF AccountInv
<1>1. RequestInv'
  <2>1. UNCHANGED <<plans, calendar, cutoff, supplied, day>>
        /\ phase' \in {"between", "checkpoint"} /\ open' = [a \in Asset |-> None]
    BY DEF CloseSession, request
  <2> QED
    BY <2>1 DEF RequestInv
<1>2. RowsInv'
  <2>1. UNCHANGED <<plans, supplied, processed, filled, expired>>
    BY DEF CloseSession, request
  <2>2. /\ due' \in [Plan -> Row \union {None}]
        /\ \A p \in Plan : due'[p] = None \/ due'[p] = due[p]
    BY DEF CloseSession, RowsInv
  <2> QED
    BY <2>1, <2>2 DEF RowsInv
<1>3. BooksInv'
  <2>1. day' = day
    BY DEF CloseSession
  <2>2. PICK close \in [Asset -> ClosePrice \union {None}] :
          account' = [l \in Ledger |->
                        WithoutEmptyLots(Recorded(Marked(account[l], close), day))]
    BY DEF CloseSession
  <2>3. close \in [Asset -> Price \union {None}]
    BY DEF Price
  <2>4. \A l \in Ledger : Sound(account[l], day)
    BY DEF BooksInv
  <2>5. \A l \in Ledger : Sound(account'[l], day) /\ account'[l].unsettled = account[l].unsettled
    BY <2>2, <2>3, <2>4, ClosedSound, ClosedUnsettled
  <2>6. "ideal" \in Ledger
    BY DEF Ledger
  <2> QED
    BY <2>1, <2>2, <2>5, <2>6 DEF BooksInv
<1> QED
  BY <1>1, <1>2, <1>3

LEMMA ResumeInv ==
  ASSUME AccountInv, Resume
  PROVE  AccountInv'
<1> USE DEF AccountInv
<1>1. RequestInv'
  <2>1. calendar' \subseteq Session /\ cutoff' \in calendar'
    BY DEF Resume
  <2>2. supplied' \subseteq Plan
    BY DEF Resume, RequestInv
  <2>3. UNCHANGED <<plans, day, open>> /\ phase' = "between"
    BY DEF Resume
  <2> QED
    BY <2>1, <2>2, <2>3 DEF RequestInv
<1>2. RowsInv'
  <2>1. UNCHANGED <<plans, processed, filled, expired>> /\ supplied \subseteq supplied'
    BY DEF Resume
  <2>2. due' = [p \in Plan |-> IF p \in supplied' \ supplied THEN NewRow(p) ELSE due[p]]
    BY DEF Resume
  <2>3. \A p \in Plan : /\ NewRow(p) \in Row /\ NewRow(p).left = plans[p].quantity
                        /\ ~ NewRow(p).retry /\ plans[p].quantity \in Nat
    BY PlanType, NewRowType
  <2>4. \A p \in Plan \ supplied : p \notin processed /\ filled[p] = 0 /\ expired[p] = 0
    BY DEF RowsInv
  <2>5. due' \in [Plan -> Row \union {None}]
    BY <2>2, <2>3 DEF RowsInv
  <2>6. ASSUME NEW p \in Plan
        PROVE  /\ filled'[p] + expired'[p] <= plans'[p].quantity
               /\ p \notin supplied' => due'[p] = None
               /\ p \notin processed' => filled'[p] = 0 /\ expired'[p] = 0
               /\ due'[p] # None => /\ due'[p].left = plans'[p].quantity - filled'[p]
                                    /\ expired'[p] = 0
                                    /\ due'[p].retry <=> p \in processed'
    <3>1. CASE p \in supplied' \ supplied
      <4>1. due'[p] = NewRow(p)
        BY <2>2, <3>1
      <4> QED
        BY <2>1, <2>3, <2>4, <3>1, <4>1
    <3>2. CASE p \notin supplied' \ supplied
      <4>1. due'[p] = due[p]
        BY <2>2, <3>2
      <4> QED
        BY <2>1, <3>2, <4>1 DEF RowsInv
    <3> QED
      BY <3>1, <3>2
  <2>7. processed' \subseteq supplied' /\ filled' \in [Plan -> Nat] /\ expired' \in [Plan -> Nat]
    BY <2>1 DEF RowsInv
  <2> QED
    BY <2>5, <2>6, <2>7 DEF RowsInv
<1>3. BooksInv'
  <2>1. UNCHANGED <<day, account>>
    BY DEF Resume
  <2> QED
    BY <2>1 DEF BooksInv
<1> QED
  BY <1>1, <1>2, <1>3
\* An order is refused, or fills a part of its row and leaves the rest due
\* on a later session or expired.
Refused == phase' = "rejected" /\ UNCHANGED <<due, processed, filled, expired, account>>
Handled(p) ==
  /\ due[p].retry \/ IdealFeasible(p)
  /\ \E tradable \in BOOLEAN :
       LET quantity == ActualQuantity(p, tradable)
           rest == due[p].left - quantity
           retried == RetryUnfilled /\ rest > 0 /\ Following # {}
       IN /\ (plans[p].buy /\ quantity > 0) => SettlementKnown
          /\ account' = [ideal |-> IdealFilled(p), actual |-> ActualFilled(p, quantity)]
          /\ processed' = processed \union {p}
          /\ filled' = [filled EXCEPT ![p] = @ + quantity]
          /\ due' = [due EXCEPT ![p] = IF retried THEN RetryRow(p, rest) ELSE None]
          /\ expired' = [expired EXCEPT ![p] = IF retried THEN @ ELSE rest]
          /\ UNCHANGED phase

LEMMA OrderHandled ==
  ASSUME NEW p \in Plan, ExecuteOrder(p)
  PROVE  /\ phase = "trading" /\ p \in Todays /\ due[p] # None /\ due[p].date = day
         /\ UNCHANGED <<plans, calendar, cutoff, supplied, day, open>>
         /\ Refused \/ Handled(p)
  BY DEF ExecuteOrder, Reject, Refused, Handled, orders, request, Todays

\* What an order does to its row.
LEMMA RowHandled ==
  ASSUME RequestInv, RowsInv, BooksInv, NEW p \in Plan, due[p] # None, Handled(p)
  PROVE  \E quantity \in 0 .. due[p].left, rest \in Nat :
           /\ rest = due[p].left - quantity
           /\ processed' = processed \union {p}
           /\ filled' = [filled EXCEPT ![p] = @ + quantity]
           /\ \/ /\ due' = [due EXCEPT ![p] = RetryRow(p, rest)]
                 /\ rest > 0 /\ Following # {} /\ expired' = expired
              \/ /\ due' = [due EXCEPT ![p] = None]
                 /\ expired' = [expired EXCEPT ![p] = rest]
<1>1. PICK tradable \in BOOLEAN :
        LET quantity == ActualQuantity(p, tradable)
            rest == due[p].left - quantity
            retried == RetryUnfilled /\ rest > 0 /\ Following # {}
        IN /\ processed' = processed \union {p}
           /\ filled' = [filled EXCEPT ![p] = @ + quantity]
           /\ due' = [due EXCEPT ![p] = IF retried THEN RetryRow(p, rest) ELSE None]
           /\ expired' = [expired EXCEPT ![p] = IF retried THEN @ ELSE rest]
  BY DEF Handled
<1> DEFINE quantity == ActualQuantity(p, tradable)
           rest == due[p].left - quantity
<1>2. quantity \in 0 .. due[p].left /\ due[p].left \in Nat
  BY RowType, ActualQuantityType
<1>3. rest \in Nat
  <2> HIDE DEF quantity
  <2> QED
    BY <1>2
<1>4. expired \in [Plan -> Nat]
  BY DEF RowsInv
<1>5. CASE RetryUnfilled /\ rest > 0 /\ Following # {}
  <2>1. due' = [due EXCEPT ![p] = RetryRow(p, rest)] /\ rest > 0 /\ Following # {}
        /\ expired' = expired
    BY <1>1, <1>4, <1>5
  <2> HIDE DEF quantity
  <2> QED
    BY <1>1, <1>2, <1>3, <2>1 DEF quantity
<1>6. CASE ~ (RetryUnfilled /\ rest > 0 /\ Following # {})
  <2>1. due' = [due EXCEPT ![p] = None] /\ expired' = [expired EXCEPT ![p] = rest]
    BY <1>1, <1>6
  <2> HIDE DEF quantity
  <2> QED
    BY <1>1, <1>2, <1>3, <2>1 DEF quantity
<1> QED
  BY <1>5, <1>6

LEMMA RetryRowType ==
  ASSUME RequestInv, NEW p, NEW rest \in 1 .. MaxQuantity, Following # {}
  PROVE  /\ RetryRow(p, rest) \in Row /\ RetryRow(p, rest) # None
         /\ RetryRow(p, rest).left = rest /\ RetryRow(p, rest).retry
         /\ RetryRow(p, rest).date \in calendar /\ RetryRow(p, rest).date > day
<1>1. RetryRow(p, rest) = [date |-> Min(Following), left |-> rest, retry |-> TRUE]
  BY DEF RetryRow
<1>2. Min(Following) \in Session /\ Min(Following) \in calendar /\ day < Min(Following)
  BY RetrySession
<1>3. RetryRow(p, rest) \in Row
  BY <1>1, <1>2 DEF Row
<1>4. RetryRow(p, rest) # None
  BY <1>3, ExecutionAccountAssumption
<1>5. Min(Following) > day
  BY <1>2, SessionType DEF RequestInv
<1> QED
  BY <1>1, <1>2, <1>3, <1>4, <1>5

LEMMA ExecuteOrderInv ==
  ASSUME AccountInv, NEW p \in Plan, ExecuteOrder(p)
  PROVE  AccountInv'
<1> USE DEF AccountInv
<1>1. /\ phase = "trading" /\ due[p] # None
      /\ UNCHANGED <<plans, calendar, cutoff, supplied, day, open>>
      /\ Refused \/ Handled(p)
  BY OrderHandled
<1>2. phase' \in {"trading", "rejected"}
  BY <1>1 DEF Refused, Handled
<1>3. RequestInv'
  BY <1>1, <1>2 DEF RequestInv
<1>4. CASE Refused
  <2>1. RowsInv'
    BY <1>1, <1>4 DEF Refused, RowsInv
  <2>2. BooksInv'
    BY <1>1, <1>4 DEF Refused, BooksInv
  <2> QED
    BY <1>3, <2>1, <2>2
<1>5. CASE Handled(p)
  <2>1. RowsInv'
    <3>1. PICK quantity \in 0 .. due[p].left, rest \in Nat :
            /\ rest = due[p].left - quantity
            /\ processed' = processed \union {p}
            /\ filled' = [filled EXCEPT ![p] = @ + quantity]
            /\ \/ /\ due' = [due EXCEPT ![p] = RetryRow(p, rest)]
                  /\ rest > 0 /\ Following # {} /\ expired' = expired
               \/ /\ due' = [due EXCEPT ![p] = None]
                  /\ expired' = [expired EXCEPT ![p] = rest]
      BY <1>1, <1>5, RowHandled
    <3>2. /\ due[p].left \in 1 .. MaxQuantity /\ MaxQuantity \in Nat /\ p \in supplied
          /\ due[p].left = plans[p].quantity - filled[p] /\ expired[p] = 0
          /\ plans[p].quantity \in Nat /\ filled[p] \in Nat
          /\ quantity \in Nat /\ quantity <= due[p].left
      BY <1>1, RowType, PlanType DEF RowsInv
    <3>3. filled' \in [Plan -> Nat] /\ expired' \in [Plan -> Nat] /\ processed' \subseteq supplied'
      BY <1>1, <3>1, <3>2 DEF RowsInv
    <3>4. /\ filled'[p] = filled[p] + quantity
          /\ \A q \in Plan \ {p} : filled'[q] = filled[q] /\ expired'[q] = expired[q]
                                   /\ due'[q] = due[q]
      BY <3>1 DEF RowsInv
    <3>5. CASE /\ due' = [due EXCEPT ![p] = RetryRow(p, rest)]
               /\ rest > 0 /\ Following # {} /\ expired' = expired
      <4>1. rest \in 1 .. MaxQuantity
        BY <3>1, <3>2, <3>5
      <4>2. due'[p] = RetryRow(p, rest) /\ due'[p] # None /\ due'[p].left = rest /\ due'[p].retry
        BY <3>5, <4>1, RetryRowType DEF RowsInv
      <4>3. due' \in [Plan -> Row \union {None}]
        BY <3>5, <4>1, RetryRowType DEF RowsInv
      <4>4. /\ filled'[p] + expired'[p] <= plans[p].quantity
            /\ rest = plans[p].quantity - filled'[p] /\ expired'[p] = 0 /\ p \in processed'
        BY <3>1, <3>2, <3>4, <3>5
      <4>5. ASSUME NEW q \in Plan
            PROVE  /\ filled'[q] + expired'[q] <= plans'[q].quantity
                   /\ q \notin supplied' => due'[q] = None
                   /\ q \notin processed' => filled'[q] = 0 /\ expired'[q] = 0
                   /\ due'[q] # None => /\ due'[q].left = plans'[q].quantity - filled'[q]
                                        /\ expired'[q] = 0
                                        /\ due'[q].retry <=> q \in processed'
        <5>1. CASE q = p
          BY <1>1, <3>2, <4>2, <4>4, <5>1
        <5>2. CASE q # p
          BY <1>1, <3>1, <3>4, <5>2 DEF RowsInv
        <5> QED
          BY <5>1, <5>2
      <4> QED
        BY <3>3, <4>3, <4>5 DEF RowsInv
    <3>6. CASE due' = [due EXCEPT ![p] = None] /\ expired' = [expired EXCEPT ![p] = rest]
      <4>1. due' \in [Plan -> Row \union {None}] /\ due'[p] = None
        BY <3>6 DEF RowsInv
      <4>2. expired'[p] = rest
        BY <3>6 DEF RowsInv
      <4>3. filled'[p] + expired'[p] <= plans[p].quantity /\ p \in processed'
        BY <3>1, <3>2, <3>4, <4>2
      <4>4. ASSUME NEW q \in Plan
            PROVE  /\ filled'[q] + expired'[q] <= plans'[q].quantity
                   /\ q \notin supplied' => due'[q] = None
                   /\ q \notin processed' => filled'[q] = 0 /\ expired'[q] = 0
                   /\ due'[q] # None => /\ due'[q].left = plans'[q].quantity - filled'[q]
                                        /\ expired'[q] = 0
                                        /\ due'[q].retry <=> q \in processed'
        <5>1. CASE q = p
          BY <1>1, <4>1, <4>3, <5>1
        <5>2. CASE q # p
          BY <1>1, <3>1, <3>4, <5>2 DEF RowsInv
        <5> QED
          BY <5>1, <5>2
      <4> QED
        BY <3>3, <4>1, <4>4 DEF RowsInv
    <3> QED
      BY <3>1, <3>5, <3>6
  <2>2. BooksInv'
    <3>1. PICK tradable \in BOOLEAN :
            /\ (plans[p].buy /\ ActualQuantity(p, tradable) > 0) => SettlementKnown
            /\ account' = [ideal |-> IdealFilled(p),
                           actual |-> ActualFilled(p, ActualQuantity(p, tradable))]
      BY <1>5 DEF Handled
    <3>2. Sound(IdealFilled(p), day) /\ IdealFilled(p).unsettled = account["ideal"].unsettled
      BY <1>1, <1>5, IdealLegSound DEF Handled
    <3>3. Sound(ActualFilled(p, ActualQuantity(p, tradable)), day)
      BY <1>1, <3>1, ActualLegSound
    <3> QED
      BY <1>1, <3>1, <3>2, <3>3 DEF BooksInv, Ledger
  <2> QED
    BY <1>3, <2>1, <2>2
<1> QED
  BY <1>1, <1>4, <1>5

LEMMA NextInv ==
  AccountInv /\ [Next]_vars => AccountInv'
<1> SUFFICES ASSUME AccountInv, [Next]_vars PROVE AccountInv'
  OBVIOUS
<1>1. CASE OpenSession
  BY <1>1, OpenSessionInv
<1>2. ASSUME NEW p \in Plan, ExecuteOrder(p) PROVE AccountInv'
  BY <1>2, ExecuteOrderInv
<1>3. CASE CloseSession
  BY <1>3, CloseSessionInv
<1>4. CASE Resume
  BY <1>4, ResumeInv
<1>5. CASE UNCHANGED vars
  <2>1. RequestInv' /\ RowsInv'
    BY <1>5 DEF AccountInv, RequestInv, RowsInv, vars, request, orders
  <2>2. BooksInv'
    BY <1>5 DEF AccountInv, BooksInv, vars
  <2> QED
    BY <2>1, <2>2 DEF AccountInv
<1> QED
  BY <1>1, <1>2, <1>3, <1>4, <1>5 DEF Next, Returned

\* The accounts, the rows and the request stay sound in every behaviour.
THEOREM AccountsStaySound ==
  Spec => []AccountInv
  BY InitInv, NextInv, PTL DEF Spec

\* No fill, fee, dividend or resumed call ever makes an account owe money
\* (execution_evaluation.py, the cash checks before each fill).
THEOREM NeverOverdrawn ==
  Spec => []NoOverdraft
<1>1. AccountInv => NoOverdraft
  BY DEF AccountInv, BooksInv, Sound, NoOverdraft
<1> QED
  BY <1>1, AccountsStaySound, PTL

\* Every share is available or waits for a session that lies ahead
\* (the unsettled entries of _fill and the release at the open).
THEOREM SharesAlwaysSettle ==
  Spec => []SharesSettle
<1>1. AccountInv => SharesSettle
  BY DEF AccountInv, BooksInv, Sound, SharesSettle
<1> QED
  BY <1>1, AccountsStaySound, PTL

-----------------------------------------------------------------------------
(* No rest is lost: rows wait for sessions that are still ahead.            *)

\* A row waits for a session of the calendar that has not been closed, and
\* a supplied plan without a row is filled or expired in full.
RowsAhead ==
  \A p \in supplied :
    /\ due[p] # None => /\ due[p].date \in calendar
                        /\ due[p].date >= day
                        /\ phase \in {"between", "checkpoint"} => due[p].date > day
    /\ due[p] = None => filled[p] + expired[p] = plans[p].quantity

LEMMA RowsAheadInit ==
  Init => RowsAhead
<1> SUFFICES ASSUME Init PROVE RowsAhead
  OBVIOUS
<1>1. RequestInv
  BY InitInv DEF AccountInv
<1>2. /\ supplied = {p \in Plan : plans[p].date \in calendar} /\ day = 0
      /\ due = [p \in Plan |-> IF p \in supplied THEN NewRow(p) ELSE None]
  BY DEF Init
<1>3. ASSUME NEW p \in supplied
      PROVE  due[p] # None /\ due[p].date \in calendar /\ due[p].date \in Session
  <2>1. p \in Plan /\ due[p] = NewRow(p) /\ plans[p].date \in calendar
    BY <1>2
  <2> QED
    BY <1>1, <2>1, NewRowType, PlanType
<1>4. \A p \in supplied : due[p].date \in Int /\ due[p].date > 0
  BY <1>3, SessionType
<1>5. \A p \in supplied : due[p].date >= day /\ due[p].date > day
  BY <1>2, <1>4
<1> QED
  BY <1>3, <1>5 DEF RowsAhead

LEMMA RowsAheadNext ==
  ASSUME CalendarRevisions = FALSE
  PROVE  AccountInv /\ RowsAhead /\ [Next]_vars => RowsAhead'
<1> SUFFICES ASSUME AccountInv, RowsAhead, [Next]_vars PROVE RowsAhead'
  OBVIOUS
<1> USE DEF AccountInv
<1>1. /\ supplied \subseteq Plan /\ day \in Int /\ calendar \subseteq Session
      /\ \A p \in Plan : due[p] # None => due[p].date \in Int /\ due[p].date \in Session
  <2>1. \A p \in Plan : due[p] # None => due[p].date \in Session
    BY RowType
  <2>2. \A p \in Plan : due[p] # None => due[p].date \in Int
    BY <2>1, SessionType
  <2> QED
    BY <2>1, <2>2 DEF RequestInv
<1>2. CASE OpenSession
  <2>1. /\ UNCHANGED <<plans, calendar, cutoff, supplied, due, filled, expired>>
        /\ phase = "between" /\ phase' = "trading" /\ Ahead # {} /\ day' = Min(Ahead)
    BY <1>2 DEF OpenSession, request, orders
  <2>2. /\ day' \in Int /\ day' <= cutoff /\ cutoff \in Int
        /\ \A d \in Ahead : day' <= d
    BY <2>1, NextSession, SessionInDays DEF RequestInv
  <2>3. ASSUME NEW p \in supplied, due[p] # None
        PROVE  due[p].date \in calendar /\ due[p].date >= day'
    <3>1. due[p].date \in calendar /\ due[p].date > day
      BY <2>1, <2>3 DEF RowsAhead
    <3>2. due[p].date <= cutoff => due[p].date \in Ahead
      BY <3>1 DEF Ahead
    <3> QED
      BY <1>1, <2>2, <2>3, <3>1, <3>2
  <2> QED
    BY <2>1, <2>3 DEF RowsAhead
<1>3. ASSUME NEW p \in Plan, ExecuteOrder(p) PROVE RowsAhead'
  <2>1. /\ phase = "trading" /\ due[p] # None /\ due[p].date = day
        /\ UNCHANGED <<plans, calendar, cutoff, supplied, day, open>>
        /\ Refused \/ Handled(p)
    BY <1>3, OrderHandled
  <2>2. phase' \in {"trading", "rejected"}
    BY <2>1 DEF Refused, Handled
  <2>3. CASE Refused
    BY <2>1, <2>2, <2>3 DEF Refused, RowsAhead
  <2>4. CASE Handled(p)
    <3>1. PICK quantity \in 0 .. due[p].left, rest \in Nat :
            /\ rest = due[p].left - quantity
            /\ processed' = processed \union {p}
            /\ filled' = [filled EXCEPT ![p] = @ + quantity]
            /\ \/ /\ due' = [due EXCEPT ![p] = RetryRow(p, rest)]
                  /\ rest > 0 /\ Following # {} /\ expired' = expired
               \/ /\ due' = [due EXCEPT ![p] = None]
                  /\ expired' = [expired EXCEPT ![p] = rest]
      BY <2>1, <2>4, RowHandled
    <3>2. /\ due[p].left \in 1 .. MaxQuantity /\ MaxQuantity \in Nat
          /\ due[p].left = plans[p].quantity - filled[p]
          /\ plans[p].quantity \in Nat /\ filled[p] \in Nat
          /\ quantity \in Nat /\ quantity <= due[p].left
      BY <2>1, RowType, PlanType DEF RowsInv
    <3>3. /\ filled'[p] = filled[p] + quantity
          /\ \A q \in Plan \ {p} : filled'[q] = filled[q] /\ expired'[q] = expired[q]
                                   /\ due'[q] = due[q]
      BY <3>1 DEF RowsInv
    <3>4. /\ due'[p] # None => due'[p].date \in calendar /\ due'[p].date > day
          /\ due'[p] = None => filled'[p] + expired'[p] = plans[p].quantity
      <4>1. CASE /\ due' = [due EXCEPT ![p] = RetryRow(p, rest)]
                 /\ rest > 0 /\ Following # {} /\ expired' = expired
        <5>1. rest \in 1 .. MaxQuantity /\ due'[p] = RetryRow(p, rest)
          BY <3>1, <3>2, <4>1 DEF RowsInv
        <5> QED
          BY <4>1, <5>1, RetryRowType
      <4>2. CASE due' = [due EXCEPT ![p] = None] /\ expired' = [expired EXCEPT ![p] = rest]
        <5>1. due'[p] = None /\ expired'[p] = rest
          BY <4>2 DEF RowsInv
        <5> QED
          BY <3>1, <3>2, <3>3, <5>1
      <4> QED
        BY <3>1, <4>1, <4>2
    <3>5. due'[p] # None => due'[p].date \in Int /\ due'[p].date >= day
      <4>1. due'[p] # None => due'[p].date \in Session
        BY <1>1, <3>4
      <4>2. due'[p] # None => due'[p].date \in Int
        BY <4>1, SessionType
      <4> QED
        BY <1>1, <3>4, <4>2
    <3> QED
      BY <1>1, <2>1, <2>2, <3>3, <3>4, <3>5 DEF RowsAhead
  <2> QED
    BY <2>1, <2>3, <2>4
<1>4. CASE CloseSession
  <2>1. /\ UNCHANGED <<plans, calendar, supplied, day, filled, expired>>
        /\ phase = "trading" /\ Todays = {}
    BY <1>4 DEF CloseSession, request
  <2>2. \A p \in supplied : due[p] # None => due[p].date \in calendar /\ due[p].date > day
    BY <1>1, <2>1 DEF RowsAhead, Todays
  <2>3. \A p \in supplied : due'[p] = due[p]
    BY <1>1, <1>4, <2>2 DEF CloseSession
  <2> QED
    BY <1>1, <2>1, <2>2, <2>3 DEF RowsAhead
<1>5. CASE Resume
  <2>1. /\ UNCHANGED <<plans, day, filled, expired>> /\ phase = "checkpoint" /\ phase' = "between"
        /\ calendar \subseteq calendar'
    BY <1>5 DEF Resume, Continues
  <2>2. /\ supplied' = supplied \union {p \in Plan : plans[p].date \in calendar'
                                                       /\ plans[p].date > day}
        /\ due' = [p \in Plan |-> IF p \in supplied' \ supplied THEN NewRow(p) ELSE due[p]]
    BY <1>5 DEF Resume
  <2>3. ASSUME NEW p \in supplied'
        PROVE  /\ due'[p] # None => /\ due'[p].date \in calendar' /\ due'[p].date > day
                                    /\ due'[p].date >= day
               /\ due'[p] = None => filled[p] + expired[p] = plans[p].quantity
    <3>1. CASE p \in supplied
      <4>1. due'[p] = due[p]
        BY <1>1, <2>2, <3>1
      <4> QED
        BY <1>1, <2>1, <3>1, <4>1 DEF RowsAhead
    <3>2. CASE p \notin supplied
      <4>1. p \in Plan /\ due'[p] = NewRow(p) /\ plans[p].date \in calendar'
            /\ plans[p].date > day
        BY <2>2, <2>3, <3>2
      <4>2. due'[p] # None /\ due'[p].date = plans[p].date /\ plans[p].date \in Int
        BY <4>1, NewRowType, PlanType, SessionInDays
      <4> QED
        BY <1>1, <4>1, <4>2
    <3> QED
      BY <3>1, <3>2
  <2> QED
    BY <2>1, <2>3 DEF RowsAhead
<1>6. CASE UNCHANGED vars
  BY <1>6 DEF RowsAhead, vars, request, orders
<1> QED
  BY <1>2, <1>3, <1>4, <1>5, <1>6 DEF Next, Returned

\* When a resumed call only extends the calendar it continues, what a plan
\* asked for is filled, expired or still due (the carried residual rows of
\* by_day and of the checkpoint).
THEOREM ResidualsKept ==
  ASSUME CalendarRevisions = FALSE
  PROVE  Spec => []ResidualKept
<1>1. AccountInv /\ RowsAhead => ResidualKept
  <2> SUFFICES ASSUME AccountInv, RowsAhead, NEW p \in supplied
               PROVE  filled[p] + expired[p] + (IF due[p] = None THEN 0 ELSE due[p].left)
                        = plans[p].quantity
    BY DEF ResidualKept
  <2>1. p \in Plan /\ filled[p] \in Nat /\ expired[p] \in Nat /\ plans[p].quantity \in Nat
    BY PlanType DEF AccountInv, RequestInv, RowsInv
  <2>2. CASE due[p] = None
    BY <2>1, <2>2 DEF RowsAhead
  <2>3. CASE due[p] # None
    BY <2>1, <2>3 DEF AccountInv, RowsInv
  <2> QED
    BY <2>2, <2>3
<1>2. AccountInv /\ RowsAhead /\ [Next]_vars => RowsAhead'
  BY RowsAheadNext
<1> QED
  BY <1>1, <1>2, RowsAheadInit, AccountsStaySound, PTL DEF Spec
-----------------------------------------------------------------------------
(* A session ends.                                                          *)

\* Every order handled leaves the session's list for good: a retry waits
\* for a later session (the carried rows of by_day), so that the loop over
\* the rows of a session is finite.
THEOREM SessionsShrink ==
  Spec => SessionsEnd
<1>1. AccountInv /\ [Next]_vars => [SessionShortened]_vars
  <2> SUFFICES ASSUME AccountInv, Next, phase = "trading", phase' = "trading", vars' # vars
               PROVE  day' = day /\ Todays' \subseteq Todays /\ Todays' # Todays
    BY DEF SessionShortened
  <2>1. PICK p \in Plan : ExecuteOrder(p)
    BY DEF Next, OpenSession, CloseSession, Resume, Returned
  <2>2. /\ p \in Todays /\ due[p] # None /\ due[p].date = day /\ day' = day
        /\ Refused \/ Handled(p)
    BY <2>1, OrderHandled
  <2>3. Handled(p)
    BY <2>2 DEF Refused
  <2>4. PICK quantity \in 0 .. due[p].left, rest \in Nat :
          /\ rest = due[p].left - quantity
          /\ \/ /\ due' = [due EXCEPT ![p] = RetryRow(p, rest)]
                /\ rest > 0 /\ Following # {}
             \/ due' = [due EXCEPT ![p] = None]
    BY <2>2, <2>3, RowHandled DEF AccountInv
  <2>5. due'[p] # None => due'[p].date # day
    <3>1. due[p].left \in 1 .. MaxQuantity /\ MaxQuantity \in Nat /\ day \in Int
      BY <2>2, RowType DEF AccountInv, RequestInv
    <3>2. CASE due' = [due EXCEPT ![p] = RetryRow(p, rest)] /\ rest > 0 /\ Following # {}
      <4>1. rest \in 1 .. MaxQuantity /\ due'[p] = RetryRow(p, rest)
        BY <2>4, <3>1, <3>2 DEF AccountInv, RowsInv
      <4>2. due'[p].date \in Session /\ due'[p].date > day
        BY <3>2, <4>1, RetryRowType DEF AccountInv, RequestInv
      <4> QED
        BY <3>1, <4>2, SessionType
    <3>3. CASE due' = [due EXCEPT ![p] = None]
      BY <3>3 DEF AccountInv, RowsInv
    <3> QED
      BY <2>4, <3>2, <3>3
  <2>6. \A q \in Plan \ {p} : due'[q] = due[q]
    BY <2>4 DEF AccountInv, RowsInv
  <2>7. Todays' = Todays \ {p}
    BY <2>2, <2>5, <2>6 DEF Todays
  <2> QED
    BY <2>2, <2>7
<1> QED
  BY <1>1, AccountsStaySound, PTL DEF Spec, SessionsEnd

-----------------------------------------------------------------------------
(* The account implements the abstract plans.                               *)

\* Each plan is executed once by the reference account and filled in pieces
\* that never exceed it, whatever the prices, the cash and the calls do.
THEOREM ImplementsPlans ==
  Spec => ImplementsSignedPlans
<1>1. Init => SignedOrders!Init
  <2> SUFFICES ASSUME Init PROVE SignedOrders!Init
    OBVIOUS
  <2>1. \A p \in Plan : plans[p].quantity \in 1 .. MaxQuantity
    BY InitInv, PlanType DEF AccountInv
  <2> QED
    BY <2>1 DEF Init, SignedOrders!Init
<1>2. AccountInv /\ [Next]_vars => [SignedOrders!Next]_(SignedOrders!vars)
  <2> SUFFICES ASSUME AccountInv, [Next]_vars
               PROVE  SignedOrders!Next \/ UNCHANGED SignedOrders!vars
    OBVIOUS
  <2> USE DEF AccountInv
  <2>1. CASE OpenSession
    BY <2>1 DEF OpenSession, request, orders, SignedOrders!vars
  <2>2. ASSUME NEW p \in Plan, ExecuteOrder(p)
        PROVE  SignedOrders!Next \/ UNCHANGED SignedOrders!vars
    <3>1. due[p] # None /\ plans' = plans /\ (Refused \/ Handled(p))
      BY <2>2, OrderHandled
    <3>2. CASE Refused
      BY <3>1, <3>2 DEF Refused, SignedOrders!vars
    <3>3. CASE Handled(p)
      <4>1. PICK quantity \in 0 .. due[p].left, rest \in Nat :
              /\ rest = due[p].left - quantity
              /\ processed' = processed \union {p}
              /\ filled' = [filled EXCEPT ![p] = @ + quantity]
              /\ expired' = expired \/ expired' = [expired EXCEPT ![p] = rest]
        BY <3>1, <3>3, RowHandled
      <4>2. /\ due[p].left \in 1 .. MaxQuantity /\ MaxQuantity \in Nat
            /\ due[p].left = plans[p].quantity - filled[p] /\ expired[p] = 0
            /\ plans[p].quantity \in Nat /\ plans[p].quantity <= MaxQuantity
            /\ filled[p] \in Nat
        BY <3>1, RowType, PlanType DEF RowsInv
      <4>3. SignedOrders!Due(p) = due[p].left
        BY <4>2 DEF SignedOrders!Due
      <4>4. quantity \in 0 .. MaxQuantity
        BY <4>2
      <4>5. SignedOrders!Order(p, quantity)
        BY <3>1, <4>1, <4>2, <4>3 DEF SignedOrders!Order
      <4> QED
        BY <4>4, <4>5 DEF SignedOrders!Next
    <3> QED
      BY <3>1, <3>2, <3>3
  <2>3. CASE CloseSession
    BY <2>3 DEF CloseSession, request, SignedOrders!vars
  <2>4. CASE Resume
    BY <2>4 DEF Resume, SignedOrders!vars
  <2>5. CASE UNCHANGED vars
    BY <2>5 DEF vars, request, orders, SignedOrders!vars
  <2> QED
    BY <2>1, <2>2, <2>3, <2>4, <2>5 DEF Next, Returned
<1> QED
  BY <1>1, <1>2, AccountsStaySound, PTL DEF Spec, ImplementsSignedPlans, SignedOrders!Spec
-----------------------------------------------------------------------------
(* Positions are explained by plans and bonus shares.                       *)

\* The calendar reaches back to the day, and the dates of the actions up to
\* the cutoff are sessions: no action date is skipped between two sessions.
CalendarInv ==
  /\ ActionDatesSupplied(calendar, cutoff)
  /\ \/ day \in calendar
     \/ day = 0 /\ 1 \in calendar /\ phase = "between"

LEMMA CalendarInvInit ==
  Init => CalendarInv
<1> SUFFICES ASSUME Init PROVE CalendarInv
  OBVIOUS
<1>1. ActionDatesSupplied(calendar, cutoff) /\ day = 0 /\ phase = "between"
  BY DEF Init
<1>2. PICK known \in IF ShortCalendars THEN Session ELSE {LastSession} :
        calendar = 1 .. known /\ cutoff \in calendar
  BY DEF Init
<1>3. known \in Int
  BY <1>2, SessionInDays, ExecutionAccountAssumption
<1>4. 1 \in calendar
  BY <1>2, <1>3
<1> QED
  BY <1>1, <1>4 DEF CalendarInv

LEMMA CalendarInvNext ==
  AccountInv /\ CalendarInv /\ [Next]_vars => CalendarInv'
<1> SUFFICES ASSUME AccountInv, CalendarInv, [Next]_vars PROVE CalendarInv'
  OBVIOUS
<1>1. CASE OpenSession
  <2>1. day' \in calendar /\ UNCHANGED <<calendar, cutoff>>
    BY <1>1, NextSession DEF AccountInv, OpenSession, request
  <2> QED
    BY <2>1 DEF CalendarInv, ActionDatesSupplied
<1>2. ASSUME NEW p \in Plan, ExecuteOrder(p) PROVE CalendarInv'
  <2>1. phase = "trading" /\ UNCHANGED <<calendar, cutoff, day>>
    BY <1>2, OrderHandled
  <2> QED
    BY <2>1 DEF CalendarInv, ActionDatesSupplied
<1>3. CASE CloseSession
  <2>1. phase = "trading" /\ UNCHANGED <<calendar, cutoff, day>>
    BY <1>3 DEF CloseSession, request
  <2> QED
    BY <2>1 DEF CalendarInv, ActionDatesSupplied
<1>4. CASE Resume
  <2>1. /\ ActionDatesSupplied(calendar', cutoff') /\ day' = day /\ phase = "checkpoint"
        /\ calendar' \intersect 1 .. day = calendar \intersect 1 .. day
    BY <1>4 DEF Resume, Continues
  <2>2. day \in calendar /\ day \in Int /\ day > 0
    BY <2>1, SessionType DEF CalendarInv, AccountInv, RequestInv
  <2>3. day \in calendar'
    BY <2>1, <2>2
  <2> QED
    BY <2>1, <2>3 DEF CalendarInv, ActionDatesSupplied
<1>5. CASE UNCHANGED vars
  BY <1>5 DEF CalendarInv, ActionDatesSupplied, vars, request
<1> QED
  BY <1>1, <1>2, <1>3, <1>4, <1>5 DEF Next, Returned

\* An ex date is the session that opens, unless it is past or lies ahead.
LEMMA NoDateSkipped ==
  ASSUME RequestInv, CalendarInv, Ahead # {}, NEW k \in Action,
         Actions[k].ex > day, Actions[k].ex <= Min(Ahead)
  PROVE  Actions[k].ex = Min(Ahead)
<1> DEFINE ex == Actions[k].ex
<1>1. /\ Min(Ahead) \in Int /\ Min(Ahead) <= cutoff /\ cutoff \in Int /\ day \in Int
      /\ \A d \in Ahead : Min(Ahead) <= d
  BY NextSession, SessionType DEF RequestInv
<1>2. ex \in Int
  BY ActionType
<1>3. calendar \subseteq Int /\ IsFiniteSet(calendar) /\ calendar # {}
  BY Finite, SessionInDays DEF RequestInv
<1>4. \A d \in calendar : Min(calendar) <= d
  BY <1>3, MinMember
<1>5. Min(calendar) \in Int
  BY <1>3, MinMember
<1>6. Min(calendar) <= day + 1
  <2>1. \E d \in calendar : d <= day + 1
    BY <1>1 DEF CalendarInv
  <2> QED
    BY <1>1, <1>3, <1>4, <1>5, <2>1
<1>7. ex \in calendar \union 0 .. Min(calendar) - 1 \union (cutoff + 1) .. (2 * LastSession)
  BY DEF CalendarInv, ActionDatesSupplied
<1>8. ex \notin 0 .. Min(calendar) - 1
  BY <1>1, <1>2, <1>5, <1>6
<1>9. ex \notin (cutoff + 1) .. (2 * LastSession)
  BY <1>1, <1>2
<1>10. ex \in calendar
  BY <1>7, <1>8, <1>9
<1>11. ex \in Ahead
  BY <1>1, <1>2, <1>10 DEF Ahead
<1> QED
  BY <1>1, <1>2, <1>11

\* What the plans and the distributions of an asset give, term by term.
PlannedTerm(l, a) ==
  [p \in Plan |-> IF plans[p].asset = a THEN Signed(p, Executed(l, p)) ELSE 0]
BonusTerm(acct, a, d) ==
  [k \in Action |-> IF Actions[k].asset = a /\ Actions[k].ex <= d
                    THEN WholeShares(acct.entitled[k], Actions[k].stock) - acct.sharesDue[k]
                    ELSE 0]
Explained ==
  \A l \in Ledger, a \in Asset :
    account[l].position[a] = Sum(PlannedTerm(l, a)) + Sum(BonusTerm(account[l], a, day))

LEMMA PlannedType ==
  ASSUME RequestInv, RowsInv, NEW l \in Ledger, NEW a
  PROVE  PlannedTerm(l, a) \in [Plan -> Int]
<1>1. \A p \in Plan : /\ plans[p].quantity \in Nat /\ filled[p] \in Nat
                      /\ plans[p].buy \in BOOLEAN
  BY PlanType DEF RowsInv
<1>2. \A p \in Plan : Executed(l, p) \in Nat
  BY <1>1 DEF Executed
<1>3. \A p \in Plan : Signed(p, Executed(l, p)) \in Int
  BY <1>2 DEF Signed
<1> QED
  BY <1>3 DEF PlannedTerm

LEMMA BonusType ==
  ASSUME NEW acct, NEW e, Sound(acct, e), NEW a, NEW d
  PROVE  BonusTerm(acct, a, d) \in [Action -> Int]
<1>1. \A k \in Action : /\ WholeShares(acct.entitled[k], Actions[k].stock) \in Nat
                        /\ acct.sharesDue[k] \in Nat
  BY ActionType, WholeSharesType DEF Sound
<1> QED
  BY <1>1 DEF BonusTerm

\* The property sums over the plans and the actions of the asset only.
LEMMA ExplainedPositions ==
  ASSUME AccountInv, Explained
  PROVE  PositionsExplained
<1> SUFFICES ASSUME NEW l \in Ledger, NEW a \in Asset
             PROVE  account[l].position[a] =
                      Sum([p \in {q \in Plan : plans[q].asset = a} |-> Signed(p, Executed(l, p))])
                      + Sum([k \in {i \in Action : Actions[i].asset = a /\ Actions[i].ex <= day} |->
                              WholeShares(account[l].entitled[k], Actions[k].stock)
                              - account[l].sharesDue[k]])
  BY DEF PositionsExplained
<1> DEFINE P == {q \in Plan : plans[q].asset = a}
           K == {i \in Action : Actions[i].asset = a /\ Actions[i].ex <= day}
           f == PlannedTerm(l, a)
           g == BonusTerm(account[l], a, day)
<1>1. f \in [Plan -> Int] /\ g \in [Action -> Int]
  BY PlannedType, BonusType DEF AccountInv, BooksInv
<1>2. Sum([p \in P |-> f[p]]) = Sum([p \in Plan |-> IF p \in P THEN f[p] ELSE 0])
  <2> HIDE DEF f
  <2> QED
    BY <1>1, SumSome, Finite
<1>3. Sum([k \in K |-> g[k]]) = Sum([k \in Action |-> IF k \in K THEN g[k] ELSE 0])
  <2> HIDE DEF g
  <2> QED
    BY <1>1, SumSome, Finite
<1>4. [p \in Plan |-> IF p \in P THEN f[p] ELSE 0] = f
  BY <1>1 DEF PlannedTerm
<1>5. [k \in Action |-> IF k \in K THEN g[k] ELSE 0] = g
  BY <1>1 DEF BonusTerm
<1>6. [p \in P |-> f[p]] = [p \in P |-> Signed(p, Executed(l, p))]
  BY DEF PlannedTerm
<1>7. [k \in K |-> g[k]] = [k \in K |-> WholeShares(account[l].entitled[k], Actions[k].stock)
                                        - account[l].sharesDue[k]]
  BY DEF BonusTerm
<1>8. account[l].position[a] = Sum(f) + Sum(g)
  BY DEF Explained
<1> HIDE DEF f, g
<1> QED
  BY <1>2, <1>3, <1>4, <1>5, <1>6, <1>7, <1>8

LEMMA ExplainedInit ==
  Init => Explained
<1> SUFFICES ASSUME Init, NEW l \in Ledger, NEW a \in Asset
             PROVE  account[l].position[a]
                      = Sum(PlannedTerm(l, a)) + Sum(BonusTerm(account[l], a, day))
  BY DEF Explained
<1>1. AccountInv
  BY InitInv
<1>2. account[l] = Opening /\ day = 0 /\ processed = {} /\ filled = [p \in Plan |-> 0]
  BY DEF Init
<1>3. PlannedTerm(l, a) = [p \in Plan |-> 0]
  <2>1. \A p \in Plan : Executed(l, p) = 0
    BY <1>2 DEF Executed
  <2>2. \A p \in Plan : Signed(p, 0) = 0
    <3>1. \A m, n \in Int : m + n = 0 => -n = m
      OBVIOUS
    <3>2. 0 \in Int /\ 0 + 0 = 0
      OBVIOUS
    <3>3. -0 = 0
      BY <3>1, <3>2, Zenon
    <3> QED
      BY <3>3, Zenon DEF Signed
  <2> QED
    BY <2>1, <2>2 DEF PlannedTerm
<1>4. BonusTerm(account[l], a, day) = [k \in Action |-> 0]
  <2>2. ASSUME NEW k \in Action PROVE ~ (Actions[k].ex <= 0)
    <3> DEFINE ex == Actions[k].ex
    <3>1. ex \in Nat /\ ex > 0
      BY ActionType
    <3> HIDE DEF ex
    <3> QED
      BY <3>1 DEF ex
  <2> QED
    BY <1>2, <2>2 DEF BonusTerm
<1>5. account[l].position[a] = 0
  BY <1>2 DEF Opening
<1> QED
  BY <1>3, <1>4, <1>5, SumZero, Finite
\* The open of a session counts the bonus shares of its ex date, and moves
\* what is listed from the receivables to the position.
LEMMA OpenedPosition ==
  ASSUME NEW acct, NEW e, Sound(acct, e), NEW d, NEW prices
  PROVE  LET next == Opened(acct, d, prices)
             receivable(k) == IF Actions[k].ex = d
                              THEN WholeShares(acct.entitled[k], Actions[k].stock)
                              ELSE acct.sharesDue[k]
         IN /\ next.entitled = acct.entitled
            /\ next.sharesDue = [k \in Action |-> IF Actions[k].list = d THEN 0 ELSE receivable(k)]
            /\ next.position = [a \in Asset |-> acct.position[a]
                 + Sum([k \in {i \in Action : Actions[i].list = d /\ Actions[i].asset = a} |->
                          receivable(k)])]
<1> DEFINE receivable(k) == IF Actions[k].ex = d
                            THEN WholeShares(acct.entitled[k], Actions[k].stock)
                            ELSE acct.sharesDue[k]
           accrued == Accrued(acct, d)
           released == Released(accrued, d)
           paid == Paid(released, d)
<1>1. /\ DOMAIN accrued = Fields /\ accrued.entitled = acct.entitled
      /\ accrued.position = acct.position
      /\ accrued.sharesDue = [k \in Action |-> receivable(k)]
  <2>1. DOMAIN accrued = Fields
    BY DEF Sound, Fields, Accrued
  <2>2. accrued.entitled = acct.entitled /\ accrued.position = acct.position
    BY DEF Sound, Fields, Accrued
  <2>3. accrued.sharesDue = [k \in Action |-> receivable(k)]
    BY DEF Sound, Fields, Accrued
  <2> QED
    BY <2>1, <2>2, <2>3
<1> HIDE DEF accrued
<1>2. /\ DOMAIN released = Fields /\ released.entitled = accrued.entitled
      /\ released.position = accrued.position /\ released.sharesDue = accrued.sharesDue
  BY <1>1 DEF Fields, Released
<1> HIDE DEF released
<1>3. /\ DOMAIN paid = Fields /\ paid.entitled = released.entitled
      /\ paid.sharesDue = [k \in Action |-> IF k \in {i \in Action : Actions[i].list = d}
                                            THEN 0 ELSE released.sharesDue[k]]
  BY <1>2 DEF Fields, Paid
<1>4. paid.position = [a \in Asset |-> released.position[a]
        + Sum([k \in {i \in {j \in Action : Actions[j].list = d} : Actions[i].asset = a} |->
                 released.sharesDue[k]])]
  BY <1>2, <1>1 DEF Sound, Shares, Fields, Paid
<1>5. \A a : [k \in {i \in {j \in Action : Actions[j].list = d} : Actions[i].asset = a} |->
                released.sharesDue[k]]
             = [k \in {i \in Action : Actions[i].list = d /\ Actions[i].asset = a} |->
                  receivable(k)]
  <2> HIDE DEF receivable
  <2> QED
    BY <1>1, <1>2
<1> HIDE DEF paid
<1>6. /\ Marked(paid, prices).entitled = paid.entitled
      /\ Marked(paid, prices).sharesDue = paid.sharesDue
      /\ Marked(paid, prices).position = paid.position
  BY <1>3 DEF Fields, Marked
<1>7. Opened(acct, d, prices) = Marked(paid, prices)
  BY DEF Opened, paid, released, accrued
<1>8. Opened(acct, d, prices).position = [a \in Asset |-> acct.position[a]
        + Sum([k \in {i \in Action : Actions[i].list = d /\ Actions[i].asset = a} |->
                 receivable(k)])]
  <2>1. Opened(acct, d, prices).position = paid.position
    BY <1>6, <1>7
  <2>2. released.position = acct.position
    BY <1>1, <1>2
  <2> DEFINE was(a) ==
        Sum([k \in {i \in {j \in Action : Actions[j].list = d} : Actions[i].asset = a} |->
               released.sharesDue[k]])
      now(a) ==
        Sum([k \in {i \in Action : Actions[i].list = d /\ Actions[i].asset = a} |-> receivable(k)])
  <2>3. \A a : was(a) = now(a)
    <3> HIDE DEF receivable
    <3> QED
      BY <1>5
  <2>4. paid.position = [a \in Asset |-> released.position[a] + was(a)]
    BY <1>4
  <2> HIDE DEF was, now
  <2>5. Opened(acct, d, prices).position = [a \in Asset |-> acct.position[a] + now(a)]
    BY <2>1, <2>2, <2>3, <2>4
  <2> QED
    BY <2>5 DEF now
<1>9. Opened(acct, d, prices).sharesDue
        = [k \in Action |-> IF Actions[k].list = d THEN 0 ELSE receivable(k)]
  <2> HIDE DEF receivable
  <2> QED
    BY <1>1, <1>2, <1>3, <1>6, <1>7
<1>10. Opened(acct, d, prices).entitled = acct.entitled
  BY <1>1, <1>2, <1>3, <1>6, <1>7
<1> QED
  BY <1>8, <1>9, <1>10

LEMMA ExplainedOpen ==
  ASSUME AccountInv, CalendarInv, Explained, OpenSession
  PROVE  Explained'
<1> SUFFICES ASSUME NEW l \in Ledger, NEW a \in Asset
             PROVE  account'[l].position[a]
                      = Sum(PlannedTerm(l, a)') + Sum(BonusTerm(account'[l], a, day'))
  BY DEF Explained
<1> DEFINE acct == account[l]
           d == day'
           next == account'[l]
           receivable(k) == IF Actions[k].ex = d
                            THEN WholeShares(acct.entitled[k], Actions[k].stock)
                            ELSE acct.sharesDue[k]
           listed == {i \in Action : Actions[i].list = d /\ Actions[i].asset = a}
           given == [k \in Action |-> IF k \in listed THEN receivable(k) ELSE 0]
           before == BonusTerm(acct, a, day)
           after == BonusTerm(next, a, d)
<1>1. /\ Sound(acct, day) /\ RequestInv /\ Ahead # {} /\ d = Min(Ahead)
      /\ account' = [i \in Ledger |-> Opened(account[i], day', open')]
      /\ UNCHANGED <<plans, processed, filled>>
  BY DEF AccountInv, BooksInv, OpenSession, request, orders
<1>2. d \in Int /\ day \in Int /\ day < d
  BY <1>1, NextSession, SessionType DEF RequestInv
<1>3. /\ next.entitled = acct.entitled
      /\ next.sharesDue = [k \in Action |-> IF Actions[k].list = d THEN 0 ELSE receivable(k)]
      /\ next.position = [b \in Asset |-> acct.position[b]
           + Sum([k \in {i \in Action : Actions[i].list = d /\ Actions[i].asset = b} |->
                    receivable(k)])]
  <2>1. next = Opened(acct, d, open')
    BY <1>1
  <2>2. Sound(acct, day)
    BY <1>1
  <2> HIDE DEF acct, next, d
  <2> QED
    BY ONLY <2>1, <2>2, OpenedPosition
<1>4. \A k \in Action : receivable(k) \in Nat
  <2>1. \A k \in Action : /\ WholeShares(acct.entitled[k], Actions[k].stock) \in Nat
                          /\ acct.sharesDue[k] \in Nat
    BY <1>1, ActionType, WholeSharesType DEF Sound
  <2> QED
    BY <2>1
<1>5. given \in [Action -> Int]
  BY <1>4
<1>6. Sum([k \in listed |-> receivable(k)]) = Sum(given)
  <2> DEFINE f == [k \in Action |-> receivable(k)]
  <2>1. f \in [Action -> Int]
    BY <1>4
  <2>2. [k \in listed |-> f[k]] = [k \in listed |-> receivable(k)]
        /\ [k \in Action |-> IF k \in listed THEN f[k] ELSE 0] = given
    OBVIOUS
  <2>3. listed \in SUBSET Action
    OBVIOUS
  <2> HIDE DEF f, given, receivable, listed
  <2>4. Sum([k \in listed |-> f[k]]) = Sum([k \in Action |-> IF k \in listed THEN f[k] ELSE 0])
    BY <2>1, <2>3, SumSome, Finite
  <2> QED
    BY <2>2, <2>4
<1>7. next.position[a] = acct.position[a] + Sum(given)
  BY <1>3, <1>6
<1>8. before \in [Action -> Int] /\ after \in [Action -> Int]
  <2>1. Sound(next, d)
    BY OpenSessionInv DEF AccountInv, BooksInv
  <2> QED
    BY <1>1, <2>1, BonusType
<1>9. ASSUME NEW k \in Action PROVE after[k] = before[k] + given[k]
  <2> DEFINE whole == WholeShares(acct.entitled[k], Actions[k].stock)
             ex == Actions[k].ex
             list == Actions[k].list
             mine == Actions[k].asset = a
             owed == acct.sharesDue[k]
  <2>1. whole \in Nat /\ owed \in Nat /\ ex \in Nat /\ list \in Nat /\ ex <= list
    BY <1>1, ActionType, WholeSharesType DEF Sound
  <2>2. ex > day /\ ex <= d => ex = d
    BY <1>1, NoDateSkipped
  <2>3. before[k] = IF mine /\ ex <= day THEN whole - owed ELSE 0
    BY DEF BonusTerm
  <2>4. after[k] = IF mine /\ ex <= d
                   THEN whole - (IF list = d THEN 0 ELSE IF ex = d THEN whole ELSE owed) ELSE 0
    BY <1>3 DEF BonusTerm
  <2>5. given[k] = IF list = d /\ mine THEN (IF ex = d THEN whole ELSE owed) ELSE 0
    OBVIOUS
  <2> HIDE DEF before, after, given, d, whole, ex, list, owed, mine
  <2>6. CASE ~ mine
    BY <2>3, <2>4, <2>5, <2>6
  <2>7. CASE mine /\ ex > d
    BY <1>2, <2>1, <2>3, <2>4, <2>5, <2>7
  <2>8. CASE mine /\ ex = d
    BY <1>2, <2>1, <2>3, <2>4, <2>5, <2>8
  <2>9. CASE mine /\ ex < d
    <3>1. ex <= day
      BY <1>2, <2>1, <2>2, <2>9
    <3>2. ex # d /\ ex <= d
      BY <1>2, <2>1, <2>9
    <3> QED
      BY <2>1, <2>3, <2>4, <2>5, <2>9, <3>1, <3>2
  <2> QED
    BY <1>2, <2>1, <2>6, <2>7, <2>8, <2>9
<1>10. Sum(after) = Sum(before) + Sum(given)
  <2> HIDE DEF after, before, given
  <2> QED
    BY <1>5, <1>8, <1>9, SumPlus, Finite
<1>11. PlannedTerm(l, a)' = PlannedTerm(l, a)
  BY <1>1 DEF PlannedTerm, Signed, Executed
<1>12. acct.position[a] = Sum(PlannedTerm(l, a)) + Sum(before)
  BY DEF Explained
<1>13. Sum(PlannedTerm(l, a)) \in Int /\ Sum(before) \in Int /\ Sum(given) \in Int
  <2> HIDE DEF before, given
  <2> QED
    BY <1>5, <1>8, PlannedType, SumInteger, Finite DEF AccountInv
<1> HIDE DEF acct, next, before, after, given, d
<1>14. next.position[a] = Sum(PlannedTerm(l, a)') + Sum(after)
  BY <1>7, <1>10, <1>11, <1>12, <1>13
<1> QED
  BY <1>14 DEF next, after, d
\* The close records holdings for ex dates that lie ahead.
LEMMA ExplainedClose ==
  ASSUME AccountInv, Explained, CloseSession
  PROVE  Explained'
<1> SUFFICES ASSUME NEW l \in Ledger, NEW a \in Asset
             PROVE  account'[l].position[a]
                      = Sum(PlannedTerm(l, a)') + Sum(BonusTerm(account'[l], a, day'))
  BY DEF Explained
<1>1. PICK close \in [Asset -> ClosePrice \union {None}] :
        account' = [i \in Ledger |-> WithoutEmptyLots(Recorded(Marked(account[i], close), day))]
  BY DEF CloseSession
<1>2. UNCHANGED <<plans, processed, filled, day>>
  BY DEF CloseSession, request
<1> DEFINE acct == account[l]
           marked == Marked(acct, close)
           recorded == Recorded(marked, day)
           next == account'[l]
<1>3. Sound(acct, day) /\ day \in Int
  BY SessionInDays DEF AccountInv, RequestInv, BooksInv
<1>4. /\ DOMAIN marked = Fields /\ marked.position = acct.position
      /\ marked.sharesDue = acct.sharesDue /\ marked.entitled = acct.entitled
  BY <1>3 DEF Sound, Fields, Marked
<1> HIDE DEF marked
<1>5. /\ DOMAIN recorded = Fields /\ recorded.position = acct.position
      /\ recorded.sharesDue = acct.sharesDue
      /\ recorded.entitled = [k \in Action |-> IF Actions[k].record = day
                                THEN marked.position[Actions[k].asset] ELSE marked.entitled[k]]
  BY <1>4 DEF Fields, Recorded
<1>6. next = WithoutEmptyLots(recorded)
  BY <1>1 DEF marked
<1> HIDE DEF recorded
<1>7. /\ next.position = acct.position /\ next.sharesDue = acct.sharesDue
      /\ next.entitled = recorded.entitled
  BY <1>5, <1>6 DEF Fields, WithoutEmptyLots
<1>8. \A k \in Action : Actions[k].ex <= day => next.entitled[k] = acct.entitled[k]
  <2> TAKE k \in Action
  <2>1. Actions[k].record < Actions[k].ex /\ Actions[k].record \in Int /\ Actions[k].ex \in Int
    BY ActionType
  <2>2. Actions[k].ex <= day => Actions[k].record # day
    BY <1>3, <2>1
  <2> HIDE DEF next
  <2> QED
    BY <1>4, <1>5, <1>7, <2>2
<1>9. BonusTerm(next, a, day) = BonusTerm(acct, a, day)
  <2> HIDE DEF next, acct
  <2> QED
    BY <1>7, <1>8 DEF BonusTerm
<1>10. PlannedTerm(l, a)' = PlannedTerm(l, a)
  BY <1>2 DEF PlannedTerm, Signed, Executed
<1>11. acct.position[a] = Sum(PlannedTerm(l, a)) + Sum(BonusTerm(acct, a, day))
  BY DEF Explained
<1> HIDE DEF acct, next
<1> QED
  BY <1>2, <1>7, <1>9, <1>10, <1>11 DEF next

\* What a leg does to the position.
LEMMA BoughtPosition ==
  ASSUME NEW acct, DOMAIN acct = Fields, acct.position \in Shares,
         NEW p, NEW quantity, NEW price, NEW fee, NEW reference, NEW when
  PROVE  LET next == Bought(acct, p, quantity, price, fee, reference, when) IN
         /\ \A a \in Asset : next.position[a] =
              IF plans[p].asset = a THEN acct.position[a] + quantity ELSE acct.position[a]
         /\ next.entitled = acct.entitled /\ next.sharesDue = acct.sharesDue
<1>1. Bought(acct, p, quantity, price, fee, reference, when).position
        = [acct.position EXCEPT ![plans[p].asset] = acct.position[plans[p].asset] + quantity]
  BY DEF Fields, Bought
<1>2. /\ Bought(acct, p, quantity, price, fee, reference, when).entitled = acct.entitled
      /\ Bought(acct, p, quantity, price, fee, reference, when).sharesDue = acct.sharesDue
  BY DEF Fields, Bought
<1> QED
  BY <1>1, <1>2 DEF Shares

LEMMA SoldPosition ==
  ASSUME NEW acct, DOMAIN acct = Fields, acct.position \in Shares,
         NEW p, NEW quantity, NEW price, NEW fee, NEW reference
  PROVE  LET next == Sold(acct, p, quantity, price, fee, reference) IN
         /\ \A a \in Asset : next.position[a] =
              IF plans[p].asset = a THEN acct.position[a] - quantity ELSE acct.position[a]
         /\ next.entitled = acct.entitled /\ next.sharesDue = acct.sharesDue
<1>1. Sold(acct, p, quantity, price, fee, reference).position
        = [acct.position EXCEPT ![plans[p].asset] = acct.position[plans[p].asset] - quantity]
  BY DEF Fields, Sold
<1>2. /\ Sold(acct, p, quantity, price, fee, reference).entitled = acct.entitled
      /\ Sold(acct, p, quantity, price, fee, reference).sharesDue = acct.sharesDue
  BY DEF Fields, Sold
<1> QED
  BY <1>1, <1>2 DEF Shares

LEMMA OrderPosition ==
  ASSUME RequestInv, RowsInv, BooksInv, NEW p \in Plan, due[p] # None, NEW tradable \in BOOLEAN,
         NEW a \in Asset
  PROVE  LET ideal == IdealFilled(p)
             actual == ActualFilled(p, ActualQuantity(p, tradable))
             shares == IF due[p].retry THEN 0 ELSE due[p].left
         IN /\ ideal.position[a] = account["ideal"].position[a]
                 + (IF plans[p].asset = a THEN Signed(p, shares) ELSE 0)
            /\ ideal.entitled = account["ideal"].entitled
            /\ ideal.sharesDue = account["ideal"].sharesDue
            /\ actual.position[a] = account["actual"].position[a]
                 + (IF plans[p].asset = a THEN Signed(p, ActualQuantity(p, tradable)) ELSE 0)
            /\ actual.entitled = account["actual"].entitled
            /\ actual.sharesDue = account["actual"].sharesDue
<1> DEFINE ideal == IdealFilled(p)
           quantity == ActualQuantity(p, tradable)
           actual == ActualFilled(p, quantity)
           shares == IF due[p].retry THEN 0 ELSE due[p].left
           mine == plans[p].asset = a
<1>1. \A l \in Ledger : /\ DOMAIN account[l] = Fields /\ account[l].position \in Shares
                        /\ account[l].position[a] \in Nat
  BY DEF BooksInv, Sound, Shares
<1>2. due[p].left \in Nat /\ quantity \in Nat /\ "ideal" \in Ledger /\ "actual" \in Ledger
  BY RowType, ActualQuantityType DEF Ledger
<1>3. \A n \in Nat, m \in Nat : /\ m + Signed(p, n) = IF plans[p].buy THEN m + n ELSE m - n
                                /\ m + Signed(p, 0) = m /\ m + 0 = m
  <2>1. \A n \in Nat, m \in Nat : m + Signed(p, n) = IF plans[p].buy THEN m + n ELSE m - n
    BY DEF Signed
  <2>2. \A m \in Nat : m + 0 = m /\ m - 0 = m /\ 0 \in Nat
    OBVIOUS
  <2> QED
    BY <2>1, <2>2
<1>4. /\ ideal.position[a] = account["ideal"].position[a]
           + (IF plans[p].asset = a THEN Signed(p, shares) ELSE 0)
      /\ ideal.entitled = account["ideal"].entitled
      /\ ideal.sharesDue = account["ideal"].sharesDue
  <2>1. CASE due[p].retry
    <3>1. ideal = account["ideal"] /\ shares = 0
      BY <2>1 DEF IdealFilled
    <3> HIDE DEF ideal, shares
    <3> QED
      BY <1>1, <1>2, <1>3, <3>1
  <2>2. CASE ~ due[p].retry /\ plans[p].buy
    <3>1. ideal = Bought(account["ideal"], p, due[p].left, Reference(p), 0, Reference(p), day)
          /\ shares = due[p].left
      BY <2>2 DEF IdealFilled
    <3> HIDE DEF ideal, shares, quantity
    <3>2. /\ ideal.position[a] = IF plans[p].asset = a THEN account["ideal"].position[a] + due[p].left
                               ELSE account["ideal"].position[a]
          /\ ideal.entitled = account["ideal"].entitled
          /\ ideal.sharesDue = account["ideal"].sharesDue
      BY <1>1, <1>2, <3>1, BoughtPosition
    <3> QED
      BY <1>1, <1>2, <1>3, <2>2, <3>1, <3>2
  <2>3. CASE ~ due[p].retry /\ ~ plans[p].buy
    <3>1. ideal = Sold(account["ideal"], p, due[p].left, Reference(p), 0, Reference(p))
          /\ shares = due[p].left
      BY <2>3 DEF IdealFilled
    <3> HIDE DEF ideal, shares, quantity
    <3>2. /\ ideal.position[a] = IF plans[p].asset = a THEN account["ideal"].position[a] - due[p].left
                               ELSE account["ideal"].position[a]
          /\ ideal.entitled = account["ideal"].entitled
          /\ ideal.sharesDue = account["ideal"].sharesDue
      BY <1>1, <1>2, <3>1, SoldPosition
    <3> QED
      BY <1>1, <1>2, <1>3, <2>3, <3>1, <3>2
  <2> QED
    BY <2>1, <2>2, <2>3
<1>5. /\ actual.position[a] = account["actual"].position[a]
           + (IF plans[p].asset = a THEN Signed(p, quantity) ELSE 0)
      /\ actual.entitled = account["actual"].entitled
      /\ actual.sharesDue = account["actual"].sharesDue
  <2> HIDE DEF quantity
  <2>1. CASE quantity = 0
    <3>1. actual = account["actual"]
      BY <2>1 DEF ActualFilled
    <3> HIDE DEF actual
    <3> QED
      BY <1>1, <1>2, <1>3, <2>1, <3>1
  <2>2. CASE quantity # 0 /\ plans[p].buy
    <3>1. actual = Bought(account["actual"], p, quantity, BuyPrice(p),
                          Fee(quantity * BuyPrice(p)), open[plans[p].asset], SettlementDate)
      BY <2>2 DEF ActualFilled
    <3> HIDE DEF actual, shares, quantity
    <3>2. /\ actual.position[a] = IF plans[p].asset = a THEN account["actual"].position[a] + quantity
                               ELSE account["actual"].position[a]
          /\ actual.entitled = account["actual"].entitled
          /\ actual.sharesDue = account["actual"].sharesDue
      BY <1>1, <1>2, <3>1, BoughtPosition
    <3> QED
      BY <1>1, <1>2, <1>3, <2>2, <3>1, <3>2
  <2>3. CASE quantity # 0 /\ ~ plans[p].buy
    <3>1. actual = Sold(account["actual"], p, quantity, SellPrice(p),
                        Fee(quantity * SellPrice(p)), open[plans[p].asset])
      BY <2>3 DEF ActualFilled
    <3> HIDE DEF actual, shares, quantity
    <3>2. /\ actual.position[a] = IF plans[p].asset = a THEN account["actual"].position[a] - quantity
                               ELSE account["actual"].position[a]
          /\ actual.entitled = account["actual"].entitled
          /\ actual.sharesDue = account["actual"].sharesDue
      BY <1>1, <1>2, <3>1, SoldPosition
    <3> QED
      BY <1>1, <1>2, <1>3, <2>3, <3>1, <3>2
  <2> QED
    BY <2>1, <2>2, <2>3
<1> QED
  BY <1>4, <1>5

\* An order adds to the position what it adds to its plan's executed shares.
LEMMA ExplainedOrder ==
  ASSUME AccountInv, Explained, NEW p \in Plan, ExecuteOrder(p)
  PROVE  Explained'
<1> USE DEF AccountInv
<1>1. /\ due[p] # None /\ UNCHANGED <<plans, calendar, cutoff, supplied, day, open>>
      /\ Refused \/ Handled(p)
  BY OrderHandled
<1>2. CASE Refused
  BY <1>1, <1>2 DEF Refused, Explained, PlannedTerm, Signed, Executed
<1>3. CASE Handled(p)
  <2>1. PICK tradable \in BOOLEAN :
          /\ account' = [ideal |-> IdealFilled(p),
                         actual |-> ActualFilled(p, ActualQuantity(p, tradable))]
          /\ processed' = processed \union {p}
          /\ filled' = [filled EXCEPT ![p] = @ + ActualQuantity(p, tradable)]
    BY <1>3 DEF Handled
  <2> DEFINE quantity == ActualQuantity(p, tradable)
             shares(l) == IF l = "actual" THEN quantity
                          ELSE IF due[p].retry THEN 0 ELSE due[p].left
  <2>2. /\ quantity \in Nat /\ due[p].left \in Nat /\ plans[p].quantity \in Nat
        /\ filled[p] \in Nat /\ filled \in [Plan -> Nat] /\ plans[p].buy \in BOOLEAN
        /\ due[p].left = plans[p].quantity - filled[p] /\ due[p].retry \in BOOLEAN
        /\ due[p].retry <=> p \in processed
        /\ p \notin processed => filled[p] = 0
    BY <1>1, RowType, PlanType, ActualQuantityType DEF RowsInv
  <2> SUFFICES ASSUME NEW l \in Ledger, NEW a \in Asset
               PROVE  account'[l].position[a]
                        = Sum(PlannedTerm(l, a)') + Sum(BonusTerm(account'[l], a, day'))
    BY DEF Explained
  <2>3. /\ account'[l].position[a] = account[l].position[a]
             + (IF plans[p].asset = a THEN Signed(p, shares(l)) ELSE 0)
        /\ account'[l].entitled = account[l].entitled
        /\ account'[l].sharesDue = account[l].sharesDue
    <3>1. CASE l = "ideal"
      <4>1. account'[l] = IdealFilled(p) /\ shares(l) = IF due[p].retry THEN 0 ELSE due[p].left
        BY <2>1, <3>1
      <4> HIDE DEF shares
      <4> QED
        BY <1>1, <3>1, <4>1, OrderPosition
    <3>2. CASE l = "actual"
      <4>1. account'[l] = ActualFilled(p, ActualQuantity(p, tradable))
            /\ shares(l) = ActualQuantity(p, tradable)
        BY <2>1, <3>2
      <4> HIDE DEF shares
      <4> QED
        BY <1>1, <3>2, <4>1, OrderPosition
    <3> QED
      BY <3>1, <3>2 DEF Ledger
  <2>4. BonusTerm(account'[l], a, day') = BonusTerm(account[l], a, day)
    BY <1>1, <2>3 DEF BonusTerm
  <2> DEFINE f == PlannedTerm(l, a)
             n == Signed(p, shares(l))
             mine == plans[p].asset = a
  <2>5. f \in [Plan -> Int] /\ n \in Int
    BY <2>2, PlannedType DEF Signed
  <2>6. PlannedTerm(l, a)' = [f EXCEPT ![p] = f[p] + (IF mine THEN n ELSE 0)]
    <3>1. \A q \in Plan \ {p} : Executed(l, q)' = Executed(l, q)
      BY <1>1, <2>1 DEF Executed, RowsInv
    <3>2. Executed(l, p)' = Executed(l, p) + shares(l)
      <4> HIDE DEF quantity
      <4>1. CASE l = "actual"
        <5>1. filled'[p] = filled[p] + quantity
          BY <2>1, <2>2 DEF quantity
        <5> QED
          BY <4>1, <5>1 DEF Executed
      <4>2. CASE l # "actual"
        <5>1. p \in processed' /\ plans' = plans
          BY <1>1, <2>1
        <5>2. CASE due[p].retry
          BY <2>2, <4>2, <5>1, <5>2 DEF Executed
        <5>3. CASE ~ due[p].retry
          BY <2>2, <4>2, <5>1, <5>3 DEF Executed
        <5> QED
          BY <5>2, <5>3
      <4> QED
        BY <4>1, <4>2
    <3>3. Executed(l, p) \in Nat /\ shares(l) \in Nat
      BY <2>2 DEF Executed
    <3>4. Signed(p, Executed(l, p)') = Signed(p, Executed(l, p)) + n
      <4> DEFINE e == Executed(l, p)
                 m == shares(l)
      <4>1. \A x, y \in Nat : Signed(p, x + y) = Signed(p, x) + Signed(p, y)
        BY <2>2 DEF Signed
      <4> HIDE DEF e, shares
      <4> QED
        BY <3>2, <3>3, <4>1
    <3>5. \A q \in Plan : PlannedTerm(l, a)'[q]
                            = IF plans[q].asset = a THEN Signed(q, Executed(l, q)') ELSE 0
      BY <1>1 DEF PlannedTerm, Signed
    <3>6. \A q \in Plan : f[q] = IF plans[q].asset = a THEN Signed(q, Executed(l, q)) ELSE 0
      BY DEF PlannedTerm
    <3>7. DOMAIN PlannedTerm(l, a)' = Plan
          /\ PlannedTerm(l, a)' = [q \in Plan |-> PlannedTerm(l, a)'[q]]
      BY DEF PlannedTerm
    <3>8. ASSUME NEW q \in Plan
          PROVE  PlannedTerm(l, a)'[q]
                   = [f EXCEPT ![p] = f[p] + (IF mine THEN n ELSE 0)][q]
      <4> HIDE DEF n, f
      <4>1. CASE q = p /\ mine
        BY <2>5, <3>4, <3>5, <3>6, <4>1
      <4>2. CASE q = p /\ ~ mine
        BY <2>5, <3>5, <3>6, <4>2
      <4>3. CASE q # p
        BY <2>5, <3>1, <3>5, <3>6, <4>3
      <4> QED
        BY <4>1, <4>2, <4>3
    <3> HIDE DEF n, f, mine
    <3> QED
      BY <2>5, <3>7, <3>8
  <2>7. Sum(PlannedTerm(l, a)') = Sum(f) + (IF mine THEN n ELSE 0)
    <3> DEFINE v == f[p] + (IF mine THEN n ELSE 0)
    <3> HIDE DEF f, n, mine
    <3>1. v \in Int /\ f[p] \in Int /\ (IF mine THEN n ELSE 0) \in Int
      BY <2>5
    <3>2. Sum([f EXCEPT ![p] = v]) = Sum(f) - f[p] + v
      <4> HIDE DEF v
      <4> QED
        BY <2>5, <3>1, SumUpdate, Finite
    <3>3. Sum(f) \in Int
      BY <2>5, SumInteger, Finite
    <3> QED
      BY <2>6, <3>1, <3>2, <3>3
  <2>8. account[l].position[a] = Sum(f) + Sum(BonusTerm(account[l], a, day))
    BY DEF Explained
  <2>9. Sum(f) \in Int /\ Sum(BonusTerm(account[l], a, day)) \in Int
    <3>1. BonusTerm(account[l], a, day) \in [Action -> Int]
      BY BonusType DEF BooksInv
    <3> HIDE DEF f
    <3> QED
      BY <2>5, <3>1, SumInteger, Finite
  <2>10. account'[l].position[a] = account[l].position[a] + (IF mine THEN n ELSE 0)
    BY <2>3
  <2> HIDE DEF f, n, mine
  <2> QED
    BY <2>4, <2>5, <2>7, <2>8, <2>9, <2>10
<1> QED
  BY <1>1, <1>2, <1>3

\* A position is what the plans of its asset have executed, each once and
\* within its quantity, and the bonus shares that are listed (both ledgers
\* of execution_evaluation.py, across all sessions, retries and calls).
THEOREM PositionsAlwaysExplained ==
  Spec => []PositionsExplained
<1>1. AccountInv /\ Explained => PositionsExplained
  BY ExplainedPositions
<1>2. AccountInv /\ CalendarInv /\ Explained /\ [Next]_vars => Explained'
  <2> SUFFICES ASSUME AccountInv, CalendarInv, Explained, [Next]_vars PROVE Explained'
    OBVIOUS
  <2>1. CASE OpenSession
    BY <2>1, ExplainedOpen
  <2>2. ASSUME NEW p \in Plan, ExecuteOrder(p) PROVE Explained'
    BY <2>2, ExplainedOrder
  <2>3. CASE CloseSession
    BY <2>3, ExplainedClose
  <2>4. CASE Resume
    <3>1. UNCHANGED <<plans, processed, filled, day, account>>
      BY <2>4 DEF Resume
    <3> QED
      BY <3>1 DEF Explained, PlannedTerm, Signed, Executed, BonusTerm
  <2>5. CASE UNCHANGED vars
    <3>1. UNCHANGED <<plans, processed, filled, day, account>>
      BY <2>5 DEF vars, request, orders
    <3> QED
      BY <3>1 DEF Explained, PlannedTerm, Signed, Executed, BonusTerm
  <2> QED
    BY <2>1, <2>2, <2>3, <2>4, <2>5 DEF Next, Returned
<1> QED
  BY <1>1, <1>2, ExplainedInit, CalendarInvInit, CalendarInvNext, AccountsStaySound, PTL DEF Spec
=============================================================================
