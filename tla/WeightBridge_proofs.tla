------------------------- MODULE WeightBridge_proofs -------------------------
(***************************************************************************)
(* Proofs about WeightBridge, for any calendar, markets, targets, settings *)
(* and corporate actions, and any number of calls and corrections.         *)
(*                                                                         *)
(* The invariant compares a checkpoint with every uninterrupted run over   *)
(* the inputs the checkpoint is bound to, and so survives a correction of  *)
(* the market: the checkpoint is stale then, and still what it was.        *)
(***************************************************************************)
EXTENDS WeightBridge, SequenceTheorems, FiniteLemmas

-----------------------------------------------------------------------------
(* Lists.                                                                  *)

\* A list of whatever it holds.
IsList(q) == q \in Seq({q[i] : i \in DOMAIN q})

\* A list has a length, and its domain is the places up to it.
LEMMA ListProperties ==
  ASSUME NEW q, IsList(q)
  PROVE  Len(q) \in Nat /\ DOMAIN q = 1 .. Len(q)
  BY DEF IsList

\* Appending keeps the list and adds one place.
LEMMA AppendProps ==
  ASSUME NEW q, IsList(q), NEW x
  PROVE  /\ IsList(Append(q, x)) /\ Len(Append(q, x)) = Len(q) + 1
         /\ \A i \in 1 .. Len(q) : Append(q, x)[i] = q[i]
         /\ Append(q, x)[Len(q) + 1] = x
<1> DEFINE S == {q[i] : i \in DOMAIN q} \cup {x}
           a == Append(q, x)
           T == {a[i] : i \in DOMAIN a}
<1>1. q \in Seq(S) /\ x \in S
  BY DEF IsList
<1> HIDE DEF S
<1>2. a \in Seq(S) /\ Len(a) = Len(q) + 1
  BY <1>1
<1>3. /\ \A i \in 1 .. Len(q) : a[i] = q[i]
      /\ a[Len(q) + 1] = x
  BY <1>1
<1> HIDE DEF a
<1>4. \A i \in 1 .. Len(a) : a[i] \in T
  BY <1>2
<1> HIDE DEF T
<1>5. a \in [1 .. Len(a) -> T] /\ Len(a) \in Nat
  BY <1>2, <1>4
<1>6. a \in Seq(T)
  BY <1>5
<1> QED
  BY <1>2, <1>3, <1>6 DEF IsList, T, a

\* A prefix of a list.
LEMMA PrefixProps ==
  ASSUME NEW q, IsList(q), NEW n \in 0 .. Len(q)
  PROVE  /\ IsList(SubSeq(q, 1, n)) /\ Len(SubSeq(q, 1, n)) = n
         /\ \A i \in 1 .. n : SubSeq(q, 1, n)[i] = q[i]
<1> DEFINE S == {q[i] : i \in DOMAIN q}
           a == SubSeq(q, 1, n)
           T == {a[i] : i \in DOMAIN a}
<1>1. q \in Seq(S)
  BY DEF IsList
<1> HIDE DEF S
<1>2. a \in Seq(S) /\ Len(a) = n
  BY <1>1
<1>3. \A i \in 1 .. n : a[i] = q[i]
  BY <1>1
<1> HIDE DEF a
<1>4. \A i \in 1 .. Len(a) : a[i] \in T
  BY <1>2
<1> HIDE DEF T
<1>5. a \in [1 .. Len(a) -> T] /\ Len(a) \in Nat
  BY <1>2, <1>4
<1>6. a \in Seq(T)
  BY <1>5
<1> QED
  BY <1>2, <1>3, <1>6 DEF IsList, T, a

\* Two lists, one after the other.
LEMMA JoinProps ==
  ASSUME NEW p, IsList(p), NEW q, IsList(q)
  PROVE  /\ IsList(p \o q) /\ Len(p \o q) = Len(p) + Len(q)
         /\ \A i \in 1 .. Len(p) : (p \o q)[i] = p[i]
         /\ \A i \in 1 .. Len(q) : (p \o q)[Len(p) + i] = q[i]
<1> DEFINE S == {p[i] : i \in DOMAIN p} \cup {q[i] : i \in DOMAIN q}
           a == p \o q
           T == {a[i] : i \in DOMAIN a}
<1>1. p \in Seq(S) /\ q \in Seq(S)
  BY DEF IsList
<1> HIDE DEF S
<1>2. a \in Seq(S) /\ Len(a) = Len(p) + Len(q)
  BY <1>1
<1>3. /\ \A i \in 1 .. Len(p) : a[i] = p[i]
      /\ \A i \in 1 .. Len(q) : a[Len(p) + i] = q[i]
  BY <1>1
<1> HIDE DEF a
<1>4. \A i \in 1 .. Len(a) : a[i] \in T
  BY <1>2
<1> HIDE DEF T
<1>5. a \in [1 .. Len(a) -> T] /\ Len(a) \in Nat
  BY <1>2, <1>4
<1>6. a \in Seq(T)
  BY <1>5
<1> QED
  BY <1>2, <1>3, <1>6 DEF IsList, T, a

\* Appending to the second of two joined lists appends to both.
LEMMA JoinAppend ==
  ASSUME NEW p, IsList(p), NEW q, IsList(q), NEW x
  PROVE  /\ \A i \in 1 .. Len(p) + Len(q) : (p \o Append(q, x))[i] = (p \o q)[i]
         /\ (p \o Append(q, x))[Len(p) + Len(q) + 1] = x
<1>1. PICK a : a = Append(q, x)
  OBVIOUS
<1>2. /\ IsList(a) /\ Len(a) = Len(q) + 1
      /\ \A i \in 1 .. Len(q) : a[i] = q[i]
      /\ a[Len(q) + 1] = x
  BY <1>1, AppendProps
<1>3. Len(p) \in Nat /\ Len(q) \in Nat
  BY ListProperties
<1>4. /\ \A i \in 1 .. Len(p) : (p \o a)[i] = p[i] /\ (p \o q)[i] = p[i]
      /\ \A i \in 1 .. Len(q) : (p \o q)[Len(p) + i] = q[i]
      /\ \A i \in 1 .. Len(a) : (p \o a)[Len(p) + i] = a[i]
  BY <1>2, JoinProps
<1>5. ASSUME NEW i \in 1 .. Len(p) + Len(q) PROVE (p \o a)[i] = (p \o q)[i]
  <2>1. CASE i \in 1 .. Len(p)
    BY <1>4, <2>1
  <2>2. CASE i \notin 1 .. Len(p)
    <3>1. i - Len(p) \in 1 .. Len(q) /\ i = Len(p) + (i - Len(p))
      BY <1>3, <2>2
    <3>2. PICK j \in 1 .. Len(q) : i = Len(p) + j
      BY <3>1
    <3>3. j \in 1 .. Len(a)
      BY <1>2, <1>3
    <3> QED
      BY <1>2, <1>4, <3>2, <3>3
  <2> QED
    BY <2>1, <2>2
<1>6. (p \o a)[Len(p) + Len(q) + 1] = x
  <2>1. Len(a) \in 1 .. Len(a) /\ Len(p) + Len(q) + 1 = Len(p) + Len(a)
    BY <1>2, <1>3
  <2> QED
    BY <1>2, <1>4, <2>1
<1> QED
  BY <1>1, <1>5, <1>6

\* Nothing is a list.
LEMMA NoRows ==
  IsList(<< >>) /\ Len(<< >>) = 0
  BY DEF IsList

-----------------------------------------------------------------------------
(* A session, taken apart into its open, its trades, its close and decision.*)

\* A record of an account whose plans are dated.
Account(s) ==
  /\ s = [book |-> s.book, entitled |-> s.entitled, pending |-> s.pending,
          rejected |-> s.rejected]
  /\ \A r \in s.pending : r.date \in Int

\* The plans of the day.
Due(s, d) == {r \in s.pending : r.date = d}

\* The account on the open, after the day's corporate actions.
Opened(s, today, d, known) ==
  [book |-> [l \in Books |->
              MarkedAt(Distributed(s.book[l], Held(s.entitled[l], {k \in known : k.ex = d}),
                                   {k \in known : k.pay = d}), today.quotes, "open")],
   rests |-> {}, rejected |-> s.rejected]

\* A ledger marked on the close.
After(traded, today, l) == MarkedAt(traded.book[l], today.quotes, "close")

\* The account on the close.
Closed(s, traded, today, d, known) ==
  [book |-> [l \in Books |-> After(traded, today, l)],
   entitled |-> [l \in Books |->
                  Registered(s.entitled[l], After(traded, today, l), d, known)],
   pending |-> (s.pending \ Due(s, d)) \cup Retried(traded.rests, d),
   rejected |-> traded.rejected]

\* The account after the decision of the close.
Ended(closed, today, d) ==
  IF closed.rejected \/ today.targets = {} THEN closed
  ELSE Decided(closed, CHOOSE weight \in today.targets : TRUE, today, d)

\* A session opens, trades, closes and decides.
LEMMA SessionParts ==
  ASSUME NEW s, NEW today, NEW d, NEW known
  PROVE  LET traded == TradedAll(Opened(s, today, d, known), Due(s, d), today, d)
         IN  SessionOf(s, today, d, known)
               = Ended(Closed(s, traded, today, d, known), today, d)
  BY DEF SessionOf, Opened, Due, After, Closed, Ended

\* What a close decides, of the books alone.
Weight(today) == CHOOSE weight \in today.targets : TRUE

\* Whether the close of a day decides anything.
Decides(book, rejected, today) == ~ rejected /\ today.targets # {}

\* Whether its targets can be sized.
Admitted(book, today) == DecisionAdmitted(book["actual"], Weight(today), today)

\* The plans a close adds.
New(book, rejected, today, d) ==
  IF Decides(book, rejected, today) /\ Admitted(book, today)
  THEN Planned(book["actual"], Weight(today), today, d) ELSE {}

\* Whether the account is rejected after its close.
Refused(book, rejected, today) ==
  IF Decides(book, rejected, today) /\ ~ Admitted(book, today) THEN TRUE ELSE rejected

\* The decision of a close adds plans or rejects, and touches nothing else.
LEMMA EndedFields ==
  ASSUME NEW b, NEW e, NEW p, NEW r, NEW today, NEW d
  PROVE  Ended([book |-> b, entitled |-> e, pending |-> p, rejected |-> r], today, d)
           = [book |-> b, entitled |-> e, pending |-> p \cup New(b, r, today, d),
              rejected |-> Refused(b, r, today)]
<1> DEFINE closed == [book |-> b, entitled |-> e, pending |-> p, rejected |-> r]
<1>1. CASE r \/ today.targets = {}
  BY <1>1 DEF Ended, New, Refused, Decides
<1>2. CASE ~ (r \/ today.targets = {}) /\ Admitted(b, today)
  BY <1>2 DEF Ended, Decided, New, Refused, Decides, Admitted, Weight
<1>3. CASE ~ (r \/ today.targets = {}) /\ ~ Admitted(b, today)
  BY <1>3 DEF Ended, Decided, New, Refused, Decides, Admitted, Weight
<1> QED
  BY <1>1, <1>2, <1>3

\* New plans lie ahead.
LEMMA NewDated ==
  ASSUME NEW b, NEW r, NEW today, NEW d \in Nat, today.settings.lag \in Nat \ {0},
         NEW row \in New(b, r, today, d)
  PROVE  row.date \in Int /\ row.date > d
<1>1. row \in Planned(b["actual"], Weight(today), today, d)
  BY DEF New
<1>2. \E decision, asset, quantity, retry, reference :
        row = [decision |-> decision, asset |-> asset, date |-> d + today.settings.lag,
               quantity |-> quantity, retry |-> retry, reference |-> reference]
  BY <1>1, Zenon DEF Planned
<1>3. row.date = d + today.settings.lag
  BY <1>2
<1> QED
  BY <1>3

\* What is retried is dated on the next session.
LEMMA RetriedDated ==
  ASSUME NEW rests, NEW d \in Nat, NEW row \in Retried(rests, d)
  PROVE  row.date \in Int /\ row.date > d
<1>1. row.date = d + 1
  BY DEF Retried
<1> QED
  BY <1>1

\* A session in closed form.
LEMMA SessionFields ==
  ASSUME NEW s, NEW today, NEW d, NEW known
  PROVE  LET traded == TradedAll(Opened(s, today, d, known), Due(s, d), today, d)
             book == [l \in Books |-> After(traded, today, l)]
         IN  SessionOf(s, today, d, known) =
               [book |-> book,
                entitled |-> [l \in Books |-> Registered(s.entitled[l], book[l], d, known)],
                pending |-> ((s.pending \ Due(s, d)) \cup Retried(traded.rests, d))
                               \cup New(book, traded.rejected, today, d),
                rejected |-> Refused(book, traded.rejected, today)]
<1> DEFINE traded == TradedAll(Opened(s, today, d, known), Due(s, d), today, d)
           book == [l \in Books |-> After(traded, today, l)]
           entitled == [l \in Books |-> Registered(s.entitled[l], book[l], d, known)]
           pending == (s.pending \ Due(s, d)) \cup Retried(traded.rests, d)
<1>1. Closed(s, traded, today, d, known)
        = [book |-> book, entitled |-> entitled, pending |-> pending,
           rejected |-> traded.rejected]
  <2>1. \A l \in Books : book[l] = After(traded, today, l)
    OBVIOUS
  <2>2. entitled = [l \in Books |->
                     Registered(s.entitled[l], After(traded, today, l), d, known)]
    BY <2>1
  <2> QED
    BY <2>2 DEF Closed
<1>2. SessionOf(s, today, d, known)
        = Ended(Closed(s, traded, today, d, known), today, d)
  BY SessionParts
<1> HIDE DEF traded, book, entitled, pending
<1>3. Ended([book |-> book, entitled |-> entitled, pending |-> pending,
              rejected |-> traded.rejected], today, d)
        = [book |-> book, entitled |-> entitled,
           pending |-> pending \cup New(book, traded.rejected, today, d),
           rejected |-> Refused(book, traded.rejected, today)]
  BY EndedFields
<1> QED
  BY <1>1, <1>2, <1>3 DEF traded, book, entitled, pending

\* A session leaves an account, and registers what was held on its close.
LEMMA SessionAccount ==
  ASSUME NEW s, Account(s), NEW today, today.settings.lag \in Nat \ {0},
         NEW d \in Nat, NEW known
  PROVE  /\ Account(SessionOf(s, today, d, known))
         /\ \A l \in Books, k \in Dividends :
              SessionOf(s, today, d, known).entitled[l][k]
                = IF k \in known /\ k.record = d
                  THEN SessionOf(s, today, d, known).book[l].position[k.asset]
                  ELSE s.entitled[l][k]
<1> DEFINE traded == TradedAll(Opened(s, today, d, known), Due(s, d), today, d)
           book == [l \in Books |-> After(traded, today, l)]
           a == SessionOf(s, today, d, known)
<1>1. a = [book |-> book,
           entitled |-> [l \in Books |-> Registered(s.entitled[l], book[l], d, known)],
           pending |-> ((s.pending \ Due(s, d)) \cup Retried(traded.rests, d))
                         \cup New(book, traded.rejected, today, d),
           rejected |-> Refused(book, traded.rejected, today)]
  <2> HIDE DEF a
  <2> QED
    BY SessionFields, Zenon DEF a
<1> HIDE DEF a, book, traded
<1>2. \A r \in a.pending : r.date \in Int
  BY <1>1, NewDated, RetriedDated DEF Account
<1>3. Account(a)
  BY <1>1, <1>2 DEF Account
<1>4. \A l \in Books, k \in Dividends :
         a.entitled[l][k] = IF k \in known /\ k.record = d
                            THEN a.book[l].position[k.asset] ELSE s.entitled[l][k]
  BY <1>1 DEF Registered
<1> QED
  BY <1>3, <1>4 DEF a

\* The fresh account is one, and is entitled to nothing.
LEMMA OpenAccountShape ==
  /\ Account(OpenAccount)
  /\ \A l \in Books, k \in Dividends : OpenAccount.entitled[l][k] = Unregistered
  BY DEF OpenAccount, Account

-----------------------------------------------------------------------------
(* Sessions of accounts that are alike.                                    *)

\* The plans of later sessions.
Ahead(s, t) == {r \in s.pending : r.date > t}

\* What a run that was told of some actions shares with the one told of all.
Alike(s, w, told, t) ==
  /\ s.book = w.book /\ s.rejected = w.rejected
  /\ Ahead(s, t) = Ahead(w, t)
  /\ \A l \in Books, k \in told : Entitled(s.entitled[l][k]) = Entitled(w.entitled[l][k])

\* A session of accounts that are alike leaves accounts that are alike, if the one
\* that was told less knows every action the day has a use for: those going ex or
\* paid on it, and of those it was told of the ones recorded on it.
LEMMA SessionAlike ==
  ASSUME NEW s, NEW w, Account(s), Account(w), NEW told, told \subseteq Dividends,
         NEW known, known \subseteq Dividends, NEW d \in Nat \ {0},
         Alike(s, w, told, d - 1),
         NEW today, today.settings.lag \in Nat \ {0},
         \A k \in Dividends : k.ex = d => k \in told,
         \A k \in Dividends : k.ex = d \/ k.pay = d => k \in known,
         \A k \in told : k.record = d => k \in known
  PROVE  Alike(SessionOf(s, today, d, known), SessionOf(w, today, d, Dividends), told, d)
<1> DEFINE traded == TradedAll(Opened(s, today, d, known), Due(s, d), today, d)
           book == [l \in Books |-> After(traded, today, l)]
           a == SessionOf(s, today, d, known)
           b == SessionOf(w, today, d, Dividends)
<1>1. Opened(s, today, d, known) = Opened(w, today, d, Dividends)
  <2>1. {k \in known : k.ex = d} = {k \in Dividends : k.ex = d}
    OBVIOUS
  <2>2. {k \in known : k.pay = d} = {k \in Dividends : k.pay = d}
    OBVIOUS
  <2> DEFINE X == {k \in Dividends : k.ex = d}
             Y == {k \in Dividends : k.pay = d}
  <2>3. \A l \in Books : Held(s.entitled[l], X) = Held(w.entitled[l], X)
    <3> SUFFICES ASSUME NEW l \in Books
                 PROVE  Held(s.entitled[l], X) = Held(w.entitled[l], X)
      OBVIOUS
    <3>1. \A k \in X : Entitled(s.entitled[l][k]) = Entitled(w.entitled[l][k])
      BY DEF Alike
    <3> HIDE DEF X
    <3> QED
      BY <3>1 DEF Held
  <2>4. s.book = w.book /\ s.rejected = w.rejected
    BY DEF Alike
  <2> DEFINE marked(x, l) == MarkedAt(Distributed(x.book[l], Held(x.entitled[l], X), Y),
                                      today.quotes, "open")
  <2>5. Opened(s, today, d, known)
          = [book |-> [l \in Books |-> marked(s, l)], rests |-> {}, rejected |-> s.rejected]
    BY <2>1, <2>2 DEF Opened
  <2>6. Opened(w, today, d, Dividends)
          = [book |-> [l \in Books |-> marked(w, l)], rests |-> {}, rejected |-> w.rejected]
    BY DEF Opened
  <2> HIDE DEF X, Y
  <2>7. \A l \in Books : marked(s, l) = marked(w, l)
    BY <2>3, <2>4
  <2> HIDE DEF marked
  <2>8. [l \in Books |-> marked(s, l)] = [l \in Books |-> marked(w, l)]
    BY <2>7
  <2> QED
    BY <2>4, <2>5, <2>6, <2>8
<1>2. \A r \in s.pending \cup w.pending : r.date \in Int
  BY DEF Account
<1>3. Due(s, d) = Due(w, d)
  <2>1. Due(s, d) = {r \in Ahead(s, d - 1) : r.date = d}
    BY <1>2 DEF Due, Ahead
  <2>2. Due(w, d) = {r \in Ahead(w, d - 1) : r.date = d}
    BY <1>2 DEF Due, Ahead
  <2> QED
    BY <2>1, <2>2 DEF Alike
<1>4. traded = TradedAll(Opened(w, today, d, Dividends), Due(w, d), today, d)
  BY <1>1, <1>3
<1>5. /\ a.book = book
      /\ a.entitled = [l \in Books |-> Registered(s.entitled[l], book[l], d, known)]
      /\ a.pending = ((s.pending \ Due(s, d)) \cup Retried(traded.rests, d))
                         \cup New(book, traded.rejected, today, d)
      /\ a.rejected = Refused(book, traded.rejected, today)
  <2> HIDE DEF a
  <2>1. a = [book |-> book,
             entitled |-> [l \in Books |-> Registered(s.entitled[l], book[l], d, known)],
             pending |-> ((s.pending \ Due(s, d)) \cup Retried(traded.rests, d))
                           \cup New(book, traded.rejected, today, d),
             rejected |-> Refused(book, traded.rejected, today)]
    BY SessionFields, Zenon DEF a
  <2> HIDE DEF book, traded
  <2> QED
    BY <2>1
<1>6. /\ b.book = book
      /\ b.entitled = [l \in Books |-> Registered(w.entitled[l], book[l], d, Dividends)]
      /\ b.pending = ((w.pending \ Due(w, d)) \cup Retried(traded.rests, d))
                         \cup New(book, traded.rejected, today, d)
      /\ b.rejected = Refused(book, traded.rejected, today)
  <2> DEFINE other == TradedAll(Opened(w, today, d, Dividends), Due(w, d), today, d)
             books == [l \in Books |-> After(other, today, l)]
  <2> HIDE DEF b
  <2>1. b = [book |-> books,
             entitled |-> [l \in Books |-> Registered(w.entitled[l], books[l], d, Dividends)],
             pending |-> ((w.pending \ Due(w, d)) \cup Retried(other.rests, d))
                           \cup New(books, other.rejected, today, d),
             rejected |-> Refused(books, other.rejected, today)]
    BY SessionFields, Zenon DEF b
  <2>2. other = traded
    BY <1>4
  <2> HIDE DEF other, traded
  <2>3. books = book
    BY <2>2
  <2> HIDE DEF book, books
  <2> QED
    BY <2>1, <2>2, <2>3
<1> HIDE DEF a, b, book, traded
<1>7. Ahead(a, d) = Ahead(b, d)
  <2> DEFINE rest == Retried(traded.rests, d) \cup New(book, traded.rejected, today, d)
  <2>1. Ahead(a, d) = {r \in s.pending : r.date > d} \cup {r \in rest : r.date > d}
    <3>1. \A r \in s.pending : r.date > d => r \notin Due(s, d)
      BY <1>2 DEF Due
    <3> QED
      BY <1>5, <3>1 DEF Ahead
  <2>2. Ahead(b, d) = {r \in w.pending : r.date > d} \cup {r \in rest : r.date > d}
    <3>1. \A r \in w.pending : r.date > d => r \notin Due(w, d)
      BY <1>2 DEF Due
    <3> QED
      BY <1>6, <3>1 DEF Ahead
  <2> HIDE DEF rest
  <2>3. {r \in s.pending : r.date > d} = {r \in Ahead(s, d - 1) : r.date > d}
    BY <1>2 DEF Ahead
  <2>4. {r \in w.pending : r.date > d} = {r \in Ahead(w, d - 1) : r.date > d}
    BY <1>2 DEF Ahead
  <2>5. Ahead(s, d - 1) = Ahead(w, d - 1)
    BY DEF Alike
  <2> QED
    BY <2>1, <2>2, <2>3, <2>4, <2>5
<1>8. ASSUME NEW l \in Books, NEW k \in told
      PROVE  Entitled(a.entitled[l][k]) = Entitled(b.entitled[l][k])
  <2>1. Entitled(s.entitled[l][k]) = Entitled(w.entitled[l][k])
    BY DEF Alike
  <2>2. a.entitled[l][k] = IF k \in known /\ k.record = d THEN book[l].position[k.asset]
                           ELSE s.entitled[l][k]
    BY <1>5 DEF Registered
  <2>3. b.entitled[l][k] = IF k.record = d THEN book[l].position[k.asset]
                           ELSE w.entitled[l][k]
    BY <1>6 DEF Registered
  <2> QED
    BY <2>1, <2>2, <2>3
<1> QED
  BY <1>5, <1>6, <1>7, <1>8 DEF Alike, a, b

-----------------------------------------------------------------------------
(* Uninterrupted runs.                                                     *)

\* The uninterrupted run over some inputs that knows every action.
RunOf(u, read, t) ==
  \A d \in 1 .. t :
    u[d] = SessionOf(IF d = 1 THEN OpenAccount ELSE u[d - 1], read[d], d, Dividends)

\* The account that opens the session after the t-th.
Before(u, t) == IF t = 0 THEN OpenAccount ELSE u[t]

\* Such a run is an account at every session, and its entitlements are the
\* holdings of the record dates it has passed.
LEMMA RunFacts ==
  ASSUME NEW u, NEW read, NEW t \in Nat, RunOf(u, read, t),
         \A d \in 1 .. t : read[d].settings.lag \in Nat \ {0}
  PROVE  \A d \in 0 .. t :
           /\ Account(Before(u, d))
           /\ \A l \in Books, k \in Dividends :
                Before(u, d).entitled[l][k] =
                  IF k.record \in 1 .. d THEN u[k.record].book[l].position[k.asset]
                  ELSE Unregistered
<1> DEFINE P(d) == /\ Account(Before(u, d))
                   /\ \A l \in Books, k \in Dividends :
                        Before(u, d).entitled[l][k] =
                          IF k.record \in 1 .. d THEN u[k.record].book[l].position[k.asset]
                          ELSE Unregistered
           Bad == {d \in 0 .. t : ~ P(d)}
<1>1. P(0)
  BY OpenAccountShape DEF Before
<1>2. ASSUME NEW d \in 1 .. t, P(d - 1) PROVE P(d)
  <2>1. Before(u, d) = SessionOf(Before(u, d - 1), read[d], d, Dividends)
    BY DEF RunOf, Before
  <2>2. Before(u, d) = u[d]
    BY DEF Before
  <2>3. \A k \in Dividends : k.record \in Int
    BY BridgeAssumption
  <2>4. /\ Account(Before(u, d))
        /\ \A l \in Books, k \in Dividends :
             Before(u, d).entitled[l][k] =
               IF k.record = d THEN Before(u, d).book[l].position[k.asset]
               ELSE Before(u, d - 1).entitled[l][k]
    BY <1>2, <2>1, SessionAccount
  <2> QED
    BY <1>2, <2>2, <2>3, <2>4
<1> HIDE DEF P
<1>3. CASE Bad # {}
  <2>1. Bad \subseteq Int /\ IsFiniteSet(Bad)
    <3> DEFINE D == 0 .. t
    <3>1. Bad \in SUBSET D /\ D \subseteq Int
      OBVIOUS
    <3>2. IsFiniteSet(D)
      BY FS_Interval
    <3> HIDE DEF Bad, D
    <3> QED
      BY <3>1, <3>2, FS_Subset
  <2> DEFINE m == Min(Bad)
  <2>2. m \in Bad /\ \A d \in Bad : m <= d
    <3> HIDE DEF Bad
    <3> QED
      BY <1>3, <2>1, MinMember
  <2> HIDE DEF m
  <2>3. m \in 1 .. t /\ m - 1 \in 0 .. t
    BY <1>1, <2>2
  <2>4. P(m - 1)
    BY <2>2, <2>3
  <2> QED
    BY <1>2, <2>2, <2>3, <2>4
<1>4. CASE Bad = {}
  BY <1>4 DEF P
<1> QED
  BY <1>3, <1>4

-----------------------------------------------------------------------------
(* The inductive invariant.                                                *)

\* Every action in effect by a session was told.
ToldOf(told, t) == \A k \in Dividends : k.ex <= t => k \in told

\* An account and the published positions are, of whatever was told, those of
\* every run over the inputs they were computed from.
SameRun(s, rows, read, told, t) ==
  ToldOf(told, t) =>
    \A u : RunOf(u, read, t) =>
      /\ Alike(s, Before(u, t), told, t)
      /\ \A d \in 1 .. t, l \in Books : rows[d][l] = u[d].book[l].position

\* Nothing is registered of an action that nobody told of.
Untold(s, told) == \A l \in Books, k \in Dividends \ told : s.entitled[l][k] = Unregistered

\* A checkpoint lies within the published history, keeps the told actions that have
\* a date ahead and no plan of the past, and is the run's over the inputs it is bound to.
SavedInv(c, rows) ==
  /\ c.time \in 0 .. BridgeDays /\ c.time <= Len(rows)
  /\ c.time = 0 => c.account = OpenAccount
  /\ c.told \subseteq Dividends /\ c.active \subseteq c.told
  /\ \A k \in c.told : k.ex > c.time \/ k.pay > c.time => k \in c.active
  /\ Account(c.account) /\ \A r \in c.account.pending : r.date > c.time
  /\ Untold(c.account, c.told)
  /\ SameRun(c.account, rows, c.binding, c.told, c.time)

\* Sessions a running call stands behind.
Observed == call.from + Len(call.rows)

\* What would be published if it ended here.
Published == SubSeq(positions, 1, call.from) \o call.rows

\* A running call knows every told action that has a date after its checkpoint, and
\* so far it is the run's over the present inputs.
CallInv ==
  /\ call.from \in Nat /\ call.through \in 1 .. BridgeDays
  /\ IsList(call.rows) /\ call.from <= Len(positions) /\ Observed <= call.through
  /\ call.known \subseteq call.told /\ call.told \subseteq Dividends
  /\ \A k \in call.told : k.ex > call.from \/ k.pay > call.from => k \in call.known
  /\ Account(call.account) /\ Untold(call.account, call.told)
  /\ SameRun(call.account, Published, Binding(Observed), call.told, Observed)

\* The record of a running call.
CallShape ==
  call = [running |-> TRUE, from |-> call.from, through |-> call.through,
          known |-> call.known, told |-> call.told, account |-> call.account,
          rows |-> call.rows]

\* The inputs are typed; a correction keeps them so.
InputsInv ==
  /\ market = [d \in 1 .. BridgeDays |-> market[d]]
  /\ settings \in Settings /\ announced \subseteq Dividends

\* The compared run is the one over the present inputs, as far as it got.
WholeInv ==
  /\ IsList(whole) /\ Len(whole) <= BridgeDays
  /\ RunOf(whole, Binding(BridgeDays), Len(whole))

\* The inductive invariant.
BridgeInv ==
  /\ InputsInv /\ WholeInv /\ IsList(positions)
  /\ \A c \in saved : SavedInv(c, positions)
  /\ call.running \in BOOLEAN /\ (call.running => CallShape /\ CallInv)

\* Every session reads its day of the inputs, and plans ahead.
LEMMA LagType ==
  ASSUME InputsInv, NEW t
  PROVE  \A d \in 1 .. t : Binding(t)[d] = DayInputs(d)
                           /\ Binding(t)[d].settings.lag \in Nat \ {0}
<1>1. \A d \in 1 .. t : Binding(t)[d] = DayInputs(d)
  BY DEF Binding
<1>2. \A d : DayInputs(d).settings = settings
  BY DEF DayInputs
<1>3. settings.lag \in Nat \ {0}
  BY BridgeAssumption DEF InputsInv
<1> QED
  BY <1>1, <1>2, <1>3

\* Only the published rows up to a session matter to what is said of it.
LEMMA SameRows ==
  ASSUME NEW s, NEW rows, NEW other, NEW read, NEW told, NEW t,
         SameRun(s, rows, read, told, t), \A d \in 1 .. t : other[d] = rows[d]
  PROVE  SameRun(s, other, read, told, t)
  BY DEF SameRun

\* Freezing drops the plans of the past.
LEMMA FrozenFields ==
  ASSUME NEW w, Account(w), NEW t
  PROVE  Frozen(w, t) = [book |-> w.book, entitled |-> w.entitled, pending |-> Ahead(w, t),
                         rejected |-> w.rejected]
<1> DEFINE b == w.book
           e == w.entitled
           p == w.pending
           r == w.rejected
           x == [book |-> b, entitled |-> e, pending |-> p, rejected |-> r]
<1>1. w = x
  BY DEF Account
<1> HIDE DEF b, e, p, r
<1>2. Frozen(x, t) = [book |-> b, entitled |-> e, pending |-> {row \in p : row.date > t},
                      rejected |-> r]
  <2> DEFINE f == {row \in x.pending : row.date > t}
  <2>1. x.pending = p
    OBVIOUS
  <2>2. f = {row \in p : row.date > t}
    BY <2>1
  <2>3. Frozen(x, t) = [x EXCEPT !.pending = f]
    BY DEF Frozen
  <2> HIDE DEF f
  <2> QED
    BY <2>2, <2>3
<1> HIDE DEF x
<1> QED
  BY <1>1, <1>2 DEF Ahead, b, e, p, r

\* The invariant says more than the property: there the run is the compared one.
LEMMA SplitFollows ==
  BridgeInv => SplitEqualsWhole
<1> SUFFICES ASSUME BridgeInv, ~ call.running, Len(whole) = BridgeDays,
                    NEW c \in saved, c.time > 0, c.binding = Binding(c.time),
                    \A k \in Dividends : k.ex <= c.time => k \in c.told
             PROVE  /\ Seen(c.account, c.told) = Seen(Frozen(whole[c.time], c.time), c.told)
                    /\ \A d \in 1 .. c.time, l \in Books :
                         positions[d][l] = whole[d].book[l].position
  BY DEF SplitEqualsWhole
<1> DEFINE t == c.time
           w == whole[t]
<1>1. SavedInv(c, positions) /\ InputsInv /\ WholeInv
  BY DEF BridgeInv
<1>2. t \in 1 .. BridgeDays /\ BridgeDays \in Nat
  BY <1>1, BridgeAssumption DEF SavedInv
<1>3. \A d \in 1 .. t : /\ Binding(t)[d] = Binding(BridgeDays)[d]
                        /\ Binding(t)[d].settings.lag \in Nat \ {0}
  <2>1. \A d \in 1 .. t : d \in 1 .. BridgeDays
    BY <1>2
  <2> QED
    BY <1>1, <2>1, LagType
<1>4. RunOf(whole, c.binding, t)
  <2>1. \A d \in 1 .. t : d \in 1 .. Len(whole)
    BY <1>2
  <2> QED
    BY <1>1, <1>3, <2>1 DEF WholeInv, RunOf
<1>5. /\ Alike(c.account, Before(whole, t), c.told, t)
      /\ \A d \in 1 .. t, l \in Books : positions[d][l] = whole[d].book[l].position
  BY <1>1, <1>4 DEF SavedInv, SameRun, ToldOf
<1>6. Before(whole, t) = w
  BY <1>2 DEF Before
<1>7. Account(w)
  BY <1>2, <1>3, <1>4, <1>6, RunFacts
<1>8. Frozen(w, t) = [book |-> w.book, entitled |-> w.entitled, pending |-> Ahead(w, t),
                      rejected |-> w.rejected]
  BY <1>7, FrozenFields
<1>9. Ahead(c.account, t) = c.account.pending
  BY <1>1 DEF SavedInv, Ahead
<1>10. [l \in Books |-> [k \in c.told |-> Entitled(c.account.entitled[l][k])]]
         = [l \in Books |-> [k \in c.told |-> Entitled(w.entitled[l][k])]]
  BY <1>5, <1>6 DEF Alike
<1>11. /\ c.account.book = w.book /\ c.account.rejected = w.rejected
       /\ c.account.pending = Ahead(w, t)
  BY <1>5, <1>6, <1>9 DEF Alike
<1> HIDE DEF w
<1>12. Seen(c.account, c.told) = Seen(Frozen(w, t), c.told)
  BY <1>8, <1>10, <1>11 DEF Seen
<1> QED
  BY <1>5, <1>12 DEF w

-----------------------------------------------------------------------------
(* Steps that run no session of a call.                                    *)

\* What neither publishes nor rewrites keeps the checkpoints.
LEMMA SavedStay ==
  ASSUME BridgeInv, UNCHANGED <<saved, positions>>
  PROVE  \A c \in saved' : SavedInv(c, positions')
  BY DEF BridgeInv

\* A fresh account is the run's before its first session.
LEMMA BridgeStarts ==
  BridgeInit => BridgeInv
<1> SUFFICES ASSUME BridgeInit PROVE BridgeInv
  OBVIOUS
<1>1. InputsInv
  <2>1. market \in [1 .. BridgeDays -> [BridgeAssets -> [open : Nat, close : Nat]]]
    BY BridgeAssumption DEF BridgeInit
  <2> QED
    BY <2>1 DEF BridgeInit, InputsInv
<1>2. IsList(<< >>) /\ Len(<< >>) = 0
  BY DEF IsList
<1>3. WholeInv
  BY <1>2, BridgeAssumption DEF BridgeInit, WholeInv, RunOf
<1>4. ASSUME NEW c \in saved PROVE SavedInv(c, positions)
  <2>1. /\ c.time = 0 /\ c.account = OpenAccount /\ c.active = {} /\ c.told = {}
        /\ positions = << >>
    BY DEF BridgeInit
  <2>2. OpenAccount.pending = {}
    BY DEF OpenAccount
  <2>3. SameRun(c.account, positions, c.binding, c.told, 0)
    BY <2>1 DEF SameRun, Alike, Before
  <2>4. Untold(c.account, c.told)
    BY <2>1, OpenAccountShape DEF Untold
  <2> QED
    BY <1>2, <2>1, <2>2, <2>3, <2>4, OpenAccountShape, BridgeAssumption DEF SavedInv
<1>5. positions = << >> /\ call.running = FALSE
  BY DEF BridgeInit, NoCall
<1> QED
  BY <1>1, <1>2, <1>3, <1>4, <1>5 DEF BridgeInv

\* The same inputs bind the same.
LEMMA InputsUnchanged ==
  ASSUME UNCHANGED inputs
  PROVE  /\ \A d : DayInputs(d)' = DayInputs(d)
         /\ \A t : Binding(t)' = Binding(t)
<1>1. \A d : DayInputs(d)' = DayInputs(d)
  BY DEF DayInputs, inputs
<1>2. \A t : Binding(t)' = Binding(t)
  BY <1>1 DEF Binding
<1> QED
  BY <1>1, <1>2

\* A step of others leaves a running call as it was.
LEMMA CallStays ==
  ASSUME BridgeInv, UNCHANGED inputs, UNCHANGED <<positions, call>>
  PROVE  call'.running \in BOOLEAN /\ (call'.running => CallShape' /\ CallInv')
<1>1. \A t : Binding(t)' = Binding(t)
  BY InputsUnchanged
<1>2. ASSUME call.running PROVE CallShape' /\ CallInv'
  <2>1. CallShape /\ CallInv
    BY <1>2 DEF BridgeInv
  <2>2. CallShape'
    BY <2>1 DEF CallShape
  <2>3. PICK t : t = Observed
    OBVIOUS
  <2>4. Observed' = t /\ Published' = Published
    BY <2>3 DEF Observed, Published
  <2>5. Binding(Observed)' = Binding(Observed)
    BY DEF Binding, DayInputs, Observed, inputs
  <2>6. SameRun(call.account, Published, Binding(Observed), call.told, Observed)'
    BY <2>1, <2>3, <2>4, <2>5 DEF CallInv
  <2> QED
    BY <2>1, <2>2, <2>3, <2>4, <2>6 DEF CallInv, Untold, Account, IsList
<1> QED
  BY <1>2 DEF BridgeInv

\* The compared run goes one session further.
LEMMA WholeRuns ==
  ASSUME BridgeInv, RunWhole
  PROVE  BridgeInv'
<1>1. /\ UNCHANGED inputs /\ UNCHANGED <<announced, saved, positions, call>>
      /\ Len(whole) < BridgeDays
      /\ whole' = Append(whole, SessionOf(IF whole = << >> THEN OpenAccount ELSE Last(whole),
                                          DayInputs(Len(whole) + 1), Len(whole) + 1, Dividends))
  BY DEF RunWhole
<1> DEFINE n == Len(whole)
           next == SessionOf(IF whole = << >> THEN OpenAccount ELSE Last(whole),
                             DayInputs(n + 1), n + 1, Dividends)
<1>2. IsList(whole) /\ n \in Nat /\ DOMAIN whole = 1 .. n /\ BridgeDays \in Nat
  BY ListProperties, BridgeAssumption DEF BridgeInv, WholeInv
<1>3. /\ IsList(whole') /\ Len(whole') = n + 1
      /\ \A i \in 1 .. n : whole'[i] = whole[i]
      /\ whole'[n + 1] = next
  <2> HIDE DEF next
  <2> QED
    BY <1>1, <1>2, AppendProps DEF next
<1>4. \A t : Binding(t)' = Binding(t)
  BY <1>1, InputsUnchanged
<1>5. next = SessionOf(IF n + 1 = 1 THEN OpenAccount ELSE whole'[n], Binding(BridgeDays)[n + 1],
                       n + 1, Dividends)
  <2>1. Binding(BridgeDays)[n + 1] = DayInputs(n + 1)
    BY <1>1, <1>2 DEF Binding
  <2>2. whole = << >> <=> n = 0
    BY <1>2 DEF IsList
  <2>3. n # 0 => Last(whole) = whole'[n]
    BY <1>2, <1>3 DEF Last
  <2> QED
    BY <1>2, <2>1, <2>2, <2>3
<1>6. RunOf(whole', Binding(BridgeDays), n + 1)
  <2> SUFFICES ASSUME NEW d \in 1 .. n + 1
               PROVE  whole'[d] = SessionOf(IF d = 1 THEN OpenAccount ELSE whole'[d - 1],
                                            Binding(BridgeDays)[d], d, Dividends)
    BY DEF RunOf
  <2>1. CASE d = n + 1
    <3>1. d - 1 = n
      BY <1>2, <2>1
    <3> QED
      BY <1>3, <1>5, <2>1, <3>1
  <2>2. CASE d \in 1 .. n
    <3>1. whole'[d] = whole[d] /\ (d # 1 => whole'[d - 1] = whole[d - 1])
      BY <1>2, <1>3, <2>2
    <3>2. whole[d] = SessionOf(IF d = 1 THEN OpenAccount ELSE whole[d - 1],
                               Binding(BridgeDays)[d], d, Dividends)
      BY <2>2 DEF BridgeInv, WholeInv, RunOf
    <3> QED
      BY <3>1, <3>2
  <2> QED
    BY <1>2, <2>1, <2>2
<1>7. WholeInv'
  <2>1. RunOf(whole', Binding(BridgeDays)', Len(whole'))
    BY <1>3, <1>4, <1>6
  <2>2. PICK b : b = Binding(BridgeDays)'
    OBVIOUS
  <2>3. RunOf(whole', b, Len(whole'))
    BY <2>1, <2>2
  <2>4. IsList(whole)'
    BY <1>3 DEF IsList
  <2>5. Len(whole') <= BridgeDays
    BY <1>1, <1>2, <1>3
  <2>6. RunOf(whole, Binding(BridgeDays), Len(whole))'
    BY <2>2, <2>3 DEF RunOf
  <2> QED
    BY <2>4, <2>5, <2>6 DEF WholeInv
<1>8. InputsInv'
  BY <1>1 DEF BridgeInv, InputsInv, inputs
<1>9. IsList(positions)'
  BY <1>1 DEF BridgeInv, IsList
<1> QED
  BY <1>1, <1>7, <1>8, <1>9, SavedStay, CallStays DEF BridgeInv

\* Other steps leave the compared run.
LEMMA WholeStays ==
  ASSUME BridgeInv, UNCHANGED <<inputs, whole>>
  PROVE  WholeInv'
<1>1. \A t : Binding(t)' = Binding(t)
  BY InputsUnchanged
<1>2. RunOf(whole, Binding(BridgeDays)', Len(whole))
  BY <1>1 DEF BridgeInv, WholeInv
<1> QED
  BY <1>2 DEF BridgeInv, WholeInv, IsList, RunOf

\* A correction cuts the compared run back; checkpoints stay bound to what they read.
LEMMA MarketCorrected ==
  ASSUME BridgeInv, CorrectMarket
  PROVE  BridgeInv'
<1>1. PICK fix \in Corrections :
        /\ market' = [market EXCEPT ![fix.day] = fix.quotes]
        /\ whole' = SubSeq(whole, 1, fix.day - 1)
  BY DEF CorrectMarket
<1>2. /\ UNCHANGED <<targets, blocked, settings, announced, saved, positions, call>>
      /\ ~ call.running /\ Len(whole) = BridgeDays
  BY DEF CorrectMarket
<1>3. fix.day \in 1 .. BridgeDays /\ BridgeDays \in Nat
  BY BridgeAssumption
<1> DEFINE n == fix.day - 1
<1>4. n \in 0 .. Len(whole) /\ n <= BridgeDays /\ n \in Nat
  BY <1>2, <1>3
<1>5. /\ IsList(whole') /\ Len(whole') = n
      /\ \A i \in 1 .. n : whole'[i] = whole[i]
  BY <1>1, <1>4, PrefixProps DEF BridgeInv, WholeInv
<1>6. InputsInv'
  BY <1>1, <1>2 DEF BridgeInv, InputsInv
<1>7. \A d \in 1 .. n : Binding(BridgeDays)'[d] = Binding(BridgeDays)[d]
  <2> SUFFICES ASSUME NEW d \in 1 .. n
               PROVE  Binding(BridgeDays)'[d] = Binding(BridgeDays)[d]
    OBVIOUS
  <2>1. d \in 1 .. BridgeDays /\ d # fix.day
    BY <1>3
  <2>2. market'[d] = market[d]
    BY <1>1, <2>1 DEF BridgeInv, InputsInv
  <2>3. DayInputs(d)' = DayInputs(d)
    BY <1>2, <2>2 DEF DayInputs
  <2> QED
    BY <2>1, <2>3 DEF Binding
<1>8. RunOf(whole', Binding(BridgeDays)', n)
  <2> SUFFICES ASSUME NEW d \in 1 .. n
               PROVE  whole'[d] = SessionOf(IF d = 1 THEN OpenAccount ELSE whole'[d - 1],
                                            Binding(BridgeDays)'[d], d, Dividends)
    BY DEF RunOf
  <2>1. whole'[d] = whole[d] /\ (d # 1 => whole'[d - 1] = whole[d - 1])
    BY <1>4, <1>5
  <2>2. whole[d] = SessionOf(IF d = 1 THEN OpenAccount ELSE whole[d - 1],
                             Binding(BridgeDays)[d], d, Dividends)
    BY <1>4 DEF BridgeInv, WholeInv, RunOf
  <2> QED
    BY <1>7, <2>1, <2>2
<1>9. WholeInv'
  <2>1. PICK b : b = Binding(BridgeDays)'
    OBVIOUS
  <2>2. RunOf(whole', b, Len(whole'))
    BY <1>5, <1>8, <2>1
  <2> QED
    BY <1>4, <1>5, <2>1, <2>2 DEF WholeInv, IsList, RunOf
<1>10. IsList(positions)'
  BY <1>2 DEF BridgeInv, IsList
<1>11. call'.running = FALSE
  BY <1>2 DEF BridgeInv
<1> QED
  BY <1>2, <1>6, <1>9, <1>10, <1>11, SavedStay DEF BridgeInv

\* News of an action concern no checkpoint yet.
LEMMA Announced ==
  ASSUME BridgeInv, Announce
  PROVE  BridgeInv'
<1>1. /\ UNCHANGED <<inputs, whole>> /\ UNCHANGED <<saved, positions, call>>
      /\ ~ call.running /\ announced' \subseteq Dividends
  BY DEF Announce, BridgeInv, InputsInv
<1>2. InputsInv'
  BY <1>1 DEF BridgeInv, InputsInv, inputs
<1>3. IsList(positions)'
  BY <1>1 DEF BridgeInv, IsList
<1>4. call'.running = FALSE
  BY <1>1 DEF BridgeInv
<1> QED
  BY <1>1, <1>2, <1>3, <1>4, WholeStays, SavedStay DEF BridgeInv

\* An abandoned call leaves nothing.
LEMMA Abandoned ==
  ASSUME BridgeInv, AbandonCall
  PROVE  BridgeInv'
<1>1. /\ UNCHANGED <<inputs, whole>> /\ UNCHANGED <<announced, saved, positions>>
      /\ call' = NoCall
  BY DEF AbandonCall
<1>2. InputsInv'
  BY <1>1 DEF BridgeInv, InputsInv, inputs
<1>3. IsList(positions)'
  BY <1>1 DEF BridgeInv, IsList
<1>4. call'.running = FALSE
  BY <1>1 DEF NoCall
<1> QED
  BY <1>1, <1>2, <1>3, <1>4, WholeStays, SavedStay DEF BridgeInv

-----------------------------------------------------------------------------
(* Calls.                                                                  *)

\* A saved account whose entitlements were completed is one of the run that knew
\* the newly told actions from the first session.
LEMMA CompletedStarts ==
  ASSUME BridgeInv, NEW c \in saved, SamePrefix(c),
         NEW supplied, supplied \subseteq Dividends,
         AdmitsActions(c, supplied \cup c.active)
  PROVE  LET known == supplied \cup c.active
             told == c.told \cup supplied
             s == CompletedEntitlements(c, known)
         IN  /\ Account(s) /\ Untold(s, told)
             /\ SameRun(s, positions, Binding(c.time), told, c.time)
<1> DEFINE known == supplied \cup c.active
           told == c.told \cup supplied
           t == c.time
           old == c.account
           s == CompletedEntitlements(c, known)
           new(l, k) == IF t > 0 /\ k \in known /\ k.record <= t
                             /\ old.entitled[l][k] = Unregistered
                        THEN RecordHolding(old, l, k) ELSE old.entitled[l][k]
           e == [l \in Books |-> [k \in Dividends |-> new(l, k)]]
<1>1. SavedInv(c, positions) /\ InputsInv /\ IsList(positions)
  BY DEF BridgeInv
<1>2. known \subseteq told /\ told \subseteq Dividends
  BY <1>1 DEF SavedInv
<1>3. s = [book |-> old.book, entitled |-> e, pending |-> old.pending,
           rejected |-> old.rejected]
  <2>1. s = [old EXCEPT !.entitled = e]
    BY DEF CompletedEntitlements
  <2>2. old = [book |-> old.book, entitled |-> old.entitled, pending |-> old.pending,
               rejected |-> old.rejected]
    BY <1>1 DEF SavedInv, Account
  <2> DEFINE a == old.book
             b == old.entitled
             p == old.pending
             r == old.rejected
  <2>3. old = [book |-> a, entitled |-> b, pending |-> p, rejected |-> r]
    BY <2>2
  <2> HIDE DEF e, a, b, p, r, s
  <2>4. s = [[book |-> a, entitled |-> b, pending |-> p, rejected |-> r] EXCEPT !.entitled = e]
    BY <2>1, <2>3
  <2>5. s = [book |-> a, entitled |-> e, pending |-> p, rejected |-> r]
    BY <2>4
  <2> QED
    BY <2>5 DEF a, p, r
<1>4. \A l \in Books, k \in Dividends : s.entitled[l][k] = new(l, k)
  <2> HIDE DEF s, new
  <2>1. s.entitled = e
    BY <1>3
  <2> QED
    BY <2>1
<1> HIDE DEF s
<1>5. Account(s)
  <2> HIDE DEF e
  <2> QED
    BY <1>1, <1>3 DEF SavedInv, Account
<1>6. Untold(s, told)
  BY <1>1, <1>2, <1>4 DEF SavedInv, Untold
<1>7. SameRun(s, positions, Binding(t), told, t)
  <2> SUFFICES ASSUME ToldOf(told, t), NEW u, RunOf(u, Binding(t), t)
               PROVE  /\ Alike(s, Before(u, t), told, t)
                      /\ \A d \in 1 .. t, l \in Books :
                           positions[d][l] = u[d].book[l].position
    BY DEF SameRun
  <2> DEFINE w == Before(u, t)
  <2>1. t \in Nat /\ t <= Len(positions) /\ Len(positions) \in Nat
    BY <1>1, BridgeAssumption, ListProperties DEF SavedInv
  <2>2. /\ Account(w)
        /\ \A l \in Books, k \in Dividends :
             w.entitled[l][k] = IF k.record \in 1 .. t
                                THEN u[k.record].book[l].position[k.asset] ELSE Unregistered
    BY <1>1, <2>1, LagType, RunFacts
  <2>3. CASE t = 0
    <3>1. old = OpenAccount /\ w = OpenAccount
      BY <1>1, <2>3 DEF SavedInv, Before
    <3>2. \A l \in Books, k \in told : s.entitled[l][k] = w.entitled[l][k]
      BY <1>2, <1>4, <2>3, <3>1
    <3>3. s.book = w.book /\ s.rejected = w.rejected /\ s.pending = w.pending
      <4> HIDE DEF e, w
      <4> QED
        BY <1>3, <3>1
    <3> QED
      BY <2>3, <3>2, <3>3 DEF Alike, Ahead
  <2>4. CASE t > 0
    <3>1. ToldOf(c.told, t)
      <4> SUFFICES ASSUME NEW k \in Dividends, k.ex <= t, k \notin c.told PROVE FALSE
        BY DEF ToldOf
      <4>1. k \in supplied
        BY DEF ToldOf
      <4>2. old.entitled["actual"][k] = Unregistered
        BY <1>1 DEF SavedInv, Untold, Books
      <4>3. k.ex > t
        BY <2>4, <4>1, <4>2 DEF AdmitsActions
      <4>4. k.ex \in Int
        BY BridgeAssumption
      <4> QED
        BY <2>1, <4>3, <4>4
    <3>2. /\ Alike(old, w, c.told, t)
          /\ \A d \in 1 .. t, l \in Books : positions[d][l] = u[d].book[l].position
      BY <1>1, <3>1 DEF SavedInv, SameRun, SamePrefix
    <3>3. ASSUME NEW l \in Books, NEW k \in told
          PROVE  Entitled(s.entitled[l][k]) = Entitled(w.entitled[l][k])
      <4>1. k \in Dividends /\ k.record \in Int
        BY <1>2, BridgeAssumption
      <4>2. s.entitled[l][k] = new(l, k)
        BY <1>4, <4>1
      <4>3. w.entitled[l][k] = IF k.record \in 1 .. t
                               THEN u[k.record].book[l].position[k.asset] ELSE Unregistered
        BY <2>2, <4>1
      <4> HIDE DEF w
      <4>4. CASE k \in known /\ k.record <= t /\ old.entitled[l][k] = Unregistered
        <5>1. s.entitled[l][k] = RecordHolding(old, l, k)
          BY <2>4, <4>2, <4>4
        <5>2. CASE k.record \in 1 .. t
          <6>1. k.record \in DOMAIN positions
            BY <1>1, <2>1, <5>2, ListProperties
          <6>2. RecordHolding(old, l, k) = u[k.record].book[l].position[k.asset]
            BY <3>2, <5>2, <6>1 DEF RecordHolding
          <6> QED
            BY <4>3, <5>1, <5>2, <6>2
        <5>3. CASE k.record \notin 1 .. t
          <6>1. k.record \notin DOMAIN positions
            BY <1>1, <2>1, <4>1, <4>4, <5>3, ListProperties
          <6>2. RecordHolding(old, l, k) = 0
            BY <6>1 DEF RecordHolding
          <6> QED
            BY <4>3, <5>1, <5>3, <6>2 DEF Entitled, Unregistered
        <5> QED
          BY <5>2, <5>3
      <4>5. CASE ~ (k \in known /\ k.record <= t /\ old.entitled[l][k] = Unregistered)
        <5>1. s.entitled[l][k] = old.entitled[l][k]
          BY <4>2, <4>5
        <5>2. CASE k \in c.told
          BY <3>2, <5>1, <5>2 DEF Alike, w
        <5>3. CASE k \notin c.told
          <6>1. k \in known /\ old.entitled[l][k] = Unregistered
            BY <1>1, <4>1, <5>3 DEF SavedInv, Untold
          <6>2. k.record \notin 1 .. t
            BY <2>1, <4>1, <4>5, <6>1
          <6> QED
            BY <4>3, <5>1, <6>1, <6>2
        <5> QED
          BY <5>2, <5>3
      <4> QED
        BY <4>4, <4>5
    <3>4. s.book = old.book /\ s.rejected = old.rejected /\ s.pending = old.pending
      <4> HIDE DEF e
      <4> QED
        BY <1>3
    <3>5. Ahead(s, t) = Ahead(old, t)
      BY <3>4 DEF Ahead
    <3> HIDE DEF w
    <3>6. Alike(s, w, told, t)
      BY <3>2, <3>3, <3>4, <3>5 DEF Alike
    <3> QED
      BY <3>2, <3>6 DEF w
  <2> QED
    BY <2>1, <2>3, <2>4
<1> QED
  BY <1>5, <1>6, <1>7 DEF s

\* A call starts where its checkpoint left the run.
LEMMA CallStarts ==
  ASSUME BridgeInv, StartCall
  PROVE  BridgeInv'
<1>1. /\ UNCHANGED <<inputs, whole>> /\ UNCHANGED <<announced, saved, positions>>
  BY DEF StartCall
<1>2. \E c \in saved, through \in 1 .. BridgeDays : \E supplied \in SUBSET Dividends :
        /\ through > c.time
        /\ SamePrefix(c)
        /\ AdmitsActions(c, supplied \cup c.active)
        /\ call' = [running |-> TRUE, from |-> c.time, through |-> through,
                    known |-> supplied \cup c.active, told |-> c.told \cup supplied,
                    account |-> CompletedEntitlements(c, supplied \cup c.active),
                    rows |-> << >>]
  <2>1. announced \subseteq Dividends
    BY DEF BridgeInv, InputsInv
  <2>2. \A c : \A supplied \in {announced, announced \ c.told} : supplied \in SUBSET Dividends
    BY <2>1
  <2> QED
    BY <2>2, Zenon DEF StartCall
<1>3. PICK c \in saved, through \in 1 .. BridgeDays, supplied \in SUBSET Dividends :
        /\ through > c.time
        /\ SamePrefix(c)
        /\ AdmitsActions(c, supplied \cup c.active)
        /\ call' = [running |-> TRUE, from |-> c.time, through |-> through,
                    known |-> supplied \cup c.active, told |-> c.told \cup supplied,
                    account |-> CompletedEntitlements(c, supplied \cup c.active),
                    rows |-> << >>]
  BY <1>2
<1> DEFINE known == supplied \cup c.active
           told == c.told \cup supplied
           s == CompletedEntitlements(c, known)
           t == c.time
<1>4. SavedInv(c, positions) /\ InputsInv /\ IsList(positions)
  BY DEF BridgeInv
<1>5. supplied \subseteq Dividends
  OBVIOUS
<1>6. Account(s) /\ Untold(s, told) /\ SameRun(s, positions, Binding(t), told, t)
  BY <1>3, <1>5, CompletedStarts
<1>7. /\ t \in 0 .. BridgeDays /\ t <= Len(positions) /\ Len(positions) \in Nat
      /\ BridgeDays \in Nat /\ t \in Nat /\ t <= through /\ t \in 0 .. Len(positions)
  BY <1>3, <1>4, ListProperties, BridgeAssumption DEF SavedInv
<1>8. /\ known \subseteq told /\ told \subseteq Dividends
      /\ \A k \in told : k.ex > t \/ k.pay > t => k \in known
  BY <1>4, <1>5 DEF SavedInv
<1>9. \E a, b, x : /\ a = s /\ b = known /\ x = told
                   /\ call' = [running |-> TRUE, from |-> t, through |-> through,
                               known |-> b, told |-> x, account |-> a, rows |-> << >>]
  BY <1>3
<1> HIDE DEF s, known, told
<1>10. /\ call'.running = TRUE /\ call'.from = t /\ call'.through = through
      /\ call'.known = known /\ call'.told = told /\ call'.account = s
      /\ call'.rows = << >>
      /\ call' = [running |-> TRUE, from |-> t, through |-> through,
                  known |-> known, told |-> told, account |-> s, rows |-> << >>]
  BY <1>9
<1>11. CallShape'
  BY <1>10 DEF CallShape
<1>12. Observed' = t
  BY <1>7, <1>10, NoRows DEF Observed
<1>13. Published' = SubSeq(positions, 1, t) \o << >>
  BY <1>1, <1>10 DEF Published
<1>14. \A d \in 1 .. t : Published'[d] = positions[d]
  <2> DEFINE p == SubSeq(positions, 1, t)
  <2>1. IsList(p) /\ Len(p) = t /\ \A d \in 1 .. t : p[d] = positions[d]
    BY <1>4, <1>7, PrefixProps
  <2>2. Published' = p \o << >>
    BY <1>13
  <2> HIDE DEF p
  <2>3. \A d \in 1 .. t : (p \o << >>)[d] = p[d]
    BY <2>1, NoRows, JoinProps
  <2> QED
    BY <2>1, <2>2, <2>3
<1>15. Binding(Observed)' = Binding(t)
  BY <1>1, <1>12, <1>7 DEF Binding, DayInputs, inputs
<1>16. SameRun(s, Published', Binding(t), told, t)
  BY <1>6, <1>14, SameRows
<1>17. SameRun(call.account, Published, Binding(Observed), call.told, Observed)'
  BY <1>10, <1>12, <1>15, <1>16
<1>18. CallInv'
  BY <1>1, <1>4, <1>6, <1>7, <1>8, <1>10, <1>12, <1>17, NoRows DEF CallInv, Untold, Account, IsList
<1>19. InputsInv'
  BY <1>1 DEF BridgeInv, InputsInv, inputs
<1>20. IsList(positions)'
  BY <1>1 DEF BridgeInv, IsList
<1> QED
  BY <1>1, <1>10, <1>11, <1>18, <1>19, <1>20, WholeStays, SavedStay DEF BridgeInv

\* A session of a call is the run's next session.
LEMMA SessionRun ==
  ASSUME BridgeInv, RunSession
  PROVE  BridgeInv'
<1> DEFINE from == call.from
           rows == call.rows
           told == call.told
           known == call.known
           s == call.account
           t == from + Len(rows)
           next == SessionOf(s, DayInputs(t + 1), t + 1, known)
           row == [l \in Books |-> next.book[l].position]
           longer == Append(rows, row)
<1>1. /\ UNCHANGED <<inputs, whole>> /\ UNCHANGED <<announced, saved, positions>>
      /\ call.running /\ t + 1 <= call.through
      /\ call' = [call EXCEPT !.account = next, !.rows = Append(@, row)]
  BY DEF RunSession, Today
<1>2. CallShape /\ CallInv /\ InputsInv /\ IsList(positions)
  BY <1>1 DEF BridgeInv
<1>3. /\ from \in Nat /\ call.through \in 1 .. BridgeDays /\ BridgeDays \in Nat
      /\ IsList(rows) /\ Len(rows) \in Nat
      /\ from <= Len(positions) /\ Len(positions) \in Nat
      /\ t \in Nat /\ t + 1 \in Nat \ {0} /\ t >= from
  <2>1. from \in Nat /\ call.through \in 1 .. BridgeDays /\ IsList(rows)
        /\ from <= Len(positions)
    BY <1>2 DEF CallInv
  <2>2. Len(rows) \in Nat /\ Len(positions) \in Nat
    BY <1>2, <2>1, ListProperties
  <2> QED
    BY <2>1, <2>2, BridgeAssumption
<1>4. /\ IsList(longer) /\ Len(longer) = Len(rows) + 1
      /\ \A i \in 1 .. Len(rows) : longer[i] = rows[i]
      /\ longer[Len(rows) + 1] = row
  <2>1. IsList(rows)
    BY <1>3
  <2> HIDE DEF row, rows
  <2> QED
    BY <2>1, AppendProps, Zenon
<1>5. call' = [running |-> TRUE, from |-> from, through |-> call.through, known |-> known,
               told |-> told, account |-> next, rows |-> longer]
  <2> DEFINE through == call.through
             running == call.running
  <2> HIDE DEF next, row
  <2>1. call' = [call EXCEPT !.account = next, !.rows = longer]
    BY <1>1
  <2>2. call = [running |-> running, from |-> from, through |-> through, known |-> known,
                told |-> told, account |-> s, rows |-> rows] /\ running = TRUE
    BY <1>1, <1>2, Zenon DEF CallShape
  <2> HIDE DEF longer, running, from, through, known, told, s, rows, t
  <2> DEFINE m == [running |-> running, from |-> from, through |-> through, known |-> known,
                   told |-> told, account |-> next, rows |-> rows]
  <2>3. [[running |-> running, from |-> from, through |-> through, known |-> known,
          told |-> told, account |-> s, rows |-> rows] EXCEPT !.account = next] = m
    OBVIOUS
  <2>4. [m EXCEPT !.rows = longer]
          = [running |-> running, from |-> from, through |-> through, known |-> known,
             told |-> told, account |-> next, rows |-> longer]
    OBVIOUS
  <2>5. [call EXCEPT !.account = next, !.rows = longer]
          = [[call EXCEPT !.account = next] EXCEPT !.rows = longer]
    OBVIOUS
  <2> HIDE DEF m
  <2> QED
    BY <2>1, <2>2, <2>3, <2>4, <2>5, Zenon DEF through
<1>6. Account(s) /\ Untold(s, told) /\ known \subseteq told /\ told \subseteq Dividends
  BY <1>2 DEF CallInv
<1>7. /\ DayInputs(t + 1).settings.lag \in Nat \ {0}
      /\ \A n : \A d \in 1 .. n : Binding(n)[d] = DayInputs(d)
                                  /\ Binding(n)[d].settings.lag \in Nat \ {0}
  <2>1. \A n : \A d \in 1 .. n : Binding(n)[d] = DayInputs(d)
                                 /\ Binding(n)[d].settings.lag \in Nat \ {0}
    BY <1>2, LagType
  <2>2. t + 1 \in 1 .. t + 1
    BY <1>3
  <2> QED
    BY <2>1, <2>2
<1>8. /\ Account(next)
      /\ \A l \in Books, k \in Dividends :
           next.entitled[l][k] = IF k \in known /\ k.record = t + 1
                                 THEN next.book[l].position[k.asset] ELSE s.entitled[l][k]
  <2>1. t + 1 \in Nat
    BY <1>3
  <2> HIDE DEF s, known, t, next
  <2> QED
    BY <1>6, <1>7, <2>1, SessionAccount DEF next
<1>9. Untold(next, told)
  <2> HIDE DEF next, t
  <2> QED
    BY <1>6, <1>8 DEF Untold
<1> HIDE DEF next, longer, row
<1>10. /\ call'.running = TRUE /\ call'.from = from /\ call'.through = call.through
       /\ call'.known = known /\ call'.told = told /\ call'.account = next
       /\ call'.rows = longer
  BY <1>5
<1>11. CallShape'
  BY <1>5, <1>10 DEF CallShape
<1>12. Observed = t /\ Observed' = t + 1
  <2>1. Observed = t
    BY DEF Observed
  <2>2. Observed' = call'.from + Len(call'.rows)
    BY DEF Observed
  <2>3. Observed' = from + Len(longer)
    BY <1>10, <2>2
  <2> QED
    BY <1>3, <1>4, <2>1, <2>3
<1>13. /\ \A d \in 1 .. t : Published'[d] = Published[d]
       /\ Published'[t + 1] = row
  <2> DEFINE p == SubSeq(positions, 1, from)
  <2>1. IsList(p) /\ Len(p) = from
    <3>1. from \in 0 .. Len(positions)
      BY <1>3
    <3> QED
      BY <1>2, <3>1, PrefixProps
  <2>2. Published' = p \o longer /\ Published = p \o rows
    BY <1>1, <1>10 DEF Published
  <2>3. longer = Append(rows, row) /\ Len(p) + Len(rows) = t
    BY <2>1 DEF longer
  <2> HIDE DEF p, rows, t
  <2>4. /\ \A d \in 1 .. Len(p) + Len(rows) : (p \o Append(rows, row))[d] = (p \o rows)[d]
        /\ (p \o Append(rows, row))[Len(p) + Len(rows) + 1] = row
    <3>1. IsList(p) /\ IsList(rows)
      BY <1>3, <2>1
    <3> QED
      BY <3>1, JoinAppend
  <2> QED
    BY <2>2, <2>3, <2>4
<1>14. Binding(Observed)' = Binding(t + 1)
  BY <1>1, <1>12 DEF Binding, DayInputs, inputs
<1> HIDE DEF t
<1>15. SameRun(next, Published', Binding(t + 1), told, t + 1)
  <2> SUFFICES ASSUME ToldOf(told, t + 1), NEW u, RunOf(u, Binding(t + 1), t + 1)
               PROVE  /\ Alike(next, Before(u, t + 1), told, t + 1)
                      /\ \A d \in 1 .. t + 1, l \in Books :
                           Published'[d][l] = u[d].book[l].position
    BY DEF SameRun
  <2>1. \A k \in Dividends : /\ k.record \in Int /\ k.ex \in Int /\ k.pay \in Int
                             /\ k.record < k.ex /\ k.ex <= k.pay
    BY BridgeAssumption
  <2>2. ToldOf(told, t)
    BY <1>3, <2>1 DEF ToldOf
  <2>3. RunOf(u, Binding(t), t)
    <3>1. \A d \in 1 .. t : d \in 1 .. t + 1
      BY <1>3
    <3> QED
      BY <1>7, <3>1 DEF RunOf
  <2> DEFINE w == Before(u, t)
  <2>4. /\ Alike(s, w, told, t)
        /\ \A d \in 1 .. t, l \in Books : Published[d][l] = u[d].book[l].position
    BY <1>2, <1>12, <2>2, <2>3 DEF CallInv, SameRun
  <2>5. Account(w)
    BY <1>3, <1>7, <2>3, RunFacts
  <2>6. u[t + 1] = SessionOf(w, DayInputs(t + 1), t + 1, Dividends)
    <3>1. t + 1 \in 1 .. t + 1 /\ (t + 1 = 1 <=> t = 0) /\ (t + 1) - 1 = t
      BY <1>3
    <3>2. Binding(t + 1)[t + 1] = DayInputs(t + 1)
      BY <1>7, <3>1
    <3>3. u[t + 1] = SessionOf(IF t + 1 = 1 THEN OpenAccount ELSE u[(t + 1) - 1],
                               Binding(t + 1)[t + 1], t + 1, Dividends)
      BY <3>1 DEF RunOf
    <3> QED
      BY <3>1, <3>2, <3>3 DEF Before
  <2>7. \A k \in told : k.ex > from \/ k.pay > from => k \in known
    BY <1>2 DEF CallInv
  <2>8. /\ \A k \in Dividends : k.ex = t + 1 => k \in told
        /\ \A k \in Dividends : k.ex = t + 1 \/ k.pay = t + 1 => k \in known
        /\ \A k \in told : k.record = t + 1 => k \in known
    BY <1>3, <1>6, <2>1, <2>7 DEF ToldOf
  <2> HIDE DEF w
  <2>9. Alike(s, w, told, (t + 1) - 1)
    BY <1>3, <2>4
  <2>10. Alike(next, u[t + 1], told, t + 1)
    <3>1. known \subseteq Dividends
      BY <1>6
    <3>2. Alike(SessionOf(s, DayInputs(t + 1), t + 1, known),
                SessionOf(w, DayInputs(t + 1), t + 1, Dividends), told, t + 1)
      BY <1>3, <1>6, <1>7, <2>5, <2>8, <2>9, <3>1, SessionAlike
    <3> QED
      BY <2>6, <3>2 DEF next, t
  <2>11. Before(u, t + 1) = u[t + 1]
    BY <1>3 DEF Before
  <2>12. \A l \in Books : row[l] = u[t + 1].book[l].position
    BY <2>10 DEF row, Alike
  <2>13. \A d \in 1 .. t + 1, l \in Books : Published'[d][l] = u[d].book[l].position
    <3>1. \A d \in 1 .. t + 1 : d \in 1 .. t \/ d = t + 1
      BY <1>3
    <3> QED
      BY <1>13, <2>4, <2>12, <3>1
  <2> QED
    BY <2>10, <2>11, <2>13
<1>16. SameRun(call.account, Published, Binding(Observed), call.told, Observed)'
  BY <1>10, <1>12, <1>14, <1>15
<1>17. CallInv'
  <2>1. Observed' <= call'.through
    BY <1>1, <1>10, <1>12 DEF t
  <2>2. /\ call'.from \in Nat /\ call'.through \in 1 .. BridgeDays
        /\ call'.known \subseteq call'.told /\ call'.told \subseteq Dividends
    BY <1>3, <1>6, <1>10
  <2>3. IsList(call.rows)' /\ call'.from <= Len(positions')
    <3>1. IsList(call'.rows)
      <4>1. IsList(longer)
        BY <1>4
      <4> QED
        BY <1>10, <4>1
    <3>2. call'.from <= Len(positions')
      BY <1>1, <1>3, <1>10
    <3> QED
      BY <3>1, <3>2 DEF IsList
  <2>4. \A k \in told : k.ex > from \/ k.pay > from => k \in known
    BY <1>2 DEF CallInv
  <2>5. \A k \in call'.told : k.ex > call'.from \/ k.pay > call'.from => k \in call'.known
    BY <1>10, <2>4
  <2>6. Account(call.account)' /\ Untold(call.account, call.told)'
    BY <1>8, <1>9, <1>10 DEF Account, Untold
  <2> QED
    BY <1>16, <2>1, <2>2, <2>3, <2>5, <2>6 DEF CallInv
<1>18. InputsInv'
  BY <1>1 DEF BridgeInv, InputsInv, inputs
<1>19. IsList(positions)'
  BY <1>1 DEF BridgeInv, IsList
<1> QED
  BY <1>1, <1>10, <1>11, <1>17, <1>18, <1>19, WholeStays, SavedStay DEF BridgeInv

\* What a call saves and publishes is the run's, and what it keeps still is.
LEMMA CallEnds ==
  ASSUME BridgeInv, EndCall
  PROVE  BridgeInv'
<1> DEFINE from == call.from
           rows == call.rows
           told == call.told
           s == call.account
           t == call.through
           new == [time |-> t, account |-> Frozen(s, t), active |-> ActiveActions(call.known, t),
                   told |-> told, binding |-> Binding(t)]
<1>1. /\ UNCHANGED <<inputs, whole>> /\ UNCHANGED announced
      /\ call.running /\ from + Len(rows) + 1 > t
      /\ saved' = {e \in saved : e.time <= from} \cup {new}
      /\ positions' = Published /\ call' = NoCall
  BY DEF EndCall, Today, Published
<1>2. CallInv /\ InputsInv /\ IsList(positions)
  BY <1>1 DEF BridgeInv
<1>3. /\ from \in Nat /\ t \in 1 .. BridgeDays /\ BridgeDays \in Nat
      /\ IsList(rows) /\ Len(rows) \in Nat /\ from \in 0 .. Len(positions)
      /\ t = from + Len(rows) /\ Observed = t /\ from <= t
  BY <1>1, <1>2, ListProperties, BridgeAssumption DEF CallInv, Observed
<1>4. /\ IsList(positions') /\ Len(positions') = t
      /\ \A d \in 1 .. from : positions'[d] = positions[d]
  <2> DEFINE p == SubSeq(positions, 1, from)
  <2>1. IsList(p) /\ Len(p) = from /\ \A d \in 1 .. from : p[d] = positions[d]
    BY <1>2, <1>3, PrefixProps
  <2>2. positions' = p \o rows
    BY <1>1 DEF Published
  <2> HIDE DEF p
  <2>3. /\ IsList(p \o rows) /\ Len(p \o rows) = from + Len(rows)
        /\ \A d \in 1 .. from : (p \o rows)[d] = p[d]
    BY <1>3, <2>1, JoinProps
  <2> QED
    BY <1>3, <2>1, <2>2, <2>3
<1>5. ASSUME NEW e \in saved, e.time <= from PROVE SavedInv(e, positions')
  <2>1. SavedInv(e, positions)
    BY DEF BridgeInv
  <2>2. e.time \in Nat /\ e.time <= t /\ \A d \in 1 .. e.time : d \in 1 .. from
    BY <1>3, <1>5, <2>1 DEF SavedInv
  <2>3. SameRun(e.account, positions', e.binding, e.told, e.time)
    <3>1. \A d \in 1 .. e.time : positions'[d] = positions[d]
      BY <1>4, <2>2
    <3>2. SameRun(e.account, positions, e.binding, e.told, e.time)
      BY <2>1 DEF SavedInv
    <3> QED
      BY <3>1, <3>2, SameRows
  <2> QED
    BY <1>4, <2>1, <2>2, <2>3 DEF SavedInv
<1>6. /\ Account(s) /\ Untold(s, told) /\ call.known \subseteq told /\ told \subseteq Dividends
      /\ SameRun(s, Published, Binding(t), told, t)
      /\ \A k \in told : k.ex > from \/ k.pay > from => k \in call.known
  BY <1>2, <1>3 DEF CallInv
<1> DEFINE f == Frozen(s, t)
<1>7. f = [book |-> s.book, entitled |-> s.entitled, pending |-> Ahead(s, t),
           rejected |-> s.rejected]
  BY <1>6, FrozenFields
<1>8. /\ new.time = t /\ new.account = f /\ new.active = ActiveActions(call.known, t)
      /\ new.told = told /\ new.binding = Binding(t)
  OBVIOUS
<1> HIDE DEF new, f
<1>9. /\ f.book = s.book /\ f.entitled = s.entitled /\ f.rejected = s.rejected
      /\ f.pending = Ahead(s, t)
  BY <1>7
<1>10. Account(f) /\ \A r \in f.pending : r.date > t
  BY <1>6, <1>7, <1>9 DEF Account, Ahead
<1>11. Untold(f, told)
  BY <1>6, <1>9 DEF Untold
<1>12. SameRun(f, positions', Binding(t), told, t)
  <2>1. Ahead(f, t) = Ahead(s, t)
    BY <1>9 DEF Ahead
  <2> QED
    BY <1>1, <1>6, <1>9, <2>1 DEF SameRun, Alike
<1>13. /\ ActiveActions(call.known, t) \subseteq told
       /\ \A k \in told : k.ex > t \/ k.pay > t => k \in ActiveActions(call.known, t)
  <2>1. \A k \in Dividends : k.ex \in Int /\ k.pay \in Int
    BY BridgeAssumption
  <2> QED
    BY <1>3, <1>6, <2>1 DEF ActiveActions
<1>14. SavedInv(new, positions')
  BY <1>3, <1>4, <1>6, <1>8, <1>10, <1>11, <1>12, <1>13 DEF SavedInv
<1>15. \A e \in saved' : SavedInv(e, positions')
  BY <1>1, <1>5, <1>14
<1>16. InputsInv'
  BY <1>1 DEF BridgeInv, InputsInv, inputs
<1>17. IsList(positions)'
  BY <1>4 DEF IsList
<1>18. call'.running = FALSE
  BY <1>1 DEF NoCall
<1> QED
  BY <1>1, <1>15, <1>16, <1>17, <1>18, WholeStays DEF BridgeInv

\* Nothing changes.
LEMMA BridgeStutters ==
  ASSUME BridgeInv, UNCHANGED bridgeVars
  PROVE  BridgeInv'
<1>1. /\ UNCHANGED <<inputs, whole>> /\ UNCHANGED inputs
      /\ UNCHANGED <<announced, saved, positions, call>>
  BY DEF bridgeVars
<1>2. InputsInv'
  BY <1>1 DEF BridgeInv, InputsInv, inputs
<1>3. IsList(positions)'
  BY <1>1 DEF BridgeInv, IsList
<1> QED
  BY <1>1, <1>2, <1>3, WholeStays, SavedStay, CallStays DEF BridgeInv

\* Every step keeps the invariant.
LEMMA BridgeStep ==
  BridgeInv /\ [BridgeNext]_bridgeVars => BridgeInv'
  BY WholeRuns, MarketCorrected, Announced, CallStarts, SessionRun, CallEnds, Abandoned,
     BridgeStutters DEF BridgeNext

\* A history is what it is however it was cut into calls: whenever its corporate
\* actions become known and a quote is corrected, a checkpoint of the present
\* inputs that was told of the actions in effect holds the books, entitlements and
\* frozen plans of one uninterrupted run_execution_from_weights over them, and the
\* published positions are that run's.
THEOREM SplitsEqualWhole ==
  BridgeSpec => []SplitEqualsWhole
<1>1. BridgeSpec => []BridgeInv
  BY BridgeStarts, BridgeStep, PTL DEF BridgeSpec
<1> QED
  BY <1>1, SplitFollows, PTL
=============================================================================
