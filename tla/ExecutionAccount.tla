--------------------------- MODULE ExecutionAccount ---------------------------
(***************************************************************************)
(* Signed-share execution: frozen plans are executed session by session    *)
(* against two accounts.  The "ideal" reference account fills every plan   *)
(* in full and free of charge; the "actual" account obeys cash, fees,      *)
(* lots, settlement and availability, and may retry what it could not      *)
(* fill.  Both keep FIFO lots and take part in corporate actions.  A call  *)
(* observes the sessions up to a cutoff and returns a checkpoint, which a  *)
(* later call resumes with a calendar supplied anew.                       *)
(*                                                                         *)
(* Money is in integers: prices are whole, and the part of a lot's entry   *)
(* fee that a sale takes is rounded down, the rest staying with the lot.   *)
(***************************************************************************)
EXTENDS StockDividend, Sequences, SequencesExt

CONSTANTS
  Asset,              \* asset identifiers, numbered in the order of their text
  LastSession,        \* bound: sessions are dated 1..LastSession
  MaxQuantity,        \* bound: largest quantity of a plan
  Capital,            \* initial_capital
  Orders,             \* the plans a caller may freeze
  OpenPrice, ClosePrice, ReferencePrice, \* prices the caller may supply
  LotSize, SettlementSessions, RetryUnfilled, \* ExecutionConfig
  MinFee, FeeDivisor, Slippage,               \* its cost rule
  Actions,            \* corporate actions, ordered by asset and identifier
  ShortCalendars,     \* a call may know fewer sessions than a later one
  CalendarRevisions,  \* a resumed call may change its future calendar
  None

Session == 1..LastSession
Ledger == {"ideal", "actual"}
Action == DOMAIN Actions
Price == OpenPrice \union ClosePrice \union ReferencePrice
Order == [asset : Asset, buy : BOOLEAN, quantity : 1..MaxQuantity,
          date : Session, reference : ReferencePrice \union {None}]
CorporateAction == [asset : Asset, record : Nat, ex : Nat, pay : Nat, list : Nat, cash : Nat,
                    stock : [mantissa : Nat, scale : Nat]]
Row == [date : Session, left : 1..MaxQuantity, retry : BOOLEAN]

ASSUME ExecutionAccountAssumption ==
  /\ Asset \subseteq Nat /\ IsFiniteSet(Asset)
  /\ LastSession \in Nat /\ MaxQuantity \in Nat /\ Capital \in Nat \ {0}
  /\ Orders \subseteq Order
  /\ Price \subseteq Nat \ 0..Slippage
  /\ LotSize \in Nat \ {0} /\ SettlementSessions \in Nat
  /\ MinFee \in Nat /\ FeeDivisor \in Nat \ {0} /\ Slippage \in Nat
  /\ RetryUnfilled \in BOOLEAN /\ CalendarRevisions \in BOOLEAN /\ ShortCalendars \in BOOLEAN
  /\ None \notin Nat /\ None \notin Row
  /\ Actions \in Seq(CorporateAction)
  /\ \A k \in Action : LET a == Actions[k] IN
       a.record < a.ex /\ a.ex <= a.pay /\ a.ex <= a.list

VARIABLES
  plans,      \* the frozen plans
  calendar,   \* all_sessions of the running call
  cutoff,     \* available_date of the running call
  supplied,   \* the plans that a call has been given
  phase,      \* where the call is
  day,        \* the last session that was opened
  open,       \* this session's open prices
  due,        \* by_day: where the unfilled rest of a plan waits, or None
  processed,  \* plans whose reference leg is executed
  filled, expired,  \* shares of a plan
  account     \* the state of each ledger

request == <<plans, calendar, cutoff, supplied>>
orders == <<due, processed, filled, expired>>
vars == <<request, phase, day, open, orders, account>>

NoShares == [p \in Plan |-> 0]
Opening ==
  [cash |-> Capital, position |-> [a \in Asset |-> 0], mark |-> [a \in Asset |-> None],
   lots |-> <<>>, available |-> [a \in Asset |-> 0],
   unsettled |-> [a \in Asset |-> [d \in Session |-> 0]],
   gross |-> 0, net |-> 0, income |-> 0,
   entitled |-> [k \in Action |-> 0], holders |-> [k \in Action |-> NoShares],
   awards |-> [k \in Action |-> NoShares],
   cashDue |-> [k \in Action |-> 0], sharesDue |-> [k \in Action |-> 0]]

Sum(f) == SumFunction(f)
LotSum(lots, op(_)) == Sum([i \in DOMAIN lots |-> op(lots[i])])
NewRow(p) == [date |-> plans[p].date, left |-> plans[p].quantity, retry |-> FALSE]

(* Applicable action dates inside the observed range are sessions. *)
ActionDatesSupplied(sessions, through) ==
  \A k \in Action :
    {Actions[k].record, Actions[k].ex}
      \union (IF Actions[k].cash > 0 THEN {Actions[k].pay} ELSE {})
      \union (IF Actions[k].stock.mantissa > 0 THEN {Actions[k].list} ELSE {})
    \subseteq sessions \union 0..Min(sessions) - 1 \union (through + 1)..(2 * LastSession)

Init ==
  /\ plans \in [Plan -> Orders]
  /\ \E known \in IF ShortCalendars THEN Session ELSE {LastSession} : calendar = 1..known
  /\ cutoff \in calendar
  /\ ActionDatesSupplied(calendar, cutoff)
  /\ supplied = {p \in Plan : plans[p].date \in calendar}
  /\ phase = "between"
  /\ day = 0
  /\ open = [a \in Asset |-> None]
  /\ due = [p \in Plan |-> IF p \in supplied THEN NewRow(p) ELSE None]
  /\ processed = {}
  /\ filled = [p \in Plan |-> 0]
  /\ expired = [p \in Plan |-> 0]
  /\ account = [l \in Ledger |-> Opening]

(* An InputValidationError or AssertionError: the call returns nothing. *)
Reject == phase' = "rejected" /\ UNCHANGED <<orders, account>>

(***************************************************************************)
(* The open of a session                                                   *)
(***************************************************************************)
(* Dividends and bonus shares are receivable from the ex date on. *)
Accrued(acct, d) ==
  LET ex(k) == Actions[k].ex = d
  IN [acct EXCEPT
       !.awards = [k \in Action |->
                     IF ex(k) THEN Allocation(acct.holders[k], Actions[k].stock) ELSE @[k]],
       !.cashDue = [k \in Action |->
                      IF ex(k) THEN acct.entitled[k] * Actions[k].cash ELSE @[k]],
       !.sharesDue = [k \in Action |->
                        IF ex(k) THEN WholeShares(acct.entitled[k], Actions[k].stock) ELSE @[k]],
       !.income = @ + Sum([k \in {i \in Action : ex(i)} |-> acct.entitled[k] * Actions[k].cash])]

(* Mutant: settled a session late. *)
SettledBefore(d) == {e \in Session : e < d}
SettledBy(d) == {e \in Session : e <= d}

Released(acct, d) ==
  [acct EXCEPT
    !.available = [a \in Asset |->
                     @[a] + Sum([e \in SettledBy(d) |-> acct.unsettled[a][e]])],
    !.unsettled = [a \in Asset |->
                     [e \in Session |-> IF e \in SettledBy(d) THEN 0 ELSE @[a][e]]]]

(* The members of a set of numbers, in their order. *)
Ordered(S) == [n \in 1..Cardinality(S) |-> CHOOSE x \in S : Cardinality({y \in S : y <= x}) = n]

(* Distributed shares become zero-cost lots of the plans that earned them. *)
BonusLots(acct, k) ==
  LET earning == {p \in Plan : acct.awards[k][p] > 0}
      lot(p) == [plan |-> p, asset |-> Actions[k].asset,
                 quantity |-> acct.awards[k][p], price |-> 0, fee |-> 0]
  IN IF acct.sharesDue[k] > 0
     THEN [n \in 1..Cardinality(earning) |-> lot(Ordered(earning)[n])]
     ELSE <<>>

(* Receivables whose pay or listing date has come are paid and listed. *)
Paid(acct, d) ==
  LET paid == {k \in Action : Actions[k].pay = d}
      listed == {k \in Action : Actions[k].list = d}
      shares(a) == Sum([k \in {i \in listed : Actions[i].asset = a} |-> acct.sharesDue[k]])
  IN [acct EXCEPT
       !.cash = @ + Sum([k \in paid |-> acct.cashDue[k]]),
       !.cashDue = [k \in Action |-> IF k \in paid THEN 0 ELSE @[k]],
       !.position = [a \in Asset |-> @[a] + shares(a)],
       !.available = [a \in Asset |-> @[a] + shares(a)],
       !.sharesDue = [k \in Action |-> IF k \in listed THEN 0 ELSE @[k]],
       !.lots = @ \o FlattenSeq([k \in Action |->
                                   IF k \in listed THEN BonusLots(acct, k) ELSE <<>>])]

(* An asset once held is marked at every price that is there. *)
Marked(acct, prices) ==
  [acct EXCEPT !.mark = [a \in Asset |->
     IF acct.mark[a] # None /\ prices[a] # None THEN prices[a] ELSE @[a]]]

Opened(acct, d, prices) == Marked(Paid(Released(Accrued(acct, d), d), d), prices)

Ahead == {d \in calendar : day < d /\ d <= cutoff}

OpenSession ==
  /\ phase = "between"
  /\ Ahead # {}
  /\ day' = Min(Ahead)
  /\ open' \in [Asset -> OpenPrice \union {None}]
  /\ account' = [l \in Ledger |-> Opened(account[l], day', open')]
  /\ phase' = "trading"
  /\ UNCHANGED <<request, orders>>

(***************************************************************************)
(* Orders                                                                  *)
(***************************************************************************)
Fee(notional) == Max({MinFee, notional \div FeeDivisor})
BuyPrice(p) == open[plans[p].asset] + Slippage
SellPrice(p) == open[plans[p].asset] - Slippage

(* Mutant: the sale leaves the whole entry fee with the lot. *)
NoEntryFee(lot, quantity) == 0
EntryFee(lot, quantity) == IF quantity = 0 THEN 0 ELSE (lot.fee * quantity) \div lot.quantity

(* Shares of every lot that a sale takes, first in first out. *)
Taken(lots, asset, quantity) ==
  LET held(i) == IF lots[i].asset = asset THEN lots[i].quantity ELSE 0
      earlier(i) == Sum([j \in 1..(i - 1) |-> held(j)])
  IN [i \in DOMAIN lots |-> Min({held(i), Max({0, quantity - earlier(i)})})]

(* Match a sale with the lots of its asset. *)
Matched(lots, asset, quantity, price) ==
  LET taken == Taken(lots, asset, quantity)
      fee == [i \in DOMAIN lots |-> EntryFee(lots[i], taken[i])]
  IN [lots |-> [i \in DOMAIN lots |->
                  [lots[i] EXCEPT !.quantity = @ - taken[i], !.fee = @ - fee[i]]],
      gross |-> Sum([i \in DOMAIN lots |-> taken[i] * (price - lots[i].price)]),
      fees |-> Sum(fee)]

(* _fill and _fifo_fill of a purchase that settles on date when. *)
Bought(acct, p, quantity, price, fee, reference, when) ==
  LET a == plans[p].asset
      lot == [plan |-> p, asset |-> a, quantity |-> quantity, price |-> price, fee |-> fee]
  IN [acct EXCEPT
       !.cash = @ - quantity * price - fee,
       !.position[a] = @ + quantity,
       !.available[a] = IF when = day THEN @ + quantity ELSE @,
       !.unsettled[a][when] = IF when = day THEN @ ELSE @ + quantity,
       !.mark[a] = IF @ = None THEN reference ELSE @,
       !.lots = Append(@, lot)]

Sold(acct, p, quantity, price, fee, reference) ==
  LET a == plans[p].asset
      match == Matched(acct.lots, a, quantity, price)
  IN [acct EXCEPT
       !.cash = @ + quantity * price - fee,
       !.position[a] = @ - quantity,
       !.available[a] = @ - quantity,
       !.mark[a] = IF @ = None THEN reference ELSE @,
       !.lots = match.lots,
       !.gross = @ + match.gross,
       !.net = @ + match.gross - match.fees - fee]

Reference(p) == IF plans[p].reference # None THEN plans[p].reference ELSE open[plans[p].asset]

(* The reference leg is priced and within the reference account's means. *)
IdealFeasible(p) ==
  /\ Reference(p) # None
  /\ IF plans[p].buy
     THEN due[p].left * Reference(p) <= account["ideal"].cash
     ELSE due[p].left <= account["ideal"].position[plans[p].asset]

IdealFilled(p) ==
  IF due[p].retry THEN account["ideal"]
  ELSE IF plans[p].buy
  THEN Bought(account["ideal"], p, due[p].left, Reference(p), 0, Reference(p), day)
  ELSE Sold(account["ideal"], p, due[p].left, Reference(p), 0, Reference(p))

(* Mutant: a purchase is sized without its fee. *)
NotionalWithinCash(p, quantity) == quantity * BuyPrice(p) <= account["actual"].cash
Affordable(p, quantity) ==
  quantity * BuyPrice(p) + Fee(quantity * BuyPrice(p)) <= account["actual"].cash

(* Whole lots the cash pays for, fees included. *)
BuyQuantity(p) ==
  LotSize * Max({0} \union {n \in 1..(due[p].left \div LotSize) : Affordable(p, n * LotSize)})

(* Mutant: a sale takes shares that have not settled. *)
SellUnsettled(p) == Min({due[p].left, account["actual"].position[plans[p].asset]})
(* Available shares, unless their proceeds and the cash do not pay the fee. *)
SellQuantity(p) ==
  LET quantity == Min({due[p].left, account["actual"].available[plans[p].asset]})
      proceeds == quantity * SellPrice(p)
  IN IF proceeds < Fee(proceeds) - account["actual"].cash THEN 0 ELSE quantity

ActualQuantity(p, tradable) ==
  IF open[plans[p].asset] = None \/ ~ tradable THEN 0
  ELSE IF plans[p].buy THEN BuyQuantity(p) ELSE SellQuantity(p)

(* The sessions of the call's calendar after this one. *)
Following == {d \in calendar : d > day}
SettlementKnown == Cardinality(Following) >= SettlementSessions
SettlementDate ==
  IF SettlementSessions = 0 THEN day
  ELSE CHOOSE d \in Following :
         Cardinality({e \in Following : e <= d}) = SettlementSessions

ActualFilled(p, quantity) ==
  IF quantity = 0 THEN account["actual"]
  ELSE IF plans[p].buy
  THEN Bought(account["actual"], p, quantity, BuyPrice(p), Fee(quantity * BuyPrice(p)),
              open[plans[p].asset], SettlementDate)
  ELSE Sold(account["actual"], p, quantity, SellPrice(p), Fee(quantity * SellPrice(p)),
            open[plans[p].asset])

(* Mutants: retry on the same session; as a new plan; the whole plan. *)
RetryToday(p, rest) == [date |-> day, left |-> rest, retry |-> TRUE]
RetryAsNew(p, rest) == [date |-> Min(Following), left |-> rest, retry |-> FALSE]
RetryWhole(p, rest) == [date |-> Min(Following), left |-> plans[p].quantity, retry |-> TRUE]
RetryRow(p, rest) == [date |-> Min(Following), left |-> rest, retry |-> TRUE]

Todays == {p \in Plan : due[p] # None /\ due[p].date = day}

(* Sells before buys, then by asset and plan. *)
Precedes(p, q) ==
  \/ ~ plans[p].buy /\ plans[q].buy
  \/ /\ plans[p].buy = plans[q].buy
     /\ \/ plans[p].asset < plans[q].asset
        \/ plans[p].asset = plans[q].asset /\ p < q

ExecuteOrder(p) ==
  /\ phase = "trading"
  /\ p \in Todays
  /\ \A q \in Todays \ {p} : Precedes(p, q)
  /\ \E tradable \in BOOLEAN :
       LET quantity == ActualQuantity(p, tradable)
           rest == due[p].left - quantity
           retried == RetryUnfilled /\ rest > 0 /\ Following # {}
       IN \/ /\ ~ due[p].retry /\ ~ IdealFeasible(p)
             /\ Reject
          \/ /\ due[p].retry \/ IdealFeasible(p)
             /\ plans[p].buy /\ quantity > 0 /\ ~ SettlementKnown
             /\ Reject
          \/ /\ due[p].retry \/ IdealFeasible(p)
             /\ (plans[p].buy /\ quantity > 0) => SettlementKnown
             /\ account' = [ideal |-> IdealFilled(p), actual |-> ActualFilled(p, quantity)]
             /\ processed' = processed \union {p}
             /\ filled' = [filled EXCEPT ![p] = @ + quantity]
             /\ due' = [due EXCEPT ![p] = IF retried THEN RetryRow(p, rest) ELSE None]
             /\ expired' = [expired EXCEPT ![p] = IF retried THEN @ ELSE rest]
             /\ UNCHANGED phase
  /\ UNCHANGED <<request, day, open>>

(***************************************************************************)
(* The close of a session, and the next call                               *)
(***************************************************************************)
(* Record-date positions and the plans whose lots make them up. *)
Recorded(acct, d) ==
  LET recorded(k) == Actions[k].record = d
      held(k, p) == LotSum(acct.lots, LAMBDA lot :
                      IF lot.asset = Actions[k].asset /\ lot.plan = p THEN lot.quantity ELSE 0)
  IN [acct EXCEPT
       !.entitled = [k \in Action |->
                       IF recorded(k) THEN acct.position[Actions[k].asset] ELSE @[k]],
       !.holders = [k \in Action |->
                      IF recorded(k) THEN [p \in Plan |-> held(k, p)] ELSE @[k]]]

WithoutEmptyLots(acct) ==
  LET kept == {i \in DOMAIN acct.lots : acct.lots[i].quantity > 0}
  IN [acct EXCEPT !.lots = [n \in 1..Cardinality(kept) |-> acct.lots[Ordered(kept)[n]]]]

(* At the last session the checkpoint keeps only rows that lie ahead. *)
CloseSession ==
  /\ phase = "trading"
  /\ Todays = {}
  /\ \E close \in [Asset -> ClosePrice \union {None}] :
       account' = [l \in Ledger |-> WithoutEmptyLots(Recorded(Marked(account[l], close), day))]
  /\ IF Ahead # {}
     THEN phase' = "between" /\ UNCHANGED due
     ELSE /\ phase' = "checkpoint"
          /\ due' = [p \in Plan |-> IF due[p] # None /\ due[p].date < day THEN None ELSE due[p]]
  /\ open' = [a \in Asset |-> None]
  /\ UNCHANGED <<request, day, processed, filled, expired>>

(* Sessions up to the checkpoint are proven, later ones supplied anew. *)
Continues(sessions) ==
  /\ sessions \intersect 1..day = calendar \intersect 1..day
  /\ \/ CalendarRevisions
     \/ sessions \in {1..n : n \in Session} /\ calendar \subseteq sessions

Resume ==
  /\ phase = "checkpoint"
  /\ \E sessions \in SUBSET Session : \E through \in sessions :
       /\ Continues(sessions)
       /\ through > day
       /\ \A p \in supplied : plans[p].date \in sessions
       /\ ActionDatesSupplied(sessions, through)
       /\ calendar' = sessions
       /\ cutoff' = through
  /\ supplied' = supplied \union {p \in Plan : plans[p].date \in calendar' /\ plans[p].date > day}
  /\ due' = [p \in Plan |-> IF p \in supplied' \ supplied THEN NewRow(p) ELSE due[p]]
  /\ phase' = "between"
  /\ UNCHANGED <<plans, day, open, processed, filled, expired, account>>

Returned == phase \in {"checkpoint", "rejected"} /\ UNCHANGED vars

Next ==
  \/ OpenSession
  \/ \E p \in Plan : ExecuteOrder(p)
  \/ CloseSession
  \/ Resume
  \/ Returned

Spec == Init /\ [][Next]_vars

(***************************************************************************)
(* Safety                                                                  *)
(***************************************************************************)
Shares == [Asset -> Nat]
Lot == [plan : Plan, asset : Asset, quantity : Nat, price : Nat, fee : Nat]

(* The variables' types; a waiting row has something left to fill. *)
TypeOK ==
  /\ plans \in [Plan -> Orders]
  /\ calendar \subseteq Session /\ cutoff \in calendar
  /\ supplied \subseteq Plan /\ processed \subseteq supplied
  /\ phase \in {"between", "trading", "checkpoint", "rejected"}
  /\ day \in 0..LastSession
  /\ open \in [Asset -> OpenPrice \union {None}]
  /\ due \in [Plan -> Row \union {None}]
  /\ filled \in [Plan -> 0..MaxQuantity] /\ expired \in [Plan -> 0..MaxQuantity]
  /\ DOMAIN account = Ledger
  /\ \A l \in Ledger :
       /\ account[l].position \in Shares /\ account[l].available \in Shares
       /\ account[l].unsettled \in [Asset -> [Session -> Nat]]
       /\ account[l].mark \in [Asset -> Price \union {None}]
       /\ \A i \in DOMAIN account[l].lots : account[l].lots[i] \in Lot

(* The account never owes money and never sells what it does not have: the *)
(* purchases of a session, its sale costs and its fees are paid from cash  *)
(* that is there when they are executed, after any sequence of partial     *)
(* fills, retries, dividends and resumed calls.                            *)
NoOverdraft == \A l \in Ledger : account[l].cash >= 0

Value(l, a) == IF account[l].mark[a] = None THEN 0 ELSE account[l].mark[a]
Receivables(l) ==
  Sum(account[l].cashDue)
  + Sum([k \in Action |-> account[l].sharesDue[k] * Value(l, Actions[k].asset)])
Equity(l) ==
  account[l].cash + Sum([a \in Asset |-> account[l].position[a] * Value(l, a)]) + Receivables(l)
Unrealized(l) ==
  LotSum(account[l].lots, LAMBDA lot : lot.quantity * (Value(l, lot.asset) - lot.price) - lot.fee)
  + Sum([k \in Action |-> account[l].sharesDue[k] * Value(l, Actions[k].asset)])
Realized(l) == IF l = "actual" THEN account[l].net ELSE account[l].gross

(* "actual/ideal FIFO P&L does not reconcile account equity" (the two      *)
(* assertions at the close) is never raised: what the lots have earned,    *)
(* realized and not, with fees and dividends, is what the equity has       *)
(* gained.  The account and the FIFO books are updated by separate code.   *)
Reconciles ==
  \A l \in Ledger : Equity(l) - Capital = Realized(l) + Unrealized(l) + account[l].income

(* "FIFO inventory does not match account inventory" is never raised.      *)
LotsMatchInventory ==
  \A l \in Ledger, a \in Asset :
    LotSum(account[l].lots, LAMBDA lot : IF lot.asset = a THEN lot.quantity ELSE 0)
      = account[l].position[a]

(* Every share is available or waits for a settlement that lies ahead of   *)
(* the session, also after a resumed call: none is sold before it settles, *)
(* and none stays unsettled beyond its date.                               *)
SharesSettle ==
  \A l \in Ledger, a \in Asset :
    /\ account[l].available[a] + Sum(account[l].unsettled[a]) = account[l].position[a]
    /\ \A d \in Session : account[l].unsettled[a][d] > 0 => d > day

Signed(p, quantity) == IF plans[p].buy THEN quantity ELSE -quantity
Executed(l, p) ==
  IF l = "actual" THEN filled[p] ELSE IF p \in processed THEN plans[p].quantity ELSE 0

(* A position is what the plans of its asset have executed in that ledger, *)
(* each once and never beyond its quantity, and the bonus shares that its  *)
(* record-date holdings have earned and that are not receivable any more.  *)
PositionsExplained ==
  \A l \in Ledger, a \in Asset :
    account[l].position[a] =
      Sum([p \in {q \in Plan : plans[q].asset = a} |-> Signed(p, Executed(l, p))])
      + Sum([k \in {i \in Action : Actions[i].asset = a /\ Actions[i].ex <= day} |->
               WholeShares(account[l].entitled[k], Actions[k].stock) - account[l].sharesDue[k]])

(* A stock dividend gives the plans together what it gives the account,    *)
(* and no plan differs from its own quota by a share or more.              *)
AwardsMatchEntitlement ==
  \A l \in Ledger, k \in Action : Actions[k].ex <= day =>
    /\ Sum(account[l].awards[k]) = WholeShares(account[l].entitled[k], Actions[k].stock)
    /\ \A p \in Plan : account[l].awards[k][p]
         - WholeShares(account[l].holders[k][p], Actions[k].stock) \in {0, 1}

(* What a plan asked for is filled, expired or still due: no rest is lost  *)
(* or counted twice on its way through partial fills, retries, the         *)
(* checkpoint and a resumed call.                                          *)
ResidualKept ==
  \A p \in supplied :
    filled[p] + expired[p] + (IF due[p] = None THEN 0 ELSE due[p].left) = plans[p].quantity

(***************************************************************************)
(* The abstract plans                                                      *)
(***************************************************************************)
SignedOrders == INSTANCE SignedPlans
                  WITH quantity <- [p \in Plan |-> plans[p].quantity], executed <- processed

(* Every step of the account executes one plan as the abstract one does,   *)
(* or leaves all plans as they are.                                        *)
ImplementsSignedPlans == SignedOrders!Spec

(***************************************************************************)
(* Progress                                                                *)
(***************************************************************************)
(* A session ends and a call returns: every order handled in a session     *)
(* leaves that session's list for good, so that a retry never runs twice   *)
(* on the same prices, and only the close of the session opens another.    *)
SessionShortened ==
  (phase = "trading" /\ phase' = "trading") =>
    /\ day' = day
    /\ Todays' \subseteq Todays /\ Todays' # Todays
SessionsEnd == [][SessionShortened]_vars
=============================================================================
