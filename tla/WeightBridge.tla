----------------------------- MODULE WeightBridge -----------------------------
(***************************************************************************)
(* Execution of saved target weights (run_execution_from_weights): at the  *)
(* close of a decision session the targets are sized from the actual       *)
(* account into whole lots, and the differences become plans, frozen until *)
(* a session that lies some sessions ahead.  A reference account fills     *)
(* every plan; the actual one obeys cash, its fee and blocked assets.      *)
(*                                                                         *)
(* A call observes the sessions up to a date and returns a checkpoint; a   *)
(* later call goes on from it with a strict tail of inputs, and with the   *)
(* corporate actions that have become known meanwhile.  What must not      *)
(* matter is how a history was cut into calls.                             *)
(*                                                                         *)
(* Lots of a position, settlement and cost rules are ExecutionAccount's;   *)
(* here shares settle at once, and the fee is flat.                        *)
(***************************************************************************)
EXTENDS Integers, Sequences, FiniteSets, FiniteSetsExt, SequencesExt

CONSTANTS
    BridgeDays,      \* sessions of the calendar
    BridgeAssets,    \* assets, numbered in the order of their identifiers
    BridgeCapital,   \* initial_capital
    WeightUnit,      \* a weight is a number of these parts
    BridgeLot,       \* default_buy_lot_size
    BridgeFee,       \* fee of an actual fill
    Settings,        \* session_lag, retry_unfilled, reference_price_mode
    Markets,         \* session |-> asset |-> open and close, 0 where missing
    TargetPlans,     \* decision session |-> asset |-> weight
    Blocks,          \* sets of <<session, asset>> that cannot be traded
    Dividends,       \* corporate actions
    Corrections,     \* a day's quotes that a source may replace, once
    MaxCalls         \* bound on the calls of a history

ASSUME BridgeAssumption ==
    /\ BridgeDays \in Nat \ {0} /\ BridgeAssets \subseteq Nat
    /\ BridgeCapital \in Nat \ {0} /\ WeightUnit \in Nat \ {0}
    /\ BridgeLot \in Nat \ {0} /\ BridgeFee \in Nat /\ MaxCalls \in Nat
    /\ Settings \subseteq [lag : Nat \ {0}, retry : BOOLEAN, frozen : BOOLEAN]
    /\ Markets \subseteq [1..BridgeDays -> [BridgeAssets -> [open : Nat, close : Nat]]]
    /\ \A plan \in TargetPlans : \A d \in DOMAIN plan :
         plan[d] \in [BridgeAssets -> 0..WeightUnit]
    /\ Dividends \subseteq [asset : BridgeAssets, record : Int, ex : Int, pay : Int,
                            cash : Nat, stock : Nat]
    /\ \A k \in Dividends : k.record < k.ex /\ k.ex <= k.pay
    /\ \A fix \in Corrections : fix.day \in 1..BridgeDays

VARIABLES
    market, targets, blocked, settings,   \* the inputs of this behaviour
    corrected,   \* whether a source has corrected the market
    whole,       \* an uninterrupted run that knows everything: its sessions
    announced,   \* the corporate actions that are known by now
    saved,       \* checkpoints, one per session at most
    positions,   \* the published history: session |-> ledger |-> positions
    call,        \* the running call
    calls        \* the number of calls so far

inputs == <<market, targets, blocked, settings, corrected>>
bridgeVars == <<inputs, whole, announced, saved, positions, call, calls>>

Books == {"ideal", "actual"}
Unregistered == -1
Total(f) == FoldFunction(+, 0, f)

OpenBook ==
    [cash |-> BridgeCapital, position |-> [a \in BridgeAssets |-> 0],
     mark |-> [a \in BridgeAssets |-> 0],
     cashDue |-> [k \in Dividends |-> 0], sharesDue |-> [k \in Dividends |-> 0]]

OpenAccount ==
    [book |-> [l \in Books |-> OpenBook],
     entitled |-> [l \in Books |-> [k \in Dividends |-> Unregistered]],
     pending |-> {}, rejected |-> FALSE]

-----------------------------------------------------------------------------
(* Whole-lot allocation of a target snapshot.                              *)

CeilDiv(n, m) == (n + m - 1) \div m

\* _solve_lot_counts: of the lot counts up to the maximum that stay within the
\* budget, those that deploy most, of these the closest to the ideal values, of
\* these the one with the lots of the first assets.
SolveLotCounts(value, maximum, ideal, budget) ==
    LET assets == DOMAIN value
        deployed(c) == Total([a \in assets |-> c[a] * value[a]])
        deviation(c) == Total([a \in assets |->
                                 LET gap == c[a] * value[a] - ideal[a]
                                 IN  IF gap < 0 THEN -gap ELSE gap])
        rank(c) == Total([a \in assets |->
                            c[a] * Cardinality({b \in assets : b <= a})])
        feasible == {c \in [assets -> 0..Max(Range(maximum))] :
                       deployed(c) <= budget /\ \A a \in assets : c[a] <= maximum[a]}
        most == Max({deployed(c) : c \in feasible})
        fullest == {c \in feasible : deployed(c) = most}
        least == Min({deviation(c) : c \in fullest})
        closest == {c \in fullest : deviation(c) = least}
    IN  CHOOSE c \in closest : \A e \in closest : rank(c) <= rank(e)

\* allocate_integer_positions: whole lots within the stock budget, at most one
\* lot of an asset above its target.
Allocation(weight, price, notional) ==
    LET assets == DOMAIN weight
        value == [a \in assets |-> BridgeLot * price[a] * WeightUnit]
        ideal == [a \in assets |-> weight[a] * notional]
        maximum == [a \in assets |-> CeilDiv(ideal[a], value[a])]
        lots == SolveLotCounts(value, maximum, ideal, Total(ideal))
    IN  [a \in assets |-> lots[a] * BridgeLot]

-----------------------------------------------------------------------------
(* One session of an account.                                              *)

\* What a session reads of the inputs: quotes and blocked assets of the day, the
\* targets decided on its close, and the settings.
DayInputs(d) ==
    [quotes |-> market[d], blocked |-> {a \in BridgeAssets : <<d, a>> \in blocked},
     targets |-> IF d \in DOMAIN targets THEN {targets[d]} ELSE {},
     settings |-> settings]

\* An action that was not registered on its record date entitles to nothing.
Entitled(quantity) == IF quantity = Unregistered THEN 0 ELSE quantity

\* The shares the actions of a day are due on.
Held(entitled, actions) == [k \in actions |-> Entitled(entitled[k])]

\* Receivables arise on the ex date and are paid, in cash and in shares, later.
Distributed(book, held, paid) ==
    LET cash == [k \in Dividends |-> IF k \in DOMAIN held THEN held[k] * k.cash
                                     ELSE book.cashDue[k]]
        shares == [k \in Dividends |-> IF k \in DOMAIN held THEN held[k] * k.stock
                                       ELSE book.sharesDue[k]]
        listed(a) == Total([k \in {i \in paid : i.asset = a} |-> shares[k]])
    IN  [book EXCEPT
          !.cash = @ + Total([k \in paid |-> cash[k]]),
          !.position = [a \in BridgeAssets |-> @[a] + listed(a)],
          !.cashDue = [k \in Dividends |-> IF k \in paid THEN 0 ELSE cash[k]],
          !.sharesDue = [k \in Dividends |-> IF k \in paid THEN 0 ELSE shares[k]]]

MarkedAt(book, quotes, use) ==
    [book EXCEPT !.mark = [a \in BridgeAssets |->
        LET last == @[a] IN
        IF last # 0 /\ quotes[a][use] # 0 THEN quotes[a][use] ELSE last]]

Traded(book, asset, quantity, price, fee) ==
    [book EXCEPT !.cash = @ - quantity * price - fee,
                 !.position[asset] = @ + quantity,
                 !.mark[asset] = IF @ = 0 THEN price ELSE @]

\* The reference leg fills a new plan in full, or the evaluation is rejected.
IdealLeg(book, row, price) ==
    IF row.retry THEN book ELSE Traded(book, row.asset, row.quantity, price, 0)

IdealAdmits(book, row, price) ==
    row.retry \/ (/\ price # 0
                  /\ row.quantity * price <= book.cash
                  /\ book.position[row.asset] + row.quantity >= 0)

\* Shares the actual account trades: what it holds, or whole lots it can pay.
ActualFill(book, row, today, price) ==
    IF price = 0 \/ row.asset \in today.blocked THEN 0
    ELSE IF row.quantity < 0
    THEN LET sold == Min({-row.quantity, book.position[row.asset]})
         IN  IF sold * price < BridgeFee - book.cash THEN 0 ELSE -sold
    ELSE BridgeLot * Max({0} \cup {n \in 1..(row.quantity \div BridgeLot) :
                                     n * BridgeLot * price + BridgeFee <= book.cash})

\* What a row leaves unfilled is retried on the next session, or expires.
Unfilled(row, today, d, rest) ==
    IF today.settings.retry /\ rest # 0 /\ d < BridgeDays
    THEN {[row EXCEPT !.quantity = rest]} ELSE {}

Retried(rests, d) ==
    {[decision |-> r.decision, asset |-> r.asset, date |-> d + 1,
      quantity |-> r.quantity, retry |-> TRUE, reference |-> r.reference] : r \in rests}

Execute(trades, row, today, d) ==
    LET price == today.quotes[row.asset].open
        reference == IF row.reference # 0 THEN row.reference ELSE price
        traded == ActualFill(trades.book["actual"], row, today, price)
    IN  IF trades.rejected \/ ~ IdealAdmits(trades.book["ideal"], row, reference)
        THEN [trades EXCEPT !.rejected = TRUE]
        ELSE [trades EXCEPT
               !.book = [ideal |-> IdealLeg(trades.book["ideal"], row, reference),
                         actual |-> IF traded = 0 THEN trades.book["actual"]
                                    ELSE Traded(trades.book["actual"], row.asset, traded,
                                                price, BridgeFee)],
               !.rests = @ \cup Unfilled(row, today, d, row.quantity - traded)]

\* Sales first, then by asset and plan.
Earlier(p, q) ==
    LET side(r) == IF r.quantity > 0 THEN 1 ELSE 0
    IN  \/ side(p) < side(q)
        \/ side(p) = side(q) /\ p.asset < q.asset
        \/ side(p) = side(q) /\ p.asset = q.asset /\ p.decision < q.decision

\* The plans of the day, one after the other.
TradedAll(opened, rows, today, d) ==
    FoldLeft(LAMBDA trades, row : Execute(trades, row, today, d),
             opened, SetToSortSeq(rows, Earlier))

\* Record-date positions entitle to what comes.
Registered(entitled, book, d, known) ==
    [k \in Dividends |-> IF k \in known /\ k.record = d THEN book.position[k.asset]
                         ELSE entitled[k]]

Worth(book) ==
    book.cash + Total([a \in BridgeAssets |-> book.position[a] * book.mark[a]])
      + Total([k \in Dividends |-> book.cashDue[k] + book.sharesDue[k] * book.mark[k.asset]])

\* _build_stateful_decision_plan: a target against the actual account; an asset
\* held without a close stays outside the plan.
Planned(book, weight, today, d) ==
    LET close(a) == today.quotes[a].close
        planned == {a \in BridgeAssets : \/ weight[a] > 0
                                         \/ book.position[a] # 0 /\ close(a) # 0}
        target == Allocation([a \in planned |-> weight[a]], [a \in planned |-> close(a)],
                             Worth(book))
        plan(a) == [decision |-> d, asset |-> a, date |-> d + today.settings.lag,
                    quantity |-> target[a] - book.position[a], retry |-> FALSE,
                    reference |-> IF today.settings.frozen THEN close(a) ELSE 0]
    IN  {plan(a) : a \in {b \in planned : target[b] # book.position[b]}}

DecisionAdmitted(book, weight, today) ==
    Worth(book) > 0 /\ \A a \in BridgeAssets : weight[a] > 0 => today.quotes[a].close # 0

Decided(s, weight, today, d) ==
    IF DecisionAdmitted(s.book["actual"], weight, today)
    THEN [s EXCEPT !.pending = @ \cup Planned(s.book["actual"], weight, today, d)]
    ELSE [s EXCEPT !.rejected = TRUE]

SessionOf(s, today, d, known) ==
    LET rows == {r \in s.pending : r.date = d}
        held(l) == Held(s.entitled[l], {k \in known : k.ex = d})
        paid == {k \in known : k.pay = d}
        opened == [book |-> [l \in Books |-> MarkedAt(Distributed(s.book[l], held(l), paid),
                                                     today.quotes, "open")],
                   rests |-> {}, rejected |-> s.rejected]
        traded == TradedAll(opened, rows, today, d)
        after(l) == MarkedAt(traded.book[l], today.quotes, "close")
        closed == [book |-> [l \in Books |-> after(l)],
                   entitled |-> [l \in Books |->
                                  Registered(s.entitled[l], after(l), d, known)],
                   pending |-> (s.pending \ rows) \cup Retried(traded.rests, d),
                   rejected |-> traded.rejected]
    IN  IF closed.rejected \/ today.targets = {} THEN closed
        ELSE Decided(closed, CHOOSE weight \in today.targets : TRUE, today, d)

-----------------------------------------------------------------------------
(* Continuation.                                                           *)

\* Mutant: present holdings stand in for those of the record date.
CurrentHolding(account, l, k) == account.book[l].position[k.asset]

\* complete_checkpoint_entitlements: holdings of a past record date come from the
\* published history; before the account there were none.
RecordHolding(account, l, k) ==
    IF k.record \in DOMAIN positions THEN positions[k.record][l][k.asset] ELSE 0

\* A fresh account has nothing to complete.
CompletedEntitlements(c, known) ==
    [c.account EXCEPT !.entitled = [l \in Books |-> [k \in Dividends |->
        IF c.time > 0 /\ k \in known /\ k.record <= c.time /\ @[l][k] = Unregistered
        THEN RecordHolding(c.account, l, k) ELSE @[l][k]]]]

\* Frozen plans of later sessions stay as they are.
Frozen(s, time) == [s EXCEPT !.pending = {r \in @ : r.date > time}]

\* Actions some date of which lies ahead are kept with the checkpoint.
ActiveActions(known, time) == {k \in known : k.ex > time \/ k.pay > time}

\* A past effect that the checkpoint does not know needs an earlier one.
AdmitsActions(c, known) ==
    c.time > 0 => \A k \in known :
                    c.account.entitled["actual"][k] = Unregistered => k.ex > c.time

\* bind_execution_inputs: the content of every channel up to the checkpoint.
Binding(time) == [d \in 1..time |-> DayInputs(d)]

\* validate_execution_continuation: the consumed prefix is what it was.
SamePrefix(c) == c.binding = Binding(c.time)

NoCall == [running |-> FALSE]

BridgeInit ==
    /\ market \in Markets /\ targets \in TargetPlans /\ blocked \in Blocks
    /\ settings \in Settings
    /\ \A d \in DOMAIN targets : d + settings.lag <= BridgeDays
    /\ corrected = FALSE
    /\ whole = <<>>
    /\ announced = {}
    /\ saved = {[time |-> 0, account |-> OpenAccount, active |-> {}, told |-> {},
                 binding |-> Binding(0)]}
    /\ positions = <<>>
    /\ call = NoCall /\ calls = 0

\* The run to compare with, before any other.
RunWhole ==
    /\ Len(whole) < BridgeDays
    /\ whole' = Append(whole, SessionOf(IF whole = <<>> THEN OpenAccount ELSE Last(whole),
                                        DayInputs(Len(whole) + 1), Len(whole) + 1,
                                        Dividends))
    /\ UNCHANGED <<inputs, announced, saved, positions, call, calls>>

\* A source replaces the quotes of a day; the compared run starts again there.
CorrectMarket ==
    /\ Len(whole) = BridgeDays /\ ~ call.running /\ ~ corrected
    /\ corrected' = TRUE
    /\ \E fix \in Corrections :
         /\ market' = [market EXCEPT ![fix.day] = fix.quotes]
         /\ whole' = SubSeq(whole, 1, fix.day - 1)
    /\ UNCHANGED <<targets, blocked, settings, announced, saved, positions, call, calls>>

\* A source reports a corporate action, possibly after its record or ex date.
Announce ==
    /\ Len(whole) = BridgeDays /\ ~ call.running
    /\ \E k \in Dividends \ announced : announced' = announced \cup {k}
    /\ UNCHANGED <<inputs, whole, saved, positions, call, calls>>

\* A call from a checkpoint: the caller passes all actions, or those that no call
\* on the way to it was told of, and the checkpoint adds its active ones.
StartCall ==
    /\ Len(whole) = BridgeDays /\ ~ call.running
    /\ calls < MaxCalls /\ calls' = calls + 1
    /\ \E c \in saved, through \in 1..BridgeDays : \E supplied \in {announced, announced \ c.told} :
         LET known == supplied \cup c.active
         IN  /\ through > c.time
             /\ SamePrefix(c)
             /\ AdmitsActions(c, known)
             /\ call' = [running |-> TRUE, from |-> c.time, through |-> through,
                         known |-> known, told |-> c.told \cup supplied,
                         account |-> CompletedEntitlements(c, known), rows |-> <<>>]
    /\ UNCHANGED <<inputs, whole, announced, saved, positions>>

Today == call.from + Len(call.rows) + 1

RunSession ==
    /\ call.running /\ ~ call.account.rejected /\ Today <= call.through
    /\ LET next == SessionOf(call.account, DayInputs(Today), Today, call.known)
       IN  call' = [call EXCEPT !.account = next,
                      !.rows = Append(@, [l \in Books |-> next.book[l].position])]
    /\ UNCHANGED <<inputs, whole, announced, saved, positions, calls>>

\* The result of a call replaces later rows and checkpoints.
EndCall ==
    /\ call.running /\ ~ call.account.rejected /\ Today > call.through
    /\ saved' = {e \in saved : e.time <= call.from}
                  \cup {[time |-> call.through, account |-> Frozen(call.account, call.through),
                         active |-> ActiveActions(call.known, call.through),
                         told |-> call.told, binding |-> Binding(call.through)]}
    /\ positions' = SubSeq(positions, 1, call.from) \o call.rows
    /\ call' = NoCall
    /\ UNCHANGED <<inputs, whole, announced, calls>>

\* A rejected or cancelled call returns nothing.
AbandonCall ==
    /\ call.running
    /\ call' = NoCall
    /\ UNCHANGED <<inputs, whole, announced, saved, positions, calls>>

BridgeNext ==
    RunWhole \/ CorrectMarket \/ Announce \/ StartCall \/ RunSession \/ EndCall \/ AbandonCall

BridgeSpec == BridgeInit /\ [][BridgeNext]_bridgeVars

-----------------------------------------------------------------------------
\* What a run that was told of some actions can have of the whole one's state.
Seen(s, told) ==
    [book |-> s.book, pending |-> s.pending, rejected |-> s.rejected,
     entitled |-> [l \in Books |-> [k \in told |-> Entitled(s.entitled[l][k])]]]

\* However a history is cut into calls, whenever its corporate actions become
\* known and a quote is corrected, a checkpoint of the present inputs that was
\* told of every action in effect holds both accounts, the entitlements and the
\* frozen plans of one uninterrupted run over these inputs, and the published
\* positions are that run's.
SplitEqualsWhole ==
    (~ call.running /\ Len(whole) = BridgeDays) => \A c \in saved :
      (c.time > 0 /\ c.binding = Binding(c.time)
        /\ \A k \in Dividends : k.ex <= c.time => k \in c.told) =>
        /\ Seen(c.account, c.told) = Seen(Frozen(whole[c.time], c.time), c.told)
        /\ \A d \in 1..c.time, l \in Books : positions[d][l] = whole[d].book[l].position
=============================================================================
