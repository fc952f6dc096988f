------------------------------ MODULE MCResearch ------------------------------
(***************************************************************************)
(* The incremental computations and the artifacts they are kept in, on     *)
(* small instances.  The seven parts share no state in the code, so a      *)
(* behaviour runs one of them while the others rest: the state space is    *)
(* the sum of theirs, not the product.                                     *)
(***************************************************************************)
EXTENDS MCAlpha, RiskFactors, RiskProfile, SharedReceipts, TableComposition,
        WeightBridge, HorizonBatch, TLC

VARIABLE part   \* the part this behaviour is about

-----------------------------------------------------------------------------
(* The markets, targets and settings of WeightBridge.                       *)

Same(p) == [open |-> p, close |-> p]
Quotes(first, second) ==
    [d \in 1..5 |-> [a \in {1, 2} |-> IF a = 1 THEN first[d] ELSE second[d]]]
Weights(first, second) == [a \in {1, 2} |-> IF a = 1 THEN first ELSE second]

\* A session whose close differs from its open, and one without a trade.
MCMarkets ==
    {Quotes([d \in 1..5 |-> Same(2)],
            <<Same(3), Same(3), Same(2), [open |-> 2, close |-> 3], Same(3)>>),
     Quotes(<<Same(2), [open |-> 3, close |-> 2], Same(1), Same(2), Same(2)>>,
            [d \in 1..5 |-> IF d = 3 THEN [open |-> 0, close |-> 3] ELSE Same(3)])}

MCTargetPlans ==
    {[d \in {1, 2} |-> IF d = 1 THEN Weights(1, 1) ELSE Weights(0, 2)],
     [d \in {1, 3} |-> IF d = 1 THEN Weights(2, 0) ELSE Weights(1, 1)]}

MCBlocks == {{<<3, 1>>, <<4, 2>>}}

\* The second one was recorded before the account existed.
MCDividends == {[asset |-> 1, record |-> 2, ex |-> 4, pay |-> 5, cash |-> 1, stock |-> 1],
                [asset |-> 2, record |-> 0, ex |-> 2, pay |-> 3, cash |-> 1, stock |-> 0]}

MCCorrections == {[day |-> 2, quotes |-> [a \in {1, 2} |-> Same(1)]]}

MCSettings == {[lag |-> 1, retry |-> TRUE, frozen |-> FALSE],
               [lag |-> 2, retry |-> TRUE, frozen |-> TRUE]}

\* The later a window ends, the later its labels mature.
MCWindowEnds == <<1, 2>>

\* Writers, contents and input identities are interchangeable.
MCSymmetry == Permutations(Writers) \cup Permutations(Tables) \cup Permutations(InputIds)

-----------------------------------------------------------------------------
(* One part at a time.                                                      *)

RestAlpha == /\ available = <<>> /\ value = <<>> /\ label = <<>>
             /\ current = NoResult /\ preceding = <<>>

RestFactors == /\ exposure = <<>> /\ price = <<>> /\ admitted = 0 /\ completed = 0
               /\ carry = {} /\ validStart = 0 /\ continuity = FALSE /\ fits = {}
               /\ batches = <<>> /\ affected = 0 /\ corrections = 0

RestProfile == /\ gross = <<>> /\ factor = <<>> /\ pathStart = 0 /\ industryStart = 0
               /\ gapless = FALSE /\ last = 0 /\ changed = {} /\ checkpoints = <<>>
               /\ revisions = 0 /\ profile = [rows |-> {}, state |-> NoState]

RestShared == /\ shared = {} /\ now = 0 /\ registered = {} /\ present = {}
              /\ writer = <<>> /\ preview = {} /\ doomed = {}

RestComposition == table = <<>> /\ reference = <<>> /\ leaves = {} /\ updates = 0

RestBridge == /\ market = <<>> /\ targets = <<>> /\ blocked = {} /\ settings = <<>>
              /\ corrected = FALSE /\ whole = <<>> /\ announced = {} /\ saved = {}
              /\ positions = <<>> /\ call = NoCall /\ calls = 0

RestHorizon == /\ stage = "rest" /\ days = 0 /\ tables = <<>> /\ units = <<>>
               /\ files = <<>> /\ results = {} /\ returned = <<>> /\ frames = <<>>

ResearchInit ==
    \/ /\ part = "alpha" /\ AlphaInit
       /\ RestFactors /\ RestProfile /\ RestShared /\ RestComposition
       /\ RestBridge /\ RestHorizon
    \/ /\ part = "factors" /\ FactorInit
       /\ RestAlpha /\ RestProfile /\ RestShared /\ RestComposition
       /\ RestBridge /\ RestHorizon
    \/ /\ part = "profile" /\ ProfileInit
       /\ RestAlpha /\ RestFactors /\ RestShared /\ RestComposition
       /\ RestBridge /\ RestHorizon
    \/ /\ part = "shared" /\ SharedInit
       /\ RestAlpha /\ RestFactors /\ RestProfile /\ RestComposition
       /\ RestBridge /\ RestHorizon
    \/ /\ part = "composition" /\ CompositionInit
       /\ RestAlpha /\ RestFactors /\ RestProfile /\ RestShared
       /\ RestBridge /\ RestHorizon
    \/ /\ part = "bridge" /\ BridgeInit
       /\ RestAlpha /\ RestFactors /\ RestProfile /\ RestShared /\ RestComposition
       /\ RestHorizon
    \/ /\ part = "horizon" /\ HorizonInit
       /\ RestAlpha /\ RestFactors /\ RestProfile /\ RestShared /\ RestComposition
       /\ RestBridge

ResearchNext ==
    \/ /\ part = "alpha" /\ AlphaNext
       /\ UNCHANGED <<part, factorVars, profileVars, sharedVars, compositionVars,
                      bridgeVars, horizonVars>>
    \/ /\ part = "factors" /\ FactorNext
       /\ UNCHANGED <<part, alphaVars, profileVars, sharedVars, compositionVars,
                      bridgeVars, horizonVars>>
    \/ /\ part = "profile" /\ ProfileNext
       /\ UNCHANGED <<part, alphaVars, factorVars, sharedVars, compositionVars,
                      bridgeVars, horizonVars>>
    \/ /\ part = "shared" /\ SharedNext
       /\ UNCHANGED <<part, alphaVars, factorVars, profileVars, compositionVars,
                      bridgeVars, horizonVars>>
    \/ /\ part = "composition" /\ CompositionNext
       /\ UNCHANGED <<part, alphaVars, factorVars, profileVars, sharedVars,
                      bridgeVars, horizonVars>>
    \/ /\ part = "bridge" /\ BridgeNext
       /\ UNCHANGED <<part, alphaVars, factorVars, profileVars, sharedVars,
                      compositionVars, horizonVars>>
    \/ /\ part = "horizon" /\ HorizonNext
       /\ UNCHANGED <<part, alphaVars, factorVars, profileVars, sharedVars,
                      compositionVars, bridgeVars>>

researchVars == <<part, alphaVars, factorVars, profileVars, sharedVars,
                  compositionVars, bridgeVars, horizonVars>>

ResearchSpec == ResearchInit /\ [][ResearchNext]_researchVars
=============================================================================
