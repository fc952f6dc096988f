----------------------------- MODULE RiskProfile -----------------------------
(***************************************************************************)
(* The rolling risk profile of one gross path and its incremental updates  *)
(* (risk_profile_update.py and rolling_risk_profile of risk.py).           *)
(*                                                                         *)
(* A day's regression uses the inputs of the days before it, and its       *)
(* specific volatility the regressions of the days before it, so a change  *)
(* reaches far ahead and a continuation needs a halo of saved rows.  Gross *)
(* returns and factor returns are reduced to revisions, every output row   *)
(* to the inputs it was computed from.                                     *)
(***************************************************************************)
EXTENDS Integers, Sequences, FiniteSets, FiniteSetsExt

CONSTANTS
    ProfileSessions,      \* the number of sessions of the calendar
    RegressionWindow,
    RegressionMinPeriods,
    VolatilityWindow,
    PathStarts,           \* sessions the gross path may begin at
    IndustryStarts,       \* sessions the industry factor may first appear at
    MaxProfileRevisions,  \* bound on the source revisions
    MaxCheckpoints        \* bound on the older states the host offers

ASSUME ProfileAssumption ==
    /\ ProfileSessions \in Nat \ {0}
    /\ RegressionMinPeriods \in 2..RegressionWindow /\ RegressionWindow \in Nat
    /\ VolatilityWindow \in Nat \ {0, 1}
    /\ PathStarts \subseteq Nat \ {0} /\ IndustryStarts \subseteq Nat \ {0}
    /\ MaxProfileRevisions \in Nat /\ MaxCheckpoints \in Nat

VARIABLES
    gross,        \* day |-> revision of the gross return, Unknown if null
    factor,       \* day |-> revision of the factor returns, Unknown if null
    pathStart,    \* first day of the gross path
    industryStart,\* first day of the industry factor
    gapless,      \* require_continuity of the policy
    last,         \* the last admitted session, also the information cutoff
    changed,      \* days whose inputs were revised since the saved profile
    profile,      \* the published rows and the state of the latest result
    checkpoints,  \* older states, latest first
    revisions     \* the number of revisions so far

profileVars == <<gross, factor, pathStart, industryStart, gapless, last,
                 changed, profile, checkpoints, revisions>>

Unknown == -1
ProfileDays == 1..ProfileSessions
NoState == [through |-> 0, origin |-> 0, validStart |-> 0, pending |-> 0,
            factors |-> <<0, 0>>, proofThrough |-> 0, prefix |-> {}]

AtLeast(a, b) == IF a > b THEN a ELSE b
AtMost(a, b) == IF a < b THEN a ELSE b
\* The earlier of two days, 0 standing for none.
EarlierDay(a, b) == IF a = 0 THEN b ELSE IF b = 0 THEN a ELSE AtMost(a, b)

-----------------------------------------------------------------------------
(* The inputs at an information cutoff: a day's returns are known one       *)
(* session later.                                                          *)

HasReturn(d, cutoff) == d < cutoff /\ d >= pathStart /\ gross[d] # Unknown
HasFactors(d, cutoff) == d < cutoff /\ factor[d] # Unknown
Inputs(d) == <<d, gross[d], factor[d]>>

\* input_proof over the first days, as of a cutoff.
InputProof(through, cutoff) ==
    {Inputs(d) : d \in {x \in 1..through : x < cutoff}}

\* The factors' first appearances in the rows read, over the saved catalogue.
Catalogue(saved, read, cutoff) ==
    LET known == {d \in ProfileDays : d >= read /\ d < cutoff}
        industry == {d \in known : d >= industryStart}
    IN  << EarlierDay(saved[1], IF known = {} THEN 0 ELSE Min(known)),
           EarlierDay(saved[2], IF industry = {} THEN 0 ELSE Min(industry)) >>

Visible(factors, d) == {k \in {1, 2} : factors[k] \in 1..d}

-----------------------------------------------------------------------------
(* Planning.                                                               *)

\* The output interval of an update with its input and residual halos.
OutputInterval(output, end) ==
    [output |-> output, end |-> end,
     read |-> AtLeast(1, output - AtLeast(RegressionWindow, VolatilityWindow - 1)),
     specific |-> AtLeast(1, output - VolatilityWindow + 1)]

\* Mutant: the prefix is compared as it is known now.
ProvesNow(state, cutoff) ==
    /\ state.through \in 1..cutoff
    /\ state.prefix = InputProof(state.proofThrough, cutoff)

\* admitted: the source prefix the state was computed from is unchanged.
AdmittedState(state, cutoff) ==
    /\ state.through \in 1..cutoff
    /\ state.prefix = InputProof(state.proofThrough, state.through)

\* Mutant: a pending output is not computed again.
SkipsPending(state) == OutputInterval(AtMost(state.through + 1, last), last)

\* The next session, or the first output that still waits for its returns.
AppendInterval(state) ==
    LET next == AtMost(state.through + 1, last)
    IN  OutputInterval(EarlierDay(next, state.pending), last)

\* Mutant: the repair ends where the regressions are right again.
ShortRepair(days) ==
    OutputInterval(EarlierDay(Min(days), profile.state.pending),
             AtMost(Max(days) + RegressionWindow, profile.state.through))

\* A repair ends where the last changed input no longer reaches.
RepairInterval(days) ==
    OutputInterval(EarlierDay(Min(days), profile.state.pending),
             AtMost(Max(days) + RegressionWindow + VolatilityWindow - 1,
                    profile.state.through))

\* The latest proven state before the first affected day.
RepairBase(days) ==
    LET safe == {i \in DOMAIN checkpoints :
                   /\ AdmittedState(checkpoints[i], profile.state.through)
                   /\ checkpoints[i].through < Min(days)}
    IN  {i \in safe : \A j \in safe : i <= j}

-----------------------------------------------------------------------------
(* rolling_risk_profile.                                                   *)

\* Why a day has no regression; "" when it has one.
Reason(d, window, factors, cutoff) ==
    LET history == AtLeast(window.read, d - RegressionWindow)..(d - 1)
        sample == {h \in history : HasReturn(h, cutoff) /\ HasFactors(h, cutoff)}
    IN  CASE d - 1 < RegressionMinPeriods -> "regression_warmup"
          [] d - 1 >= RegressionMinPeriods
             /\ (Visible(factors, d) = {} \/ ~HasFactors(d, cutoff))
               -> "factor_return_unavailable"
          [] d - 1 >= RegressionMinPeriods
             /\ Visible(factors, d) # {} /\ HasFactors(d, cutoff)
             /\ (~HasReturn(d, cutoff) \/ d >= AtMost(window.end + 1, cutoff))
               -> "return_unavailable"
          [] OTHER -> IF Cardinality(sample) < RegressionMinPeriods
                      THEN "incomplete_training_window" ELSE ""

\* The specific return of a day: its inputs, its history, its population.
Specific(d, window, factors, cutoff) ==
    IF Reason(d, window, factors, cutoff) # "" THEN {}
    ELSE {[day |-> d, own |-> Inputs(d), population |-> Visible(factors, d),
           history |-> {Inputs(h) : h \in
               {x \in AtLeast(window.read, d - RegressionWindow)..(d - 1) :
                  HasReturn(x, cutoff) /\ HasFactors(x, cutoff)}}]}

\* A full volatility window of finite values, or nothing.
Volatility(values, d, window) ==
    LET days == (d - VolatilityWindow + 1)..d
        sample == {v \in values : v[1] \in days}
    IN  IF d - VolatilityWindow + 1 >= window.read /\ {v[1] : v \in sample} = days
        THEN sample ELSE {}

\* The saved specific returns before the output, those of the days the earlier
\* results have rows of.
Halo(window, state) ==
    {d \in window.specific..(window.output - 1) : state.origin \in 1..d}

HaloComplete(window, state, rows) ==
    Halo(window, state) \subseteq {r.day : r \in rows}

\* The rows of the output interval, from the first gross return read on.
OutputRows(window, state, rows, factors, cutoff) ==
    LET first == AtLeast(window.read, pathStart)
        days == AtLeast(window.output, first)..AtMost(window.end, cutoff)
        saved == {r \in rows : r.day \in Halo(window, state)}
        specifics == UNION ({{<<r.day, s>> : s \in r.specific} : r \in saved}
            \cup {{<<d, s>> : s \in Specific(d, window, factors, cutoff)} : d \in days})
        returns == {<<d, gross[d]>> : d \in {x \in window.read..window.end :
                                              HasReturn(x, cutoff)}}
    IN  {[day |-> d, reason |-> Reason(d, window, factors, cutoff),
          specific |-> Specific(d, window, factors, cutoff),
          grossVolatility |-> Volatility(returns, d, window),
          specificVolatility |-> Volatility(specifics, d, window)] : d \in days}

\* The first supported day, and what RISK_CONTINUITY_REQUIRED refuses.
ValidStart(saved, rows) ==
    LET good == {r.day : r \in {x \in rows : x.reason = ""}}
    IN  IF saved > 0 THEN saved ELSE IF good = {} THEN 0 ELSE Min(good)

\* A bounded repair may not change which factors have been seen.
SamePopulation(window, retained, new, cutoff) ==
    (window.end < cutoff /\ retained # NoState)
        => new.state.factors = retained.factors

Uninterrupted(start, rows, window, cutoff) ==
    (gapless /\ start > 0) =>
        \A r \in rows : (r.day >= start /\ r.day < AtMost(window.end + 1, cutoff))
                        => r.reason = ""

\* The compact state a result is continued from.
StateAfter(window, base, retained, rows, cutoff) ==
    LET factors == Catalogue(retained.factors, window.read, cutoff)
        complete == {d \in window.read..(AtMost(window.end + 1, cutoff) - 1) :
                       HasReturn(d, cutoff) /\ HasFactors(d, cutoff)}
        partial == window.end < cutoff /\ retained # NoState
        first == AtLeast(window.read, pathStart)
        pending == IF partial THEN retained.pending
                   ELSE IF complete = {} THEN window.output ELSE Max(complete) + 1
        proof == IF partial THEN retained.proofThrough ELSE AtLeast(1, pending - 1)
    IN  [through |-> cutoff, pending |-> pending, factors |-> factors,
         origin |-> IF partial THEN retained.origin
                    ELSE EarlierDay(base.origin,
                                 IF first <= AtMost(window.end, cutoff) THEN first ELSE 0),
         validStart |-> ValidStart(retained.validStart, rows),
         proofThrough |-> proof, prefix |-> InputProof(proof, cutoff)]

Result(window, base, retained, rows, cutoff) ==
    LET new == OutputRows(window, base, rows,
                          Catalogue(retained.factors, window.read, cutoff), cutoff)
    IN  [rows |-> {r \in rows : r.day \notin window.output..window.end} \cup new,
         state |-> StateAfter(window, base, retained, new, cutoff)]

FullResult(cutoff) == Result(OutputInterval(1, cutoff), NoState, NoState, {}, cutoff)

-----------------------------------------------------------------------------
ProfileInit ==
    /\ gross \in {g \in [ProfileDays -> {Unknown, 0}] :
                    Cardinality({d \in ProfileDays : g[d] = Unknown}) <= 1}
    /\ factor \in {f \in [ProfileDays -> {Unknown, 0}] :
                     Cardinality({d \in ProfileDays : f[d] = Unknown}) <= 1}
    /\ pathStart \in PathStarts /\ industryStart \in IndustryStarts
    /\ gapless \in BOOLEAN
    /\ last = 1 /\ changed = {} /\ checkpoints = <<>> /\ revisions = 0
    /\ profile = [rows |-> {}, state |-> NoState]

NextSession ==
    /\ last < ProfileSessions /\ last' = last + 1
    /\ UNCHANGED <<gross, factor, pathStart, industryStart, gapless, changed,
                   profile, checkpoints, revisions>>

\* A revision of a known input, sometimes to or from null.
Revise(d) ==
    /\ d < last /\ revisions < MaxProfileRevisions
    /\ revisions' = revisions + 1 /\ changed' = changed \cup {d}
    /\ \/ \E r \in {Unknown, revisions + 1} \ {gross[d]} :
             d >= pathStart /\ gross' = [gross EXCEPT ![d] = r] /\ UNCHANGED factor
       \/ \E r \in {Unknown, revisions + 1} \ {factor[d]} :
             factor' = [factor EXCEPT ![d] = r] /\ UNCHANGED gross
    /\ UNCHANGED <<pathStart, industryStart, gapless, last, profile, checkpoints>>

\* Publish a result unless a numerical gap forbids it.
Save(window, base, retained, rows) ==
    LET cutoff == IF profile.state = NoState THEN last
                  ELSE IF base = profile.state THEN last ELSE profile.state.through
        new == Result(window, base, retained, rows, cutoff)
        output == {r \in new.rows : r.day \in window.output..window.end}
    IN  /\ HaloComplete(window, base, rows)
        /\ SamePopulation(window, retained, new, cutoff)
        /\ Uninterrupted(new.state.validStart, output, window, cutoff)
        /\ profile' = new
        /\ changed' = {}
        /\ checkpoints' =
             IF profile.state = NoState THEN <<>>
             ELSE LET all == <<profile.state>> \o checkpoints
                  IN  SubSeq(all, 1, AtMost(MaxCheckpoints, Len(all)))
        /\ UNCHANGED <<gross, factor, pathStart, industryStart, gapless, last, revisions>>

InitializeProfile ==
    /\ profile.state = NoState
    /\ Save(OutputInterval(1, last), NoState, NoState, {})

\* The changes may be unreported: the proof of the source prefix decides.
AppendProfile ==
    /\ profile.state # NoState
    /\ AdmittedState(profile.state, last)
    /\ profile.state.through < last
    /\ Save(AppendInterval(profile.state), profile.state, profile.state, profile.rows)

\* Reported changes of a result that reaches the planned session.
RepairProfile ==
    LET days == {d \in changed : d <= profile.state.through}
    IN  /\ profile.state # NoState /\ days # {}
        /\ \E i \in RepairBase(days) :
             LET window == RepairInterval(days)
             IN  /\ window.output > 1
                 /\ \A d \in changed : d >= window.output
                 /\ Save(window, checkpoints[i], profile.state, profile.rows)

ProfileNext ==
    \/ NextSession \/ InitializeProfile \/ AppendProfile \/ RepairProfile
    \/ \E d \in ProfileDays : Revise(d)

ProfileSpec == ProfileInit /\ [][ProfileNext]_profileVars

-----------------------------------------------------------------------------
\* While no input changed, the rows published by continuations and repairs,
\* each over a bounded halo, and the catalogue and origin they are continued
\* with are those of one computation over the whole history.
ProfileMatchesFull ==
    (profile.state # NoState /\ changed = {}) =>
        LET full == FullResult(profile.state.through)
        IN  /\ profile.rows = full.rows
            /\ profile.state.factors = full.state.factors
            /\ profile.state.origin = full.state.origin

\* A saved profile whose inputs did not change can always be continued: its
\* prefix is proved and its halo of specific returns is complete.
ContinuationAdmitted ==
    (profile.state # NoState /\ changed = {}) =>
        /\ AdmittedState(profile.state, last)
        /\ HaloComplete(AppendInterval(profile.state), profile.state, profile.rows)

\* A continuous policy never publishes a day without a regression between the
\* first supported day and the last complete one.
ProfileGapless ==
    (gapless /\ profile.state.validStart > 0) =>
        \A r \in profile.rows :
            r.day \in profile.state.validStart..(profile.state.through - 1)
            => r.reason = ""
=============================================================================
