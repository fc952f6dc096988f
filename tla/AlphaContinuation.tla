-------------------------- MODULE AlphaContinuation --------------------------
(***************************************************************************)
(* Incremental evaluation of a saved Alpha (evaluation.py, with the        *)
(* kernels it calls in horizon.py and portfolio_mechanics.py).             *)
(*                                                                         *)
(* Sessions are numbered from 1.  Session t has an Alpha cross-section and *)
(* a one-session forward-return label whose economic interval ends at      *)
(* t + 1 and which is known from available[t].  Both may be revised; their *)
(* contents are reduced to a revision number, and every derived row is     *)
(* reduced to the revisions it was computed from.  Two evaluations agree   *)
(* exactly when their rows do.                                             *)
(*                                                                         *)
(* The application plans an update (alpha_update_plan), reads only values  *)
(* and labels from the planned session on (alpha_input_start), continues   *)
(* the selected saved result (evaluate_alpha with previous) and keeps the  *)
(* older results as the candidates of a later repair.                      *)
(***************************************************************************)
EXTENDS Integers, Sequences, FiniteSets, FiniteSetsExt

CONSTANTS
    Sessions,            \* the number of sessions of the calendar
    ReturnWindows,       \* [start, end] of each window, 1 <= start <= end
    PersistenceLags,     \* lags of the rank autocorrelation, all positive
    LeadLags,            \* lags of the Book lead/lag paths, negative ones too
    AlphaLags,           \* lags of the Alpha return paths, not negative
    RollingObservations, \* valid values a rolling IC is the mean of
    Degenerate,          \* sessions whose cross-section is constant
    Selections,          \* the component selections a caller asks for
    Leads,               \* how far an information cutoff is past the last session
    Delays,              \* how late the one delayed label is
    MaxRevisions,        \* bound on revisions of a value or a label
    MaxPreceding         \* bound on the older results the caller still offers

Components == {"horizons", "rolling_ic", "persistence",
               "book_tail", "lead_lag", "alpha_return"}
HorizonFamily == {"horizons", "rolling_ic"}
PersistenceFamily == {"horizons", "persistence"}

ASSUME AlphaAssumption ==
    /\ Sessions \in Nat \ {0}
    /\ \A w \in ReturnWindows : w.start \in 1..w.end /\ w.end \in Nat
    /\ PersistenceLags \subseteq Nat \ {0} /\ PersistenceLags # {}
    /\ LeadLags \subseteq Int /\ LeadLags # {}
    /\ AlphaLags \subseteq Nat /\ AlphaLags # {}
    /\ IsFiniteSet(ReturnWindows) /\ IsFiniteSet(PersistenceLags)
    /\ IsFiniteSet(LeadLags) /\ IsFiniteSet(AlphaLags)      \* all of them tuples
    /\ RollingObservations \in Nat \ {0}
    /\ Selections \subseteq (SUBSET Components) \ {{}}
    /\ Leads \subseteq Nat /\ Delays \subseteq Nat
    /\ MaxRevisions \in Nat /\ MaxPreceding \in Nat

VARIABLES
    available,   \* session |-> the date its label becomes available
    value,       \* session |-> revision of its Alpha cross-section
    label,       \* session |-> revision of its forward return
    current,     \* the latest saved EvaluationResult
    preceding    \* older saved results, latest first

alphaVars == <<available, value, label, current, preceding>>

AlphaDays == 1..Sessions

\* No saved result: alpha_update_plan(previous=None).
NoResult == [components |-> {}, through |-> 0, cutoff |-> 0, prefix |-> {},
             horizon |-> {}, rolling |-> {}, persistence |-> {},
             paths |-> {}, lags |-> {}]

-----------------------------------------------------------------------------
(* Labels, return windows and their statistics.                            *)

\* is_mature: the interval has ended and the label is known at the cutoff.
Mature(t, cutoff) == t + 1 <= cutoff /\ available[t] <= cutoff

\* The observations the owner's proof binds: every Alpha value and every
\* label that was available at the cutoff.
InputPrefix(through, cutoff) ==
    {<<"value", t, value[t]>> : t \in 1..through} \cup
    {<<"label", t, label[t]>> : t \in {d \in 1..through : available[d] <= cutoff}}

\* One row of a window: mature once every label of its span is supplied and
\* mature, and then a function of the factor and these labels alone.
WindowLabels(w, d, supplied, cutoff) ==
    LET span == (d + w.start - 1)..(d + w.end - 1)
        usable == span \subseteq supplied /\ \A t \in span : Mature(t, cutoff)
    IN  [window |-> w, day |-> d, mature |-> usable, factor |-> value[d],
         labels |-> IF usable THEN {<<t, label[t]>> : t \in span} ELSE {}]

\* Completed rows are kept; a session that is pending or new is computed
\* again, from labels that start at the first such session.
WindowFrames(w, previous, factor, supplied, cutoff) ==
    LET old == {r \in previous.horizon : r.window = w}
        fresh == factor \ {r.day : r \in {x \in old : x.mature}}
        used == IF fresh = {} THEN supplied
                ELSE {t \in supplied : t >= Min(fresh)}
    IN  {r \in old : r.day \notin fresh}
            \cup {WindowLabels(w, d, used, cutoff) : d \in fresh}

\* window_information_coefficients: one for each mature date of a window.
InformationCoefficients(horizon, w) == {r \in horizon : r.mature /\ r.window = w}

\* The last n members of a set of rows, by day.
LatestRows(rows, n) == {r \in rows : Cardinality({x \in rows : x.day > r.day}) < n}

\* Rolling means over the last valid observations of one window.
RollingRow(r, ics) ==
    LET valid == {x \in ics : x.day <= r.day /\ x.day \notin Degenerate}
        enough == Cardinality(valid) >= RollingObservations /\ r.day \notin Degenerate
    IN  [window |-> r.window, day |-> r.day,
         mean |-> IF enough THEN LatestRows(valid, RollingObservations) ELSE {}]

\* rolling_window_information_coefficients: rows up to the last saved one are
\* kept, later ones are computed with a halo of valid observations.
RollingFrames(w, saved, ics) ==
    LET old == {r \in saved : r.window = w}
        boundary == IF old = {} THEN 0 ELSE Max({r.day : r \in old})
        fresh == {r \in ics : r.day > boundary}
        warm == LatestRows({r \in ics : r.day <= boundary /\ r.day \notin Degenerate},
                       RollingObservations)
    IN  old \cup {RollingRow(r, warm \cup fresh) : r \in fresh}

\* Rank autocorrelations of the pairs whose target is new.
Persistence(through, factor) ==
    LET pairs == {p \in factor \X PersistenceLags :
                    /\ p[1] + p[2] \in factor
                    /\ p[1] + p[2] > through
                    /\ p[1] >= through - Max(PersistenceLags)}
    IN  {[day |-> p[1], target |-> p[1] + p[2], lag |-> p[2],
          ranks |-> <<value[p[1]], value[p[1] + p[2]]>>] : p \in pairs}

-----------------------------------------------------------------------------
(* Weight paths: drifting holdings rebalanced on the shifted snapshots.     *)

\* The sessions of the Alpha that give a Book (the others have no weights).
Snapshots(factor) == factor \ Degenerate

\* _shift_weights: the sessions a lagged snapshot is traded on.
ShiftedDates(factor, lag, through) ==
    {d + lag : d \in Snapshots(factor)} \cap (1..through)

\* The intervals a path books: after its checkpoint, up to the first one whose
\* label is not mature, from the first rebalance on.
BookedPanels(dates, supplied, checkpoint, cutoff) ==
    LET panels == {t \in supplied : t > checkpoint}
        booked == {t \in panels : \A u \in panels : u <= t => Mature(u, cutoff)}
    IN  IF checkpoint > 0 THEN booked
        ELSE {t \in booked : \E s \in dates : s <= t /\ s \in booked}

\* simulate_weight_returns: a row remembers the row whose holdings it drifts,
\* the snapshot it trades and the label it earns.
SimulateWeightReturns(dates, lag, supplied, checkpoint, cutoff) ==
    LET active == BookedPanels(dates, supplied, checkpoint, cutoff)
    IN  {[day |-> t,
          after |-> LET earlier == {u \in active : u < t}
                    IN  IF earlier = {} THEN checkpoint ELSE Max(earlier),
          snapshot |-> IF t \in dates THEN {value[t - lag]} ELSE {},   \* {}: hold
          label |-> label[t]] : t \in active}

\* The paths a selection needs: <<kind, lag>>.
RequiredPaths(selected) ==
    (IF "book_tail" \in selected THEN {<<"book", 0>>} ELSE {}) \cup
    (IF "lead_lag" \in selected THEN {"leadlag"} \X LeadLags ELSE {}) \cup
    (IF "alpha_return" \in selected THEN {"alpha"} \X AlphaLags ELSE {})

\* The saved rows of a path, and the session of its checkpoint (0: None).
SavedPath(result, name) ==
    UNION {p.rows : p \in {x \in result.paths : x.name = name}}
Checkpoint(rows) == IF rows = {} THEN 0 ELSE Max({r.day : r \in rows})

\* run_path: continue one path from its own checkpoint.
RunPath(name, previous, factor, supplied, through, cutoff) ==
    LET dates == ShiftedDates(factor, name[2], through)
        old == SavedPath(previous, name)
        last == IF name[1] = "book" \/ dates = {} THEN through ELSE Max(dates)
        window == {t \in supplied : t <= last}
    IN  [name |-> name,
         rows |-> old \cup SimulateWeightReturns(dates, name[2], window,
                                                 Checkpoint(old), cutoff)]

\* _path_frames: the rows of each lag on its own rebalance dates, completed
\* with the saved ones, cut down to the dates that all lags share.
PathFrames(kind, lags, previous, paths, factor, through) ==
    LET rowsOf(lag) == UNION {p.rows : p \in {x \in paths : x.name = <<kind, lag>>}}
        new(lag) == {r \in rowsOf(lag) :
                        r.day \in ShiftedDates(factor, lag, through)}
        prior(lag) == {f.row : f \in {x \in previous.lags :
                                        x.kind = kind /\ x.lag = lag}}
        frame(lag) == new(lag) \cup
                      {r \in prior(lag) : r.day \notin {x.day : x \in new(lag)}}
        common == {t \in AlphaDays : \A lag \in lags : \E r \in frame(lag) : r.day = t}
    IN  UNION {{[kind |-> kind, lag |-> lag, row |-> r] :
                   r \in {x \in frame(lag) : x.day \in common}} : lag \in lags}

-----------------------------------------------------------------------------
(* Planning: what an update reads, and which saved result it continues.     *)

\* The sessions back that a row of a selected family depends on.
History(selected) ==
    Max({0} \cup
        (IF selected \cap HorizonFamily # {} THEN {w.end : w \in ReturnWindows} ELSE {}) \cup
        (IF selected \cap PersistenceFamily # {} THEN PersistenceLags ELSE {}) \cup
        (IF "lead_lag" \in selected THEN {Max({lag, -lag}) : lag \in LeadLags} ELSE {}) \cup
        (IF "alpha_return" \in selected THEN AlphaLags ELSE {}))

\* How far back the snapshots of a path reach from its checkpoint.
PathLag(name) ==
    CASE name[1] = "leadlag" -> Max({0} \cup LeadLags)
      [] name[1] = "alpha"   -> Max({0} \cup AlphaLags)
      [] OTHER               -> 0

\* A family that starts now needs the whole history.
StartsFamily(prior, selected) ==
    \/ "book_tail" \in selected \ prior
    \/ (selected \ prior) \cap {"lead_lag", "alpha_return"} # {}
    \/ selected \cap HorizonFamily # {} /\ prior \cap HorizonFamily = {}
    \/ selected \cap PersistenceFamily # {} /\ prior \cap PersistenceFamily = {}

\* Mutant: dates whose labels are still immature are not looked at again.
ForgetsPending(result) == {}

\* Dates with a label that was not mature when they were computed.
PendingHorizons(result) == {r.day : r \in {x \in result.horizon : ~x.mature}}

\* alpha_input_start: the first session an update of this result reads.
AlphaInputStart(result, selected) ==
    IF result = NoResult \/ StartsFamily(result.components, selected)
        \/ \E p \in result.paths : p.rows = {}
    THEN 1
    ELSE LET back(position, n) == Max({1, position - n})
         IN  Min({back(result.through, History(selected))}
                 \cup {back(Checkpoint(p.rows), PathLag(p.name)) : p \in result.paths}
                 \cup PendingHorizons(result))

PrefixEqual(result) ==
    InputPrefix(result.through, result.cutoff) = result.prefix

\* The sessions whose consumed inputs differ from those a result was made of.
Affected(result) ==
    {x[2] : x \in (InputPrefix(result.through, result.cutoff) \ result.prefix)
                  \cup (result.prefix \ InputPrefix(result.through, result.cutoff))}

\* A saved result a repair may restart from: everything it holds ends before
\* the first session a change can influence.
SafeCandidate(result, first, through, cutoff) ==
    /\ result.components = current.components
    /\ result.through < first /\ result.through \in 1..through
    /\ result.cutoff <= cutoff
    /\ PrefixEqual(result)
    /\ \A p \in result.paths : Checkpoint(p.rows) < first

Blocked == [status |-> "blocked", previous |-> NoResult]

\* alpha_update_plan.
UpdatePlan(through, cutoff, selected) ==
    LET changes == {d \in Affected(current) : d <= through}
        saved == <<current>> \o preceding
        first == Max({1, Min(changes) - History(selected)})
        safe == {i \in DOMAIN saved : SafeCandidate(saved[i], first, through, cutoff)}
        latest == CHOOSE i \in safe : \A j \in safe :
                      \/ saved[i].through > saved[j].through
                      \/ saved[i].through = saved[j].through /\ i <= j
    IN  CASE current = NoResult -> [status |-> "initialize", previous |-> NoResult]
          [] current # NoResult /\ (current.through > through \/ cutoff < current.cutoff)
                -> Blocked
          [] current # NoResult /\ changes = {} /\ current.through <= through
                /\ current.cutoff <= cutoff ->
                IF ~PrefixEqual(current) THEN Blocked
                ELSE [status |-> IF /\ through = current.through
                                    /\ cutoff = current.cutoff
                                    /\ selected = current.components
                                 THEN "up_to_date" ELSE "append",
                      previous |-> current]
          [] OTHER -> IF safe = {} THEN Blocked
                      ELSE [status |-> "repair", previous |-> saved[latest]]

\* The preconditions of evaluate_alpha(previous=...).
AdmitsPrevious(previous, through, cutoff, selected) ==
    \/ previous = NoResult
    \/ /\ previous.components \subseteq selected
       /\ cutoff >= previous.cutoff /\ through >= previous.through
       /\ PrefixEqual(previous)
       /\ {p.name : p \in previous.paths} = RequiredPaths(previous.components)

\* The families of evaluate_alpha over the inputs of the sessions in factor.
HorizonTables(previous, factor, cutoff, selected) ==
    IF selected \cap HorizonFamily = {} THEN {}
    ELSE UNION {WindowFrames(w, previous, factor, factor, cutoff) : w \in ReturnWindows}

RollingTable(previous, horizon, selected) ==
    IF "rolling_ic" \notin selected THEN {}
    ELSE UNION {RollingFrames(w, previous.rolling, InformationCoefficients(horizon, w)) :
                   w \in ReturnWindows}

\* A family that was not evaluated before has no saved target.
PersistenceTable(previous, factor, selected) ==
    LET target == IF previous.components \cap PersistenceFamily = {} THEN 0
                  ELSE previous.through
    IN  IF selected \cap PersistenceFamily = {} THEN {}
        ELSE previous.persistence \cup Persistence(target, factor)

PathTables(previous, factor, through, cutoff, selected) ==
    {RunPath(name, previous, factor, factor, through, cutoff) :
        name \in RequiredPaths(selected)}

LagTables(previous, paths, factor, through, selected) ==
    (IF "lead_lag" \in selected
     THEN PathFrames("leadlag", LeadLags, previous, paths, factor, through) ELSE {})
    \cup
    (IF "alpha_return" \in selected
     THEN PathFrames("alpha", AlphaLags, previous, paths, factor, through) ELSE {})

\* evaluate_alpha over the inputs from session read on.
EvaluateAlpha(previous, read, through, cutoff, selected) ==
    LET factor == read..through
        horizon == HorizonTables(previous, factor, cutoff, selected)
        paths == PathTables(previous, factor, through, cutoff, selected)
    IN  [components |-> selected, through |-> through, cutoff |-> cutoff,
         prefix |-> InputPrefix(through, cutoff),
         horizon |-> horizon,
         rolling |-> RollingTable(previous, horizon, selected),
         persistence |-> PersistenceTable(previous, factor, selected),
         paths |-> paths,
         lags |-> LagTables(previous, paths, factor, through, selected)]

-----------------------------------------------------------------------------
(* The application: revise an input, update the saved evaluation.           *)

\* One label may become available later than the others.
AlphaInit ==
    /\ \E late \in AlphaDays, delay \in Delays :
           available = [t \in AlphaDays |-> IF t = late THEN t + 1 + delay ELSE t + 1]
    /\ value = [t \in AlphaDays |-> 0]
    /\ label = [t \in AlphaDays |-> 0]
    /\ current = NoResult
    /\ preceding = <<>>

Revised == Cardinality({t \in AlphaDays : value[t] > 0}) +
           Cardinality({t \in AlphaDays : label[t] > 0})

ReviseValue ==
    /\ Revised < MaxRevisions
    /\ \E t \in AlphaDays : value' = [value EXCEPT ![t] = 1]
    /\ UNCHANGED <<available, label, current, preceding>>

ReviseLabel ==
    /\ Revised < MaxRevisions
    /\ \E t \in AlphaDays : label' = [label EXCEPT ![t] = 1]
    /\ UNCHANGED <<available, value, current, preceding>>

\* Plan, read from the planned session on, evaluate, save; what was current
\* stays on offer for repairs.
Update(status) ==
    \E through \in AlphaDays, lead \in Leads, selected \in Selections :
        LET cutoff == through + lead
            plan == UpdatePlan(through, cutoff, selected)
            read == AlphaInputStart(plan.previous, selected)
        IN  /\ plan.status = status
            /\ AdmitsPrevious(plan.previous, through, cutoff, selected)
            /\ current' = EvaluateAlpha(plan.previous, read, through, cutoff, selected)
            /\ preceding' = IF current = NoResult THEN <<>>
                            ELSE SubSeq(<<current>> \o preceding, 1,
                                        Min({MaxPreceding, Len(preceding) + 1}))
            /\ UNCHANGED <<available, value, label>>

Initialize == Update("initialize")
ContinueAlpha == Update("append")
RepairAlpha == Update("repair")

AlphaNext == ReviseValue \/ ReviseLabel \/ Initialize \/ ContinueAlpha \/ RepairAlpha

AlphaSpec == AlphaInit /\ [][AlphaNext]_alphaVars

-----------------------------------------------------------------------------
(* Properties.                                                              *)

\* A result none of whose inputs was revised since equals, row by row, the
\* evaluation of the complete inputs without a saved result: bounded reads,
\* kept rows, checkpoints and halos of every update and repair on the way to
\* it lost nothing (evaluate_alpha, alpha_input_start, alpha_update_plan).
ContinuationMatchesFull ==
    current # NoResult /\ PrefixEqual(current) =>
        LET full == EvaluateAlpha(NoResult, 1, current.through, current.cutoff,
                                  current.components)
        IN  /\ current.horizon = full.horizon
            /\ current.persistence = full.persistence
            /\ current.paths = full.paths
            /\ current.lags = full.lags

\* The same of the rolling information coefficients, which are kept up to the
\* last saved row even when an earlier session matures only now.
RollingMatchesFull ==
    current # NoResult /\ PrefixEqual(current) =>
        current.rolling = EvaluateAlpha(NoResult, 1, current.through,
                                        current.cutoff, current.components).rolling
=============================================================================
