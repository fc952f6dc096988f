----------------------------- MODULE RiskFactors -----------------------------
(***************************************************************************)
(* Incremental estimation of risk factor returns (risk_update.py and the   *)
(* valuation and fit of risk.py).                                          *)
(*                                                                         *)
(* Session d decides on exposures, the interval d + 1 .. d + 2 earns the   *)
(* return, which is available at d + 2.  The market is reduced to one      *)
(* asset: its exposure of a decision and its price of a session may be     *)
(* missing, and both may be revised.  A fit is reduced to the exposure and *)
(* the two price observations it was computed from.                        *)
(*                                                                         *)
(* The host plans from the completed boundary and the first date affected  *)
(* by a revision, fits one batch after the other, publishes each, and may  *)
(* stop between two of them.                                               *)
(***************************************************************************)
EXTENDS Integers, Sequences, FiniteSets, FiniteSetsExt

CONSTANTS
    FactorSessions,    \* the number of sessions of the calendar
    FactorStart,       \* first availability date the host asks for
    BatchSessions,     \* fits of one batch
    MaxCorrections     \* bound on the revisions of exposures and prices

ASSUME FactorAssumption ==
    /\ FactorSessions \in Nat \ {0}
    /\ FactorStart \in 1..FactorSessions
    /\ BatchSessions \in Nat \ {0}
    /\ MaxCorrections \in Nat

VARIABLES
    exposure,     \* decision |-> revision of the exposures, Missing if none
    price,        \* session |-> revision of the price, Missing if none
    admitted,     \* the last admitted session
    completed,    \* availability date the published fits are complete through
    carry,        \* saved price observations before the next delta
    validStart,   \* first session the published fits are continuous from
    continuity,   \* require_continuity of this host
    fits,         \* the published rows
    batches,      \* batches of the running plan
    affected,     \* first availability date a revision affects; 0: none
    corrections   \* the number of revisions so far

factorVars == <<exposure, price, admitted, completed, carry, validStart,
                continuity, fits, batches, affected, corrections>>

Missing == -1
FactorDays == 1..FactorSessions
Decisions == 1..(FactorSessions - 2)
\* No fit is available before the third session.
FirstAvailable == Max({3, FactorStart})

-----------------------------------------------------------------------------
(* The plan.                                                               *)

\* plan_risk_factor_update: everything after the completed boundary, from the
\* first affected availability date on when a completed prefix changed.
UpdateStart ==
    LET next == IF completed = 0 THEN FactorStart ELSE Max({FactorStart, completed + 1})
    IN  IF affected \in 1..admitted THEN Min({next, Max({FactorStart, affected})})
                                    ELSE next

\* The decisions whose following interval is available in this update.
Schedule(start, through) == {d \in Decisions : d + 2 \in start..through}

\* RiskFactorUpdatePlan.windows: independent batches of consecutive decisions;
\* the last one, or the one without any fit, closes the plan.
Batches(start, through) ==
    LET due == Schedule(start, through)
        height == Max(due) - Min(due) + 1
        count == (height + BatchSessions - 1) \div BatchSessions
        Batch(k) ==
            LET days == {d \in due : (d - Min(due)) \div BatchSessions = k - 1}
            IN  [schedule |-> days, from |-> Min(days) + 2,
                 through |-> IF k < count THEN Max(days) + 2 ELSE through]
    IN  IF due = {} THEN << [schedule |-> {}, from |-> start, through |-> through] >>
        ELSE [k \in 1..count |-> Batch(k)]

\* Mutant: one session too early.
EarlyBoundary(through) == IF through >= 3 THEN through - 2 ELSE through

\* carry_boundary: the session before the last admitted one.
CarryBoundary(through) == IF through >= 2 THEN through - 1 ELSE through

-----------------------------------------------------------------------------
(* Valuation and fit.                                                      *)

PricesOf(days) == {<<t, price[t]>> : t \in {x \in days : price[x] # Missing}}

\* The last observation of a set, or none.
LastSeen(seen) == {o \in seen : \A p \in seen : p[1] <= o[1]}

\* risk_interval_returns: both ends are valued with the last observation.
Valued(seen, t) == LastSeen({o \in seen : o[1] <= t})

\* fit_risk_factor_returns on a cross-section of one asset.
FitRow(d, seen) ==
    [decision |-> d, exposure |-> exposure[d],
     enter |-> Valued(seen, d + 1), leave |-> Valued(seen, d + 2)]

Supported(row) == row.exposure # Missing /\ row.enter # {} /\ row.leave # {}

\* The first session a batch reads prices of: price_start, or its own first one.
PriceStart(batch) ==
    IF batch.schedule = {} THEN batch.from ELSE Min(batch.schedule) + 1

\* A batch that starts where the fits are complete reads the saved observation.
UsesCarry(batch) == completed \in 1..(batch.from - 1)

\* The prices a batch reads: its own sessions and one earlier observation.
PricesRead(batch) ==
    LET start == PriceStart(batch)
    IN  PricesOf(start..batch.through)
          \cup IF UsesCarry(batch) THEN carry ELSE LastSeen(PricesOf(1..(start - 1)))

\* The batch fits again what the reported revision affects: it starts there, or
\* with the first fit of all.
Repairs(batch) ==
    \/ batch.from <= affected
    \/ batch.from <= FirstAvailable /\ ~UsesCarry(batch)

\* Mutant: every batch starts its own continuity.
StartAnew(rows) ==
    LET good == {r.decision + 1 : r \in {x \in rows : Supported(x)}}
    IN  IF good = {} THEN 0 ELSE Min(good)

\* The session the fits are continuous from.
StartAfter(rows) ==
    LET good == {r.decision + 1 : r \in {x \in rows : Supported(x)}}
    IN  IF validStart > 0 THEN validStart ELSE IF good = {} THEN 0 ELSE Min(good)

\* RISK_START_REPAIR_REQUIRED and RISK_CONTINUITY_REQUIRED.
Continuous(rows) ==
    LET start == StartAfter(rows)
    IN  (continuity /\ start > 0)
        => \A r \in rows : Supported(r) <=> r.decision + 1 >= start

-----------------------------------------------------------------------------
FactorInit ==
    /\ exposure \in {e \in [FactorDays -> {Missing, 0}] :
                       Cardinality({d \in FactorDays : e[d] = Missing}) <= 1}
    /\ price \in {p \in [FactorDays -> {Missing, 0}] :
                    Cardinality({d \in FactorDays : p[d] = Missing}) <= 1}
    /\ admitted = 1 /\ completed = 0 /\ carry = {} /\ validStart = 0
    /\ continuity \in BOOLEAN
    /\ fits = {} /\ batches = <<>> /\ affected = 0 /\ corrections = 0

AdmitSession ==
    /\ admitted < FactorSessions
    /\ admitted' = admitted + 1
    /\ UNCHANGED <<exposure, price, completed, carry, validStart, continuity,
                   fits, batches, affected, corrections>>

\* A source revision, which the host reports by the first affected date.
Correct(first) ==
    /\ corrections < MaxCorrections
    /\ corrections' = corrections + 1
    /\ affected' = IF affected = 0 THEN first ELSE Min({affected, first})

CorrectExposure(d) ==
    /\ d <= admitted
    /\ exposure' = [exposure EXCEPT ![d] = @ + 1]
    /\ Correct(d + 2)
    /\ UNCHANGED <<price, admitted, completed, carry, validStart, continuity,
                   fits, batches>>

CorrectPrice(t) ==
    /\ t <= admitted
    /\ price' = [price EXCEPT ![t] = @ + 1]
    /\ Correct(t)
    /\ UNCHANGED <<exposure, admitted, completed, carry, validStart, continuity,
                   fits, batches>>

PlanFactors ==
    /\ batches = <<>>
    /\ UpdateStart <= admitted /\ FactorStart <= admitted
    /\ batches' = Batches(UpdateStart, admitted)
    /\ UNCHANGED <<exposure, price, admitted, completed, carry, validStart,
                   continuity, fits, affected, corrections>>

\* evaluate_risk_factor_returns and its publication over the older rows.
FitBatch ==
    /\ batches # <<>>
    /\ LET batch == Head(batches)
           seen == PricesRead(batch)
           rows == {FitRow(d, seen) : d \in batch.schedule}
       IN  /\ Continuous(rows)
           /\ fits' = {r \in fits : r.decision + 2 \notin batch.from..batch.through}
                          \cup rows
           /\ completed' = batch.through
           /\ validStart' = StartAfter(rows)
           /\ carry' = LastSeen({o \in seen : o[1] <= CarryBoundary(batch.through)})
           /\ affected' = IF Repairs(batch) \/ affected > admitted
                          THEN 0 ELSE affected
    /\ batches' = Tail(batches)
    /\ UNCHANGED <<exposure, price, admitted, continuity, corrections>>

\* A cancelled, crashed or refused update keeps what is published.
StopFitting ==
    /\ batches # <<>> /\ batches' = <<>>
    /\ UNCHANGED <<exposure, price, admitted, completed, carry, validStart,
                   continuity, fits, affected, corrections>>

FactorNext ==
    \/ AdmitSession \/ PlanFactors \/ FitBatch \/ StopFitting
    \/ \E d \in FactorDays : CorrectExposure(d) \/ CorrectPrice(d)

FactorSpec == FactorInit /\ [][FactorNext]_factorVars

-----------------------------------------------------------------------------
\* Every published fit up to the completed boundary that no reported revision
\* touches is the one the whole history gives, and none is missing: batches,
\* saved price observations and interrupted repairs lose nothing.
FactorsMatchFull ==
    LET last == IF affected = 0 THEN completed ELSE Min({completed, affected - 1})
    IN  {r \in fits : r.decision + 2 <= last}
          = {FitRow(d, PricesOf(FactorDays)) : d \in Schedule(FactorStart, last)}

\* A continuous host publishes no gap after the first supported session, nor a
\* supported session before it, whatever was interrupted or repaired.
FactorsContinuous ==
    continuity =>
        \A r \in {x \in fits : x.decision + 2 <= completed} :
            Supported(r) <=> (validStart > 0 /\ r.decision + 1 >= validStart)
=============================================================================
