---------------------------- MODULE HorizonBatch ----------------------------
(***************************************************************************)
(* One finite-horizon batch of evaluate_alpha: the windows are computed    *)
(* inline, or staged as files in a temporary directory, computed by        *)
(* processes the caller owns and read back (finite_horizon.py and the      *)
(* horizons branch of evaluation.py).                                      *)
(*                                                                         *)
(* The dispatcher and its processes are the caller's.  They may compute a  *)
(* unit more than once, finish in any order, keep results of an earlier    *)
(* batch, and hand back any sequence of results; BT decides what it        *)
(* admits.  A frame is the window it belongs to and, for every date of the *)
(* calendar, whether the label of that date was mature when the row was    *)
(* computed: a row once mature is retained, every other row is recomputed. *)
(***************************************************************************)
EXTENDS Integers, Sequences

CONSTANTS
  WindowEnds,       \* for each admitted window, the sessions until its label matures
  HorizonDays,      \* bound on the sessions of the calendar
  MaxComputations   \* bound on the units computed by the caller's processes

ASSUME HorizonAssumption ==
  /\ WindowEnds \in Seq(Nat)
  /\ HorizonDays \in Nat
  /\ MaxComputations \in Nat

HorizonWindows == 1 .. Len(WindowEnds)

VARIABLES
  stage,      \* "idle", "dispatched" or "reading"
  days,       \* the sessions of the calendar the batch runs on
  tables,     \* the published frame of every window: the saved horizon tables
  units,      \* the work units of the batch
  files,      \* the frames in the temporary directory, in the order written
  results,    \* every result a process of the caller ever produced
  returned,   \* what the dispatcher returned
  frames      \* the frames read back so far

horizonVars == <<stage, days, tables, units, files, results, returned, frames>>

NoFrame == << >>

(***************************************************************************)
(* The kernel: a fresh row says whether its label is mature; with retained *)
(* rows, those whose saved coverage is mature are kept as they are.        *)
(***************************************************************************)
FreshRow(w, d, n) == [window |-> w, mature |-> d + WindowEnds[w] <= n]

WindowRows(w, n, previous) ==
  [d \in 1 .. n |->
     IF d <= Len(previous) /\ previous[d].mature THEN previous[d] ELSE FreshRow(w, d, n)]

Retained(w) == IF tables = << >> THEN NoFrame ELSE tables[w]

(***************************************************************************)
(* Staging and computing.  A unit carries its window and its private       *)
(* retained rows; a process reads them and writes one new file.            *)
(***************************************************************************)
Unit(w) == [window |-> w, previous |-> Retained(w)]

HorizonInit ==
  /\ stage = "idle" /\ days = 1 /\ tables = << >>
  /\ units = << >> /\ files = << >>
  /\ results = {} /\ returned = << >> /\ frames = << >>

\* The calendar of the next evaluation is longer.
NextCalendar ==
  /\ stage = "idle" /\ tables # << >> /\ Len(tables[1]) = days
  /\ days < HorizonDays
  /\ days' = days + 1
  /\ UNCHANGED <<stage, tables, units, files, results, returned, frames>>

NeedsBatch == stage = "idle" /\ (IF tables = << >> THEN TRUE ELSE Len(tables[1]) < days)

\* One admitted worker: run_evaluation_batch over the same kernel.
ComputeInline ==
  /\ NeedsBatch
  /\ tables' = [w \in HorizonWindows |-> WindowRows(w, days, Retained(w))]
  /\ UNCHANGED <<stage, days, units, files, results, returned, frames>>

StageBatch ==
  /\ NeedsBatch
  /\ stage' = "dispatched"
  /\ units' = [w \in HorizonWindows |-> Unit(w)]
  /\ files' = << >> /\ returned' = << >> /\ frames' = << >>
  /\ UNCHANGED <<days, tables, results>>

\* compute_horizon_work in a process of the caller, for the i-th unit.
ComputeUnit(i) ==
  /\ Len(files) < MaxComputations
  /\ files' = Append(files, WindowRows(units[i].window, days, units[i].previous))
  /\ results' = results \cup {[window |-> units[i].window, file |-> Len(files) + 1]}
  /\ UNCHANGED <<stage, days, tables, units, returned, frames>>

DispatchReturns ==
  /\ stage = "dispatched"
  /\ stage' = "reading"
  /\ \E k \in 0 .. Len(units) + 1 : \E batch \in [1 .. k -> results] : returned' = batch
  /\ UNCHANGED <<days, tables, units, files, results, frames>>

(***************************************************************************)
(* Reading back.  A result is admitted for a unit when it names the unit's *)
(* window, its file is in the staging directory, and the rows of the file  *)
(* belong to that window and to the admitted calendar.                     *)
(***************************************************************************)
InDirectory(result) == result.file \in DOMAIN files

\* Mutant: any result of this batch will do.
AdmitsAnyFile(unit, result) == InDirectory(result)

Admits(unit, result) ==
  /\ result.window = unit.window
  /\ InDirectory(result)
  /\ LET frame == files[result.file]
     IN /\ \A d \in DOMAIN frame : frame[d].window = unit.window
        /\ DOMAIN frame \subseteq 1 .. days

Read == Len(frames)

ReadResult ==
  /\ stage = "reading" /\ Len(returned) = Len(units) /\ Read < Len(units)
  /\ Admits(units[Read + 1], returned[Read + 1])
  /\ frames' = Append(frames, files[returned[Read + 1].file])
  /\ UNCHANGED <<stage, days, tables, units, files, results, returned>>

\* File names are unique: what a kept result names exists in no later directory.
Gone(result) == [result EXCEPT !.file = 0]

\* The staging directory goes with the batch, however it ends.
CloseDirectory ==
  /\ stage' = "idle"
  /\ units' = << >> /\ files' = << >> /\ returned' = << >> /\ frames' = << >>
  /\ results' = {Gone(result) : result \in results}
  /\ UNCHANGED days

FinishBatch ==
  /\ stage = "reading" /\ Len(returned) = Len(units) /\ Read = Len(units)
  /\ tables' = frames
  /\ CloseDirectory

\* An incomplete batch, a result that is not admitted, a failing dispatcher
\* or a cancellation raises: nothing of the batch is kept.
RaiseBatch ==
  /\ stage \in {"dispatched", "reading"}
  /\ UNCHANGED tables
  /\ CloseDirectory

HorizonNext ==
  \/ NextCalendar
  \/ ComputeInline
  \/ StageBatch
  \/ \E i \in DOMAIN units : ComputeUnit(i)
  \/ DispatchReturns
  \/ ReadResult
  \/ FinishBatch
  \/ RaiseBatch

HorizonSpec == HorizonInit /\ [][HorizonNext]_horizonVars

-----------------------------------------------------------------------------
\* Whatever the processes of the caller do and however batches end, the saved
\* tables are those one inline evaluation from nothing would give: every
\* window has its own rows, mature exactly when its own label is
\* (read_horizon_result, staged_horizon_batch).
DispatchedEqualsInline ==
  tables # << >> =>
    \A w \in HorizonWindows :
      tables[w] = WindowRows(w, Len(tables[w]), NoFrame)
=============================================================================
