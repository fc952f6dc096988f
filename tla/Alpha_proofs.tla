---------------------------- MODULE Alpha_proofs ----------------------------
(***************************************************************************)
(* Proofs about the evaluation of an Alpha: the batch that computes its    *)
(* horizon tables (HorizonBatch), for any windows, any length of the       *)
(* calendar and any behaviour of the caller's processes, and the update of *)
(* a saved result (AlphaContinuation), for any windows, lags, selections,  *)
(* availability of labels and order of revisions, updates and repairs.     *)
(***************************************************************************)
EXTENDS HorizonBatch, AlphaContinuation, SequenceTheorems, FiniteLemmas, TLAPS

-----------------------------------------------------------------------------
(* The inductive invariant.                                                 *)

\* What one inline evaluation from nothing gives for a window.
Inline(w, n) == WindowRows(w, n, NoFrame)

\* The rows of a window on some calendar.
Frame == UNION {[1 .. n -> [window : HorizonWindows, mature : BOOLEAN]] : n \in Nat}

\* The calendar never is empty, and a batch exists from its staging on.
BatchType ==
  /\ days \in Nat \ {0}
  /\ stage \in {"idle", "dispatched", "reading"}
  /\ files \in Seq(Frame)
  /\ frames \in Seq(Frame)

\* The saved tables are those of an earlier, shorter calendar.
TablesInline ==
  tables # << >> =>
    /\ DOMAIN tables = HorizonWindows
    /\ \A w \in HorizonWindows : \E n \in 0 .. days : tables[w] = Inline(w, n)

\* A batch in progress works for the tables it was staged from.
UnitsStaged ==
  /\ stage = "idle" => units = << >> /\ files = << >> /\ frames = << >>
  /\ stage # "idle" => units = [w \in HorizonWindows |-> Unit(w)]

\* Every file of the directory is the inline frame of some window.
FilesInline ==
  \A i \in DOMAIN files : \E w \in HorizonWindows : files[i] = Inline(w, days)

\* What was read back is the inline frame of its own window.
FramesInline ==
  /\ Len(frames) <= Len(WindowEnds)
  /\ \A i \in DOMAIN frames : frames[i] = Inline(i, days)

BatchInv == BatchType /\ TablesInline /\ UnitsStaged /\ FilesInline /\ FramesInline

-----------------------------------------------------------------------------
(* The kernel.                                                              *)

\* The windows of a batch end after a number of sessions.
LEMMA WindowsType ==
  /\ Len(WindowEnds) \in Nat
  /\ \A w \in HorizonWindows : WindowEnds[w] \in Nat
  BY HorizonAssumption DEF HorizonWindows

\* An inline frame has a row for every session of its calendar.
LEMMA InlineFrame ==
  ASSUME NEW w \in HorizonWindows, NEW n \in Nat
  PROVE  /\ Inline(w, n) = [d \in 1 .. n |-> FreshRow(w, d, n)]
         /\ Inline(w, n) \in [1 .. n -> [window : HorizonWindows, mature : BOOLEAN]]
         /\ Inline(w, n) \in Frame
         /\ Len(Inline(w, n)) = n
<1>1. Inline(w, n) = [d \in 1 .. n |-> FreshRow(w, d, n)]
  BY DEF Inline, WindowRows, NoFrame
<1>2. \A d \in 1 .. n : FreshRow(w, d, n) \in [window : HorizonWindows, mature : BOOLEAN]
  BY DEF FreshRow
<1>3. Inline(w, n) \in [1 .. n -> [window : HorizonWindows, mature : BOOLEAN]]
  BY <1>1, <1>2
<1>4. Inline(w, n) \in Seq([window : HorizonWindows, mature : BOOLEAN])
  BY <1>3, <1>1, SeqDef
<1>5. Len(Inline(w, n)) = n
  BY <1>3, <1>4
<1> QED
  BY <1>1, <1>3, <1>5 DEF Frame

\* What is mature on a shorter calendar is mature on a longer one, so that a
\* retained row is the row that would be computed anew.
LEMMA RetainedRowsAgree ==
  ASSUME NEW w \in HorizonWindows, NEW n \in Nat, NEW m \in 0 .. n
  PROVE  WindowRows(w, n, Inline(w, m)) = Inline(w, n)
<1>1. /\ Inline(w, m) = [d \in 1 .. m |-> FreshRow(w, d, m)]
      /\ Len(Inline(w, m)) = m
  BY InlineFrame
<1>2. ASSUME NEW d \in 1 .. m, FreshRow(w, d, m).mature
      PROVE  FreshRow(w, d, m) = FreshRow(w, d, n)
  <2>1. d + WindowEnds[w] <= m /\ WindowEnds[w] \in Nat
    BY <1>2, WindowsType DEF FreshRow
  <2>2. d + WindowEnds[w] <= n
    BY <2>1
  <2> QED
    BY <2>1, <2>2 DEF FreshRow
<1>3. \A d \in 1 .. n :
        (IF d <= Len(Inline(w, m)) /\ Inline(w, m)[d].mature
         THEN Inline(w, m)[d] ELSE FreshRow(w, d, n)) = FreshRow(w, d, n)
  BY <1>1, <1>2
<1>4. WindowRows(w, n, Inline(w, m)) = [d \in 1 .. n |-> FreshRow(w, d, n)]
  BY <1>3 DEF WindowRows
<1> QED
  BY <1>4, InlineFrame

\* The kernel over the saved rows of a window, inline or staged.
LEMMA KernelInline ==
  ASSUME BatchInv, NEW w \in HorizonWindows
  PROVE  WindowRows(w, days, Retained(w)) = Inline(w, days)
<1>1. CASE tables = << >>
  BY <1>1 DEF Retained, Inline
<1>2. CASE tables # << >>
  <2>1. PICK n \in 0 .. days : tables[w] = Inline(w, n)
    BY <1>2 DEF BatchInv, TablesInline
  <2> QED
    BY <1>2, <2>1, RetainedRowsAgree DEF Retained, BatchInv, BatchType
<1> QED
  BY <1>1, <1>2

-----------------------------------------------------------------------------
(* The batch.                                                               *)

\* Before the first batch nothing is saved and nothing is in progress.
LEMMA BatchInit ==
  HorizonInit => BatchInv
<1> SUFFICES ASSUME HorizonInit PROVE BatchInv
  OBVIOUS
<1>1. Len(<< >>) = 0 /\ DOMAIN << >> = {}
  OBVIOUS
<1> QED
  BY <1>1, WindowsType DEF HorizonInit, BatchInv, BatchType, TablesInline, UnitsStaged,
     FilesInline, FramesInline

\* However a batch ends, nothing of it but its tables is kept.
LEMMA DirectoryClosed ==
  ASSUME BatchInv, CloseDirectory, TablesInline'
  PROVE  BatchInv'
  BY WindowsType DEF CloseDirectory, BatchInv, BatchType, UnitsStaged, FilesInline, FramesInline

\* What TablesInline needs when the saved tables are those of this calendar.
LEMMA TablesOfThisCalendar ==
  ASSUME BatchInv, days' = days, DOMAIN tables' = HorizonWindows,
         \A w \in HorizonWindows : tables'[w] = Inline(w, days)
  PROVE  TablesInline'
<1>1. days \in 0 .. days /\ days \in Nat
  BY DEF BatchInv, BatchType
<1> QED
  BY <1>1 DEF TablesInline

\* Every step of a batch keeps the invariant.
LEMMA BatchStep ==
  BatchInv /\ [HorizonNext]_horizonVars => BatchInv'
<1> SUFFICES ASSUME BatchInv, [HorizonNext]_horizonVars PROVE BatchInv'
  OBVIOUS
<1> USE DEF BatchInv
<1>1. CASE NextCalendar
  <2>1. BatchType'
    BY <1>1 DEF NextCalendar, BatchType
  <2>2. TablesInline'
    <3>1. 0 .. days \subseteq 0 .. days'
      BY <1>1 DEF NextCalendar, BatchType
    <3> QED
      BY <1>1, <3>1 DEF NextCalendar, TablesInline
  <2>3. UnitsStaged'
    BY <1>1 DEF NextCalendar, UnitsStaged
  <2>4. files' = << >> /\ frames' = << >>
    BY <1>1 DEF NextCalendar, UnitsStaged
  <2> QED
    BY <2>1, <2>2, <2>3, <2>4, WindowsType DEF FilesInline, FramesInline
<1>2. CASE ComputeInline
  <2>1. TablesInline'
    BY <1>2, KernelInline, TablesOfThisCalendar DEF ComputeInline
  <2>2. stage = "idle" /\ stage' = "idle" /\ UnitsStaged'
    BY <1>2 DEF ComputeInline, NeedsBatch, UnitsStaged
  <2> QED
    BY <1>2, <2>1, <2>2
       DEF ComputeInline, BatchType, FilesInline, FramesInline
<1>3. CASE StageBatch
  <2>1. UnitsStaged'
    BY <1>3 DEF StageBatch, UnitsStaged, Unit, Retained
  <2>2. TablesInline'
    BY <1>3 DEF StageBatch, TablesInline
  <2> QED
    BY <1>3, <2>1, <2>2, WindowsType DEF StageBatch, BatchType, FilesInline, FramesInline
<1>4. ASSUME NEW i \in DOMAIN units, ComputeUnit(i)
      PROVE  BatchInv'
  <2> DEFINE file == WindowRows(units[i].window, days, units[i].previous)
  <2>1. stage # "idle"
    BY <1>4 DEF UnitsStaged
  <2>2. i \in HorizonWindows /\ units[i] = Unit(i)
    BY <2>1 DEF UnitsStaged
  <2>3. file = Inline(i, days)
    BY <2>2, KernelInline DEF Unit
  <2>4. file \in Frame
    BY <2>2, <2>3, InlineFrame DEF BatchType
  <2>5. files' = Append(files, file) /\ UNCHANGED <<stage, days, tables, units, frames>>
    BY <1>4 DEF ComputeUnit
  <2> HIDE DEF file
  <2>6. BatchType'
    BY <2>4, <2>5 DEF BatchType
  <2>7. FilesInline'
    BY <2>2, <2>3, <2>5 DEF FilesInline, BatchType
  <2> QED
    BY <2>1, <2>5, <2>6, <2>7 DEF TablesInline, UnitsStaged, Unit, Retained, FramesInline
<1>5. CASE DispatchReturns
  BY <1>5 DEF DispatchReturns, BatchType, TablesInline, UnitsStaged, Unit, Retained,
              FilesInline, FramesInline
<1>6. CASE ReadResult
  <2> DEFINE w == Read + 1
             frame == files[returned[w].file]
  <2>1. w \in HorizonWindows /\ w = Len(frames) + 1
    BY <1>6, WindowsType
       DEF ReadResult, UnitsStaged, HorizonWindows, Read, BatchType
  <2>2. frames' = Append(frames, frame)
        /\ UNCHANGED <<stage, days, tables, units, files>>
    BY <1>6 DEF ReadResult
  <2>3. units[w].window = w
    BY <1>6, <2>1 DEF ReadResult, UnitsStaged, Unit
  <2>4. returned[w].file \in DOMAIN files /\ \A d \in DOMAIN frame : frame[d].window = w
    BY <1>6, <2>3 DEF ReadResult, Admits, InDirectory
  <2>5. PICK v \in HorizonWindows : frame = Inline(v, days)
    BY <2>4 DEF FilesInline
  <2>6. 1 \in DOMAIN frame /\ frame[1].window = v
    <3>1. days \in Nat \ {0}
      BY DEF BatchType
    <3>2. frame = [d \in 1 .. days |-> FreshRow(v, d, days)]
      BY <2>5, <3>1, InlineFrame
    <3>3. 1 \in 1 .. days /\ FreshRow(v, 1, days).window = v
      BY <3>1 DEF FreshRow
    <3> HIDE DEF frame
    <3> QED
      BY <3>2, <3>3
  <2>7. frame = Inline(w, days) /\ frame \in Frame
    BY <2>1, <2>4, <2>5, <2>6, InlineFrame DEF BatchType
  <2> HIDE DEF frame
  <2>8. BatchType'
    BY <2>2, <2>7 DEF BatchType
  <2>9. FramesInline'
    BY <2>1, <2>2, <2>7, WindowsType DEF FramesInline, HorizonWindows, BatchType
  <2> QED
    BY <1>6, <2>2, <2>8, <2>9
       DEF ReadResult, TablesInline, UnitsStaged, Unit, Retained, FilesInline
<1>7. CASE FinishBatch
  <2>1. Len(frames) = Len(WindowEnds) /\ DOMAIN frames = HorizonWindows
    BY <1>7, WindowsType
       DEF FinishBatch, UnitsStaged, HorizonWindows, Read, BatchType
  <2>2. tables' = frames /\ days' = days /\ CloseDirectory
    BY <1>7 DEF FinishBatch, CloseDirectory
  <2>3. TablesInline'
    BY <2>1, <2>2, TablesOfThisCalendar DEF FramesInline
  <2> QED
    BY <2>2, <2>3, DirectoryClosed
<1>8. CASE RaiseBatch
  <2>1. TablesInline' /\ CloseDirectory
    BY <1>8 DEF RaiseBatch, CloseDirectory, TablesInline
  <2> QED
    BY <2>1, DirectoryClosed
<1>9. CASE UNCHANGED horizonVars
  BY <1>9 DEF horizonVars, BatchType, TablesInline, UnitsStaged, Unit, Retained,
              FilesInline, FramesInline
<1> QED
  BY <1>1, <1>2, <1>3, <1>4, <1>5, <1>6, <1>7, <1>8, <1>9 DEF HorizonNext

\* Whatever the processes of the caller do and however batches end, the saved
\* tables are those one inline evaluation from nothing would give
\* (read_horizon_result, staged_horizon_batch).
THEOREM HorizonTablesInline ==
  HorizonSpec => []DispatchedEqualsInline
<1>1. BatchInv => DispatchedEqualsInline
  BY InlineFrame DEF BatchInv, TablesInline, DispatchedEqualsInline, Inline
<1> QED
  BY <1>1, BatchInit, BatchStep, PTL DEF HorizonSpec

-----------------------------------------------------------------------------
(* What one evaluation of all sessions gives, and the inductive invariant.   *)

\* The sessions of a window of a factor date.
Span(w, d) == (d + w.start - 1) .. (d + w.end - 1)

\* Every label of a window is known to an evaluation.
Known(w, d, T, C) == Span(w, d) \subseteq 1 .. T /\ \A t \in Span(w, d) : Mature(t, C)

\* A row of the horizon table, and the table.
TrueLabels(v, l, w, d, T, C) ==
  [window |-> w, day |-> d, mature |-> Known(w, d, T, C), factor |-> v[d],
   labels |-> IF Known(w, d, T, C) THEN {<<t, l[t]>> : t \in Span(w, d)} ELSE {}]

TrueHorizon(v, l, selected, T, C) ==
  IF selected \cap HorizonFamily = {} THEN {}
  ELSE {TrueLabels(v, l, w, d, T, C) : w \in ReturnWindows, d \in 1 .. T}

\* Two sessions a persistence lag apart, and the table of them.
TruePair(v, d, lag) ==
  [day |-> d, target |-> d + lag, lag |-> lag, ranks |-> <<v[d], v[d + lag]>>]

TruePersistence(v, selected, T) ==
  IF selected \cap PersistenceFamily = {} THEN {}
  ELSE {TruePair(v, p[1], p[2]) : p \in {q \in (1 .. T) \X PersistenceLags : q[1] + q[2] <= T}}

\* The sessions a path trades on, and the last one it books.
Dates(lag, T) == ShiftedDates(1 .. T, lag, T)
LastDate(name, T) ==
  IF name[1] = "book" \/ Dates(name[2], T) = {} THEN T ELSE Max(Dates(name[2], T))

\* The sessions a path books.
Active(name, T, C) ==
  {t \in 1 .. T : /\ t <= LastDate(name, T)
                  /\ \A u \in 1 .. t : Mature(u, C)
                  /\ \E s \in Dates(name[2], T) : s <= t}

\* What a path books in a session, and the tables of the paths.
TrueRow(v, l, name, t, T) ==
  [day |-> t,
   after |-> IF \E s \in Dates(name[2], T) : s < t THEN t - 1 ELSE 0,
   snapshot |-> IF t \in Dates(name[2], T) THEN {v[t - name[2]]} ELSE {},
   label |-> l[t]]

TrueRows(v, l, name, T, C) == {TrueRow(v, l, name, t, T) : t \in Active(name, T, C)}

TruePaths(v, l, selected, T, C) ==
  {[name |-> name, rows |-> TrueRows(v, l, name, T, C)] : name \in RequiredPaths(selected)}

\* The rebalance sessions all lags of a kind have booked.
Common(kind, lags, T, C) ==
  {t \in AlphaDays : \A lag \in lags : t \in Active(<<kind, lag>>, T, C) /\ t \in Dates(lag, T)}

\* A lagged row, and the tables of the lagged rows.
TrueFrame(v, l, kind, lag, t, T) ==
  [kind |-> kind, lag |-> lag, row |-> TrueRow(v, l, <<kind, lag>>, t, T)]

TrueFrames(v, l, kind, lags, T, C) ==
  UNION {{TrueFrame(v, l, kind, lag, t, T) : t \in Common(kind, lags, T, C)} : lag \in lags}

TrueLags(v, l, selected, T, C) ==
  (IF "lead_lag" \in selected THEN TrueFrames(v, l, "leadlag", LeadLags, T, C) ELSE {})
  \cup
  (IF "alpha_return" \in selected THEN TrueFrames(v, l, "alpha", AlphaLags, T, C) ELSE {})

\* The tables of a result are those of one evaluation of the values v and the
\* labels l from the first session.
Matches(R, v, l) ==
  /\ R.horizon = TrueHorizon(v, l, R.components, R.through, R.cutoff)
  /\ R.persistence = TruePersistence(v, R.components, R.through)
  /\ R.paths = TruePaths(v, l, R.components, R.through, R.cutoff)
  /\ R.lags = TrueLags(v, l, R.components, R.through, R.cutoff)

\* The inputs that an evaluation of T sessions with the cutoff C keeps beside
\* its tables, to see later whether they were revised.
Prefix(v, l, T, C) ==
  {<<"value", t, v[t]>> : t \in 1 .. T}
    \cup {<<"label", t, l[t]>> : t \in {d \in 1 .. T : available[d] <= C}}

\* The values and labels revisions can leave.
Revisions == [AlphaDays -> 0 .. 1]

\* The tables of a result are those of one evaluation, from the first session,
\* of the inputs it was saved with, whatever was revised since.
Sound(R) ==
  /\ R.components \in SUBSET Components /\ R.through \in AlphaDays /\ R.cutoff \in Nat
  /\ \E v, l \in Revisions :
       R.prefix = Prefix(v, l, R.through, R.cutoff) /\ Matches(R, v, l)

\* The inputs are typed, and the preceding results are a list.
Typed ==
  /\ available \in [AlphaDays -> Nat]
  /\ value \in Revisions /\ label \in Revisions
  /\ preceding \in Seq({preceding[i] : i \in DOMAIN preceding})

\* The inductive invariant: every saved result is sound, the current one and
\* the preceding ones a repair may go back to.
AlphaInv ==
  /\ Typed
  /\ current = NoResult \/ Sound(current)
  /\ \A i \in DOMAIN preceding : Sound(preceding[i])

-----------------------------------------------------------------------------
(* Finite sets of lags and windows.                                          *)

\* The values of a function on a finite set are finitely many.
LEMMA ImageFinite ==
  ASSUME NEW S, IsFiniteSet(S), NEW f
  PROVE  IsFiniteSet({f[x] : x \in S})
<1> DEFINE T == {f[x] : x \in S}
           g == [x \in S |-> f[x]]
<1>1. g \in Surjection(S, T)
  BY DEF Surjection
<1> HIDE DEF T, g
<1>2. IsFiniteSet(T)
  BY <1>1, FS_Surjection
<1> QED
  BY <1>2 DEF T

\* History is a number of sessions, and the persistence lags are within it.
LEMMA HistoryBounds ==
  ASSUME NEW selected
  PROVE  /\ History(selected) \in Nat
         /\ selected \cap PersistenceFamily # {} =>
              \A lag \in PersistenceLags : lag <= History(selected)
<1> DEFINE A == IF selected \cap HorizonFamily # {} THEN {w.end : w \in ReturnWindows} ELSE {}
           B == IF selected \cap PersistenceFamily # {} THEN PersistenceLags ELSE {}
           D == IF "lead_lag" \in selected THEN {Max({lag, -lag}) : lag \in LeadLags} ELSE {}
           E == IF "alpha_return" \in selected THEN AlphaLags ELSE {}
           all == {0} \cup A \cup B \cup D \cup E
<1>1. IsFiniteSet(A) /\ A \subseteq Int
  <2> DEFINE f == [w \in ReturnWindows |-> w.end]
  <2>1. IsFiniteSet({f[w] : w \in ReturnWindows})
    <3> HIDE DEF f
    <3> QED
      BY AlphaAssumption, ImageFinite
  <2>2. {f[w] : w \in ReturnWindows} = {w.end : w \in ReturnWindows}
    OBVIOUS
  <2>3. IsFiniteSet({w.end : w \in ReturnWindows})
    <3> HIDE DEF f
    <3> QED
      BY <2>1, <2>2
  <2>4. IsFiniteSet({})
    BY FS_EmptySet
  <2> QED
    BY <2>3, <2>4, AlphaAssumption
<1>2. IsFiniteSet(B) /\ B \subseteq Int /\ IsFiniteSet(E) /\ E \subseteq Int
  BY FS_EmptySet, AlphaAssumption
<1>3. IsFiniteSet(D) /\ D \subseteq Int
  <2> DEFINE f == [lag \in LeadLags |-> Max({lag, -lag})]
  <2>1. IsFiniteSet({f[lag] : lag \in LeadLags})
    <3> HIDE DEF f
    <3> QED
      BY AlphaAssumption, ImageFinite
  <2>2. {f[lag] : lag \in LeadLags} = {Max({lag, -lag}) : lag \in LeadLags}
    OBVIOUS
  <2>3. IsFiniteSet({Max({lag, -lag}) : lag \in LeadLags})
    <3> HIDE DEF f
    <3> QED
      BY <2>1, <2>2
  <2>4. \A lag \in LeadLags : Max({lag, -lag}) \in Int
    <3> TAKE lag \in LeadLags
    <3>1. lag \in Int /\ -lag \in Int
      BY AlphaAssumption
    <3>2. {lag, -lag} \subseteq Int /\ IsFiniteSet({lag, -lag}) /\ {lag, -lag} # {}
      BY <3>1, PairFinite
    <3> QED
      BY <3>2, MaxMember
  <2>5. IsFiniteSet({})
    BY FS_EmptySet
  <2> QED
    BY <2>3, <2>4, <2>5
<1>4. IsFiniteSet(all) /\ all \subseteq Int /\ all # {}
  <2>1. IsFiniteSet({0})
    BY FS_Singleton
  <2> HIDE DEF A, B, D, E
  <2>2. IsFiniteSet({0} \cup A)
    BY <1>1, <2>1, FS_Union
  <2>3. IsFiniteSet({0} \cup A \cup B)
    BY <1>2, <2>2, FS_Union
  <2>4. IsFiniteSet({0} \cup A \cup B \cup D)
    BY <1>3, <2>3, FS_Union
  <2>5. IsFiniteSet(all)
    BY <1>2, <2>4, FS_Union
  <2> QED
    BY <1>1, <1>2, <1>3, <2>5
<1>5. History(selected) = Max(all)
  BY Zenon DEF History
<1>6. Max(all) \in all /\ \A x \in all : x <= Max(all)
  <2> HIDE DEF all
  <2> QED
    BY <1>4, MaxMember
<1>7. 0 \in all /\ B \subseteq all
  OBVIOUS
<1>8. Max(all) \in Nat
  <2>1. 0 \in all
    OBVIOUS
  <2> HIDE DEF all
  <2>2. Max(all) \in Int /\ 0 <= Max(all)
    BY <1>4, <1>6, <2>1
  <2> QED
    BY <2>2
<1>9. ASSUME selected \cap PersistenceFamily # {}, NEW lag \in PersistenceLags
      PROVE  lag <= Max(all)
  <2>1. lag \in all
    BY <1>7, <1>9
  <2> HIDE DEF all
  <2> QED
    BY <1>6, <2>1
<1> HIDE DEF all
<1> QED
  BY <1>5, <1>8, <1>9

\* How far the sessions of a path reach.
LEMMA PathLagBounds ==
  ASSUME NEW selected, NEW name \in RequiredPaths(selected)
  PROVE  /\ PathLag(name) \in Nat
         /\ name[2] \in Int /\ name[2] <= PathLag(name)
         /\ name[1] = "book" => name[2] = 0
<1>1. IsFiniteSet({0} \cup LeadLags) /\ IsFiniteSet({0} \cup AlphaLags)
  BY AlphaAssumption, FS_Singleton, FS_Union
<1>2. {0} \cup LeadLags \subseteq Int /\ {0} \cup AlphaLags \subseteq Int
  BY AlphaAssumption
<1>3. ASSUME NEW S, S \subseteq Int, IsFiniteSet({0} \cup S), NEW lag \in S
      PROVE  Max({0} \cup S) \in Nat /\ lag <= Max({0} \cup S)
  <2> DEFINE all == {0} \cup S
  <2>1. all \subseteq Int /\ IsFiniteSet(all) /\ 0 \in all /\ lag \in all
    BY <1>3
  <2> HIDE DEF all
  <2>2. Max(all) \in all /\ 0 <= Max(all) /\ lag <= Max(all)
    BY <2>1, MaxMember
  <2>3. Max(all) \in Nat
    <3> DEFINE longest == Max(all)
    <3>1. longest \in Int /\ 0 <= longest
      BY <2>1, <2>2, Zenon
    <3> HIDE DEF longest
    <3>2. longest \in Nat
      BY <3>1
    <3> QED
      BY <3>2, Zenon DEF longest
  <2> QED
    BY <2>2, <2>3, Zenon DEF all
<1>4. CASE name = <<"book", 0>>
  BY <1>4 DEF PathLag
<1>5. CASE name \in {"leadlag"} \X LeadLags
  <2>1. name[1] = "leadlag" /\ name[2] \in LeadLags
    BY <1>5
  <2>2. LeadLags \subseteq Int
    BY <1>2
  <2>3. Max({0} \cup LeadLags) \in Nat /\ name[2] <= Max({0} \cup LeadLags)
    BY <1>1, <1>3, <2>1, <2>2
  <2>4. PathLag(name) = Max({0} \cup LeadLags)
    BY <2>1 DEF PathLag
  <2> QED
    BY <2>1, <2>2, <2>3, <2>4
<1>6. CASE name \in {"alpha"} \X AlphaLags
  <2>1. name[1] = "alpha" /\ name[2] \in AlphaLags
    BY <1>6
  <2>2. AlphaLags \subseteq Int
    BY <1>2
  <2>3. Max({0} \cup AlphaLags) \in Nat /\ name[2] <= Max({0} \cup AlphaLags)
    BY <1>1, <1>3, <2>1, <2>2
  <2>4. PathLag(name) = Max({0} \cup AlphaLags)
    BY <2>1 DEF PathLag
  <2> QED
    BY <2>1, <2>2, <2>3, <2>4
<1>7. \/ name = <<"book", 0>>
      \/ name \in {"leadlag"} \X LeadLags
      \/ name \in {"alpha"} \X AlphaLags
  BY DEF RequiredPaths
<1> QED
  BY <1>4, <1>5, <1>6, <1>7

\* The halo of the persistence table is its longest lag.
LEMMA LongestLag ==
  /\ Max(PersistenceLags) \in Nat
  /\ \A lag \in PersistenceLags : lag \in Nat \ {0} /\ lag <= Max(PersistenceLags)
<1>1. PersistenceLags \subseteq Int /\ IsFiniteSet(PersistenceLags) /\ PersistenceLags # {}
  BY AlphaAssumption
<1>2. Max(PersistenceLags) \in PersistenceLags
      /\ \A lag \in PersistenceLags : lag <= Max(PersistenceLags)
  BY <1>1, MaxMember
<1> QED
  BY <1>2, AlphaAssumption

-----------------------------------------------------------------------------
(* What an update reads.                                                     *)

\* The first session an update reads, as far as what it reads matters: from
\* the first one, or late enough for all that the saved result holds.
Reaches(P, read, selected) ==
  /\ ~StartsFamily(P.components, selected)
  /\ read <= P.through - History(selected)
  /\ \A p \in P.paths : p.rows # {} /\ read <= Checkpoint(p.rows) - PathLag(p.name)
  /\ \A d \in PendingHorizons(P) : read <= d

\* A step of the evaluation over a result that holds the current inputs.
Continues(P, read, T, C, selected) ==
  /\ P.components \in SUBSET selected /\ selected \in SUBSET Components
  /\ T \in AlphaDays /\ C \in Nat
  /\ P.through \in 0 .. T /\ P.cutoff \in 0 .. C
  /\ read \in Nat \ {0}
  /\ read = 1 \/ Reaches(P, read, selected)
  /\ Matches(P, value, label)

\* The sessions are numbered from one.
LEMMA DaysType ==
  Sessions \in Nat /\ AlphaDays = 1 .. Sessions
  BY AlphaAssumption DEF AlphaDays

\* A label an evaluation knew is known to every later one.
LEMMA MatureStays ==
  ASSUME available \in [AlphaDays -> Nat], NEW C \in Nat, NEW B \in 0 .. C,
         NEW t \in AlphaDays, Mature(t, B)
  PROVE  Mature(t, C)
  BY DaysType DEF Mature

-----------------------------------------------------------------------------
(* Return windows and pairs of sessions.                                     *)

\* The fields of a row of the horizon table.
LEMMA TrueLabelsFields ==
  ASSUME NEW v, NEW l, NEW w, NEW d, NEW T, NEW C
  PROVE  /\ TrueLabels(v, l, w, d, T, C).window = w
         /\ TrueLabels(v, l, w, d, T, C).day = d
         /\ TrueLabels(v, l, w, d, T, C).mature = Known(w, d, T, C)
  BY DEF TrueLabels

\* A window that starts with the sessions supplied is as complete as from the first one.
LEMMA LabelsSupplied ==
  ASSUME NEW w \in ReturnWindows, NEW T \in Nat, NEW C, NEW first \in Nat \ {0},
         NEW d \in Nat, first <= d
  PROVE  WindowLabels(w, d, first .. T, C) = TrueLabels(value, label, w, d, T, C)
<1>1. w.start \in Nat /\ w.end \in Nat /\ 1 <= w.start
  BY AlphaAssumption
<1> DEFINE span == (d + w.start - 1) .. (d + w.end - 1)
<1>2. \A t \in span : t \in Int /\ t >= first /\ t >= 1
  BY <1>1
<1>3. span \subseteq first .. T <=> span \subseteq 1 .. T
  <2> HIDE DEF span
  <2> QED
    BY <1>2
<1>4. Span(w, d) = span
  BY DEF Span
<1> DEFINE usable == span \subseteq first .. T /\ \A t \in span : Mature(t, C)
<1>5. usable = Known(w, d, T, C)
  BY <1>3, <1>4 DEF Known
<1>6. WindowLabels(w, d, first .. T, C)
        = [window |-> w, day |-> d, mature |-> usable, factor |-> value[d],
           labels |-> IF usable THEN {<<t, label[t]>> : t \in span} ELSE {}]
  BY DEF WindowLabels
<1> HIDE DEF usable, span
<1> QED
  BY <1>4, <1>5, <1>6, Zenon DEF TrueLabels

\* A window whose labels were all known stays known.
LEMMA KnownStays ==
  ASSUME available \in [AlphaDays -> Nat], NEW T \in AlphaDays, NEW S \in 0 .. T,
         NEW C \in Nat, NEW B \in 0 .. C, NEW w, NEW d, Known(w, d, S, B)
  PROVE  Known(w, d, T, C)
<1>1. 1 .. S \subseteq 1 .. T /\ 1 .. T \subseteq AlphaDays
  BY DaysType
<1> QED
  BY <1>1, MatureStays DEF Known

\* The saved rows of known windows and the rows computed of the sessions read
\* are the rows of one evaluation (the horizon tables of evaluate_alpha).
LEMMA HorizonContinues ==
  ASSUME Typed, NEW P, NEW read, NEW T, NEW C, NEW selected,
         Continues(P, read, T, C, selected)
  PROVE  HorizonTables(P, read .. T, C, selected) = TrueHorizon(value, label, selected, T, C)
<1> DEFINE factor == read .. T
           true(w) == {TrueLabels(value, label, w, d, T, C) : d \in 1 .. T}
<1>1. /\ T \in Nat /\ T \in AlphaDays /\ C \in Nat /\ read \in Nat \ {0}
      /\ P.through \in 0 .. T /\ P.cutoff \in 0 .. C
      /\ available \in [AlphaDays -> Nat]
  BY DaysType DEF Continues, Typed
<1>2. CASE selected \cap HorizonFamily = {}
  BY <1>2 DEF HorizonTables, TrueHorizon
<1>3. CASE selected \cap HorizonFamily # {}
  <2>1. ASSUME NEW w \in ReturnWindows
        PROVE  WindowFrames(w, P, factor, factor, C) = true(w)
    <3> DEFINE old == {r \in P.horizon : r.window = w}
               fresh == factor \ {r.day : r \in {x \in old : x.mature}}
               used == IF fresh = {} THEN factor ELSE {t \in factor : t >= Min(fresh)}
               row(d) == TrueLabels(value, label, w, d, T, C)
               before(d) == TrueLabels(value, label, w, d, P.through, P.cutoff)
    <3>1. fresh \subseteq factor /\ fresh \subseteq Int /\ IsFiniteSet(fresh)
      <4>1. fresh \subseteq factor /\ factor \subseteq Int
        OBVIOUS
      <4>2. IsFiniteSet(factor)
        BY <1>1, FS_Interval
      <4> QED
        BY <4>1, <4>2, FS_Subset
    <3>2. ASSUME NEW d \in fresh PROVE WindowLabels(w, d, used, C) = row(d) /\ d \in 1 .. T
      <4> HIDE DEF fresh
      <4> DEFINE first == Min(fresh)
      <4>1. first \in fresh /\ first <= d /\ fresh # {}
        BY <3>1, MinMember
      <4> HIDE DEF first
      <4>2. first \in read .. T /\ d \in read .. T
        BY <3>1, <4>1
      <4>3. first \in Nat \ {0} /\ read <= first /\ d \in 1 .. T /\ d \in Nat
        BY <1>1, <4>2
      <4>4. used = first .. T
        <5>1. used = {t \in factor : t >= first}
          BY <4>1 DEF first
        <5> HIDE DEF used
        <5> QED
          BY <1>1, <4>2, <4>3, <5>1
      <4> HIDE DEF used
      <4> QED
        BY <1>1, <4>1, <4>3, <4>4, LabelsSupplied
    <3>3. ASSUME NEW r \in old
          PROVE  \E d \in 1 .. P.through : r = before(d)
      <4>1. P.horizon = TrueHorizon(value, label, P.components, P.through, P.cutoff)
        BY DEF Continues, Matches
      <4>2. PICK u \in ReturnWindows, d \in 1 .. P.through :
               r = TrueLabels(value, label, u, d, P.through, P.cutoff)
        BY <4>1 DEF TrueHorizon
      <4> QED
        BY <4>2, TrueLabelsFields
    <3>4. ASSUME read # 1, NEW d \in 1 .. P.through PROVE before(d) \in old
      <4>1. P.components \cap HorizonFamily # {}
        BY <1>3, <3>4 DEF Continues, Reaches, StartsFamily
      <4>2. P.horizon = TrueHorizon(value, label, P.components, P.through, P.cutoff)
        BY DEF Continues, Matches
      <4>3. before(d) \in P.horizon
        BY <4>1, <4>2 DEF TrueHorizon
      <4> QED
        BY <4>3, TrueLabelsFields
    <3>5. ASSUME NEW d \in 1 .. P.through, Known(w, d, P.through, P.cutoff)
          PROVE  before(d) = row(d) /\ d \in 1 .. T
      <4>1. Known(w, d, T, C)
        BY <1>1, <3>5, KnownStays
      <4>2. d \in 1 .. T
        BY <1>1
      <4> QED
        BY <3>5, <4>1, <4>2 DEF TrueLabels
    <3>6. ASSUME NEW d \in 1 .. P.through, d \in Nat, ~Known(w, d, P.through, P.cutoff),
                 before(d) \in old
          PROVE  read <= d
      <4>1. d \in PendingHorizons(P)
        <5>1. before(d) \in P.horizon /\ ~before(d).mature /\ before(d).day = d
          BY <3>6, TrueLabelsFields
        <5> HIDE DEF before
        <5> QED
          BY <5>1 DEF PendingHorizons
      <4> QED
        BY <1>1, <4>1 DEF Continues, Reaches
    <3>7. ASSUME NEW r \in old, r.day \notin fresh PROVE r \in true(w)
      <4>1. PICK d \in 1 .. P.through : r = before(d)
        BY <3>3, <3>7
      <4>2. r.day = d /\ r.mature = Known(w, d, P.through, P.cutoff)
        BY <4>1, TrueLabelsFields
      <4>3. CASE Known(w, d, P.through, P.cutoff)
        BY <3>5, <4>1, <4>3
      <4>4. CASE ~Known(w, d, P.through, P.cutoff)
        <5>1. d \in factor
          BY <1>1, <3>6, <3>7, <4>1, <4>4
        <5>2. PICK x \in old : x.mature /\ x.day = d
          BY <3>7, <4>2, <5>1
        <5>3. PICK e \in 1 .. P.through : x = before(e)
          BY <3>3
        <5>4. e = d /\ Known(w, e, P.through, P.cutoff)
          BY <5>2, <5>3, TrueLabelsFields
        <5> QED
          BY <4>4, <5>4
      <4> QED
        BY <4>3, <4>4
    <3>8. ASSUME NEW d \in 1 .. T, d \notin fresh
          PROVE  row(d) \in {r \in old : r.day \notin fresh}
      <4>1. PICK x \in old : x.mature /\ x.day = d
        <5>1. CASE d \in factor
          BY <3>8, <5>1
        <5>2. CASE d \notin factor
          <6>1. d < read /\ read # 1 /\ d \in Nat
            BY <1>1, <5>2
          <6>2. d \in 1 .. P.through
            <7>1. read <= P.through - History(selected)
              BY <6>1 DEF Continues, Reaches
            <7>2. History(selected) \in Nat
              BY HistoryBounds
            <7> QED
              BY <1>1, <6>1, <7>1, <7>2
          <6>3. before(d) \in old
            BY <3>4, <6>1, <6>2
          <6>4. Known(w, d, P.through, P.cutoff)
            BY <1>1, <3>6, <6>1, <6>2, <6>3
          <6> QED
            BY <6>3, <6>4, TrueLabelsFields
        <5> QED
          BY <5>1, <5>2
      <4>2. PICK e \in 1 .. P.through : x = before(e)
        BY <3>3
      <4>3. e = d /\ Known(w, e, P.through, P.cutoff)
        BY <4>1, <4>2, TrueLabelsFields
      <4>4. x = row(d)
        BY <3>5, <4>2, <4>3
      <4> QED
        BY <3>8, <4>1, <4>4
    <3>9. WindowFrames(w, P, factor, factor, C)
            = {r \in old : r.day \notin fresh} \cup {WindowLabels(w, d, used, C) : d \in fresh}
      BY Zenon DEF WindowFrames
    <3> HIDE DEF fresh, used, old, row
    <3> QED
      BY <3>2, <3>7, <3>8, <3>9 DEF row
  <2>2. HorizonTables(P, factor, C, selected) = UNION {true(w) : w \in ReturnWindows}
    <3>1. HorizonTables(P, factor, C, selected)
            = UNION {WindowFrames(w, P, factor, factor, C) : w \in ReturnWindows}
      BY <1>3, Zenon DEF HorizonTables
    <3> HIDE DEF true
    <3> QED
      BY <2>1, <3>1
  <2>3. TrueHorizon(value, label, selected, T, C)
          = {TrueLabels(value, label, w, d, T, C) : w \in ReturnWindows, d \in 1 .. T}
    BY <1>3 DEF TrueHorizon
  <2> QED
    BY <2>2, <2>3
<1> QED
  BY <1>2, <1>3

\* Every pair of the planned target and later ones is read.
LEMMA PersistenceContinues ==
  ASSUME NEW P, NEW read, NEW T, NEW C, NEW selected,
         Continues(P, read, T, C, selected)
  PROVE  PersistenceTable(P, read .. T, selected) = TruePersistence(value, selected, T)
<1>1. /\ T \in Nat /\ read \in Nat \ {0} /\ P.through \in 0 .. T
  BY DaysType DEF Continues
<1>2. CASE selected \cap PersistenceFamily = {}
  BY <1>2 DEF PersistenceTable, TruePersistence
<1>3. CASE selected \cap PersistenceFamily # {}
  <2> DEFINE target == IF P.components \cap PersistenceFamily = {} THEN 0 ELSE P.through
             longest == Max(PersistenceLags)
             pairs == {p \in (read .. T) \X PersistenceLags :
                         /\ p[1] + p[2] \in read .. T
                         /\ p[1] + p[2] > target
                         /\ p[1] >= target - longest}
             all == {q \in (1 .. T) \X PersistenceLags : q[1] + q[2] <= T}
             early == {q \in (1 .. P.through) \X PersistenceLags : q[1] + q[2] <= P.through}
             row(p) == TruePair(value, p[1], p[2])
  <2>1. PersistenceTable(P, read .. T, selected) = P.persistence \cup {row(p) : p \in pairs}
    BY <1>3, Zenon DEF PersistenceTable, Persistence, TruePair
  <2>2. TruePersistence(value, selected, T) = {row(p) : p \in all}
    BY <1>3, Zenon DEF TruePersistence
  <2>3. target \in 0 .. T /\ longest \in Nat
    BY <1>1, LongestLag
  <2>4. ASSUME NEW p \in pairs PROVE p \in all
    <3>1. p[1] \in read .. T /\ p[2] \in PersistenceLags /\ p[1] + p[2] \in read .. T
          /\ p \in (read .. T) \X PersistenceLags
      OBVIOUS
    <3>2. p[1] \in 1 .. T /\ p[1] + p[2] <= T
      BY <1>1, <3>1
    <3> QED
      BY <3>1, <3>2
  <2>5. CASE P.components \cap PersistenceFamily = {}
    <3>1. P.persistence = {}
      BY <2>5 DEF Continues, Matches, TruePersistence
    <3>2. read = 1
      BY <1>3, <2>5 DEF Continues, Reaches, StartsFamily
    <3>3. ASSUME NEW p \in all PROVE p \in pairs
      <4>1. p[1] \in 1 .. T /\ p[2] \in Nat \ {0} /\ p[1] + p[2] <= T /\ target = 0
        BY <2>5, LongestLag
      <4>2. p[1] + p[2] \in read .. T /\ p[1] + p[2] > target /\ p[1] >= target - longest
        BY <1>1, <2>3, <3>2, <4>1
      <4> QED
        BY <3>2, <4>2
    <3>4. pairs = all
      BY <2>4, <3>3
    <3> HIDE DEF pairs, all, row
    <3> QED
      BY <2>1, <2>2, <3>1, <3>4
  <2>6. CASE P.components \cap PersistenceFamily # {}
    <3>1. P.persistence = {row(p) : p \in early}
      BY <2>6, Zenon DEF Continues, Matches, TruePersistence
    <3>2. target = P.through
      BY <2>6
    <3>3. ASSUME NEW p \in early PROVE p \in all
      <4>1. /\ p[1] \in 1 .. P.through /\ p[2] \in PersistenceLags /\ p[1] + p[2] <= P.through
            /\ p \in (1 .. P.through) \X PersistenceLags
        OBVIOUS
      <4>2. p[2] \in Nat
        BY <4>1, LongestLag
      <4>3. p[1] \in 1 .. T /\ p[1] + p[2] <= T
        BY <1>1, <4>1, <4>2
      <4> QED
        BY <4>1, <4>3
    <3>4. ASSUME NEW p \in all PROVE p \in early \/ p \in pairs
      <4>1. p[1] \in 1 .. T /\ p[2] \in PersistenceLags /\ p[1] + p[2] <= T
            /\ p \in (1 .. T) \X PersistenceLags
        OBVIOUS
      <4>2. p[2] \in Nat \ {0} /\ p[2] <= longest
        BY <4>1, LongestLag
      <4>3. CASE p[1] + p[2] <= P.through
        <5>1. p[1] \in 1 .. P.through
          BY <1>1, <4>1, <4>2, <4>3
        <5> QED
          BY <4>1, <4>3, <5>1
      <4>4. CASE p[1] + p[2] > P.through
        <5>1. read = 1 \/ read <= P.through - History(selected)
          BY DEF Continues, Reaches
        <5>2. History(selected) \in Nat /\ p[2] <= History(selected)
          BY <1>3, <4>1, HistoryBounds
        <5>3. read <= p[1]
          BY <1>1, <4>1, <4>2, <4>4, <5>1, <5>2
        <5>4. p[1] \in read .. T /\ p[1] + p[2] \in read .. T /\ p[1] >= target - longest
              /\ p[1] + p[2] > target
          BY <1>1, <2>3, <3>2, <4>1, <4>2, <4>4, <5>3
        <5> QED
          BY <4>1, <5>4
      <4> QED
        BY <1>1, <4>1, <4>2, <4>3, <4>4
    <3>5. all = early \cup pairs
      BY <2>4, <3>3, <3>4
    <3> HIDE DEF pairs, all, early, row
    <3> QED
      BY <2>1, <2>2, <3>1, <3>5
  <2> QED
    BY <2>5, <2>6
<1> QED
  BY <1>2, <1>3

-----------------------------------------------------------------------------
(* Weight paths: the sessions they trade on and book.                        *)

\* A session is traded on when its snapshot was read and has a Book.
LEMMA DatesType ==
  ASSUME NEW lag \in Int, NEW T \in Nat, NEW read \in Nat \ {0}
  PROVE  /\ \A s \in ShiftedDates(read .. T, lag, T) :
               s \in Int /\ 1 <= s /\ s <= T /\ read <= s - lag /\ s - lag <= T
               /\ s - lag \notin Degenerate
         /\ \A s \in 1 .. T : read <= s - lag /\ s - lag <= T /\ s - lag \notin Degenerate
               => s \in ShiftedDates(read .. T, lag, T)
         /\ IsFiniteSet(ShiftedDates(read .. T, lag, T))
<1> DEFINE dates == ShiftedDates(read .. T, lag, T)
<1>1. dates = {d + lag : d \in (read .. T) \ Degenerate} \cap (1 .. T)
  BY DEF ShiftedDates, Snapshots
<1>2. ASSUME NEW s \in dates
      PROVE  s \in Int /\ 1 <= s /\ s <= T /\ read <= s - lag /\ s - lag <= T
             /\ s - lag \notin Degenerate
  <2>1. PICK d \in read .. T : s = d + lag /\ d \notin Degenerate
    BY <1>1
  <2>2. s \in 1 .. T
    BY <1>1
  <2>3. d = s - lag
    BY <2>1, <2>2
  <2> QED
    BY <2>1, <2>2, <2>3
<1>3. ASSUME NEW s \in 1 .. T, read <= s - lag, s - lag <= T, s - lag \notin Degenerate
      PROVE  s \in dates
  <2> DEFINE d == s - lag
  <2>1. d \in read .. T /\ d \notin Degenerate /\ s = d + lag
    BY <1>3
  <2> HIDE DEF d
  <2> QED
    BY <1>1, <2>1
<1>4. IsFiniteSet(dates)
  <2>1. IsFiniteSet(1 .. T)
    BY FS_Interval
  <2>2. dates \subseteq 1 .. T
    BY <1>1
  <2> HIDE DEF dates
  <2> QED
    BY <2>1, <2>2, FS_Subset
<1> QED
  BY <1>2, <1>3, <1>4

\* The sessions a path trades on: those whose shifted session is on the
\* calendar and has weights.
LEMMA TrueDates ==
  ASSUME NEW lag \in Int, NEW T \in Nat
  PROVE  /\ \A s \in Dates(lag, T) :
               s \in Int /\ 1 <= s /\ s <= T /\ 1 <= s - lag /\ s - lag <= T
               /\ s - lag \notin Degenerate
         /\ \A s \in 1 .. T : 1 <= s - lag /\ s - lag <= T /\ s - lag \notin Degenerate
               => s \in Dates(lag, T)
         /\ IsFiniteSet(Dates(lag, T))
<1>1. 1 \in Nat \ {0}
  OBVIOUS
<1> QED
  BY <1>1, DatesType, Zenon DEF Dates

\* A longer calendar takes no trading session away.
LEMMA DatesGrow ==
  ASSUME NEW lag \in Int, NEW T \in Nat, NEW S \in 0 .. T
  PROVE  Dates(lag, S) \subseteq Dates(lag, T)
<1> SUFFICES ASSUME NEW s \in Dates(lag, S) PROVE s \in Dates(lag, T)
  OBVIOUS
<1>1. /\ s \in Int /\ 1 <= s /\ s <= S /\ 1 <= s - lag /\ s - lag <= S
      /\ s - lag \notin Degenerate /\ S \in Nat
  BY TrueDates
<1>2. s \in 1 .. T /\ 1 <= s - lag /\ s - lag <= T
  BY <1>1
<1> QED
  BY <1>1, <1>2, TrueDates

\* The last session of a path is one it trades on, but for the Book.
LEMMA LastDateType ==
  ASSUME NEW selected, NEW name \in RequiredPaths(selected), NEW T \in Nat
  PROVE  /\ name[1] = "book" => LastDate(name, T) = T
         /\ name[1] # "book" /\ Dates(name[2], T) # {} =>
              /\ LastDate(name, T) \in Dates(name[2], T)
              /\ \A s \in Dates(name[2], T) : s <= LastDate(name, T)
         /\ LastDate(name, T) \in 0 .. T
<1> DEFINE dates == Dates(name[2], T)
<1>1. /\ IsFiniteSet(dates) /\ dates \subseteq Int
      /\ \A s \in dates : s \in 1 .. T
  <2>1. name[2] \in Int
    BY PathLagBounds
  <2> QED
    BY <2>1, TrueDates
<1>2. CASE name[1] = "book" \/ dates = {}
  BY <1>2 DEF LastDate
<1>3. CASE ~(name[1] = "book" \/ dates = {})
  <2>1. LastDate(name, T) = Max(dates) /\ dates # {}
    BY <1>3 DEF LastDate
  <2> HIDE DEF dates
  <2>2. LastDate(name, T) \in dates /\ \A s \in dates : s <= LastDate(name, T)
    BY <1>1, <2>1, MaxMember
  <2>3. LastDate(name, T) \in 0 .. T
    <3>1. LastDate(name, T) \in 1 .. T
      BY <1>1, <2>2
    <3> QED
      BY <3>1
  <2> QED
    BY <1>3, <2>2, <2>3 DEF dates
<1> QED
  BY <1>2, <1>3

\* What booking a session says: it is on the calendar, every label up to it is
\* known, and the path has traded before it or on it.
LEMMA ActiveType ==
  ASSUME NEW selected, NEW name \in RequiredPaths(selected), NEW T \in Nat, NEW C,
         NEW t \in Active(name, T, C)
  PROVE  /\ t \in 1 .. T /\ t <= LastDate(name, T) /\ Dates(name[2], T) # {}
         /\ \A u \in 1 .. t : Mature(u, C)
         /\ \E s \in Dates(name[2], T) : s <= t
  BY DEF Active

\* Sessions that are traded on only now come after everything booked before:
\* the holdings of a booked session never change.
LEMMA NewDatesLater ==
  ASSUME NEW selected, NEW name \in RequiredPaths(selected),
         NEW T \in Nat, NEW S \in 0 .. T, NEW B,
         NEW s \in Dates(name[2], T), s \notin Dates(name[2], S),
         NEW t \in Active(name, S, B)
  PROVE  t < s
<1> DEFINE lag == name[2]
<1>1. lag \in Int /\ (name[1] = "book" => lag = 0)
  BY PathLagBounds
<1>2. S \in Nat /\ T \in Nat /\ S <= T
  OBVIOUS
<1>3. /\ s \in Int /\ 1 <= s /\ s <= T /\ 1 <= s - lag /\ s - lag <= T
      /\ s - lag \notin Degenerate
  BY <1>1, TrueDates
<1>4. t \in 1 .. S /\ t <= LastDate(name, S) /\ Dates(lag, S) # {}
  BY <1>2, ActiveType
<1>5. s > S \/ s - lag > S
  <2> SUFFICES ASSUME s <= S, s - lag <= S PROVE FALSE
    BY <1>1, <1>2, <1>3
  <2>1. s \in 1 .. S
    BY <1>2, <1>3
  <2> QED
    BY <1>1, <1>2, <1>3, <2>1, TrueDates
<1>6. CASE s > S
  BY <1>2, <1>3, <1>4, <1>6
<1>7. CASE s - lag > S /\ name[1] = "book"
  BY <1>1, <1>2, <1>3, <1>4, <1>7
<1>8. CASE s - lag > S /\ name[1] # "book"
  <2> DEFINE last == LastDate(name, S)
  <2>1. last \in Dates(lag, S)
    BY <1>2, <1>4, <1>8, LastDateType
  <2>2. last \in Int /\ last - lag <= S
    BY <1>1, <1>2, <2>1, TrueDates
  <2> QED
    BY <1>1, <1>2, <1>3, <1>4, <1>8, <2>2
<1> QED
  BY <1>5, <1>6, <1>7, <1>8

\* What a path has booked stays booked.
LEMMA ActiveGrows ==
  ASSUME available \in [AlphaDays -> Nat],
         NEW selected, NEW name \in RequiredPaths(selected),
         NEW T \in AlphaDays, NEW S \in 0 .. T, NEW C \in Nat, NEW B \in 0 .. C
  PROVE  Active(name, S, B) \subseteq Active(name, T, C)
<1> SUFFICES ASSUME NEW t \in Active(name, S, B) PROVE t \in Active(name, T, C)
  OBVIOUS
<1>1. T \in Nat /\ S \in Nat /\ S <= T /\ name[2] \in Int
  BY DaysType, PathLagBounds
<1>2. /\ t \in 1 .. S /\ t <= LastDate(name, S) /\ Dates(name[2], S) # {}
      /\ \A u \in 1 .. t : Mature(u, B)
      /\ \E s \in Dates(name[2], S) : s <= t
  BY <1>1, ActiveType
<1>3. Dates(name[2], S) \subseteq Dates(name[2], T)
  BY <1>1, DatesGrow
<1>4. t \in 1 .. T
  BY <1>1, <1>2
<1>5. \A u \in 1 .. t : Mature(u, C)
  <2>1. 1 .. t \subseteq AlphaDays
    BY <1>4, DaysType
  <2> QED
    BY <1>2, <2>1, MatureStays
<1>6. t <= LastDate(name, T)
  <2>1. CASE name[1] = "book"
    BY <1>1, <1>4, <2>1, LastDateType
  <2>2. CASE name[1] # "book"
    <3>1. LastDate(name, S) \in Dates(name[2], S)
      BY <1>1, <1>2, <2>2, LastDateType
    <3>2. LastDate(name, S) <= LastDate(name, T)
      BY <1>1, <1>3, <2>2, <3>1, LastDateType
    <3>3. LastDate(name, S) \in 0 .. S /\ LastDate(name, T) \in 0 .. T
      BY <1>1, LastDateType
    <3> QED
      BY <1>1, <1>2, <3>2, <3>3
  <2> QED
    BY <2>1, <2>2
<1> QED
  BY <1>2, <1>3, <1>4, <1>5, <1>6 DEF Active

\* And nothing before it is booked later.
LEMMA ActiveBefore ==
  ASSUME NEW selected, NEW name \in RequiredPaths(selected),
         NEW T \in Nat, NEW S \in 0 .. T, NEW C, NEW B,
         NEW c \in Active(name, S, B), NEW t \in Active(name, T, C), t <= c
  PROVE  t \in Active(name, S, B)
<1>1. S \in Nat /\ T \in Nat /\ S <= T /\ name[2] \in Int
  BY PathLagBounds
<1>2. /\ c \in 1 .. S /\ c <= LastDate(name, S)
      /\ \A u \in 1 .. c : Mature(u, B)
  BY <1>1, ActiveType
<1>3. t \in 1 .. T /\ \E s \in Dates(name[2], T) : s <= t
  BY <1>1, ActiveType
<1>4. PICK s \in Dates(name[2], T) : s <= t
  BY <1>3
<1>5. s \in Dates(name[2], S)
  <2> SUFFICES ASSUME s \notin Dates(name[2], S) PROVE FALSE
    OBVIOUS
  <2>1. c < s
    BY <1>1, NewDatesLater
  <2>2. s \in Int
    BY <1>1, TrueDates
  <2> QED
    BY <1>2, <1>3, <1>4, <2>1, <2>2
<1>6. LastDate(name, S) \in Int
  <2>1. LastDate(name, S) \in 0 .. S
    BY <1>1, LastDateType
  <2> QED
    BY <2>1
<1>7. t \in 1 .. S /\ t <= LastDate(name, S) /\ 1 .. t \subseteq 1 .. c
  BY <1>1, <1>2, <1>3, <1>6
<1> QED
  BY <1>2, <1>4, <1>5, <1>7 DEF Active

\* A row that was booked stays the same on a longer calendar.
LEMMA RowKept ==
  ASSUME NEW selected, NEW name \in RequiredPaths(selected),
         NEW T \in Nat, NEW S \in 0 .. T, NEW B, NEW t \in Active(name, S, B), NEW v, NEW l
  PROVE  /\ t \in Dates(name[2], S) <=> t \in Dates(name[2], T)
         /\ TrueRow(v, l, name, t, S) = TrueRow(v, l, name, t, T)
<1>1. S \in Nat /\ T \in Nat /\ name[2] \in Int
  BY PathLagBounds
<1>2. Dates(name[2], S) \subseteq Dates(name[2], T)
  BY <1>1, DatesGrow
<1>3. t \in Int
  BY <1>1, ActiveType
<1>4. ASSUME NEW s \in Dates(name[2], T), s <= t PROVE s \in Dates(name[2], S)
  <2> SUFFICES ASSUME s \notin Dates(name[2], S) PROVE FALSE
    OBVIOUS
  <2>1. t < s
    BY <1>1, NewDatesLater
  <2>2. s \in Int
    BY <1>1, TrueDates
  <2> QED
    BY <1>3, <1>4, <2>1, <2>2
<1>5. t \in Dates(name[2], S) <=> t \in Dates(name[2], T)
  <2>1. t <= t
    BY <1>3
  <2> QED
    BY <1>2, <1>4, <2>1
<1>6. (\E s \in Dates(name[2], S) : s < t) <=> (\E s \in Dates(name[2], T) : s < t)
  <2>1. ASSUME NEW s \in Dates(name[2], T), s < t PROVE s \in Dates(name[2], S)
    <3>1. s \in Int
      BY <1>1, TrueDates
    <3>2. s <= t
      BY <1>3, <2>1, <3>1
    <3> QED
      BY <1>4, <3>2
  <2> QED
    BY <1>2, <2>1
<1> QED
  BY <1>5, <1>6 DEF TrueRow

\* Where a path continues: after the session c that it booked last, or from
\* nothing and with everything read.
Resumes(name, read, T, C, c) ==
  \/ c = 0 /\ read = 1
  \/ /\ \E S \in 0 .. T, B \in 0 .. C : c \in Active(name, S, B)
     /\ read = 1 \/ read <= c - PathLag(name)

Later(name, T, C, c) == {t \in Active(name, T, C) : t > c}

\* The sessions of an update that the path may book.
Within(name, read, T) == {t \in read .. T : t <= LastDate(name, T)}

LaterRows(v, l, name, T, C, c) == {TrueRow(v, l, name, t, T) : t \in Later(name, T, C, c)}

\* The sessions traded on from the checkpoint on are all read.
LEMMA ResumedDates ==
  ASSUME NEW selected, NEW name \in RequiredPaths(selected),
         NEW T \in Nat, NEW C, NEW read \in Nat \ {0}, NEW c \in 0 .. T,
         Resumes(name, read, T, C, c)
  PROVE  /\ ShiftedDates(read .. T, name[2], T) \subseteq Dates(name[2], T)
         /\ \A s \in Dates(name[2], T) : s >= c => s \in ShiftedDates(read .. T, name[2], T)
<1>1. name[2] \in Int /\ PathLag(name) \in Nat /\ name[2] <= PathLag(name)
  BY PathLagBounds
<1>2. ASSUME NEW s \in ShiftedDates(read .. T, name[2], T) PROVE s \in Dates(name[2], T)
  <2>1. s \in Int /\ 1 <= s /\ s <= T /\ read <= s - name[2] /\ s - name[2] <= T
        /\ s - name[2] \notin Degenerate
    BY <1>1, DatesType
  <2>2. s \in 1 .. T /\ 1 <= s - name[2]
    BY <1>1, <2>1
  <2> QED
    BY <1>1, <2>1, <2>2, TrueDates
<1>3. ASSUME NEW s \in Dates(name[2], T), s >= c
      PROVE  s \in ShiftedDates(read .. T, name[2], T)
  <2>1. s \in Int /\ 1 <= s /\ s <= T /\ 1 <= s - name[2] /\ s - name[2] <= T
        /\ s - name[2] \notin Degenerate
    BY <1>1, TrueDates
  <2>2. read = 1 \/ read <= c - PathLag(name)
    BY DEF Resumes
  <2>3. s \in 1 .. T /\ read <= s - name[2]
    BY <1>1, <1>3, <2>1, <2>2
  <2> QED
    BY <1>1, <2>1, <2>3, DatesType
<1> QED
  BY <1>2, <1>3

\* The last session a path may book is the same as from the first session.
LEMMA ResumedLast ==
  ASSUME NEW selected, NEW name \in RequiredPaths(selected),
         NEW T \in Nat, NEW C, NEW read \in Nat \ {0}, NEW c \in 0 .. T,
         Resumes(name, read, T, C, c)
  PROVE  LET dates == ShiftedDates(read .. T, name[2], T)
         IN  (IF name[1] = "book" \/ dates = {} THEN T ELSE Max(dates)) = LastDate(name, T)
<1> DEFINE dates == ShiftedDates(read .. T, name[2], T)
           all == Dates(name[2], T)
<1>1. name[2] \in Int
  BY PathLagBounds
<1>2. dates \subseteq all /\ \A s \in all : s >= c => s \in dates
  BY ResumedDates
<1>3. CASE name[1] = "book"
  BY <1>3 DEF LastDate
<1>4. CASE name[1] # "book" /\ all = {}
  BY <1>2, <1>4 DEF LastDate
<1>5. CASE name[1] # "book" /\ all # {}
  <2> DEFINE last == LastDate(name, T)
  <2>1. last \in all /\ (\A s \in all : s <= last) /\ last \in Int
    BY <1>1, <1>5, LastDateType, TrueDates
  <2>2. c <= last
    <3>1. CASE c = 0
      <4>1. 1 <= last
        BY <1>1, <2>1, TrueDates
      <4> QED
        BY <2>1, <3>1, <4>1
    <3>2. CASE c # 0
      <4>1. PICK S \in 0 .. T, B \in 0 .. C : c \in Active(name, S, B)
        BY <3>2 DEF Resumes
      <4>2. S \in Nat
        OBVIOUS
      <4>3. c <= LastDate(name, S) /\ Dates(name[2], S) # {}
        BY <4>1, <4>2, ActiveType
      <4>4. LastDate(name, S) \in Dates(name[2], S)
        BY <1>5, <4>2, <4>3, LastDateType
      <4>5. LastDate(name, S) \in all
        BY <1>1, <4>4, DatesGrow
      <4>6. LastDate(name, S) <= last /\ LastDate(name, S) \in Int
        BY <1>1, <2>1, <4>5, TrueDates
      <4> QED
        BY <2>1, <4>3, <4>6
    <3> QED
      BY <3>1, <3>2
  <2>3. last \in dates
    BY <1>2, <2>1, <2>2
  <2>4. IsFiniteSet(dates) /\ dates \subseteq Int
    BY <1>1, DatesType
  <2>5. Max(dates) = last
    <3> HIDE DEF dates, all, last
    <3>1. Max(dates) \in dates /\ last <= Max(dates)
      BY <2>3, <2>4, MaxMember
    <3>2. Max(dates) <= last /\ Max(dates) \in Int
      BY <1>2, <2>1, <2>4, <3>1
    <3> QED
      BY <2>1, <3>1, <3>2
  <2> QED
    BY <1>5, <2>3, <2>5
<1> QED
  BY <1>3, <1>4, <1>5

\* What a path books next.
LEMMA ResumedPanels ==
  ASSUME available \in [AlphaDays -> Nat],
         NEW selected, NEW name \in RequiredPaths(selected),
         NEW T \in AlphaDays, NEW C \in Nat, NEW read \in Nat \ {0}, NEW c \in 0 .. T,
         Resumes(name, read, T, C, c)
  PROVE  BookedPanels(ShiftedDates(read .. T, name[2], T), Within(name, read, T), c, C)
           = Later(name, T, C, c)
<1> DEFINE dates == ShiftedDates(read .. T, name[2], T)
           supplied == Within(name, read, T)
           panels == {t \in supplied : t > c}
           booked == {t \in panels : \A u \in panels : u <= t => Mature(u, C)}
           result == IF c > 0 THEN booked
                     ELSE {t \in booked : \E s \in dates : s <= t /\ s \in booked}
<1>1. /\ T \in Nat /\ c \in Nat /\ c <= T /\ 1 .. T \subseteq AlphaDays
      /\ name[2] \in Int /\ LastDate(name, T) \in Int
      /\ PathLag(name) \in Nat
  <2>1. T \in Nat /\ 1 .. T \subseteq AlphaDays
    BY DaysType
  <2>2. LastDate(name, T) \in 0 .. T
    BY <2>1, LastDateType
  <2> QED
    BY <2>1, <2>2, PathLagBounds
<1>2. dates \subseteq Dates(name[2], T) /\ \A s \in Dates(name[2], T) : s >= c => s \in dates
  BY <1>1, ResumedDates
<1>3. \A t \in panels : t \in Int /\ t > c /\ t <= T /\ t <= LastDate(name, T) /\ t \in 1 .. T
  BY <1>1 DEF Within
<1>4. ASSUME NEW t \in 1 .. T, t > c, t <= LastDate(name, T) PROVE t \in panels
  <2>1. read = 1 \/ read <= c
    BY <1>1 DEF Resumes
  <2> QED
    BY <1>1, <1>4, <2>1 DEF Within
<1>5. ASSUME c # 0
      PROVE  /\ \A u \in 1 .. c : Mature(u, C)
             /\ \E s \in Dates(name[2], T) : s <= c
  <2>1. PICK S \in 0 .. T, B \in 0 .. C : c \in Active(name, S, B)
    BY <1>5 DEF Resumes
  <2>2. c \in Active(name, T, C)
    BY <2>1, ActiveGrows
  <2> QED
    BY <1>1, <2>2, ActiveType
<1>6. ASSUME NEW t \in result PROVE t \in Later(name, T, C, c)
  <2>1. t \in booked /\ t \in panels
    OBVIOUS
  <2>2. t \in 1 .. T /\ t > c /\ t <= LastDate(name, T)
    BY <1>3, <2>1
  <2>3. \A u \in 1 .. t : Mature(u, C)
    <3> TAKE u \in 1 .. t
    <3>1. CASE u <= c
      <4>1. u \in 1 .. c /\ c # 0
        BY <1>1, <3>1
      <4> QED
        BY <1>5, <4>1
    <3>2. CASE u > c
      <4>1. u \in 1 .. T /\ u <= LastDate(name, T) /\ u <= t
        BY <1>1, <2>2
      <4>2. u \in panels
        BY <1>4, <3>2, <4>1
      <4> HIDE DEF panels
      <4> QED
        BY <2>1, <4>1, <4>2
    <3> QED
      BY <1>1, <3>1, <3>2
  <2>4. \E s \in Dates(name[2], T) : s <= t
    <3>1. CASE c = 0
      <4>1. \E s \in dates : s <= t
        BY <3>1
      <4> HIDE DEF dates
      <4> QED
        BY <1>2, <4>1
    <3>2. CASE c # 0
      <4>1. PICK s \in Dates(name[2], T) : s <= c
        BY <1>5, <3>2
      <4>2. s \in Int
        BY <1>1, TrueDates
      <4>3. s <= t
        BY <1>1, <2>2, <4>1, <4>2
      <4> QED
        BY <4>3
    <3> QED
      BY <3>1, <3>2
  <2> QED
    BY <2>2, <2>3, <2>4 DEF Active, Later
<1>7. ASSUME NEW t \in Later(name, T, C, c) PROVE t \in result
  <2>1. t \in Active(name, T, C) /\ t > c
    BY DEF Later
  <2>2. /\ t \in 1 .. T /\ t <= LastDate(name, T)
        /\ \A u \in 1 .. t : Mature(u, C)
        /\ \E s \in Dates(name[2], T) : s <= t
    BY <1>1, <2>1, ActiveType
  <2>3. ASSUME NEW u \in panels, u <= t PROVE u \in booked
    <3>1. ASSUME NEW x \in panels, x <= u PROVE Mature(x, C)
      <4>1. x \in 1 .. T /\ u \in Int
        BY <1>3
      <4>2. x \in 1 .. t
        BY <2>2, <2>3, <3>1, <4>1
      <4> QED
        BY <2>2, <4>2
    <3> HIDE DEF panels
    <3> QED
      BY <2>3, <3>1
  <2>4. t \in panels
    BY <1>4, <2>1, <2>2
  <2>5. t \in booked
    <3>1. t <= t
      BY <2>2
    <3> HIDE DEF panels, booked
    <3> QED
      BY <2>3, <2>4, <3>1
  <2>6. CASE c > 0
    <3> HIDE DEF panels, booked
    <3> QED
      BY <2>5, <2>6
  <2>7. CASE ~(c > 0)
    <3>1. PICK s \in Dates(name[2], T) : s <= t
      BY <2>2
    <3>2. s \in Int /\ 1 <= s /\ s <= T
      BY <1>1, TrueDates
    <3>3. c = 0 /\ s > c /\ s >= c /\ s \in 1 .. T /\ s <= LastDate(name, T)
      BY <1>1, <2>2, <2>7, <3>1, <3>2
    <3>4. s \in panels /\ s \in dates
      BY <1>2, <1>4, <3>3
    <3>5. s \in booked
      <4> HIDE DEF panels, booked
      <4> QED
        BY <2>3, <3>1, <3>4
    <3> HIDE DEF panels, booked, dates
    <3> QED
      BY <2>5, <2>7, <3>1, <3>4, <3>5
  <2> QED
    BY <2>6, <2>7
<1>8. result = Later(name, T, C, c)
  <2> HIDE DEF result
  <2> QED
    BY <1>6, <1>7
<1>9. BookedPanels(dates, supplied, c, C) = result
  <2> HIDE DEF dates, supplied
  <2> QED
    BY Zenon DEF BookedPanels, result, booked, panels
<1> QED
  BY <1>8, <1>9

\* A path simulated from a checkpoint books, after the checkpoint, the rows of
\* one evaluation.
LEMMA ResumedRows ==
  ASSUME available \in [AlphaDays -> Nat],
         NEW selected, NEW name \in RequiredPaths(selected),
         NEW T \in AlphaDays, NEW C \in Nat, NEW read \in Nat \ {0}, NEW c \in 0 .. T,
         Resumes(name, read, T, C, c)
  PROVE  SimulateWeightReturns(ShiftedDates(read .. T, name[2], T), name[2],
                               Within(name, read, T), c, C)
           = LaterRows(value, label, name, T, C, c)
<1> DEFINE dates == ShiftedDates(read .. T, name[2], T)
           all == Dates(name[2], T)
           supplied == Within(name, read, T)
           active == Later(name, T, C, c)
           earlier(t) == {u \in active : u < t}
           after(t) == IF earlier(t) = {} THEN c ELSE Max(earlier(t))
           row(t) == [day |-> t, after |-> after(t),
                      snapshot |-> IF t \in dates THEN {value[t - name[2]]} ELSE {},
                      label |-> label[t]]
<1>1. T \in Nat /\ c \in Nat /\ c <= T /\ name[2] \in Int
  BY DaysType, PathLagBounds
<1>2. dates \subseteq all /\ \A s \in all : s >= c => s \in dates
  BY <1>1, ResumedDates
<1>3. ASSUME NEW t \in active
      PROVE  /\ t \in 1 .. T /\ t > c /\ t <= LastDate(name, T)
             /\ \A u \in 1 .. t : Mature(u, C)
             /\ \E s \in all : s <= t
  BY <1>1, ActiveType DEF Later
<1>4. ASSUME NEW t \in active, NEW s \in all, s < t, t - 1 > c
      PROVE  t - 1 \in active
  <2>1. /\ t \in Int /\ 1 <= t /\ t <= T /\ t <= LastDate(name, T)
        /\ \A u \in 1 .. t : Mature(u, C)
    BY <1>3
  <2>2. LastDate(name, T) \in Int
    <3>1. LastDate(name, T) \in 0 .. T
      BY <1>1, LastDateType
    <3> QED
      BY <3>1
  <2>3. s \in Int
    BY <1>1, TrueDates
  <2>4. /\ t - 1 \in 1 .. T /\ t - 1 <= LastDate(name, T) /\ s <= t - 1
        /\ 1 .. (t - 1) \subseteq 1 .. t
    BY <1>1, <1>4, <2>1, <2>2, <2>3
  <2>5. \A u \in 1 .. (t - 1) : Mature(u, C)
    BY <2>1, <2>4
  <2>6. t - 1 \in Active(name, T, C)
    BY <2>4, <2>5 DEF Active
  <2> QED
    BY <1>4, <2>6 DEF Later
<1>5. ASSUME NEW t \in active, t - 1 \in active PROVE after(t) = t - 1
  <2>1. t \in 1 .. T /\ t - 1 < t
    BY <1>3
  <2>2. t - 1 \in earlier(t) /\ earlier(t) # {}
    BY <1>5, <2>1
  <2>3. \A u \in earlier(t) : u \in 1 .. T /\ u < t
    BY <1>3
  <2>4. Max(earlier(t)) = t - 1
    <3> DEFINE E == earlier(t)
               m == Max(E)
    <3>1. E \subseteq 1 .. T /\ IsFiniteSet(1 .. T)
      BY <1>1, <2>3, FS_Interval
    <3>2. t - 1 \in E /\ (\A u \in E : u \in 1 .. T /\ u < t)
      BY <2>2, <2>3
    <3> HIDE DEF E
    <3>3. IsFiniteSet(E) /\ E \subseteq Int /\ E # {}
      <4>1. E \in SUBSET (1 .. T)
        BY <3>1
      <4>2. IsFiniteSet(E)
        BY <3>1, <4>1, FS_Subset
      <4> QED
        BY <3>1, <3>2, <4>2
    <3>4. m \in E /\ t - 1 <= m
      BY <3>2, <3>3, MaxMember
    <3> HIDE DEF m
    <3>5. m = t - 1
      BY <2>1, <3>2, <3>4
    <3> QED
      BY <3>5, Zenon DEF m, E
  <2> QED
    BY <2>2, <2>4
<1>6. ASSUME NEW t \in active
      PROVE  after(t) = IF \E s \in all : s < t THEN t - 1 ELSE 0
  <2>1. t \in 1 .. T /\ t > c
    BY <1>3
  <2>2. CASE t - 1 \in active
    <3>1. PICK s \in all : s <= t - 1
      BY <1>3, <2>2
    <3>2. s < t
      BY <1>1, <2>1, <3>1, TrueDates
    <3> HIDE DEF after, active, all
    <3> QED
      BY <1>5, <2>2, <3>2
  <2>3. CASE t - 1 \notin active
    <3>1. earlier(t) = {}
      <4> SUFFICES ASSUME NEW u \in active, u < t PROVE FALSE
        OBVIOUS
      <4>1. u \in 1 .. T /\ u > c
        BY <1>3
      <4>2. PICK s \in all : s <= u
        BY <1>3
      <4>3. s \in Int
        BY <1>1, TrueDates
      <4>4. s < t /\ t - 1 > c
        BY <1>1, <2>1, <4>1, <4>2, <4>3
      <4> QED
        BY <1>4, <2>3, <4>4
    <3>2. after(t) = c
      BY <3>1
    <3>3. ASSUME NEW s \in all, s < t PROVE c = t - 1
      <4>1. ~(t - 1 > c)
        BY <1>4, <2>3, <3>3
      <4> QED
        BY <1>1, <2>1, <4>1
    <3>4. CASE c = 0
      <4>1. (\E s \in all : s < t) => c = t - 1
        BY <3>3
      <4> HIDE DEF after, active, all
      <4> QED
        BY <3>2, <3>4, <4>1
    <3>5. CASE c # 0
      <4>1. PICK S \in 0 .. T, B \in 0 .. C : c \in Active(name, S, B)
        BY <3>5 DEF Resumes
      <4>2. c \in Active(name, T, C)
        BY <4>1, ActiveGrows
      <4>3. PICK s \in all : s <= c
        BY <1>1, <4>2, ActiveType
      <4>4. s \in Int
        BY <1>1, TrueDates
      <4>5. s < t
        BY <1>1, <2>1, <4>3, <4>4
      <4>6. c = t - 1
        BY <3>3, <4>5
      <4> HIDE DEF after, active, all
      <4> QED
        BY <3>2, <4>5, <4>6
    <3> QED
      BY <3>4, <3>5
  <2> QED
    BY <2>2, <2>3
<1>7. ASSUME NEW t \in active PROVE row(t) = TrueRow(value, label, name, t, T)
  <2>1. t \in dates <=> t \in all
    BY <1>1, <1>2, <1>3
  <2> HIDE DEF dates, after, active
  <2> QED
    BY <1>6, <2>1 DEF TrueRow
<1>8. BookedPanels(dates, supplied, c, C) = active
  BY ResumedPanels
<1>9. SimulateWeightReturns(dates, name[2], supplied, c, C) = {row(t) : t \in active}
  <2> HIDE DEF dates, supplied, active
  <2> QED
    BY <1>8 DEF SimulateWeightReturns
<1> HIDE DEF row, active
<1> QED
  BY <1>7, <1>9 DEF active, LaterRows

\* The checkpoint of a path is the last session it booked.
LEMMA CheckpointRows ==
  ASSUME NEW selected, NEW name \in RequiredPaths(selected), NEW S \in Nat, NEW B
  PROVE  LET rows == TrueRows(value, label, name, S, B)
         IN  /\ rows = {} <=> Active(name, S, B) = {}
             /\ rows = {} => Checkpoint(rows) = 0
             /\ rows # {} => /\ Checkpoint(rows) \in Active(name, S, B)
                             /\ \A t \in Active(name, S, B) : t <= Checkpoint(rows)
<1> DEFINE rows == TrueRows(value, label, name, S, B)
           active == Active(name, S, B)
<1>1. rows = {TrueRow(value, label, name, t, S) : t \in active}
  BY DEF TrueRows
<1>2. \A t : TrueRow(value, label, name, t, S).day = t
  BY DEF TrueRow
<1>3. {r.day : r \in rows} = active
  <2> HIDE DEF rows, active
  <2> QED
    BY <1>1, <1>2
<1>4. active \subseteq Int /\ IsFiniteSet(active)
  <2>1. active \in SUBSET (1 .. S)
    BY DEF Active
  <2>2. IsFiniteSet(1 .. S)
    BY FS_Interval
  <2> HIDE DEF active
  <2>3. IsFiniteSet(active)
    BY <2>1, <2>2, FS_Subset
  <2> QED
    BY <2>1, <2>3
<1>5. rows = {} <=> active = {}
  <2> HIDE DEF rows, active
  <2> QED
    BY <1>1
<1>6. Checkpoint(rows) = IF rows = {} THEN 0 ELSE Max(active)
  <2> HIDE DEF rows, active
  <2> QED
    BY <1>3, Zenon DEF Checkpoint
<1> HIDE DEF rows, active
<1>7. active # {} => Max(active) \in active /\ \A t \in active : t <= Max(active)
  BY <1>4, MaxMember
<1> QED
  BY <1>5, <1>6, <1>7 DEF rows, active

\* A result that matches the inputs saves the rows of one evaluation.
LEMMA SavedRows ==
  ASSUME NEW P, Matches(P, value, label), NEW name
  PROVE  SavedPath(P, name)
           = IF name \in RequiredPaths(P.components)
             THEN TrueRows(value, label, name, P.through, P.cutoff) ELSE {}
<1> DEFINE rows(n) == TrueRows(value, label, n, P.through, P.cutoff)
           here == {p \in P.paths : p.name = name}
<1>1. P.paths = {[name |-> n, rows |-> rows(n)] : n \in RequiredPaths(P.components)}
  BY DEF Matches, TruePaths
<1>2. SavedPath(P, name) = UNION {p.rows : p \in here}
  BY DEF SavedPath
<1> HIDE DEF rows
<1>3. CASE name \in RequiredPaths(P.components)
  <2>1. here = {[name |-> name, rows |-> rows(name)]}
    BY <1>1, <1>3
  <2> HIDE DEF here
  <2>2. {p.rows : p \in here} = {rows(name)}
    BY <2>1
  <2>3. UNION {rows(name)} = rows(name)
    OBVIOUS
  <2> QED
    BY <1>2, <1>3, <2>2, <2>3 DEF rows
<1>4. CASE name \notin RequiredPaths(P.components)
  <2>1. here = {}
    BY <1>1, <1>4
  <2> HIDE DEF here
  <2> QED
    BY <1>2, <1>4, <2>1
<1> QED
  BY <1>3, <1>4

\* A path of a family that is evaluated for the first time starts a family.
LEMMA NewPathStarts ==
  ASSUME NEW prior, NEW selected, NEW name \in RequiredPaths(selected),
         name \notin RequiredPaths(prior)
  PROVE  StartsFamily(prior, selected)
  BY DEF RequiredPaths, StartsFamily

\* A path whose rows are kept up to the checkpoint and simulated after it has
\* the rows of one evaluation.
LEMMA PathContinues ==
  ASSUME Typed, NEW P, NEW read, NEW T, NEW C, NEW selected,
         Continues(P, read, T, C, selected), NEW name \in RequiredPaths(selected)
  PROVE  RunPath(name, P, read .. T, read .. T, T, C)
           = [name |-> name, rows |-> TrueRows(value, label, name, T, C)]
<1> DEFINE S == P.through
           B == P.cutoff
           old == SavedPath(P, name)
           c == Checkpoint(old)
           before == Active(name, S, B)
           after == Active(name, T, C)
           row(t) == TrueRow(value, label, name, t, T)
<1>1. /\ T \in AlphaDays /\ T \in Nat /\ C \in Nat /\ read \in Nat \ {0}
      /\ S \in 0 .. T /\ S \in Nat /\ B \in 0 .. C
      /\ available \in [AlphaDays -> Nat] /\ Matches(P, value, label)
  BY DaysType DEF Continues, Typed
<1>2. old = IF name \in RequiredPaths(P.components)
            THEN TrueRows(value, label, name, S, B) ELSE {}
  BY <1>1, SavedRows
<1> HIDE DEF old
<1>3. /\ c \in 0 .. T /\ Resumes(name, read, T, C, c)
      /\ old \cup LaterRows(value, label, name, T, C, c) = {row(t) : t \in after}
  <2>1. CASE old = {}
    <3>1. c = 0
      BY <2>1 DEF Checkpoint
    <3>2. read = 1
      <4> SUFFICES ASSUME read # 1 PROVE FALSE
        OBVIOUS
      <4>1. Reaches(P, read, selected)
        BY DEF Continues
      <4>2. name \in RequiredPaths(P.components)
        BY <4>1, NewPathStarts DEF Reaches
      <4>3. [name |-> name, rows |-> TrueRows(value, label, name, S, B)] \in P.paths
        BY <1>1, <4>2 DEF Matches, TruePaths
      <4>4. TrueRows(value, label, name, S, B) # {}
        <5> DEFINE p == [name |-> name, rows |-> TrueRows(value, label, name, S, B)]
        <5>1. p.rows # {}
          <6> HIDE DEF p
          <6> QED
            BY <4>1, <4>3 DEF Reaches, p
        <5> QED
          BY <5>1
      <4> QED
        BY <1>2, <2>1, <4>2, <4>4
    <3>3. Later(name, T, C, c) = after
      <4>1. \A t \in after : t > 0
        BY <1>1, ActiveType
      <4> QED
        BY <3>1, <4>1 DEF Later
    <3>4. LaterRows(value, label, name, T, C, c) = {row(t) : t \in after}
      <4> HIDE DEF c, after
      <4> QED
        BY <3>3 DEF LaterRows
    <3> HIDE DEF c, after, row
    <3> QED
      BY <1>1, <2>1, <3>1, <3>2, <3>4 DEF Resumes
  <2>2. CASE old # {}
    <3>1. name \in RequiredPaths(P.components) /\ old = TrueRows(value, label, name, S, B)
      BY <1>2, <2>2
    <3>2. c \in before /\ \A t \in before : t <= c
      BY <1>1, <2>2, <3>1, CheckpointRows
    <3>3. read = 1 \/ read <= c - PathLag(name)
      <4>1. [name |-> name, rows |-> old] \in P.paths
        BY <1>1, <3>1 DEF Matches, TruePaths
      <4> DEFINE p == [name |-> name, rows |-> old]
      <4>2. p.name = name /\ p.rows = old
        OBVIOUS
      <4> HIDE DEF p
      <4>3. p \in P.paths
        BY <4>1 DEF p
      <4>4. Reaches(P, read, selected) => read <= Checkpoint(p.rows) - PathLag(p.name)
        BY <4>3 DEF Reaches
      <4> QED
        BY <4>2, <4>4 DEF Continues
    <3>4. c \in 1 .. S
      BY <1>1, <3>2, ActiveType
    <3>5. c \in 0 .. T
      BY <1>1, <3>4
    <3>6. Resumes(name, read, T, C, c)
      <4> HIDE DEF c
      <4> QED
        BY <1>1, <3>2, <3>3 DEF Resumes
    <3>7. before \subseteq after
      BY <1>1, ActiveGrows
    <3>8. \A t \in after : t <= c => t \in before
      BY <1>1, <3>2, ActiveBefore
    <3>9. \A t \in after : t > c \/ t <= c
      <4>1. \A t \in after : t \in 1 .. T
        BY <1>1, ActiveType
      <4> HIDE DEF c, after
      <4> QED
        BY <3>5, <4>1
    <3>10. old = {row(t) : t \in before}
      <4>1. \A t \in before : TrueRow(value, label, name, t, S) = row(t)
        BY <1>1, RowKept
      <4>2. old = {TrueRow(value, label, name, t, S) : t \in before}
        BY <3>1 DEF TrueRows
      <4> HIDE DEF before, row
      <4> QED
        BY <4>1, <4>2
    <3>11. after = before \cup Later(name, T, C, c)
      <4> HIDE DEF before, after, c
      <4> QED
        BY <3>7, <3>8, <3>9 DEF Later, after
    <3>12. old \cup LaterRows(value, label, name, T, C, c) = {row(t) : t \in after}
      <4>1. LaterRows(value, label, name, T, C, c) = {row(t) : t \in Later(name, T, C, c)}
        <5> HIDE DEF c
        <5> QED
          BY DEF LaterRows
      <4> HIDE DEF before, after, c, row
      <4> QED
        BY <3>10, <3>11, <4>1
    <3> QED
      BY <3>5, <3>6, <3>12
  <2> QED
    BY <2>1, <2>2
<1>4. SimulateWeightReturns(ShiftedDates(read .. T, name[2], T), name[2],
                            Within(name, read, T), c, C)
        = LaterRows(value, label, name, T, C, c)
  <2> HIDE DEF c
  <2> QED
    BY <1>1, <1>3, ResumedRows
<1> DEFINE dates == ShiftedDates(read .. T, name[2], T)
<1>5. (IF name[1] = "book" \/ dates = {} THEN T ELSE Max(dates)) = LastDate(name, T)
  <2> HIDE DEF c
  <2> QED
    BY <1>1, <1>3, ResumedLast
<1>6. RunPath(name, P, read .. T, read .. T, T, C)
        = [name |-> name,
           rows |-> old \cup SimulateWeightReturns(dates, name[2],
                      Within(name, read, T), c, C)]
  <2> HIDE DEF dates
  <2> QED
    BY <1>5, Zenon DEF RunPath, Within, dates, old
<1>7. TrueRows(value, label, name, T, C) = {row(t) : t \in after}
  BY DEF TrueRows
<1> HIDE DEF row, after, c
<1> QED
  BY <1>3, <1>4, <1>6, <1>7

\* The same of every path the selection requires.
LEMMA PathsContinue ==
  ASSUME Typed, NEW P, NEW read, NEW T, NEW C, NEW selected,
         Continues(P, read, T, C, selected)
  PROVE  PathTables(P, read .. T, T, C, selected) = TruePaths(value, label, selected, T, C)
<1> DEFINE run(name) == RunPath(name, P, read .. T, read .. T, T, C)
           path(name) == [name |-> name, rows |-> TrueRows(value, label, name, T, C)]
<1>1. \A name \in RequiredPaths(selected) : run(name) = path(name)
  BY PathContinues
<1>2. /\ PathTables(P, read .. T, T, C, selected) = {run(name) : name \in RequiredPaths(selected)}
      /\ TruePaths(value, label, selected, T, C) = {path(name) : name \in RequiredPaths(selected)}
  BY DEF PathTables, TruePaths
<1> HIDE DEF run, path
<1> QED
  BY <1>1, <1>2

-----------------------------------------------------------------------------
(* Lagged paths, on the sessions they share.                                 *)

\* The two families of lagged paths.
LagFamily(kind, lags, component) ==
  \/ kind = "leadlag" /\ lags = LeadLags /\ component = "lead_lag"
  \/ kind = "alpha" /\ lags = AlphaLags /\ component = "alpha_return"

PathRows(paths, name) == UNION {p.rows : p \in {x \in paths : x.name = name}}
FrameRows(all, kind, lag) == {f.row : f \in {x \in all : x.kind = kind /\ x.lag = lag}}

RowsOn(kind, lag, dates, T) == {TrueRow(value, label, <<kind, lag>>, t, T) : t \in dates}

\* A row lies on its session.
LEMMA RowsOnDays ==
  ASSUME NEW kind, NEW lag, NEW dates, NEW T
  PROVE  {r.day : r \in RowsOn(kind, lag, dates, T)} = dates
<1>1. \A t : TrueRow(value, label, <<kind, lag>>, t, T).day = t
  BY DEF TrueRow
<1> QED
  BY <1>1 DEF RowsOn

\* A selected family requires the paths of all its lags.
LEMMA FamilyPaths ==
  ASSUME NEW kind, NEW lags, NEW component, LagFamily(kind, lags, component),
         NEW lag \in lags, NEW selected
  PROVE  /\ component \in selected <=> <<kind, lag>> \in RequiredPaths(selected)
         /\ <<kind, lag>>[1] = kind /\ <<kind, lag>>[2] = lag
  BY DEF LagFamily, RequiredPaths

\* The rows of one of the paths.
LEMMA PathRowsTrue ==
  ASSUME NEW selected, NEW T, NEW C, NEW name \in RequiredPaths(selected)
  PROVE  PathRows(TruePaths(value, label, selected, T, C), name)
           = TrueRows(value, label, name, T, C)
<1> DEFINE rows(n) == TrueRows(value, label, n, T, C)
           paths == TruePaths(value, label, selected, T, C)
           here == {p \in paths : p.name = name}
<1>1. paths = {[name |-> n, rows |-> rows(n)] : n \in RequiredPaths(selected)}
  BY DEF TruePaths
<1>2. PathRows(paths, name) = UNION {p.rows : p \in here}
  BY DEF PathRows
<1> HIDE DEF rows, paths
<1>3. here = {[name |-> name, rows |-> rows(name)]}
  BY <1>1
<1> HIDE DEF here
<1>4. {p.rows : p \in here} = {rows(name)}
  BY <1>3
<1>5. UNION {rows(name)} = rows(name)
  OBVIOUS
<1> QED
  BY <1>2, <1>4, <1>5 DEF rows, paths

\* The fields of a lagged row.
LEMMA FrameFields ==
  ASSUME NEW kind, NEW lag, NEW t, NEW T
  PROVE  /\ TrueFrame(value, label, kind, lag, t, T).kind = kind
         /\ TrueFrame(value, label, kind, lag, t, T).lag = lag
         /\ TrueFrame(value, label, kind, lag, t, T).row
              = TrueRow(value, label, <<kind, lag>>, t, T)
  BY DEF TrueFrame

\* A lagged row has a lag and a session that all lags share.
LEMMA FrameMember ==
  ASSUME NEW kind, NEW lags, NEW T, NEW C,
         NEW f \in TrueFrames(value, label, kind, lags, T, C)
  PROVE  \E lag \in lags, t \in Common(kind, lags, T, C) :
            f = TrueFrame(value, label, kind, lag, t, T)
  BY DEF TrueFrames

\* A lagged row is of its family.
LEMMA FramesKind ==
  ASSUME NEW kind, NEW lags, NEW T, NEW C,
         NEW f \in TrueFrames(value, label, kind, lags, T, C)
  PROVE  f.kind = kind
<1>1. PICK lag \in lags, t \in Common(kind, lags, T, C) :
         f = TrueFrame(value, label, kind, lag, t, T)
  BY FrameMember
<1> QED
  BY <1>1 DEF TrueFrame

\* The saved frames of a family that was evaluated.
LEMMA PriorFrames ==
  ASSUME NEW P, Matches(P, value, label),
         NEW kind, NEW lags, NEW component, LagFamily(kind, lags, component), NEW lag \in lags
  PROVE  FrameRows(P.lags, kind, lag)
           = RowsOn(kind, lag, IF component \in P.components
                               THEN Common(kind, lags, P.through, P.cutoff) ELSE {}, P.through)
<1> DEFINE S == P.through
           B == P.cutoff
           row(t) == TrueRow(value, label, <<kind, lag>>, t, S)
           dates == IF component \in P.components THEN Common(kind, lags, S, B) ELSE {}
           lead == IF "lead_lag" \in P.components
                   THEN TrueFrames(value, label, "leadlag", LeadLags, S, B) ELSE {}
           alpha == IF "alpha_return" \in P.components
                    THEN TrueFrames(value, label, "alpha", AlphaLags, S, B) ELSE {}
<1>1. P.lags = lead \cup alpha
  BY DEF Matches, TrueLags
<1>2. /\ \A f \in lead : f.kind = "leadlag"
      /\ \A f \in alpha : f.kind = "alpha"
  BY FramesKind, Zenon
<1>3. \A f \in P.lags : f.kind = kind /\ f.lag = lag => \E t \in dates : f.row = row(t)
  <2> SUFFICES ASSUME NEW f \in P.lags, f.kind = kind, f.lag = lag
               PROVE  \E t \in dates : f.row = row(t)
    OBVIOUS
  <2>1. f \in TrueFrames(value, label, kind, lags, S, B) /\ component \in P.components
    BY <1>1, <1>2 DEF LagFamily
  <2>2. PICK other \in lags, t \in Common(kind, lags, S, B) :
          f = TrueFrame(value, label, kind, other, t, S)
    BY <2>1, FrameMember
  <2>3. f.lag = other /\ f.row = TrueRow(value, label, <<kind, other>>, t, S)
    BY <2>2, FrameFields
  <2>4. t \in dates /\ f.row = row(t)
    BY <2>1, <2>3
  <2> QED
    BY <2>4
<1>4. ASSUME NEW t \in dates
      PROVE  \E f \in P.lags : f.kind = kind /\ f.lag = lag /\ f.row = row(t)
  <2> DEFINE f == TrueFrame(value, label, kind, lag, t, S)
  <2>1. component \in P.components /\ t \in Common(kind, lags, S, B)
    BY <1>4
  <2>2. f \in TrueFrames(value, label, kind, lags, S, B)
    BY <2>1 DEF TrueFrames
  <2>3. f \in P.lags
    BY <1>1, <2>1, <2>2 DEF LagFamily
  <2>4. f.kind = kind /\ f.lag = lag /\ f.row = row(t)
    BY FrameFields
  <2> HIDE DEF f, row
  <2> QED
    BY <2>3, <2>4
<1>5. FrameRows(P.lags, kind, lag) = {row(t) : t \in dates}
  <2> HIDE DEF row, dates
  <2> QED
    BY <1>3, <1>4 DEF FrameRows
<1> QED
  BY <1>5 DEF RowsOn

\* What the lags of a family have booked of their common sessions is booked on.
LEMMA CommonGrows ==
  ASSUME available \in [AlphaDays -> Nat],
         NEW selected, NEW kind, NEW lags,
         \A lag \in lags : <<kind, lag>> \in RequiredPaths(selected),
         NEW T \in AlphaDays, NEW S \in 0 .. T, NEW C \in Nat, NEW B \in 0 .. C
  PROVE  Common(kind, lags, S, B) \subseteq Common(kind, lags, T, C)
<1> SUFFICES ASSUME NEW t \in Common(kind, lags, S, B), NEW lag \in lags
             PROVE  t \in Active(<<kind, lag>>, T, C) /\ t \in Dates(lag, T)
  BY DEF Common
<1> DEFINE name == <<kind, lag>>
<1>1. name \in RequiredPaths(selected) /\ name[2] = lag
  OBVIOUS
<1>2. t \in Active(name, S, B) /\ t \in Dates(lag, S)
  BY DEF Common
<1>3. lag \in Int /\ T \in Nat
  BY <1>1, PathLagBounds, DaysType
<1> HIDE DEF name
<1>4. t \in Active(name, T, C)
  BY <1>1, <1>2, ActiveGrows
<1>5. t \in Dates(lag, T)
  BY <1>2, <1>3, DatesGrow
<1> QED
  BY <1>4, <1>5 DEF name

\* A common session that one lag no longer reads was common before.
LEMMA UnreadCommon ==
  ASSUME Typed, NEW P, NEW read, NEW T, NEW C, NEW selected,
         Continues(P, read, T, C, selected),
         NEW kind, NEW lags, NEW component, LagFamily(kind, lags, component),
         component \in selected,
         NEW t \in Common(kind, lags, T, C), NEW lag \in lags,
         t \notin ShiftedDates(read .. T, lag, T)
  PROVE  component \in P.components /\ t \in Common(kind, lags, P.through, P.cutoff)
<1> DEFINE S == P.through
           B == P.cutoff
           name == <<kind, lag>>
<1>1. /\ T \in AlphaDays /\ T \in Nat /\ C \in Nat /\ read \in Nat \ {0}
      /\ S \in 0 .. T /\ S \in Nat /\ B \in 0 .. C
      /\ available \in [AlphaDays -> Nat] /\ Matches(P, value, label)
  BY DaysType DEF Continues, Typed
<1>2. name \in RequiredPaths(selected) /\ name[1] = kind /\ name[2] = lag
  BY FamilyPaths
<1>3. PathLag(name) \in Nat /\ lag \in Int /\ lag <= PathLag(name)
  BY <1>2, PathLagBounds
<1>4. t \in Dates(lag, T) /\ t \in AlphaDays
  BY DEF Common
<1>5. t \in Int /\ t - lag < read /\ read # 1
  <2>1. t \in Int /\ 1 <= t /\ t <= T /\ 1 <= t - lag /\ t - lag <= T
        /\ t - lag \notin Degenerate
    BY <1>1, <1>3, <1>4, TrueDates
  <2>2. t \in 1 .. T
    BY <1>1, <2>1
  <2>3. ~(read <= t - lag)
    BY <1>1, <1>3, <2>1, <2>2, DatesType
  <2> QED
    BY <1>1, <1>3, <2>1, <2>3
<1>6. Reaches(P, read, selected)
  BY <1>5 DEF Continues
<1>7. component \in P.components
  BY <1>6 DEF Reaches, StartsFamily, LagFamily
<1>8. ASSUME NEW other \in lags
      PROVE  t \in Active(<<kind, other>>, S, B) /\ t \in Dates(other, S)
  <2> DEFINE path == <<kind, other>>
             rows == TrueRows(value, label, path, S, B)
             p == [name |-> path, rows |-> rows]
             c == Checkpoint(rows)
  <2>1. /\ path \in RequiredPaths(selected) /\ path \in RequiredPaths(P.components)
        /\ path[1] = kind /\ path[2] = other
    BY <1>7, FamilyPaths
  <2>2. PathLag(path) = PathLag(name)
    BY <1>2, <2>1 DEF PathLag
  <2> HIDE DEF path, name
  <2>3. p \in P.paths
    BY <1>1, <2>1 DEF Matches, TruePaths
  <2>4. p.name = path /\ p.rows = rows
    OBVIOUS
  <2> HIDE DEF rows
  <2>5. rows # {} /\ read <= c - PathLag(path)
    <3> HIDE DEF p
    <3> QED
      BY <1>6, <2>3, <2>4 DEF Reaches
  <2>6. c \in Active(path, S, B)
    BY <1>1, <2>1, <2>5, CheckpointRows DEF rows
  <2>7. c \in 1 .. S
    BY <1>1, <2>1, <2>6, ActiveType
  <2>8. t \in Active(path, T, C)
    BY DEF Common, path
  <2> HIDE DEF c
  <2>9. t <= c
    BY <1>1, <1>3, <1>5, <2>2, <2>5, <2>7
  <2>10. t \in Active(path, S, B)
    BY <1>1, <2>1, <2>6, <2>8, <2>9, ActiveBefore
  <2>11. t \in Dates(other, T)
    BY DEF Common
  <2>12. t \in Dates(other, S)
    BY <1>1, <2>1, <2>10, <2>11, RowKept
  <2> QED
    BY <2>10, <2>12 DEF path
<1> QED
  BY <1>4, <1>7, <1>8 DEF Common

\* The saved lagged rows and those computed of the sessions read are those of
\* one evaluation.
LEMMA FramesContinue ==
  ASSUME Typed, NEW P, NEW read, NEW T, NEW C, NEW selected,
         Continues(P, read, T, C, selected),
         NEW kind, NEW lags, NEW component, LagFamily(kind, lags, component),
         component \in selected
  PROVE  PathFrames(kind, lags, P, TruePaths(value, label, selected, T, C), read .. T, T)
           = TrueFrames(value, label, kind, lags, T, C)
<1> DEFINE S == P.through
           B == P.cutoff
           paths == TruePaths(value, label, selected, T, C)
           dates(lag) == ShiftedDates(read .. T, lag, T)
           new(lag) == {r \in PathRows(paths, <<kind, lag>>) : r.day \in dates(lag)}
           prior(lag) == FrameRows(P.lags, kind, lag)
           frame(lag) == new(lag) \cup {r \in prior(lag) : r.day \notin {x.day : x \in new(lag)}}
           shared == {t \in AlphaDays : \A lag \in lags : \E r \in frame(lag) : r.day = t}
           common == Common(kind, lags, T, C)
           before == IF component \in P.components THEN Common(kind, lags, S, B) ELSE {}
           fresh(lag) == Active(<<kind, lag>>, T, C) \cap dates(lag)
           held(lag) == fresh(lag) \cup before
           row(lag, t) == TrueRow(value, label, <<kind, lag>>, t, T)
<1>1. /\ T \in AlphaDays /\ T \in Nat /\ C \in Nat /\ read \in Nat \ {0}
      /\ S \in 0 .. T /\ S \in Nat /\ B \in 0 .. C
      /\ available \in [AlphaDays -> Nat] /\ Matches(P, value, label)
  BY DaysType DEF Continues, Typed
<1>2. \A lag \in lags : <<kind, lag>> \in RequiredPaths(selected) /\ lag \in Int
  <2> TAKE lag \in lags
  <2> DEFINE name == <<kind, lag>>
  <2>1. name \in RequiredPaths(selected) /\ name[2] = lag
    BY FamilyPaths
  <2> HIDE DEF name
  <2>2. lag \in Int
    BY <2>1, PathLagBounds
  <2> QED
    BY <2>1, <2>2 DEF name
<1>3. PathFrames(kind, lags, P, paths, read .. T, T)
        = UNION {{[kind |-> kind, lag |-> lag, row |-> r] :
                     r \in {x \in frame(lag) : x.day \in shared}} : lag \in lags}
  <2> HIDE DEF paths
  <2> QED
    BY Zenon DEF PathFrames, PathRows, FrameRows
<1>4. before \subseteq common
  BY <1>1, <1>2, CommonGrows
<1>5. ASSUME NEW lag \in lags
      PROVE  /\ held(lag) \subseteq Active(<<kind, lag>>, T, C) \cap Dates(lag, T)
             /\ frame(lag) = {row(lag, t) : t \in held(lag)}
  <2> DEFINE name == <<kind, lag>>
  <2>1. name \in RequiredPaths(selected) /\ name[2] = lag /\ lag \in Int
    BY <1>2, FamilyPaths
  <2>2. ASSUME NEW t \in dates(lag) PROVE t \in Dates(lag, T)
    <3>1. t \in Int /\ 1 <= t /\ t <= T /\ read <= t - lag /\ t - lag <= T
          /\ t - lag \notin Degenerate
      BY <1>1, <2>1, DatesType
    <3>2. t \in 1 .. T /\ 1 <= t - lag
      BY <1>1, <2>1, <3>1
    <3> QED
      BY <1>1, <2>1, <3>1, <3>2, TrueDates
  <2>3. held(lag) \subseteq Active(name, T, C) \cap Dates(lag, T)
    <3>1. \A t \in common : t \in Active(name, T, C) /\ t \in Dates(lag, T)
      BY DEF Common
    <3> HIDE DEF dates, before, common, name
    <3> QED
      BY <1>4, <2>2, <3>1 DEF name
  <2>4. \A t : row(lag, t).day = t
    BY DEF TrueRow
  <2>5. new(lag) = {row(lag, t) : t \in fresh(lag)}
    <3>1. PathRows(paths, name) = {row(lag, t) : t \in Active(name, T, C)}
      <4>1. PathRows(paths, name) = TrueRows(value, label, name, T, C)
        <5> HIDE DEF name
        <5> QED
          BY <2>1, PathRowsTrue
      <4> QED
        BY <4>1 DEF TrueRows
    <3> HIDE DEF row, dates, paths
    <3> QED
      BY <2>4, <3>1
  <2>6. prior(lag) = {row(lag, t) : t \in before}
    <3>1. prior(lag) = RowsOn(kind, lag, before, S)
      BY <1>1, PriorFrames
    <3>2. ASSUME NEW t \in before PROVE TrueRow(value, label, name, t, S) = row(lag, t)
      <4>1. t \in Active(name, S, B)
        BY <3>2 DEF Common
      <4> HIDE DEF name
      <4>2. TrueRow(value, label, name, t, S) = TrueRow(value, label, name, t, T)
        BY <1>1, <2>1, <4>1, RowKept
      <4> QED
        BY <4>2 DEF name
    <3> HIDE DEF before, prior
    <3> QED
      BY <3>1, <3>2 DEF RowsOn
  <2>7. frame(lag) = {row(lag, t) : t \in held(lag)}
    <3> HIDE DEF row, new, prior, fresh, before
    <3>1. {x.day : x \in new(lag)} = fresh(lag)
      BY <2>4, <2>5
    <3>2. frame(lag) = new(lag) \cup {r \in prior(lag) : r.day \notin fresh(lag)}
      BY <3>1
    <3> HIDE DEF frame
    <3> QED
      BY <2>4, <2>5, <2>6, <3>2
  <2> QED
    BY <2>3, <2>7
<1>6. ASSUME NEW t \in common, NEW lag \in lags PROVE t \in held(lag)
  <2>1. t \in Active(<<kind, lag>>, T, C)
    BY <1>6 DEF Common
  <2>2. CASE t \in dates(lag)
    BY <2>1, <2>2
  <2>3. CASE t \notin dates(lag)
    BY <2>3, UnreadCommon
  <2> QED
    BY <2>2, <2>3
<1>7. \A lag \in lags : \A t : row(lag, t).day = t
  BY DEF TrueRow
<1>8. shared = common
  <2>1. \A t : t \in common <=>
          t \in AlphaDays /\ \A lag \in lags : t \in Active(<<kind, lag>>, T, C) \cap Dates(lag, T)
    BY DEF Common
  <2>2. \A lag \in lags : \A t : (\E r \in frame(lag) : r.day = t) <=> t \in held(lag)
    <3> TAKE lag \in lags
    <3>1. frame(lag) = {row(lag, t) : t \in held(lag)}
      BY <1>5
    <3>2. \A t : row(lag, t).day = t
      BY <1>7
    <3> HIDE DEF frame, held, row
    <3> QED
      BY <3>1, <3>2
  <2> HIDE DEF frame, held, row, common
  <2> QED
    BY <1>5, <1>6, <2>1, <2>2
<1>9. ASSUME NEW lag \in lags
      PROVE  {x \in frame(lag) : x.day \in shared} = {row(lag, t) : t \in common}
  <2>1. frame(lag) = {row(lag, t) : t \in held(lag)}
    BY <1>5
  <2>2. \A t : row(lag, t).day = t
    BY <1>7
  <2>3. \A t \in common : t \in held(lag)
    BY <1>6
  <2> HIDE DEF frame, held, row, common, shared
  <2> QED
    BY <1>8, <2>1, <2>2, <2>3
<1>10. PathFrames(kind, lags, P, paths, read .. T, T)
         = UNION {{[kind |-> kind, lag |-> lag, row |-> row(lag, t)] : t \in common} : lag \in lags}
  <2> HIDE DEF frame, row, common, shared, paths
  <2> QED
    BY <1>3, <1>9
<1>11. TrueFrames(value, label, kind, lags, T, C)
         = UNION {{[kind |-> kind, lag |-> lag, row |-> row(lag, t)] : t \in common} : lag \in lags}
  BY DEF TrueFrames, TrueFrame
<1> HIDE DEF row, common, paths
<1> QED
  BY <1>10, <1>11 DEF paths

\* The same of both families of lags.
LEMMA LagsContinue ==
  ASSUME Typed, NEW P, NEW read, NEW T, NEW C, NEW selected,
         Continues(P, read, T, C, selected)
  PROVE  LagTables(P, TruePaths(value, label, selected, T, C), read .. T, T, selected)
           = TrueLags(value, label, selected, T, C)
<1>1. LagFamily("leadlag", LeadLags, "lead_lag") /\ LagFamily("alpha", AlphaLags, "alpha_return")
  BY DEF LagFamily
<1>2. CASE "lead_lag" \in selected /\ "alpha_return" \in selected
  BY <1>1, <1>2, FramesContinue DEF LagTables, TrueLags
<1>3. CASE "lead_lag" \in selected /\ "alpha_return" \notin selected
  BY <1>1, <1>3, FramesContinue DEF LagTables, TrueLags
<1>4. CASE "lead_lag" \notin selected /\ "alpha_return" \in selected
  BY <1>1, <1>4, FramesContinue DEF LagTables, TrueLags
<1>5. CASE "lead_lag" \notin selected /\ "alpha_return" \notin selected
  BY <1>5 DEF LagTables, TrueLags
<1> QED
  BY <1>2, <1>3, <1>4, <1>5

-----------------------------------------------------------------------------
(* A result depends on the inputs it was saved with, and on no others.       *)

\* Two markets a result of T sessions at the cutoff C does not tell apart.
Agree(v, l, w, m, T, C) ==
  /\ \A t \in 1 .. T : v[t] = w[t]
  /\ \A t \in 1 .. T : available[t] <= C => l[t] = m[t]

\* Inputs with the same prefix agree on all an evaluation can use of them.
LEMMA PrefixAgrees ==
  ASSUME NEW v, NEW l, NEW w, NEW m, NEW T \in AlphaDays, NEW C \in Nat,
         Prefix(v, l, T, C) = Prefix(w, m, T, C)
  PROVE  Agree(v, l, w, m, T, C)
<1> DEFINE seen == {d \in 1 .. T : available[d] <= C}
           valuesOf(f) == {<<"value", t, f[t]>> : t \in 1 .. T}
           labelsOf(f) == {<<"label", t, f[t]>> : t \in seen}
<1>0. "value" # "label"
  OBVIOUS
<1>1. \A f, x : x \in valuesOf(f) <=> \E t \in 1 .. T : x = <<"value", t, f[t]>>
  OBVIOUS
<1>2. \A f, x : x \in labelsOf(f) <=> \E t \in seen : x = <<"label", t, f[t]>>
  OBVIOUS
<1>3. valuesOf(v) \cup labelsOf(l) = valuesOf(w) \cup labelsOf(m)
  BY DEF Prefix
<1> HIDE DEF valuesOf, labelsOf
<1>4. ASSUME NEW t \in 1 .. T PROVE v[t] = w[t]
  <2> DEFINE x == <<"value", t, v[t]>>
  <2>1. x \in valuesOf(v)
    BY <1>1
  <2>2. x \in valuesOf(w) \/ x \in labelsOf(m)
    BY <1>3, <2>1
  <2>3. x[1] = "value" /\ x[2] = t /\ x[3] = v[t]
    OBVIOUS
  <2> HIDE DEF x
  <2>4. CASE x \in labelsOf(m)
    <3>1. PICK u \in seen : x = <<"label", u, m[u]>>
      BY <1>2, <2>4
    <3>2. x[1] = "label"
      BY <3>1
    <3> QED
      BY <1>0, <2>3, <3>2
  <2>5. CASE x \in valuesOf(w)
    <3>1. PICK u \in 1 .. T : x = <<"value", u, w[u]>>
      BY <1>1, <2>5
    <3>2. x[2] = u /\ x[3] = w[u]
      BY <3>1
    <3> QED
      BY <2>3, <3>2
  <2> QED
    BY <2>2, <2>4, <2>5
<1>5. ASSUME NEW t \in 1 .. T, available[t] <= C PROVE l[t] = m[t]
  <2> DEFINE x == <<"label", t, l[t]>>
  <2>1. x \in labelsOf(l)
    BY <1>2, <1>5
  <2>2. x \in valuesOf(w) \/ x \in labelsOf(m)
    BY <1>3, <2>1
  <2>3. x[1] = "label" /\ x[2] = t /\ x[3] = l[t]
    OBVIOUS
  <2> HIDE DEF x
  <2>4. CASE x \in labelsOf(m)
    <3>1. PICK u \in seen : x = <<"label", u, m[u]>>
      BY <1>2, <2>4
    <3>2. x[2] = u /\ x[3] = m[u]
      BY <3>1
    <3> QED
      BY <2>3, <3>2
  <2>5. CASE x \in valuesOf(w)
    <3>1. PICK u \in 1 .. T : x = <<"value", u, w[u]>>
      BY <1>1, <2>5
    <3>2. x[1] = "value"
      BY <3>1
    <3> QED
      BY <1>0, <2>3, <3>2
  <2> QED
    BY <2>2, <2>4, <2>5
<1> QED
  BY <1>4, <1>5 DEF Agree

\* Agreeing inputs book the same rows.
LEMMA RowAgrees ==
  ASSUME NEW selected, NEW name \in RequiredPaths(selected),
         NEW T \in AlphaDays, NEW C \in Nat,
         NEW v, NEW l, NEW w, NEW m, Agree(v, l, w, m, T, C),
         NEW t \in Active(name, T, C)
  PROVE  TrueRow(v, l, name, t, T) = TrueRow(w, m, name, t, T)
<1>1. T \in Nat /\ name[2] \in Int
  BY DaysType, PathLagBounds
<1>2. t \in 1 .. T /\ \A u \in 1 .. t : Mature(u, C)
  BY <1>1, ActiveType
<1>3. l[t] = m[t]
  <2>1. t \in 1 .. t
    BY <1>2
  <2> QED
    BY <1>2, <2>1 DEF Agree, Mature
<1>4. t \in Dates(name[2], T) => v[t - name[2]] = w[t - name[2]]
  <2> SUFFICES ASSUME t \in Dates(name[2], T) PROVE v[t - name[2]] = w[t - name[2]]
    OBVIOUS
  <2>1. t \in Int /\ 1 <= t - name[2] /\ t - name[2] <= T
    BY <1>1, TrueDates
  <2>2. t - name[2] \in 1 .. T
    BY <1>1, <2>1
  <2> QED
    BY <2>2 DEF Agree
<1> QED
  BY <1>3, <1>4 DEF TrueRow

\* Agreeing inputs give the same lagged rows.
LEMMA FramesAgree ==
  ASSUME NEW selected, NEW kind, NEW lags,
         \A lag \in lags : <<kind, lag>> \in RequiredPaths(selected),
         NEW T \in AlphaDays, NEW C \in Nat,
         NEW v, NEW l, NEW w, NEW m, Agree(v, l, w, m, T, C)
  PROVE  TrueFrames(v, l, kind, lags, T, C) = TrueFrames(w, m, kind, lags, T, C)
<1>1. ASSUME NEW lag \in lags, NEW t \in Common(kind, lags, T, C)
      PROVE  TrueRow(v, l, <<kind, lag>>, t, T) = TrueRow(w, m, <<kind, lag>>, t, T)
  <2>1. t \in Active(<<kind, lag>>, T, C)
    BY DEF Common
  <2> QED
    BY <2>1, RowAgrees
<1> DEFINE frame(f, g, lag) ==
             {[kind |-> kind, lag |-> lag, row |-> TrueRow(f, g, <<kind, lag>>, t, T)] :
                t \in Common(kind, lags, T, C)}
<1>2. \A lag \in lags : frame(v, l, lag) = frame(w, m, lag)
  BY <1>1
<1>3. /\ TrueFrames(v, l, kind, lags, T, C) = UNION {frame(v, l, lag) : lag \in lags}
      /\ TrueFrames(w, m, kind, lags, T, C) = UNION {frame(w, m, lag) : lag \in lags}
  BY DEF TrueFrames, TrueFrame
<1> HIDE DEF frame
<1> QED
  BY <1>2, <1>3

\* A result that matches some inputs matches all that agree with them.
LEMMA MatchesAgree ==
  ASSUME NEW R, R.through \in AlphaDays, R.cutoff \in Nat,
         NEW v, NEW l, NEW w, NEW m, Agree(v, l, w, m, R.through, R.cutoff),
         Matches(R, v, l)
  PROVE  Matches(R, w, m)
<1> DEFINE T == R.through
           C == R.cutoff
           selected == R.components
<1>1. T \in AlphaDays /\ T \in Nat /\ C \in Nat /\ Agree(v, l, w, m, T, C)
  BY DaysType
<1> HIDE DEF T, C, selected
<1>2. TrueHorizon(v, l, selected, T, C) = TrueHorizon(w, m, selected, T, C)
  <2>1. ASSUME NEW p \in ReturnWindows, NEW d \in 1 .. T
        PROVE  TrueLabels(v, l, p, d, T, C) = TrueLabels(w, m, p, d, T, C)
    <3>1. v[d] = w[d]
      BY <1>1 DEF Agree
    <3>2. Known(p, d, T, C) => \A t \in Span(p, d) : l[t] = m[t]
      BY <1>1 DEF Known, Agree, Mature
    <3> QED
      BY <3>1, <3>2 DEF TrueLabels
  <2> QED
    BY <2>1 DEF TrueHorizon
<1>3. TruePersistence(v, selected, T) = TruePersistence(w, selected, T)
  <2> DEFINE all == {q \in (1 .. T) \X PersistenceLags : q[1] + q[2] <= T}
  <2>1. ASSUME NEW p \in all PROVE TruePair(v, p[1], p[2]) = TruePair(w, p[1], p[2])
    <3>1. p[1] \in 1 .. T /\ p[2] \in Nat \ {0} /\ p[1] + p[2] <= T
      BY LongestLag
    <3>2. p[1] + p[2] \in 1 .. T
      BY <1>1, <3>1
    <3>3. v[p[1]] = w[p[1]] /\ v[p[1] + p[2]] = w[p[1] + p[2]]
      BY <1>1, <3>1, <3>2 DEF Agree
    <3> QED
      BY <3>3 DEF TruePair
  <2> QED
    BY <2>1 DEF TruePersistence
<1>4. TruePaths(v, l, selected, T, C) = TruePaths(w, m, selected, T, C)
  <2>1. ASSUME NEW name \in RequiredPaths(selected)
        PROVE  TrueRows(v, l, name, T, C) = TrueRows(w, m, name, T, C)
    <3>1. \A t \in Active(name, T, C) :
             TrueRow(v, l, name, t, T) = TrueRow(w, m, name, t, T)
      BY <1>1, RowAgrees
    <3> QED
      BY <3>1 DEF TrueRows
  <2> QED
    BY <2>1 DEF TruePaths
<1>5. TrueLags(v, l, selected, T, C) = TrueLags(w, m, selected, T, C)
  <2>1. LagFamily("leadlag", LeadLags, "lead_lag") /\ LagFamily("alpha", AlphaLags, "alpha_return")
    BY DEF LagFamily
  <2>2. "lead_lag" \in selected =>
          TrueFrames(v, l, "leadlag", LeadLags, T, C) = TrueFrames(w, m, "leadlag", LeadLags, T, C)
    <3> SUFFICES ASSUME "lead_lag" \in selected
                 PROVE  TrueFrames(v, l, "leadlag", LeadLags, T, C)
                          = TrueFrames(w, m, "leadlag", LeadLags, T, C)
      OBVIOUS
    <3>1. \A lag \in LeadLags : <<"leadlag", lag>> \in RequiredPaths(selected)
      BY <2>1, FamilyPaths
    <3> QED
      BY <1>1, <3>1, FramesAgree
  <2>3. "alpha_return" \in selected =>
          TrueFrames(v, l, "alpha", AlphaLags, T, C) = TrueFrames(w, m, "alpha", AlphaLags, T, C)
    <3> SUFFICES ASSUME "alpha_return" \in selected
                 PROVE  TrueFrames(v, l, "alpha", AlphaLags, T, C)
                          = TrueFrames(w, m, "alpha", AlphaLags, T, C)
      OBVIOUS
    <3>1. \A lag \in AlphaLags : <<"alpha", lag>> \in RequiredPaths(selected)
      BY <2>1, FamilyPaths
    <3> QED
      BY <1>1, <3>1, FramesAgree
  <2> QED
    BY <2>2, <2>3 DEF TrueLags
<1> QED
  BY <1>2, <1>3, <1>4, <1>5 DEF Matches, T, C, selected

-----------------------------------------------------------------------------
(* From the plan to the inputs.                                              *)

\* The absent result holds the tables of an evaluation of nothing.
LEMMA NothingMatches ==
  Matches(NoResult, value, label)
<1>1. /\ NoResult.components = {} /\ NoResult.horizon = {} /\ NoResult.persistence = {}
      /\ NoResult.paths = {} /\ NoResult.lags = {}
  BY DEF NoResult
<1>2. RequiredPaths({}) = {}
  BY DEF RequiredPaths
<1> QED
  BY <1>1, <1>2 DEF Matches, TrueHorizon, TruePersistence, TruePaths, TrueLags

\* Counting back from a position stops at the first session.
LEMMA BackType ==
  ASSUME NEW position \in Int, NEW n \in Int
  PROVE  LET back == Max({1, position - n})
         IN  back \in Nat \ {0} /\ (back = 1 \/ back = position - n)
<1> DEFINE S == {1, position - n}
           back == Max(S)
<1>1. IsFiniteSet(S) /\ S \subseteq Int /\ S # {} /\ 1 \in S
  <2>1. IsFiniteSet(S)
    BY PairFinite
  <2> QED
    BY <2>1
<1>2. back \in S /\ 1 <= back
  <2> HIDE DEF S
  <2> QED
    BY <1>1, MaxMember
<1> HIDE DEF back
<1>3. back \in Nat \ {0} /\ (back = 1 \/ back = position - n)
  BY <1>2
<1> QED
  BY <1>3 DEF back

\* An evaluation has finitely many paths.
LEMMA PathsFinite ==
  ASSUME NEW v, NEW l, NEW selected, NEW T, NEW C
  PROVE  IsFiniteSet(TruePaths(v, l, selected, T, C))
<1> DEFINE lead == [lag \in LeadLags |-> <<"leadlag", lag>>]
           alpha == [lag \in AlphaLags |-> <<"alpha", lag>>]
           leads == {lead[lag] : lag \in LeadLags}
           alphas == {alpha[lag] : lag \in AlphaLags}
           names == {<<"book", 0>>} \cup leads \cup alphas
           path == [name \in names |-> [name |-> name, rows |-> TrueRows(v, l, name, T, C)]]
<1>1. IsFiniteSet(leads) /\ IsFiniteSet(alphas)
  <2> HIDE DEF lead, alpha
  <2>1. IsFiniteSet(leads)
    BY AlphaAssumption, ImageFinite
  <2>2. IsFiniteSet(alphas)
    BY AlphaAssumption, ImageFinite
  <2> QED
    BY <2>1, <2>2
<1>2. IsFiniteSet({<<"book", 0>>})
  BY FS_Singleton
<1>3. IsFiniteSet(names)
  <2> HIDE DEF leads, alphas
  <2>1. IsFiniteSet({<<"book", 0>>} \cup leads)
    BY <1>1, <1>2, FS_Union
  <2> QED
    BY <1>1, <2>1, FS_Union
<1>4. RequiredPaths(selected) \subseteq names
  <2>1. {"leadlag"} \X LeadLags \subseteq leads
    OBVIOUS
  <2>2. {"alpha"} \X AlphaLags \subseteq alphas
    OBVIOUS
  <2> HIDE DEF leads, alphas
  <2> QED
    BY <2>1, <2>2 DEF RequiredPaths
<1>5. IsFiniteSet({path[name] : name \in names})
  <2> HIDE DEF names, path
  <2> QED
    BY <1>3, ImageFinite
<1>6. TruePaths(v, l, selected, T, C) \in SUBSET {path[name] : name \in names}
  <2> HIDE DEF names
  <2> QED
    BY <1>4 DEF TruePaths
<1> HIDE DEF path, names
<1> QED
  BY <1>5, <1>6, FS_Subset

\* What an update reads is enough for all that the saved result holds.
LEMMA InputsReach ==
  ASSUME Typed, NEW P, NEW T \in AlphaDays, NEW C \in Nat, NEW selected \in SUBSET Components,
         P.components \in SUBSET selected, P.through \in 1 .. T, P.cutoff \in 0 .. C,
         Matches(P, value, label)
  PROVE  Continues(P, AlphaInputStart(P, selected), T, C, selected)
<1> DEFINE S == P.through
           read == AlphaInputStart(P, selected)
           back(position, n) == Max({1, position - n})
           sources == {back(S, History(selected))}
                        \cup {back(Checkpoint(p.rows), PathLag(p.name)) : p \in P.paths}
                        \cup PendingHorizons(P)
           everything == \/ P = NoResult
                         \/ StartsFamily(P.components, selected)
                         \/ \E p \in P.paths : p.rows = {}
<1>1. T \in Nat /\ S \in Nat /\ S <= T /\ S \in 0 .. T
  BY DaysType
<1>2. read = IF everything THEN 1 ELSE Min(sources)
  BY Zenon DEF AlphaInputStart
<1>3. ASSUME ~everything
      PROVE  read \in Nat \ {0} /\ (read = 1 \/ Reaches(P, read, selected))
  <2>1. ~StartsFamily(P.components, selected) /\ \A p \in P.paths : p.rows # {}
    BY <1>3
  <2>2. \A p \in P.paths : /\ Checkpoint(p.rows) \in Int
                           /\ PathLag(p.name) \in Int
    <3> TAKE p \in P.paths
    <3>1. PICK name \in RequiredPaths(P.components) :
             p = [name |-> name, rows |-> TrueRows(value, label, name, S, P.cutoff)]
      BY DEF Matches, TruePaths
    <3>2. p.name = name /\ p.rows = TrueRows(value, label, name, S, P.cutoff)
      BY <3>1
    <3>3. Checkpoint(p.rows) \in Active(name, S, P.cutoff)
      BY <1>1, <2>1, <3>2, CheckpointRows
    <3>4. Checkpoint(p.rows) \in 1 .. S
      BY <1>1, <3>3, ActiveType
    <3>5. PathLag(p.name) \in Nat
      BY <3>2, PathLagBounds
    <3> QED
      BY <1>1, <3>4, <3>5
  <2>3. \A p \in P.paths :
          LET b == back(Checkpoint(p.rows), PathLag(p.name))
          IN  b \in Nat \ {0} /\ (b = 1 \/ b = Checkpoint(p.rows) - PathLag(p.name))
    BY <2>2, BackType
  <2>4. LET b == back(S, History(selected))
        IN  b \in Nat \ {0} /\ (b = 1 \/ b = S - History(selected))
    BY <1>1, HistoryBounds, BackType
  <2>5. \A d \in PendingHorizons(P) : d \in 1 .. S
    <3> TAKE d \in PendingHorizons(P)
    <3>1. PICK r \in P.horizon : d = r.day
      BY DEF PendingHorizons
    <3>2. P.horizon = TrueHorizon(value, label, P.components, S, P.cutoff)
      BY DEF Matches
    <3>3. PICK w \in ReturnWindows, e \in 1 .. S :
             r = TrueLabels(value, label, w, e, S, P.cutoff)
      BY <3>2 DEF TrueHorizon
    <3>4. r.day = e
      BY <3>3, TrueLabelsFields
    <3> QED
      BY <3>1, <3>4
  <2> DEFINE checkpoints == {back(Checkpoint(p.rows), PathLag(p.name)) : p \in P.paths}
             start == {back(S, History(selected))}
             pending == PendingHorizons(P)
  <2>6. IsFiniteSet(start) /\ start \subseteq Nat \ {0} /\ start # {}
    <3>1. back(S, History(selected)) \in Nat \ {0}
      BY <2>4
    <3>2. IsFiniteSet(start)
      BY FS_Singleton
    <3> HIDE DEF back
    <3> QED
      BY <3>1, <3>2
  <2>7. IsFiniteSet(checkpoints) /\ checkpoints \subseteq Nat \ {0}
    <3> DEFINE f == [p \in P.paths |-> back(Checkpoint(p.rows), PathLag(p.name))]
    <3>1. IsFiniteSet(P.paths)
      BY PathsFinite DEF Matches
    <3>2. IsFiniteSet({f[p] : p \in P.paths})
      <4> HIDE DEF f
      <4> QED
        BY <3>1, ImageFinite
    <3>3. {f[p] : p \in P.paths} = checkpoints
      <4> HIDE DEF back
      <4> QED
        OBVIOUS
    <3>4. checkpoints \subseteq Nat \ {0}
      <4> HIDE DEF back
      <4> QED
        BY <2>3
    <3> HIDE DEF f, checkpoints
    <3> QED
      BY <3>2, <3>3, <3>4
  <2>8. IsFiniteSet(pending) /\ pending \subseteq Nat \ {0}
    <3>1. IsFiniteSet(1 .. S) /\ pending \in SUBSET (1 .. S)
      <4>1. IsFiniteSet(1 .. S)
        BY <1>1, FS_Interval
      <4>2. pending \in SUBSET (1 .. S)
        BY <2>5
      <4> QED
        BY <4>1, <4>2
    <3> HIDE DEF pending
    <3>2. IsFiniteSet(pending)
      BY <3>1, FS_Subset
    <3> QED
      BY <1>1, <3>1, <3>2
  <2>9. IsFiniteSet(sources) /\ sources \subseteq Nat \ {0} /\ sources # {}
    <3>1. sources = start \cup checkpoints \cup pending
      BY Zenon
    <3> HIDE DEF start, checkpoints, pending, sources
    <3>2. IsFiniteSet(start \cup checkpoints)
      BY <2>6, <2>7, FS_Union
    <3>3. IsFiniteSet(sources)
      BY <2>8, <3>1, <3>2, FS_Union
    <3> QED
      BY <2>6, <2>7, <2>8, <3>1, <3>3
  <2>10. read = Min(sources)
    BY <1>2, <1>3, Zenon
  <2>11. read \in sources /\ \A x \in sources : read <= x
    <3> HIDE DEF sources, read
    <3>1. sources \subseteq Int
      BY <2>9
    <3> QED
      BY <2>9, <2>10, <3>1, MinMember
  <2>12. /\ start \subseteq sources /\ checkpoints \subseteq sources /\ pending \subseteq sources
    BY Zenon
  <2>13. read \in Nat \ {0}
    <3> HIDE DEF sources, read
    <3> QED
      BY <2>9, <2>11
  <2>14. read = 1 \/ read <= S - History(selected)
    <3> DEFINE b == back(S, History(selected))
    <3>1. b \in start
      OBVIOUS
    <3>2. b \in sources
      <4> HIDE DEF b, start, sources
      <4> QED
        BY <2>12, <3>1
    <3>3. read <= b
      <4> HIDE DEF b, sources, read
      <4> QED
        BY <2>11, <3>2
    <3>4. b \in Nat \ {0} /\ (b = 1 \/ b = S - History(selected))
      BY <2>4
    <3> HIDE DEF b, read
    <3> QED
      BY <2>13, <3>3, <3>4
  <2>15. ASSUME NEW p \in P.paths
         PROVE  read = 1 \/ read <= Checkpoint(p.rows) - PathLag(p.name)
    <3> DEFINE b == back(Checkpoint(p.rows), PathLag(p.name))
    <3>1. b \in checkpoints
      <4> HIDE DEF back
      <4> QED
        OBVIOUS
    <3>2. b \in sources
      <4> HIDE DEF b, checkpoints, sources
      <4> QED
        BY <2>12, <3>1
    <3>3. read <= b
      <4> HIDE DEF b, sources, read
      <4> QED
        BY <2>11, <3>2
    <3>4. b \in Nat \ {0} /\ (b = 1 \/ b = Checkpoint(p.rows) - PathLag(p.name))
      BY <2>3
    <3> HIDE DEF b, read
    <3> QED
      BY <2>13, <3>3, <3>4
  <2>16. \A d \in PendingHorizons(P) : read <= d
    <3> HIDE DEF sources, read
    <3> QED
      BY <2>11, <2>12
  <2> HIDE DEF read
  <2> QED
    BY <2>1, <2>13, <2>14, <2>15, <2>16 DEF Reaches
<1>4. read \in Nat \ {0} /\ (read = 1 \/ Reaches(P, read, selected))
  <2>1. CASE everything
    <3>1. read = 1
      BY <1>2, <2>1, Zenon
    <3> HIDE DEF read
    <3> QED
      BY <3>1
  <2> QED
    BY <1>3, <2>1
<1> HIDE DEF read
<1> QED
  BY <1>1, <1>4 DEF Continues, read

\* Without a saved result an update reads from the first session.
LEMMA NothingReaches ==
  ASSUME NEW T \in AlphaDays, NEW C \in Nat, NEW selected \in SUBSET Components
  PROVE  Continues(NoResult, AlphaInputStart(NoResult, selected), T, C, selected)
<1>1. AlphaInputStart(NoResult, selected) = 1
  BY DEF AlphaInputStart
<1>2. NoResult.components = {} /\ NoResult.through = 0 /\ NoResult.cutoff = 0
  BY DEF NoResult
<1>3. 0 \in 0 .. T /\ 0 \in 0 .. C
  BY DaysType
<1> QED
  BY <1>1, <1>2, <1>3, NothingMatches DEF Continues

\* The evaluation over a result that holds the current inputs.
LEMMA EvaluationMatches ==
  ASSUME Typed, NEW P, NEW read, NEW T, NEW C, NEW selected,
         Continues(P, read, T, C, selected)
  PROVE  LET R == EvaluateAlpha(P, read, T, C, selected)
         IN  /\ R.components = selected /\ R.through = T /\ R.cutoff = C
             /\ R.prefix = Prefix(value, label, T, C)
             /\ Matches(R, value, label)
<1> DEFINE R == EvaluateAlpha(P, read, T, C, selected)
           paths == PathTables(P, read .. T, T, C, selected)
<1>1. /\ R.components = selected /\ R.through = T /\ R.cutoff = C
      /\ R.prefix = InputPrefix(T, C)
      /\ R.horizon = HorizonTables(P, read .. T, C, selected)
      /\ R.persistence = PersistenceTable(P, read .. T, selected)
      /\ R.paths = paths
      /\ R.lags = LagTables(P, paths, read .. T, T, selected)
  BY DEF EvaluateAlpha
<1>2. InputPrefix(T, C) = Prefix(value, label, T, C)
  BY DEF InputPrefix, Prefix
<1>3. paths = TruePaths(value, label, selected, T, C)
  BY PathsContinue
<1>4. R.horizon = TrueHorizon(value, label, selected, T, C)
  BY <1>1, HorizonContinues
<1>5. R.persistence = TruePersistence(value, selected, T)
  BY <1>1, PersistenceContinues
<1>6. R.lags = TrueLags(value, label, selected, T, C)
  BY <1>1, <1>3, LagsContinue
<1> HIDE DEF R, paths
<1> QED
  BY <1>1, <1>2, <1>3, <1>4, <1>5, <1>6 DEF Matches, R

-----------------------------------------------------------------------------
(* Saved results.                                                            *)

\* When a label becomes available never changes, and with it what a result has
\* to be.
LEMMA TablesPrimed ==
  ASSUME UNCHANGED available, NEW v, NEW l, NEW selected, NEW T, NEW C
  PROVE  /\ Prefix(v, l, T, C)' = Prefix(v, l, T, C)
         /\ TrueHorizon(v, l, selected, T, C)' = TrueHorizon(v, l, selected, T, C)
         /\ TruePaths(v, l, selected, T, C)' = TruePaths(v, l, selected, T, C)
         /\ TrueLags(v, l, selected, T, C)' = TrueLags(v, l, selected, T, C)
<1>1. \A t : Mature(t, C)' <=> Mature(t, C)
  BY DEF Mature
<1>2. Prefix(v, l, T, C)' = Prefix(v, l, T, C)
  BY Zenon DEF Prefix
<1>3. \A w, d : Known(w, d, T, C)' = Known(w, d, T, C)
  BY Zenon DEF Known, Mature
<1>4. \A w, d : TrueLabels(v, l, w, d, T, C)' = TrueLabels(v, l, w, d, T, C)
  BY <1>3, Zenon DEF TrueLabels
<1>5. \A name : Active(name, T, C)' = Active(name, T, C)
  BY Zenon DEF Active, Mature
<1>6. \A name : TrueRows(v, l, name, T, C)' = TrueRows(v, l, name, T, C)
  BY <1>5, Zenon DEF TrueRows
<1>7. \A kind, lags : Common(kind, lags, T, C)' = Common(kind, lags, T, C)
  BY <1>5, Zenon DEF Common
<1>8. \A kind, lags : TrueFrames(v, l, kind, lags, T, C)' = TrueFrames(v, l, kind, lags, T, C)
  <2> SUFFICES ASSUME NEW kind, NEW lags
               PROVE  TrueFrames(v, l, kind, lags, T, C)' = TrueFrames(v, l, kind, lags, T, C)
    OBVIOUS
  <2> DEFINE framesOn(X) == UNION {{TrueFrame(v, l, kind, lag, t, T) : t \in X} : lag \in lags}
  <2>1. /\ TrueFrames(v, l, kind, lags, T, C) = framesOn(Common(kind, lags, T, C))
        /\ TrueFrames(v, l, kind, lags, T, C)' = framesOn(Common(kind, lags, T, C)')
    BY DEF TrueFrames
  <2> HIDE DEF framesOn
  <2> QED
    BY <1>7, <2>1
<1>9. TrueHorizon(v, l, selected, T, C)' = TrueHorizon(v, l, selected, T, C)
  BY <1>4 DEF TrueHorizon
<1>10. TruePaths(v, l, selected, T, C)' = TruePaths(v, l, selected, T, C)
  BY <1>6, Zenon DEF TruePaths
<1>11. TrueLags(v, l, selected, T, C)' = TrueLags(v, l, selected, T, C)
  BY <1>8, Zenon DEF TrueLags
<1> QED
  BY <1>2, <1>9, <1>10, <1>11

\* What a saved result says does not change with the current inputs.
LEMMA SoundPrimed ==
  ASSUME UNCHANGED available, NEW R, Sound(R)
  PROVE  Sound(R)'
<1>1. \A v, l : Matches(R, v, l)' <=> Matches(R, v, l)
  BY TablesPrimed DEF Matches
<1>2. \A v, l : Prefix(v, l, R.through, R.cutoff)' = Prefix(v, l, R.through, R.cutoff)
  BY TablesPrimed
<1> QED
  BY <1>1, <1>2 DEF Sound

\* A result whose inputs were not revised holds the current ones.
LEMMA SoundMatches ==
  ASSUME NEW P, Sound(P), PrefixEqual(P)
  PROVE  Matches(P, value, label)
<1>1. PICK v \in Revisions, l \in Revisions :
         P.prefix = Prefix(v, l, P.through, P.cutoff) /\ Matches(P, v, l)
  BY DEF Sound
<1>2. P.prefix = Prefix(value, label, P.through, P.cutoff)
  BY DEF PrefixEqual, InputPrefix, Prefix
<1>3. P.through \in AlphaDays /\ P.cutoff \in Nat
  BY DEF Sound
<1>4. Agree(v, l, value, label, P.through, P.cutoff)
  BY <1>1, <1>2, <1>3, PrefixAgrees
<1> QED
  BY <1>1, <1>3, <1>4, MatchesAgree

\* An update that the checks of the saved result admit gives a sound result
\* (evaluate_alpha on what alpha_input_start reads).
LEMMA UpdateSound ==
  ASSUME Typed, NEW P, P = NoResult \/ Sound(P),
         NEW T \in AlphaDays, NEW C \in Nat, NEW selected \in SUBSET Components,
         AdmitsPrevious(P, T, C, selected)
  PROVE  Sound(EvaluateAlpha(P, AlphaInputStart(P, selected), T, C, selected))
<1> DEFINE read == AlphaInputStart(P, selected)
           R == EvaluateAlpha(P, read, T, C, selected)
<1>1. Continues(P, read, T, C, selected)
  <2>1. CASE P = NoResult
    BY <2>1, NothingReaches
  <2>2. CASE P # NoResult /\ Sound(P)
    <3>1. /\ P.components \in SUBSET selected /\ C >= P.cutoff /\ T >= P.through
          /\ PrefixEqual(P)
      BY <2>2 DEF AdmitsPrevious
    <3>2. P.through \in AlphaDays /\ P.cutoff \in Nat
      BY <2>2 DEF Sound
    <3>3. P.through \in 1 .. T /\ P.cutoff \in 0 .. C
      BY <3>1, <3>2, DaysType
    <3>4. Matches(P, value, label)
      BY <2>2, <3>1, SoundMatches
    <3> QED
      BY <3>1, <3>3, <3>4, InputsReach
  <2> QED
    BY <2>1, <2>2
<1> HIDE DEF read
<1>2. /\ R.components = selected /\ R.through = T /\ R.cutoff = C
      /\ R.prefix = Prefix(value, label, T, C)
      /\ Matches(R, value, label)
  BY <1>1, EvaluationMatches
<1>3. value \in Revisions /\ label \in Revisions
  BY DEF Typed
<1> HIDE DEF R
<1>4. Sound(R)
  BY <1>2, <1>3 DEF Sound
<1> QED
  BY <1>4 DEF R, read

\* What a result is compared with.
LEMMA FullMatches ==
  ASSUME Typed, NEW R, Sound(R), PrefixEqual(R)
  PROVE  LET full == EvaluateAlpha(NoResult, 1, R.through, R.cutoff, R.components)
         IN  /\ R.horizon = full.horizon
             /\ R.persistence = full.persistence
             /\ R.paths = full.paths
             /\ R.lags = full.lags
<1> DEFINE full == EvaluateAlpha(NoResult, 1, R.through, R.cutoff, R.components)
<1>1. R.components \in SUBSET Components /\ R.through \in AlphaDays /\ R.cutoff \in Nat
  BY DEF Sound
<1>2. AlphaInputStart(NoResult, R.components) = 1
  BY DEF AlphaInputStart
<1>3. Continues(NoResult, 1, R.through, R.cutoff, R.components)
  BY <1>1, <1>2, NothingReaches
<1>4. /\ full.components = R.components /\ full.through = R.through /\ full.cutoff = R.cutoff
      /\ Matches(full, value, label)
  BY <1>3, EvaluationMatches
<1>5. Matches(R, value, label)
  BY SoundMatches
<1> HIDE DEF full
<1>6. /\ R.horizon = full.horizon
      /\ R.persistence = full.persistence
      /\ R.paths = full.paths
      /\ R.lags = full.lags
  BY <1>4, <1>5 DEF Matches
<1> QED
  BY <1>6 DEF full

\* Of finitely many saved results one ends last, and is offered first of these.
LEMMA LatestExists ==
  ASSUME NEW safe, safe \subseteq Nat, IsFiniteSet(safe), safe # {},
         NEW through, \A i \in safe : through[i] \in Int
  PROVE  \E i \in safe : \A j \in safe :
            through[i] > through[j] \/ (through[i] = through[j] /\ i <= j)
<1>1. PICK last \in safe : \A j \in safe : through[j] <= through[last]
  BY GreatestValue
<1> DEFINE ties == {i \in safe : through[i] = through[last]}
<1>2. ties \in SUBSET safe /\ ties # {}
  OBVIOUS
<1>3. IsFiniteSet(ties)
  <2> HIDE DEF ties
  <2> QED
    BY <1>2, FS_Subset
<1>4. Min(ties) \in ties /\ \A j \in ties : Min(ties) <= j
  <2> HIDE DEF ties
  <2>1. ties \subseteq Int
    BY <1>2
  <2> QED
    BY <1>2, <1>3, <2>1, MinMember
<1> DEFINE i == Min(ties)
<1>5. i \in ties /\ \A j \in ties : i <= j
  BY <1>4
<1> HIDE DEF i
<1>6. i \in safe /\ through[i] = through[last]
  BY <1>5
<1>7. ASSUME NEW j \in safe PROVE through[i] > through[j] \/ (through[i] = through[j] /\ i <= j)
  <2>1. through[j] <= through[last] /\ through[j] \in Int /\ through[last] \in Int
    BY <1>1
  <2>2. CASE through[j] = through[last]
    <3>1. j \in ties
      BY <2>2
    <3> HIDE DEF ties
    <3> QED
      BY <1>5, <1>6, <2>2, <3>1
  <2>3. CASE through[j] < through[last]
    <3>1. through[i] > through[j]
      BY <1>6, <2>1, <2>3
    <3> QED
      BY <3>1
  <2> QED
    BY <2>1, <2>2, <2>3
<1> QED
  BY <1>6, <1>7

\* The plan continues nothing, the current result or a preceding one
\* (alpha_update_plan).
LEMMA PlanPrevious ==
  ASSUME AlphaInv, NEW T \in AlphaDays, NEW C \in Nat, NEW selected
  PROVE  LET P == UpdatePlan(T, C, selected).previous
         IN  P = NoResult \/ Sound(P)
<1> DEFINE changes == {d \in Affected(current) : d <= T}
           saved == <<current>> \o preceding
           first == Max({1, Min(changes) - History(selected)})
           safe == {i \in DOMAIN saved : SafeCandidate(saved[i], first, T, C)}
           better(i, j) == \/ saved[i].through > saved[j].through
                           \/ saved[i].through = saved[j].through /\ i <= j
           latest == CHOOSE i \in safe : \A j \in safe : better(i, j)
           P == UpdatePlan(T, C, selected).previous
<1>1. \/ P = NoResult \/ P = current
      \/ current # NoResult /\ safe # {} /\ P = saved[latest]
  <2> HIDE DEF changes, saved, first, latest, safe
  <2>1. UpdatePlan(T, C, selected)
          = CASE current = NoResult -> [status |-> "initialize", previous |-> NoResult]
              [] current # NoResult /\ (current.through > T \/ C < current.cutoff) -> Blocked
              [] current # NoResult /\ changes = {} /\ current.through <= T
                   /\ current.cutoff <= C ->
                   IF ~PrefixEqual(current) THEN Blocked
                   ELSE [status |-> IF /\ T = current.through
                                       /\ C = current.cutoff
                                       /\ selected = current.components
                                    THEN "up_to_date" ELSE "append",
                         previous |-> current]
              [] OTHER -> IF safe = {} THEN Blocked
                          ELSE [status |-> "repair", previous |-> saved[latest]]
    BY Zenon DEF UpdatePlan, changes, saved, first, latest, safe
  <2> QED
    BY <2>1 DEF Blocked
<1>2. ASSUME current # NoResult, safe # {}
      PROVE  Sound(saved[latest])
  <2>1. /\ Len(preceding) \in Nat /\ DOMAIN saved = 1 .. Len(preceding) + 1
        /\ saved[1] = current
        /\ \A i \in 1 .. Len(preceding) : saved[i + 1] = preceding[i]
    BY DEF AlphaInv, Typed
  <2>2. ASSUME NEW i \in DOMAIN saved PROVE Sound(saved[i])
    <3>1. CASE i = 1
      BY <1>2, <2>1, <3>1 DEF AlphaInv
    <3>2. CASE i # 1
      <4> DEFINE j == i - 1
      <4>1. j \in 1 .. Len(preceding) /\ i = j + 1
        BY <2>1, <3>2
      <4> HIDE DEF j
      <4>2. saved[i] = preceding[j] /\ j \in DOMAIN preceding
        BY <2>1, <4>1 DEF AlphaInv, Typed
      <4> QED
        BY <4>2 DEF AlphaInv
    <3> QED
      BY <3>1, <3>2
  <2>3. safe \in SUBSET (1 .. Len(preceding) + 1)
    BY <2>1
  <2> HIDE DEF saved
  <2>4. IsFiniteSet(safe)
    <3>1. IsFiniteSet(1 .. Len(preceding) + 1)
      BY <2>1, FS_Interval
    <3> HIDE DEF safe
    <3> QED
      BY <2>3, <3>1, FS_Subset
  <2>5. \A i \in safe : i \in DOMAIN saved /\ saved[i].through \in Int
    <3> TAKE i \in safe
    <3>1. i \in DOMAIN saved
      OBVIOUS
    <3>2. saved[i].through \in AlphaDays
      BY <2>2, <3>1 DEF Sound
    <3> QED
      BY <3>1, <3>2, DaysType
  <2> DEFINE through == [i \in safe |-> saved[i].through]
  <2>6. \E i \in safe : \A j \in safe :
           through[i] > through[j] \/ (through[i] = through[j] /\ i <= j)
    <3>1. \A i \in safe : through[i] \in Int
      BY <2>5
    <3>2. safe \subseteq Nat
      BY <2>1, <2>3
    <3> HIDE DEF safe, through
    <3> QED
      BY <1>2, <2>4, <3>1, <3>2, LatestExists
  <2>7. \E i \in safe : \A j \in safe : better(i, j)
    <3> HIDE DEF safe
    <3> QED
      BY <2>6
  <2>8. latest \in safe
    <3> HIDE DEF safe, better
    <3> QED
      BY <2>7
  <2> HIDE DEF latest, safe
  <2> QED
    BY <2>2, <2>5, <2>8
<1>3. P = NoResult \/ Sound(P)
  <2> HIDE DEF P, saved, latest, safe
  <2> QED
    BY <1>1, <1>2 DEF AlphaInv
<1> QED
  BY <1>3

\* At first there is no result.
LEMMA AlphaStarts ==
  AlphaInit => AlphaInv
<1> SUFFICES ASSUME AlphaInit PROVE AlphaInv
  OBVIOUS
<1>1. available \in [AlphaDays -> Nat]
  <2>1. PICK late \in AlphaDays, delay \in Delays :
           available = [t \in AlphaDays |-> IF t = late THEN t + 1 + delay ELSE t + 1]
    BY DEF AlphaInit
  <2>2. delay \in Nat /\ \A t \in AlphaDays : t \in Nat
    BY AlphaAssumption, DaysType
  <2> QED
    BY <2>1, <2>2
<1>2. value \in Revisions /\ label \in Revisions
  BY DEF AlphaInit, Revisions
<1>3. preceding = << >> /\ DOMAIN << >> = {} /\ << >> \in Seq({})
  BY DEF AlphaInit
<1>4. {preceding[i] : i \in DOMAIN preceding} = {}
  BY <1>3
<1> QED
  BY <1>1, <1>2, <1>3, <1>4 DEF AlphaInit, AlphaInv, Typed

\* What was saved stays what it is, whatever is revised.
LEMMA SavedStay ==
  ASSUME AlphaInv, UNCHANGED <<available, current, preceding>>, Typed'
  PROVE  AlphaInv'
<1>1. ASSUME NEW R, Sound(R) PROVE Sound(R)'
  BY <1>1, SoundPrimed
<1>2. current' = NoResult \/ Sound(current)'
  <2>1. CASE current = NoResult
    BY <2>1
  <2>2. CASE Sound(current)
    <3>1. PICK R : R = current
      OBVIOUS
    <3>2. Sound(R)' /\ R = current'
      BY <1>1, <2>2, <3>1
    <3> QED
      BY <3>2 DEF Sound, Matches
  <2> QED
    BY <2>1, <2>2 DEF AlphaInv
<1>3. ASSUME NEW i \in DOMAIN preceding PROVE Sound(preceding[i])'
  <2>1. PICK R : R = preceding[i]
    OBVIOUS
  <2>2. Sound(R)' /\ R = preceding'[i]
    BY <1>1, <2>1 DEF AlphaInv
  <2> QED
    BY <2>2 DEF Sound, Matches
<1> QED
  BY <1>2, <1>3 DEF AlphaInv

\* An update replaces the current result by a sound one and keeps some of the
\* saved ones.
LEMMA AlphaUpdates ==
  ASSUME AlphaInv, NEW status, Update(status)
  PROVE  AlphaInv'
<1>1. PICK T \in AlphaDays, lead \in Leads, selected \in Selections :
         LET C == T + lead
             plan == UpdatePlan(T, C, selected)
             read == AlphaInputStart(plan.previous, selected)
         IN  /\ AdmitsPrevious(plan.previous, T, C, selected)
             /\ current' = EvaluateAlpha(plan.previous, read, T, C, selected)
             /\ preceding' = IF current = NoResult THEN <<>>
                             ELSE SubSeq(<<current>> \o preceding, 1,
                                         Min({MaxPreceding, Len(preceding) + 1}))
             /\ UNCHANGED <<available, value, label>>
  BY Zenon DEF Update
<1> DEFINE C == T + lead
           P == UpdatePlan(T, C, selected).previous
           E == EvaluateAlpha(P, AlphaInputStart(P, selected), T, C, selected)
           saved == <<current>> \o preceding
           kept == Min({MaxPreceding, Len(preceding) + 1})
<1>2. /\ AdmitsPrevious(P, T, C, selected)
      /\ current' = E
      /\ preceding' = IF current = NoResult THEN << >> ELSE SubSeq(saved, 1, kept)
      /\ UNCHANGED <<available, value, label>>
  BY <1>1, Zenon
<1>3. C \in Nat /\ selected \in SUBSET Components
  <2>1. T \in Nat /\ lead \in Nat
    BY AlphaAssumption, DaysType
  <2>2. selected \in SUBSET Components
    BY AlphaAssumption
  <2> QED
    BY <2>1, <2>2
<1> HIDE DEF C
<1>4. P = NoResult \/ Sound(P)
  BY <1>3, PlanPrevious
<1> HIDE DEF P
<1>5. Sound(E)
  BY <1>2, <1>3, <1>4, UpdateSound DEF AlphaInv
<1> HIDE DEF E
<1>6. ASSUME NEW R, Sound(R) PROVE Sound(R)'
  BY <1>2, <1>6, SoundPrimed
<1>7. Sound(current)'
  <2>1. PICK R : R = E
    OBVIOUS
  <2>2. Sound(R)' /\ R = current'
    BY <1>2, <1>5, <1>6, <2>1
  <2> QED
    BY <2>2 DEF Sound, Matches
<1>8. /\ preceding' \in Seq({preceding'[i] : i \in DOMAIN preceding'})
      /\ \A i \in DOMAIN preceding' : Sound(preceding'[i])
  <2>1. CASE current = NoResult
    <3>1. preceding' = << >> /\ DOMAIN << >> = {} /\ << >> \in Seq({})
      BY <1>2, <2>1
    <3>2. {preceding'[i] : i \in DOMAIN preceding'} = {}
      BY <3>1
    <3> QED
      BY <3>1, <3>2
  <2>2. CASE current # NoResult
    <3>1. /\ Len(preceding) \in Nat /\ DOMAIN saved = 1 .. Len(preceding) + 1
          /\ saved[1] = current
          /\ \A i \in 1 .. Len(preceding) : saved[i + 1] = preceding[i]
      BY DEF AlphaInv, Typed
    <3>2. ASSUME NEW i \in 1 .. Len(preceding) + 1 PROVE Sound(saved[i])
      <4>1. CASE i = 1
        BY <2>2, <3>1, <4>1 DEF AlphaInv
      <4>2. CASE i # 1
        <5> DEFINE j == i - 1
        <5>1. j \in 1 .. Len(preceding) /\ i = j + 1
          BY <3>1, <4>2
        <5> HIDE DEF j
        <5>2. saved[i] = preceding[j] /\ j \in DOMAIN preceding
          BY <3>1, <5>1 DEF AlphaInv, Typed
        <5> QED
          BY <5>2 DEF AlphaInv
      <4> QED
        BY <4>1, <4>2
    <3>3. kept \in 0 .. Len(preceding) + 1
      <4> DEFINE S == {MaxPreceding, Len(preceding) + 1}
      <4>1. S \subseteq Int /\ IsFiniteSet(S) /\ S # {} /\ \A x \in S : x >= 0
        <5>1. IsFiniteSet(S)
          BY PairFinite
        <5>2. MaxPreceding \in Nat
          BY AlphaAssumption
        <5> QED
          BY <3>1, <5>1, <5>2
      <4>2. Len(preceding) + 1 \in S
        OBVIOUS
      <4> HIDE DEF S
      <4>3. Min(S) \in S /\ Min(S) <= Len(preceding) + 1
        BY <4>1, <4>2, MinMember
      <4>4. Min(S) \in Int /\ Min(S) >= 0
        BY <4>1, <4>3
      <4>5. kept = Min(S)
        BY Zenon DEF S
      <4> HIDE DEF kept
      <4> QED
        BY <3>1, <4>3, <4>4, <4>5
    <3>4. preceding' = SubSeq(saved, 1, kept)
      BY <1>2, <2>2
    <3> HIDE DEF saved, kept
    <3> DEFINE D == {saved[i] : i \in 1 .. kept}
    <3>5. /\ preceding' \in Seq(D) /\ Len(preceding') = kept
          /\ \A i \in 1 .. kept : preceding'[i] = saved[i]
      <4>1. kept \in Int /\ 1 \in Int /\ \A i \in 1 .. kept : saved[i] \in D
        BY <3>1, <3>3
      <4> HIDE DEF D
      <4>2. /\ SubSeq(saved, 1, kept) \in Seq(D)
            /\ Len(SubSeq(saved, 1, kept)) = IF 1 <= kept THEN kept - 1 + 1 ELSE 0
            /\ \A i \in 1 .. kept - 1 + 1 : SubSeq(saved, 1, kept)[i] = saved[1 + i - 1]
        BY <4>1, SubSeqProperties
      <4> QED
        BY <3>1, <3>3, <3>4, <4>1, <4>2
    <3>6. DOMAIN preceding' = 1 .. kept
      <4> HIDE DEF D
      <4> QED
        BY <3>5
    <3>7. {preceding'[i] : i \in DOMAIN preceding'} = D
      BY <3>5, <3>6
    <3>8. \A i \in 1 .. kept : Sound(saved[i])
      BY <3>1, <3>2, <3>3
    <3> HIDE DEF D
    <3> QED
      BY <3>5, <3>6, <3>7, <3>8
  <2> QED
    BY <2>1, <2>2
<1>9. ASSUME NEW i \in DOMAIN preceding' PROVE Sound(preceding[i])'
  <2>1. PICK R : R = preceding'[i]
    OBVIOUS
  <2>2. Sound(R)' /\ R = preceding'[i]
    BY <1>6, <1>8, <2>1
  <2> QED
    BY <2>2 DEF Sound, Matches
<1>10. Typed'
  BY <1>2, <1>8 DEF AlphaInv, Typed, Revisions
<1> QED
  BY <1>7, <1>9, <1>10 DEF AlphaInv

\* Every step keeps the invariant: revisions change no saved result.
LEMMA AlphaStep ==
  AlphaInv /\ [AlphaNext]_alphaVars => AlphaInv'
<1> SUFFICES ASSUME AlphaInv, [AlphaNext]_alphaVars PROVE AlphaInv'
  OBVIOUS
<1>1. CASE ReviseValue
  <2>1. value' \in Revisions /\ UNCHANGED <<available, label, current, preceding>>
    BY <1>1 DEF ReviseValue, AlphaInv, Typed, Revisions
  <2>2. Typed'
    BY <2>1 DEF AlphaInv, Typed, Revisions
  <2> QED
    BY <2>1, <2>2, SavedStay
<1>2. CASE ReviseLabel
  <2>1. label' \in Revisions /\ UNCHANGED <<available, value, current, preceding>>
    BY <1>2 DEF ReviseLabel, AlphaInv, Typed, Revisions
  <2>2. Typed'
    BY <2>1 DEF AlphaInv, Typed, Revisions
  <2> QED
    BY <2>1, <2>2, SavedStay
<1>3. CASE Initialize
  BY <1>3, AlphaUpdates DEF Initialize
<1>4. CASE ContinueAlpha
  BY <1>4, AlphaUpdates DEF ContinueAlpha
<1>5. CASE RepairAlpha
  BY <1>5, AlphaUpdates DEF RepairAlpha
<1>6. CASE UNCHANGED alphaVars
  <2>1. Typed'
    BY <1>6 DEF alphaVars, AlphaInv, Typed, Revisions
  <2> QED
    BY <1>6, <2>1, SavedStay DEF alphaVars
<1> QED
  BY <1>1, <1>2, <1>3, <1>4, <1>5, <1>6 DEF AlphaNext

\* Whatever is revised, and in whatever order an Alpha is initialized, continued
\* and repaired: a result none of whose inputs was revised since has, row by
\* row, the horizon, persistence, path and lag tables of one evaluation of its
\* sessions from the first (evaluate_alpha, alpha_input_start,
\* alpha_update_plan). The rolling information coefficients are not among
\* them: RollingMatchesFull is false of the code.
THEOREM AlphaContinues ==
  AlphaSpec => []ContinuationMatchesFull
<1>1. AlphaInv => ContinuationMatchesFull
  <2> SUFFICES ASSUME AlphaInv, current # NoResult, PrefixEqual(current)
               PROVE  ContinuationMatchesFull
    BY DEF ContinuationMatchesFull
  <2>1. Sound(current) /\ Typed
    BY DEF AlphaInv
  <2> QED
    BY <2>1, FullMatches DEF ContinuationMatchesFull
<1> QED
  BY <1>1, AlphaStarts, AlphaStep, PTL DEF AlphaSpec
=============================================================================
